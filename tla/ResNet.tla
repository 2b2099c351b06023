-------------------------------- MODULE ResNet --------------------------------
(***************************************************************************)
(* What a network computes, as a backend has to: the residual tower with   *)
(* its squeeze-and-excitation units, the policy head and the value head.   *)
(* Numbers are not computed.  A tensor is the term of its computation, so  *)
(* two tensors are equal when they come from the same weights and inputs   *)
(* by the same operations.                                                 *)
(*                                                                         *)
(* A network is a record                                                   *)
(*   [filters, se, seOutputs, convPolicy, policyChannels, valueChannels,   *)
(*    hidden, wdl]                                                         *)
(* where se tells for each residual block whether it has a unit.           *)
(***************************************************************************)
EXTENDS Integers, Sequences, SequencesExt

kInputPlanes == 112
kNumOutputPolicy == 1858
Squares == 64

Term(op, weights, args) == [op |-> op, weights |-> weights, args |-> args]

Garbage == Term("garbage", <<"", 0>>, <<>>)
Input(x) == Term("input", <<"", x>>, <<>>)
Conv(w, t) == Term("conv", w, <<t>>)
FC(w, t) == Term("fc", w, <<t>>)
Bias(b, t) == Term("bias", b, <<t>>)
Sum(t, skip) == Term("sum", <<"", 0>>, <<t, skip>>)
Relu(t) == Term("relu", <<"", 0>>, <<t>>)
Tanh(t) == Term("tanh", <<"", 0>>, <<t>>)
Softmax(t) == Term("softmax", <<"", 0>>, <<t>>)
Pool(t) == Term("pool", <<"", 0>>, <<t>>)
PolicyMap(t) == Term("policymap", <<"", 0>>, <<t>>)

(* The first half of the unit's outputs are scales, by way of a sigmoid,   *)
(* the second half are added.                                              *)
Scale(t, unit) == Term("scale", <<"", 0>>, <<t, unit>>)

ConvBias(w, t) == Bias(w, Conv(w, t))
FCBias(w, t) == Bias(w, FC(w, t))

Excitation(block, t) ==
  FCBias(<<"se2", block>>, Relu(FCBias(<<"se1", block>>, Pool(t))))

Block(net, block, x) ==
  LET y == ConvBias(<<"conv2", block>>, Relu(ConvBias(<<"conv1", block>>, x)))
      z == IF net.se[block] THEN Scale(y, Excitation(block, y)) ELSE y
  IN Relu(Sum(z, x))

(* What comes out of each block; 0 is the input convolution. *)
Blocks(net, x) ==
  LET out[block \in 0..Len(net.se)] ==
        IF block = 0 THEN Relu(ConvBias(<<"input", 0>>, Input(x)))
        ELSE Block(net, block, out[block - 1])
  IN out

Tower(net, x) == Blocks(net, x)[Len(net.se)]

Policy(net, x) ==
  IF net.convPolicy
  THEN PolicyMap(ConvBias(<<"policy", 0>>,
                          Relu(ConvBias(<<"policy1", 0>>, Tower(net, x)))))
  ELSE FCBias(<<"ip_pol", 0>>, Relu(ConvBias(<<"policy", 0>>, Tower(net, x))))

Value(net, x) ==
  LET hidden == Relu(FCBias(<<"ip1_val", 0>>,
                            Relu(ConvBias(<<"value", 0>>, Tower(net, x)))))
      out == FCBias(<<"ip2_val", 0>>, hidden)
  IN IF net.wdl THEN Softmax(out) ELSE Tanh(out)

ValueOutputs(net) == IF net.wdl THEN 3 ELSE 1
=============================================================================
