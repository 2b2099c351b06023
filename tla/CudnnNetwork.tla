----------------------------- MODULE CudnnNetwork -----------------------------
(***************************************************************************)
(* The CUDA backend (neural/cuda/network_cudnn.cc, layers.cc): a list of   *)
(* layers that the constructor builds, and a schedule by which             *)
(* forwardEval() runs them on three buffers, under a lock that all threads *)
(* share; each computation has an InputsOutputs of its own, from a pool.   *)
(***************************************************************************)
EXTENDS ResNet, FiniteSetsExt

CONSTANTS
  Searchers,     \* search threads
  CudnnNets,     \* networks, as in ResNet
  CudnnOptions,  \* [half, nhwc, cudnn70], how the backend was built and set up
  MaxBatchSize,  \* max_batch_size_
  BatchSizes,    \* of the computations; the caller keeps to max_batch
  Computations   \* bound on the number of computations

ASSUME CudnnAssumption ==
  /\ \A n \in CudnnNets :
       /\ n.se \in Seq(BOOLEAN) /\ n.se # <<>>
       /\ n.filters \in Nat /\ n.policyChannels \in Nat
       /\ n.valueChannels \in Nat /\ n.hidden \in Nat
  /\ MaxBatchSize \in Nat
  /\ BatchSizes \subseteq 0..MaxBatchSize

VARIABLES
  net, opt,
  tensorMem,   \* tensor_mem_
  lockedBy,    \* lock_: a set of at most one thread
  phase,       \* of each thread
  done,        \* how many calls of forwardEval() have been made
  io,          \* inputs_outputs_ of each thread's computation
  batchSize,   \* batch_size_
  slots,       \* every InputsOutputs there is: [input, policy, value]
  freeSlots,   \* free_inputs_outputs_
  serial,      \* number of computations so far; each has an input of its own
  written      \* the calls that wrote beyond their buffer

cudnnVars == <<net, opt, tensorMem, lockedBy, phase, done, io, batchSize, slots,
               freeSlots, serial, written>>

-----------------------------------------------------------------------------
(* The layers.                                                             *)

Nothing == "nullptr"

ConvLayer(weights, c, relu, bias) ==
  [kind |-> "conv", weights |-> weights, c |-> c, hw |-> Squares,
   relu |-> relu, bias |-> bias, tanh |-> FALSE]
FCLayer(weights, c, relu, tanh) ==
  [kind |-> "fc", weights |-> weights, c |-> c, hw |-> 1,
   relu |-> relu, bias |-> TRUE, tanh |-> tanh]
OtherLayer(kind, weights, c, hw) ==
  [kind |-> kind, weights |-> weights, c |-> c, hw |-> hw,
   relu |-> FALSE, bias |-> FALSE, tanh |-> FALSE]

(* Bias and activation of the second convolution are left to the unit. *)
BlockLayers(block) ==
  LET plain == ~net.se[block] IN
  <<ConvLayer(<<"conv1", block>>, net.filters, TRUE, TRUE),
    ConvLayer(<<"conv2", block>>, net.filters, plain, plain)>>
    \o IF plain THEN <<>>
       ELSE <<OtherLayer("se", <<"conv2", block>>, net.filters, Squares)>>

PolicyLayers ==
  IF net.convPolicy
  THEN <<ConvLayer(<<"policy1", 0>>, net.filters, TRUE, TRUE),
         ConvLayer(<<"policy", 0>>, net.policyChannels, FALSE, TRUE),
         OtherLayer("policymap", <<"", 0>>, kNumOutputPolicy, 1)>>
  ELSE <<ConvLayer(<<"policy", 0>>, net.policyChannels, TRUE, TRUE),
         FCLayer(<<"ip_pol", 0>>, kNumOutputPolicy, FALSE, FALSE)>>

ValueLayers ==
  <<ConvLayer(<<"value", 0>>, net.valueChannels, TRUE, TRUE),
    FCLayer(<<"ip1_val", 0>>, net.hidden, TRUE, FALSE),
    FCLayer(<<"ip2_val", 0>>, ValueOutputs(net), FALSE, ~net.wdl)>>
    \o IF net.wdl THEN <<OtherLayer("softmax", <<"", 0>>, 3, 1)>> ELSE <<>>

Layers ==
  <<ConvLayer(<<"input", 0>>, net.filters, TRUE, TRUE)>>
    \o FlattenSeq([block \in DOMAIN net.se |-> BlockLayers(block)])
    \o PolicyLayers \o ValueLayers

(* Mutant: the inputs of the network are not thought of. *)
MaxSizeOfLayers == Max({layer.c * layer.hw : layer \in Range(Layers)})

(* Elements of a tensor_mem_ for one sample. *)
MaxSize ==
  Max({kInputPlanes * Squares} \cup {layer.c * layer.hw : layer \in Range(Layers)})

-----------------------------------------------------------------------------
(* forwardEval(), as the calls it makes.                                   *)

Eval(out, in, in2) == [call |-> "eval", out |-> out, in |-> in, in2 |-> in2]
Convert(out, in) == [call |-> "convert", out |-> out, in |-> in, in2 |-> Nothing]

HasSe == net.se[1]

BlockCalls ==
  IF HasSe THEN <<Eval("m0", "m2", Nothing), Eval("m1", "m0", Nothing), Eval("m2", "m1", "m2")>>
  ELSE <<Eval("m0", "m2", Nothing), Eval("m2", "m0", "m2")>>

(* The last layer of a head writes its output, through a buffer when it    *)
(* has to be converted from half precision.                                *)
LastCalls(out, buffer, in) ==
  IF opt.half THEN <<Eval(buffer, in, Nothing), Convert(out, buffer)>>
  ELSE <<Eval(out, in, Nothing)>>

PolicyCalls ==
  IF net.convPolicy
  THEN <<Eval("m0", "m2", Nothing), Eval("m1", "m0", Nothing)>> \o LastCalls("policy", "m0", "m1")
  ELSE <<Eval("m0", "m2", Nothing)>> \o LastCalls("policy", "m1", "m0")

ValueCalls ==
  <<Eval("m0", "m2", Nothing), Eval("m1", "m0", Nothing)>>
    \o IF net.wdl THEN <<Eval("m2", "m1", Nothing)>> \o LastCalls("value", "m0", "m2")
       ELSE LastCalls("value", "m2", "m1")

Calls ==
  <<[call |-> "expand", out |-> "m0", in |-> "input", in2 |-> Nothing],
    Eval("m2", "m0", Nothing)>>
    \o FlattenSeq([block \in DOMAIN net.se |-> BlockCalls])
    \o PolicyCalls \o ValueCalls

(* network_[l++]: the layer of the k-th call. *)
LayerOf(k) ==
  LET l == Cardinality({j \in 1..k : Calls[j].call = "eval"})
  IN IF l \in DOMAIN Layers THEN Layers[l] ELSE OtherLayer("none", <<"", 0>>, 0, 1)

-----------------------------------------------------------------------------
(* Eval() of the layers.  mem is what each buffer holds.                   *)

Activated(layer, t) ==
  IF layer.relu THEN Relu(t) ELSE IF layer.tanh THEN Tanh(t) ELSE t

(* cuDNN up to 7.0 has no fused operation; where the skip connection is    *)
(* in the output, the convolution is added to it.                          *)
ConvEval70(layer, mem, call) ==
  LET conv == Conv(layer.weights, mem[call.in])
      biased == IF layer.bias THEN Bias(layer.weights, conv) ELSE conv
  IN Activated(layer, IF call.in2 = Nothing THEN biased
                      ELSE Sum(biased, mem[call.in2]))

(* A fused operation always adds the bias. *)
ConvEval(layer, mem, call) ==
  LET conv == Conv(layer.weights, mem[call.in])
      biases == IF layer.bias THEN layer.weights ELSE <<"unset", 0>>
  IN IF opt.cudnn70 THEN ConvEval70(layer, mem, call)
     ELSE IF ~(layer.relu \/ layer.bias \/ call.in2 # Nothing) THEN conv
     ELSE IF call.in2 # Nothing
          THEN Activated(layer, Sum(Bias(biases, conv), mem[call.in2]))
     ELSE Activated(layer, Bias(biases, conv))

(* Which units the fused kernel has been compiled for. *)
FusedUnits ==
  {<<64, 16>>} \cup {<<c, 32>> : c \in {64, 128, 192, 256, 320, 352}}
               \cup {<<c, 64>> : c \in {64, 128, 192, 256, 320}}
Fused == opt.nhwc /\ <<net.filters, net.seOutputs>> \in FusedUnits

(* Se_Fp16_NHWC() gives up on 16 outputs instead of declining. *)
SeThrows == opt.nhwc /\ net.seOutputs = 16 /\ net.filters # 64

(* The skip connection is input2 to the fused kernel, the old output to    *)
(* the others; the mean of x + b is that of x, plus b.                     *)
SeEval(layer, mem, call) ==
  LET block == layer.weights[2]
      y == Bias(layer.weights, mem[call.in])
      skip == IF Fused THEN mem[call.in2] ELSE mem[call.out]
  IN Relu(Sum(Scale(y, Excitation(block, y)), skip))

FCEval(layer, mem, call) ==
  Activated(layer, Bias(layer.weights, FC(layer.weights, mem[call.in])))

LayerEval(layer, mem, call) ==
  CASE layer.kind = "conv" -> ConvEval(layer, mem, call)
    [] layer.kind = "se" -> SeEval(layer, mem, call)
    [] layer.kind = "fc" -> FCEval(layer, mem, call)
    [] layer.kind = "policymap" -> PolicyMap(mem[call.in])
    [] layer.kind = "softmax" -> Softmax(mem[call.in])
    [] layer.kind = "none" -> Garbage

-----------------------------------------------------------------------------
(* The computations of the search threads.                                 *)

NoSlot == 0

CudnnInit ==
  /\ net \in CudnnNets
  /\ opt \in CudnnOptions
  /\ tensorMem = [b \in {"m0", "m1", "m2"} |-> Garbage]
  /\ lockedBy = {}
  /\ phase = [t \in Searchers |-> "idle"]
  /\ done = [t \in Searchers |-> 0]
  /\ io = [t \in Searchers |-> NoSlot]
  /\ batchSize = [t \in Searchers |-> 0]
  /\ slots = <<>>
  /\ freeSlots = <<>>
  /\ serial = 0
  /\ written = {}

(* Mutant: the pool hands out a slot and keeps it. *)
GetInputsOutputsKept(t) ==
  IF freeSlots = <<>>
  THEN /\ io' = [io EXCEPT ![t] = Len(slots) + 1]
       /\ slots' = Append(slots, [input |-> 0, policy |-> Garbage, value |-> Garbage])
       /\ UNCHANGED freeSlots
  ELSE /\ io' = [io EXCEPT ![t] = Head(freeSlots)]
       /\ UNCHANGED <<slots, freeSlots>>

GetInputsOutputs(t) ==
  IF freeSlots = <<>>
  THEN /\ io' = [io EXCEPT ![t] = Len(slots) + 1]
       /\ slots' = Append(slots, [input |-> 0, policy |-> Garbage, value |-> Garbage])
       /\ UNCHANGED freeSlots
  ELSE /\ io' = [io EXCEPT ![t] = Head(freeSlots)]
       /\ freeSlots' = Tail(freeSlots)
       /\ UNCHANGED slots

NewComputation(t) ==
  /\ phase[t] = "idle"
  /\ serial < Computations
  /\ GetInputsOutputs(t)
  /\ batchSize' = [batchSize EXCEPT ![t] = 0]
  /\ phase' = [phase EXCEPT ![t] = "filling"]
  /\ UNCHANGED <<net, opt, tensorMem, lockedBy, done, serial, written>>

(* AddInput() of all samples. *)
AddInputs(t) ==
  /\ phase[t] = "filling"
  /\ \E n \in BatchSizes : batchSize' = [batchSize EXCEPT ![t] = n]
  /\ serial' = serial + 1
  /\ slots' = [slots EXCEPT ![io[t]].input = serial']
  /\ phase' = [phase EXCEPT ![t] = "filled"]
  /\ UNCHANGED <<net, opt, tensorMem, lockedBy, done, io, freeSlots, written>>

(* forwardEval() begins. *)
Lock(t) ==
  /\ phase[t] = "filled"
  /\ lockedBy = {}
  /\ lockedBy' = {t}
  /\ phase' = [phase EXCEPT ![t] = "evaluating"]
  /\ done' = [done EXCEPT ![t] = 0]
  /\ UNCHANGED <<net, opt, tensorMem, io, batchSize, slots, freeSlots, serial,
                 written>>

Room(out) ==
  CASE out = "policy" -> MaxBatchSize * kNumOutputPolicy
    [] out = "value" -> MaxBatchSize * ValueOutputs(net)
    [] OTHER -> MaxBatchSize * MaxSize

Throws(call, layer) == call.call = "eval" /\ layer.kind = "se" /\ SeThrows

(* The memory of a thread's calls: the buffers of all and its own outputs. *)
Memory(t) ==
  LET slot == slots[io[t]]
  IN [b \in {"m0", "m1", "m2", "policy", "value"} |->
        IF b = "policy" THEN slot.policy
        ELSE IF b = "value" THEN slot.value ELSE tensorMem[b]]

(* What the k-th call computes, and how much of it there is per sample. *)
Result(t, k) ==
  LET call == Calls[k]
  IN CASE call.call = "expand" -> Input(slots[io[t]].input)
       [] call.call = "convert" -> Memory(t)[call.in]
       [] call.call = "eval" -> LayerEval(LayerOf(k), Memory(t), call)

PerSample(k) ==
  LET call == Calls[k]
  IN CASE call.call = "expand" -> kInputPlanes * Squares
       [] call.call = "convert" -> LayerOf(k - 1).c
       [] call.call = "eval" -> LayerOf(k).c * LayerOf(k).hw

(* The next call.  A policy is written to device memory first and copied   *)
(* to the host before the value head runs.                                 *)
Step(t) ==
  /\ phase[t] = "evaluating"
  /\ done[t] < Len(Calls)
  /\ LET k == done[t] + 1
         out == Calls[k].out
     IN /\ ~Throws(Calls[k], LayerOf(k))
        /\ written' = IF batchSize[t] * PerSample(k) > Room(out)
                      THEN written \cup {<<k, out>>} ELSE written
        /\ IF out \in {"policy", "value"}
           THEN /\ slots' = [slots EXCEPT ![io[t]][out] = Result(t, k)]
                /\ UNCHANGED tensorMem
           ELSE /\ tensorMem' = [tensorMem EXCEPT ![out] = Result(t, k)]
                /\ UNCHANGED slots
  /\ done' = [done EXCEPT ![t] = @ + 1]
  /\ UNCHANGED <<net, opt, lockedBy, phase, io, batchSize, freeSlots, serial>>

Unlock(t) ==
  /\ phase[t] = "evaluating"
  /\ done[t] = Len(Calls)
  /\ lockedBy' = lockedBy \ {t}
  /\ phase' = [phase EXCEPT ![t] = "reading"]
  /\ UNCHANGED <<net, opt, tensorMem, done, io, batchSize, slots, freeSlots,
                 serial, written>>

(* An exception leaves ComputeBlocking(). *)
Throw(t) ==
  /\ phase[t] = "evaluating"
  /\ done[t] < Len(Calls)
  /\ Throws(Calls[done[t] + 1], LayerOf(done[t] + 1))
  /\ lockedBy' = lockedBy \ {t}
  /\ phase' = [phase EXCEPT ![t] = "thrown"]
  /\ UNCHANGED <<net, opt, tensorMem, done, io, batchSize, slots, freeSlots,
                 serial, written>>

(* The destructor of the computation gives its slot back. *)
ReleaseInputsOutputs(t) ==
  /\ phase[t] \in {"reading", "thrown"}
  /\ freeSlots' = Append(freeSlots, io[t])
  /\ io' = [io EXCEPT ![t] = NoSlot]
  /\ phase' = [phase EXCEPT ![t] = "idle"]
  /\ UNCHANGED <<net, opt, tensorMem, lockedBy, done, batchSize, slots, serial,
                 written>>

CudnnNext ==
  \E t \in Searchers :
    NewComputation(t) \/ AddInputs(t) \/ Lock(t) \/ Step(t) \/ Unlock(t)
      \/ Throw(t) \/ ReleaseInputsOutputs(t)

-----------------------------------------------------------------------------
(* Whatever other threads compute meanwhile, a thread reads what the       *)
(* network makes of its own inputs.                                        *)
OutputsAreTheNetworks ==
  \A t \in Searchers : phase[t] = "reading" =>
    LET slot == slots[io[t]] IN
    /\ slot.policy = Policy(net, slot.input)
    /\ slot.value = Value(net, slot.input)
    /\ \A u \in Searchers \ {t} : io[u] # io[t]

(* No call writes beyond the buffer it was given. *)
WritesFit == written = {}
=============================================================================
