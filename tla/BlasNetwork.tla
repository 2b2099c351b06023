----------------------------- MODULE BlasNetwork -----------------------------
(***************************************************************************)
(* The CPU backend (neural/blas/network_blas.cc): one thread that computes *)
(* its samples in chunks of at most max_batch_size_, on three buffers      *)
(* which change their parts from layer to layer and keep them from chunk   *)
(* to chunk.  A buffer holds one term of ResNet for each sample.           *)
(***************************************************************************)
EXTENDS ResNet, FiniteSetsExt

CONSTANTS
  BlasNets,       \* networks, as in ResNet
  BatchOptions,   \* values of batch_size
  PlaneCounts     \* samples of a computation

ASSUME BlasAssumption ==
  /\ \A n \in BlasNets :
       /\ n.se \in Seq(BOOLEAN)
       /\ n.filters \in Nat /\ n.policyChannels \in Nat
  /\ BatchOptions \subseteq Nat \ {0}
  /\ PlaneCounts \subseteq Nat \ {0}

VARIABLES
  bnet, maxBatch, planeCount,
  blasPc,
  chunk,      \* i: samples of the chunks before
  block,      \* the residual block that is next
  ptr,        \* conv_in, conv_out and res, as names of buffers
  buffers,    \* what they hold
  policies, qValues,
  overrun     \* the writes that did not fit

blasVars == <<bnet, maxBatch, planeCount, blasPc, chunk, block, ptr, buffers,
              policies, qValues, overrun>>

kHardMaxBatchSize == 2048

LargestBatch == Min({maxBatch, planeCount})
ChunkSize == Min({planeCount - chunk, LargestBatch})

(* Elements of a buffer, all the samples of the largest chunk together. *)
Size(buffer) ==
  LargestBatch * Squares
    * IF buffer = "buffer1" THEN Max({bnet.filters, kInputPlanes}) ELSE bnet.filters

Overruns(buffer, channels) ==
  IF ChunkSize * channels * Squares > Size(buffer)
  THEN {<<chunk, blasPc, buffer>>} ELSE {}

(* A convolution goes by way of V_ and M_, which have room for max_channels *)
(* and max_output_channels.                                                 *)
ConvolutionOverruns(inputs, outputs) ==
  IF \/ inputs > Max({bnet.filters, kInputPlanes})
     \/ outputs > IF bnet.convPolicy THEN Max({bnet.policyChannels, bnet.filters})
                  ELSE bnet.filters
  THEN {<<chunk, blasPc, "convolution">>} ELSE {}

(* Every sample of the chunk by itself. *)
EachSample(f(_)) == [j \in 1..ChunkSize |-> f(j)]

BlasInit ==
  /\ bnet \in BlasNets
  /\ maxBatch \in {Min({option, kHardMaxBatchSize}) : option \in BatchOptions}
  /\ planeCount \in PlaneCounts
  /\ blasPc = "encode"
  /\ chunk = 0
  /\ block = 1
  /\ ptr = [in |-> "buffer1", out |-> "buffer2", res |-> "buffer3"]
  /\ buffers = [b \in {"buffer1", "buffer2", "buffer3"} |-> <<>>]
  /\ policies = <<>>
  /\ qValues = <<>>
  /\ overrun = {}

(* EncodePlanes() of the samples of a chunk, into what is conv_in by now.  *)
Encode ==
  /\ blasPc = "encode"
  /\ chunk < planeCount
  /\ buffers' = [buffers EXCEPT ![ptr.in] = EachSample(LAMBDA j : Input(chunk + j))]
  /\ overrun' = overrun \cup Overruns(ptr.in, kInputPlanes)
  /\ blasPc' = "input"
  /\ UNCHANGED <<bnet, maxBatch, planeCount, chunk, block, ptr, policies, qValues>>

InputConvolution ==
  /\ blasPc = "input"
  /\ buffers' = [buffers EXCEPT ![ptr.out] =
                   EachSample(LAMBDA j : Relu(ConvBias(<<"input", 0>>, buffers[ptr.in][j])))]
  /\ overrun' = overrun \cup Overruns(ptr.out, bnet.filters)
                  \cup ConvolutionOverruns(kInputPlanes, bnet.filters)
  /\ block' = 1
  /\ blasPc' = "tower"
  /\ UNCHANGED <<bnet, maxBatch, planeCount, chunk, ptr, policies, qValues>>

(* The buffers of the second convolution, from those of the first: the     *)
(* block's input is kept in res.                                           *)
AfterConv1(p) == [in |-> p.out, out |-> p.res, res |-> p.in]

(* std::swap(conv_out, conv_in). *)
Swapped(p) == [in |-> p.out, out |-> p.in, res |-> p.res]

ApplySEUnit(input, skip) ==
  Relu(Sum(Scale(input, Excitation(block, input)), skip))

ResidualBlock ==
  /\ blasPc = "tower"
  /\ block <= Len(bnet.se)
  /\ LET p1 == Swapped(ptr)
         p2 == AfterConv1(p1)
         pSe == Swapped(p2)
         conv1 == EachSample(LAMBDA j :
                    Relu(ConvBias(<<"conv1", block>>, buffers[p1.in][j])))
         mem1 == [buffers EXCEPT ![p1.out] = conv1]
         conv2 == EachSample(LAMBDA j : ConvBias(<<"conv2", block>>, mem1[p2.in][j]))
         mem2 == [mem1 EXCEPT ![p2.out] = conv2]
     IN IF bnet.se[block]
        THEN /\ ptr' = pSe
             /\ buffers' = [mem2 EXCEPT ![pSe.out] = EachSample(LAMBDA j :
                              ApplySEUnit(mem2[pSe.in][j], mem2[pSe.res][j]))]
        ELSE /\ ptr' = p2
             /\ buffers' = [mem2 EXCEPT ![p2.out] = EachSample(LAMBDA j :
                              Relu(Sum(mem2[p2.out][j], mem2[p2.res][j])))]
  /\ overrun' = overrun \cup UNION {Overruns(b, bnet.filters) : b \in Range(ptr)}
  /\ block' = block + 1
  /\ UNCHANGED <<bnet, maxBatch, planeCount, blasPc, chunk, policies, qValues>>

(* A convolutional policy is computed by way of res, since the value head  *)
(* reads conv_out too.                                                     *)
PolicyHead ==
  /\ blasPc = "tower"
  /\ block > Len(bnet.se)
  /\ IF bnet.convPolicy
     THEN LET policy1 == EachSample(LAMBDA j :
                Relu(ConvBias(<<"policy1", 0>>, buffers[ptr.out][j])))
              mem == [buffers EXCEPT ![ptr.res] = policy1]
          IN /\ buffers' = mem
             /\ policies' = policies \o EachSample(LAMBDA j :
                  PolicyMap(ConvBias(<<"policy", 0>>, mem[ptr.res][j])))
             /\ overrun' = overrun \cup Overruns(ptr.res, bnet.filters)
                            \cup ConvolutionOverruns(bnet.filters, bnet.policyChannels)
     ELSE /\ policies' = policies \o EachSample(LAMBDA j :
                FCBias(<<"ip_pol", 0>>, Relu(ConvBias(<<"policy", 0>>, buffers[ptr.out][j]))))
          /\ UNCHANGED <<buffers, overrun>>
  /\ blasPc' = "value"
  /\ UNCHANGED <<bnet, maxBatch, planeCount, chunk, block, ptr, qValues>>

ValueHead ==
  /\ blasPc = "value"
  /\ qValues' = qValues \o EachSample(LAMBDA j :
       LET hidden == Relu(FCBias(<<"ip1_val", 0>>,
                                 Relu(ConvBias(<<"value", 0>>, buffers[ptr.out][j]))))
           out == FCBias(<<"ip2_val", 0>>, hidden)
       IN IF bnet.wdl THEN Softmax(out) ELSE Tanh(out))
  /\ chunk' = chunk + LargestBatch
  /\ blasPc' = "encode"
  /\ UNCHANGED <<bnet, maxBatch, planeCount, block, ptr, buffers, policies, overrun>>

BlasNext == Encode \/ InputConvolution \/ ResidualBlock \/ PolicyHead \/ ValueHead

-----------------------------------------------------------------------------
(* However the samples are cut into chunks and whatever the buffers held,  *)
(* each one gets its own policy and value, in its place.                   *)
Computed == blasPc = "encode" /\ chunk >= planeCount

BlasOutputsAreTheNetworks ==
  Computed =>
    /\ policies = [sample \in 1..planeCount |-> Policy(bnet, sample)]
    /\ qValues = [sample \in 1..planeCount |-> Value(bnet, sample)]

(* "Allocate data for the whole batch." (network_blas.cc:169): no write    *)
(* goes beyond the buffer it is given.                                     *)
BlasWritesFit == overrun = {}
=============================================================================
