------------------------------- MODULE Backends -------------------------------
(***************************************************************************)
(* All of neural/, one part at a time: the multiplexer, the demultiplexer  *)
(* and the comparison of two backends (neural/network_mux.cc,              *)
(* network_demux.cc and network_check.cc), which share the variables that  *)
(* mean the same in each of them; the backends for CUDA and for the CPU,   *)
(* the fused kernel for the unit of squeeze and excitation, and, as        *)
(* arithmetic on indices and on integers, the other kernels and the        *)
(* convolution of the CPU backend.  The variables of other parts are empty.*)
(***************************************************************************)
EXTENDS MuxingNetwork, CudnnNetwork, BlasNetwork, FusedSeKernel, CudnnKernels,
        WinogradConvolution3

(* The networks that are made of other networks. *)
CONSTANTS NoClient, Networks, DemuxSizes, MinimumSplits
CONSTANTS NaN, Outputs, Lengths, Modes

VARIABLES
  part,  \* the one that is looked at
  working, piece, partial, unqueued, dataready, parents, counter, minimumSplit,
  work, reference, mode, report

shared == <<queue, abort, destructor, workerPc, clientPc, size>>
muxVars == <<batch, children, ready, parent, idx, planes, computed>>
demuxVars == <<working, piece, partial, unqueued, dataready, parents, counter,
               minimumSplit>>
checkVars == <<work, reference, mode, report>>
allVars == <<part, shared, muxVars, demuxVars, checkVars>>

Demux == INSTANCE DemuxingNetwork
Check == INSTANCE CheckNetwork

ASSUME NetworksAssumption == Demux!SplitAssumption /\ Check!OutputAssumption

NoShared == queue = <<>> /\ abort = FALSE /\ destructor = "none"
              /\ workerPc = <<>> /\ clientPc = <<>> /\ size = <<>>
NoMux == batch = <<>> /\ children = <<>> /\ ready = <<>> /\ parent = <<>>
           /\ idx = <<>> /\ planes = <<>> /\ computed = <<>>
NoDemux == working = <<>> /\ piece = <<>> /\ partial = <<>> /\ unqueued = <<>>
             /\ dataready = <<>> /\ parents = <<>> /\ counter = 0
             /\ minimumSplit = 0
NoCheck == work = <<>> /\ reference = <<>> /\ mode = "none" /\ report = <<>>

NetworksInit ==
  \/ part = "mux" /\ Init /\ NoDemux /\ NoCheck
  \/ part = "demux" /\ Demux!Init /\ NoMux /\ NoCheck
  \/ part = "check" /\ Check!Init /\ NoShared /\ NoMux /\ NoDemux

MuxNext ==
  part = "mux" /\ Next /\ UNCHANGED <<part, demuxVars, checkVars>>
DemuxNext ==
  part = "demux" /\ Demux!Next /\ UNCHANGED <<part, muxVars, checkVars>>
CheckNext ==
  part = "check" /\ Check!Next /\ UNCHANGED <<part, shared, muxVars, demuxVars>>

NetworksNext == MuxNext \/ DemuxNext \/ CheckNext

(* Threads that can run do run; no client has to ask for anything, nobody  *)
(* has to destroy the network, and no wakeup comes for no reason.          *)
OfMux(A) == part = "mux" /\ A /\ UNCHANGED <<part, demuxVars, checkVars>>
OfDemux(A) == part = "demux" /\ A /\ UNCHANGED <<part, muxVars, checkVars>>

NetworksFairness ==
  /\ \A w \in Workers : WF_allVars(OfMux(Worker(w)))
  /\ \A c \in Clients : WF_allVars(OfMux(ComputeReturns(c) \/ Release(c)))
  /\ WF_allVars(OfMux(Unstick))
  /\ \A w \in Workers : WF_allVars(OfDemux(Demux!Worker(w)))
  /\ \A c \in Clients : WF_allVars(OfDemux(Demux!Enqueue(c) \/ Demux!StartWaiting(c)
                                 \/ Demux!ComputeReturns(c) \/ Demux!Release(c)))
  /\ WF_allVars(OfDemux(Demux!Unstick))

-----------------------------------------------------------------------------
(* The backends and kernels. *)
CONSTANTS
  KernelShapes,        \* <<samples, channels, outputs>>
  ConvolutionShapes    \* <<samples, channels, outputs, input, filters>>

VARIABLES shape

backendVars == <<cudnnVars, blasVars, seVars, shape>>
neuralVars == <<allVars, backendVars>>

NoWrapper == NoShared /\ NoMux /\ NoDemux /\ NoCheck
NoCudnn ==
  /\ net = <<>> /\ opt = <<>> /\ tensorMem = <<>> /\ lockedBy = {} /\ phase = <<>>
  /\ done = <<>> /\ io = <<>> /\ batchSize = <<>> /\ slots = <<>>
  /\ freeSlots = <<>> /\ serial = 0 /\ written = {}
NoBlas ==
  /\ bnet = <<>> /\ maxBatch = 0 /\ planeCount = 0 /\ blasPc = "none" /\ chunk = 0
  /\ block = 0 /\ ptr = <<>> /\ buffers = <<>> /\ policies = <<>> /\ qValues = <<>>
  /\ overrun = {}
NoSe == unit = <<>> /\ warpPc = <<>> /\ at = <<>> /\ sharedData = <<>> /\ read = <<>>
NoShape == shape = <<>>

BackendsInit ==
  \/ NetworksInit /\ NoCudnn /\ NoBlas /\ NoSe /\ NoShape
  \/ part = "cudnn" /\ CudnnInit /\ NoWrapper /\ NoBlas /\ NoSe /\ NoShape
  \/ part = "blas" /\ BlasInit /\ NoWrapper /\ NoCudnn /\ NoSe /\ NoShape
  \/ part = "fused" /\ SeInit /\ NoWrapper /\ NoCudnn /\ NoBlas /\ NoShape
  \/ /\ \/ part = "kernels" /\ shape \in KernelShapes
        \/ part = "convolution" /\ shape \in ConvolutionShapes
     /\ NoWrapper /\ NoCudnn /\ NoBlas /\ NoSe

WrapperStep == NetworksNext /\ UNCHANGED backendVars
CudnnStep ==
  part = "cudnn" /\ CudnnNext /\ UNCHANGED <<allVars, blasVars, seVars, shape>>
BlasStep ==
  part = "blas" /\ BlasNext /\ UNCHANGED <<allVars, cudnnVars, seVars, shape>>
SeStep ==
  part = "fused" /\ SeNext /\ UNCHANGED <<allVars, cudnnVars, blasVars, shape>>

BackendsNext == WrapperStep \/ CudnnStep \/ BlasStep \/ SeStep

(* Only the threads of the multiplexer and demultiplexer wait for each other. *)
BackendsSpec == BackendsInit /\ [][BackendsNext]_neuralVars /\ NetworksFairness

-----------------------------------------------------------------------------
(* What a client of the multiplexer reads is the result of its own inputs, *)
(* from a batch within its bound; until then its computation is in one     *)
(* place, and no thread sleeps that is needed for it.                      *)
MuxedResultsAreMine ==
  part = "mux" => ResultsAreMine /\ EachInOnePlace /\ BatchBounded /\ NoLostWakeup

(* Every sample of a client of the demultiplexer is found in the piece,    *)
(* and at the place, where its input went.                                 *)
DemuxedPiecesAreMine == part = "demux" => Demux!PiecesAreMine

(* ComputeBlocking() always returns, even if the network is destroyed      *)
(* while it waits (network_mux.cc:133, network_demux.cc:144).              *)
Computes(c) == part \in {"mux", "demux"} /\ clientPc[c] \in {"enqueuing", "waiting"}
HasComputed(c) == part \in {"mux", "demux"} /\ clientPc[c] = "reading"

ComputationsReturn == \A c \in Clients : Computes(c) ~> HasComputed(c)

(* What the comparison reports of a batch is true of its outputs. *)
CheckReportIsTrue == part = "check" => Check!ReportIsTrue

(* Whatever other threads compute meanwhile on the same buffers, a search  *)
(* thread reads from the CUDA backend what the network makes of its own    *)
(* inputs; so does the thread of the CPU backend, however it cuts its      *)
(* samples into chunks.                                                    *)
BackendsComputeTheNetwork ==
  /\ part = "cudnn" => OutputsAreTheNetworks
  /\ part = "blas" => BlasOutputsAreTheNetworks

(* No layer writes beyond the buffer it was given, of a backend's own size *)
(* for the largest batch.                                                  *)
WritesFitTheirBuffers ==
  /\ part = "cudnn" => WritesFit
  /\ part = "blas" => BlasWritesFit

(* The threads of each kernel write every element once, of what lies at    *)
(* the same place of the same sample in the other layout, and the weights  *)
(* are converted to match; and the convolution of the CPU backend, with    *)
(* its filters transformed when the network is loaded, is the 3x3          *)
(* convolution.                                                            *)
KernelsComputeTheirLayers ==
  /\ part = "kernels" => /\ KernelsKeepLayouts(shape[1], shape[2])
                         /\ ConversionsKeepWeights(shape[1], shape[2], shape[3])
  /\ part = "convolution" =>
       IsConvolution(shape[1], shape[2], shape[3], shape[4], shape[5])

(* The warps of the fused kernel exchange averages first and then the      *)
(* hidden layer; at worst, warps that both store hidden values read those  *)
(* of each other instead of averages.                                      *)
FusedUnitInOrder == part = "fused" => OnlyStoringWarpsRace

(* The order of the layers as layers.h:171 has it, for every number of     *)
(* outputs that the kernel is instantiated for.                            *)
FusedLayersInOrder == part = "fused" => UnitIsComputedInOrder
=============================================================================
