---------------------------- MODULE FusedSeKernel ----------------------------
(***************************************************************************)
(* The kernel that does all of a squeeze-and-excitation unit               *)
(* (SE_Layer_NHWC in neural/cuda/fp16_kernels.cu): one thread for each     *)
(* channel, which exchange their averages, and then the hidden layer,      *)
(* through sharedData.  The threads of a warp go together; warps meet at   *)
(* __syncthreads() only.                                                   *)
(***************************************************************************)
EXTENDS Integers, FiniteSets

CONSTANTS
  WarpSize,
  Units      \* [channels, outputs]: C and K of the kernels to look at

(* The kernels are instantiated for whole warps of channels, and K <= C. *)
ASSUME UnitAssumption ==
  /\ WarpSize \in Nat \ {0}
  /\ Units \subseteq [channels : Nat, outputs : Nat]
  /\ \A u \in Units : u.channels % WarpSize = 0 /\ u.outputs <= u.channels

VARIABLES
  unit,
  warpPc,      \* of each warp
  at,          \* the loop variable of each warp
  sharedData,
  read         \* what each warp has read, as <<layer, kind of data>>

seVars == <<unit, warpPc, at, sharedData, read>>

Warps == 0..unit.channels \div WarpSize - 1
Lanes(w) == {c \in 0..unit.channels - 1 : c \div WarpSize = w}

(* Threads that compute an output of the first fully connected layer. *)
FirstLayer(w) == {c \in Lanes(w) : c < unit.outputs}

SeInit ==
  /\ unit \in Units
  /\ warpPc = [w \in Warps |-> "average"]
  /\ at = [w \in Warps |-> 0]
  /\ sharedData = [c \in 0..unit.channels - 1 |-> "unset"]
  /\ read = [w \in Warps |-> {}]

Average(w) ==
  /\ warpPc[w] = "average"
  /\ sharedData' = [c \in DOMAIN sharedData |->
                      IF c \in Lanes(w) THEN "average" ELSE sharedData[c]]
  /\ warpPc' = [warpPc EXCEPT ![w] = "sync1"]
  /\ UNCHANGED <<unit, at, read>>

(* Mutant: a warp does not wait for the others. *)
SyncNever(before, after) ==
  \E w \in Warps :
    /\ warpPc[w] = before
    /\ warpPc' = [warpPc EXCEPT ![w] = after]
    /\ at' = [at EXCEPT ![w] = 0]
    /\ UNCHANGED <<unit, sharedData, read>>

(* __syncthreads() *)
Sync(before, after) ==
  /\ \A w \in Warps : warpPc[w] = before
  /\ warpPc' = [w \in Warps |-> after]
  /\ at' = [w \in Warps |-> 0]
  /\ UNCHANGED <<unit, sharedData, read>>

(* S += sharedData[i] * readw1(i, c), in the threads with an output. *)
ReadAverage(w) ==
  /\ warpPc[w] = "first"
  /\ FirstLayer(w) # {} /\ at[w] < unit.channels
  /\ read' = [read EXCEPT ![w] = @ \cup {<<1, sharedData[at[w]]>>}]
  /\ at' = [at EXCEPT ![w] = @ + 1]
  /\ UNCHANGED <<unit, warpPc, sharedData>>

StoreHidden(w) ==
  /\ warpPc[w] = "first"
  /\ FirstLayer(w) = {} \/ at[w] = unit.channels
  /\ sharedData' = [c \in DOMAIN sharedData |->
                      IF c \in FirstLayer(w) THEN "hidden" ELSE sharedData[c]]
  /\ warpPc' = [warpPc EXCEPT ![w] = "sync2"]
  /\ UNCHANGED <<unit, at, read>>

ReadHidden(w) ==
  /\ warpPc[w] = "second"
  /\ at[w] < unit.outputs
  /\ read' = [read EXCEPT ![w] = @ \cup {<<2, sharedData[at[w]]>>}]
  /\ at' = [at EXCEPT ![w] = @ + 1]
  /\ UNCHANGED <<unit, warpPc, sharedData>>

SeNext ==
  \/ \E w \in Warps : Average(w) \/ ReadAverage(w) \/ StoreHidden(w) \/ ReadHidden(w)
  \/ Sync("sync1", "first")
  \/ Sync("sync2", "second")

-----------------------------------------------------------------------------
(* The first layer is computed from averages and the second one from the   *)
(* hidden layer: "(optional bias add +) global avg -> FC1 -> FC2 -> ..."   *)
(* (layers.h:171).                                                         *)
UnitIsComputedInOrder ==
  \A w \in Warps : read[w] \subseteq {<<1, "average">>, <<2, "hidden">>}

(* What the barriers are enough for: the second layer reads nothing but    *)
(* hidden values, and the first one nothing but averages unless the warp   *)
(* and another one both have outputs to store.                             *)
BothStore(w) == FirstLayer(w) # {} /\ \E v \in Warps \ {w} : FirstLayer(v) # {}
OnlyStoringWarpsRace ==
  \A w \in Warps :
    /\ read[w] \subseteq {<<1, "average">>, <<1, "hidden">>, <<2, "hidden">>}
    /\ <<1, "hidden">> \in read[w] => BothStore(w)
=============================================================================
