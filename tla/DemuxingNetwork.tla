--------------------------- MODULE DemuxingNetwork ---------------------------
(***************************************************************************)
(* The "demux" backend (src/neural/network_demux.cc): a computation is     *)
(* split into pieces, each of which a thread of the network computes with  *)
(* one of several upstream networks, and its results are read from the     *)
(* pieces.                                                                 *)
(*                                                                         *)
(* A client is a search thread, which has one DemuxingComputation at a     *)
(* time; the pointers in queue_ are modelled by the clients.  While it     *)
(* puts its pieces into the queue it holds the mutex of the computation,   *)
(* so no worker can take an input of it; wait() gives the mutex away.      *)
(***************************************************************************)
EXTENDS Integers, Sequences, FiniteSets, SequencesExt, FiniteSetsExt

CONSTANTS
  Clients,
  Workers,          \* the threads of AddBackend(); none belongs to a network
  NoClient,
  Networks,         \* networks_.size()
  DemuxSizes,       \* how many inputs a computation may have
  MinimumSplits     \* values of minimum-split-size

(* Networks assumes it of the constants this module is instantiated with. *)
SplitAssumption ==
  /\ NoClient \notin Clients
  /\ Networks \in Nat \ {0}
  /\ DemuxSizes \subseteq Nat
  /\ MinimumSplits \subseteq Nat

VARIABLES
  queue,         \* queue_: a client for each piece nobody took yet
  abort,         \* abort_
  destructor,    \* how far ~DemuxingNetwork() is
  workerPc,      \* "asleep" is blocked in cv_.wait(), "drain" in the inner loop
  working,       \* to_notify of each worker
  piece,         \* the place of to_compute in parents_
  clientPc,
  size,          \* planes_.size() of each client's computation
  partial,       \* partial_size_
  unqueued,      \* pieces that ComputeBlocking() has not enqueued yet
  dataready,     \* dataready_
  parents,       \* parents_, as [network, inputs, computed]
  counter,       \* counter_, modulo the number of networks
  minimumSplit   \* minimum_split_size_

workerVars == <<workerPc, working, piece>>
clientVars == <<clientPc, size, partial, unqueued, dataready, parents>>
options == <<minimumSplit>>
vars == <<queue, abort, destructor, workerVars, clientVars, counter, options>>

TypeOK ==
  /\ queue \in Seq(Clients)
  /\ abort \in BOOLEAN
  /\ destructor \in {"none", "joining", "done"}
  /\ workerPc \in [Workers -> {"lock", "asleep", "drain", "add", "compute",
                               "notify", "exited"}]
  /\ working \in [Workers -> Clients \cup {NoClient}]
  /\ clientPc \in [Clients -> {"idle", "enqueuing", "waiting", "reading"}]
  /\ counter \in 0..Networks - 1

(* counter_ is not initialized: it may begin anywhere. *)
Init ==
  /\ queue = <<>>
  /\ abort = FALSE /\ destructor = "none"
  /\ workerPc = [w \in Workers |-> "lock"]
  /\ working = [w \in Workers |-> NoClient]
  /\ piece = [w \in Workers |-> 0]
  /\ clientPc = [c \in Clients |-> "idle"]
  /\ size = [c \in Clients |-> 0]
  /\ partial = [c \in Clients |-> 0]
  /\ unqueued = [c \in Clients |-> 0]
  /\ dataready = [c \in Clients |-> 0]
  /\ parents = [c \in Clients |-> <<>>]
  /\ counter \in 0..Networks - 1
  /\ minimumSplit \in MinimumSplits

-----------------------------------------------------------------------------
(* The search threads.                                                     *)

Ceil(a, b) == (a + b - 1) \div b
Least(a, b) == IF a < b THEN a ELSE b

(* How many inputs go into a piece. *)
PartialSize(s) ==
  LET even == Ceil(s, Networks)
  IN IF even < minimumSplit THEN Least(s, minimumSplit) ELSE even

Splits(s) == Ceil(s, PartialSize(s))

(* ComputeBlocking() of a new computation; without inputs it returns at    *)
(* once.                                                                   *)
ComputeBlocking(c) ==
  /\ clientPc[c] = "idle"
  /\ ~abort
  /\ \E s \in DemuxSizes :
       /\ size' = [size EXCEPT ![c] = s]
       /\ IF s = 0
          THEN /\ clientPc' = [clientPc EXCEPT ![c] = "reading"]
               /\ UNCHANGED <<partial, unqueued, dataready>>
          ELSE /\ clientPc' = [clientPc EXCEPT ![c] = "enqueuing"]
               /\ partial' = [partial EXCEPT ![c] = PartialSize(s)]
               /\ unqueued' = [unqueued EXCEPT ![c] = Splits(s)]
               /\ dataready' = [dataready EXCEPT ![c] = Splits(s)]
  /\ UNCHANGED <<queue, abort, destructor, workerVars, parents, counter, options>>

Asleep == {w \in Workers : workerPc[w] = "asleep"}

(* cv_.notify_one() *)
WakeOne ==
  IF Asleep = {} THEN UNCHANGED workerPc
  ELSE \E w \in Asleep : workerPc' = [workerPc EXCEPT ![w] = "lock"]

(* Enqueue() of the next piece. *)
Enqueue(c) ==
  /\ clientPc[c] = "enqueuing"
  /\ unqueued[c] > 0
  /\ queue' = Append(queue, c)
  /\ unqueued' = [unqueued EXCEPT ![c] = @ - 1]
  /\ WakeOne
  /\ UNCHANGED <<abort, destructor, working, piece, clientPc, size, partial,
                 dataready, parents, counter, options>>

(* dataready_cv_.wait() releases the mutex. *)
StartWaiting(c) ==
  /\ clientPc[c] = "enqueuing"
  /\ unqueued[c] = 0
  /\ clientPc' = [clientPc EXCEPT ![c] = "waiting"]
  /\ UNCHANGED <<queue, abort, destructor, workerVars, size, partial, unqueued,
                 dataready, parents, counter, options>>

ComputeReturns(c) ==
  /\ clientPc[c] = "waiting"
  /\ dataready[c] = 0
  /\ clientPc' = [clientPc EXCEPT ![c] = "reading"]
  /\ UNCHANGED <<queue, abort, destructor, workerVars, size, partial, unqueued,
                 dataready, parents, counter, options>>

(* The results have been read and the computation is destroyed. *)
Release(c) ==
  /\ clientPc[c] = "reading"
  /\ clientPc' = [clientPc EXCEPT ![c] = "idle"]
  /\ size' = [size EXCEPT ![c] = 0]
  /\ partial' = [partial EXCEPT ![c] = 0]
  /\ parents' = [parents EXCEPT ![c] = <<>>]
  /\ UNCHANGED <<queue, abort, destructor, workerVars, unqueued, dataready,
                 counter, options>>

-----------------------------------------------------------------------------
(* Worker()                                                                *)

Unbothered == <<queue, abort, destructor, clientVars, counter, options>>

(* The outer loop: cv_.wait() under the mutex. *)
FallAsleep(w) ==
  /\ workerPc[w] = "lock" /\ ~abort /\ queue = <<>>
  /\ workerPc' = [workerPc EXCEPT ![w] = "asleep"]
  /\ UNCHANGED <<Unbothered, working, piece>>

SpuriousWake(w) ==
  /\ workerPc[w] = "asleep"
  /\ workerPc' = [workerPc EXCEPT ![w] = "lock"]
  /\ UNCHANGED <<Unbothered, working, piece>>

Exit(w) ==
  /\ workerPc[w] = "lock" /\ abort
  /\ workerPc' = [workerPc EXCEPT ![w] = "exited"]
  /\ UNCHANGED <<Unbothered, working, piece>>

FindWork(w) ==
  /\ workerPc[w] = "lock" /\ ~abort /\ queue # <<>>
  /\ workerPc' = [workerPc EXCEPT ![w] = "drain"]
  /\ UNCHANGED <<Unbothered, working, piece>>

(* The inner loop, which asks for abort_ only when the queue is empty. *)
Drained(w) ==
  /\ workerPc[w] = "drain" /\ queue = <<>>
  /\ workerPc' = [workerPc EXCEPT ![w] = "lock"]
  /\ UNCHANGED <<Unbothered, working, piece>>

Pop(w) ==
  /\ workerPc[w] = "drain" /\ queue # <<>>
  /\ working' = [working EXCEPT ![w] = Head(queue)]
  /\ queue' = Tail(queue)
  /\ workerPc' = [workerPc EXCEPT ![w] = "add"]
  /\ UNCHANGED <<abort, destructor, piece, clientVars, counter, options>>

(* The inputs of piece number idx, counted from 0. *)
PieceInputs(c, idx) ==
  idx * partial[c] .. Least(size[c], (idx + 1) * partial[c]) - 1

(* Mutant: a new piece begins at the input that the pieces still to come   *)
(* leave.                                                                  *)
NextPieceByCount(c) == Splits(size[c]) - dataready[c]

(* The number of the next piece is that of the pieces in parents_. *)
NextPiece(c) == Len(parents[c])

(* The next network, and AddParentFromNetwork() under the mutex of the     *)
(* computation.                                                            *)
AddParent(w) ==
  /\ workerPc[w] = "add"
  /\ clientPc[working[w]] # "enqueuing"
  /\ LET c == working[w] IN
     /\ counter' = (counter + 1) % Networks
     /\ parents' = [parents EXCEPT ![c] =
          Append(@, [network |-> counter', inputs |-> PieceInputs(c, NextPiece(c)),
                     computed |-> FALSE])]
     /\ piece' = [piece EXCEPT ![w] = Len(parents'[c])]
  /\ workerPc' = [workerPc EXCEPT ![w] = "compute"]
  /\ UNCHANGED <<queue, abort, destructor, working, clientPc, size, partial,
                 unqueued, dataready, options>>

Compute(w) ==
  /\ workerPc[w] = "compute"
  /\ parents' = [parents EXCEPT ![working[w]][piece[w]].computed = TRUE]
  /\ workerPc' = [workerPc EXCEPT ![w] = "notify"]
  /\ UNCHANGED <<queue, abort, destructor, working, piece, clientPc, size,
                 partial, unqueued, dataready, counter, options>>

NotifyComplete(w) ==
  /\ workerPc[w] = "notify"
  /\ dataready' = [dataready EXCEPT ![working[w]] = @ - 1]
  /\ working' = [working EXCEPT ![w] = NoClient]
  /\ piece' = [piece EXCEPT ![w] = 0]
  /\ workerPc' = [workerPc EXCEPT ![w] = "drain"]
  /\ UNCHANGED <<queue, abort, destructor, clientPc, size, partial, unqueued,
                 parents, counter, options>>

Worker(w) ==
  FallAsleep(w) \/ Exit(w) \/ FindWork(w) \/ Drained(w) \/ Pop(w)
    \/ AddParent(w) \/ Compute(w) \/ NotifyComplete(w)

-----------------------------------------------------------------------------
(* ~DemuxingNetwork()                                                      *)

(* Called while searches wait at most; one that is still inside Enqueue()  *)
(* would use a network that is being destroyed.                            *)
Abort ==
  /\ destructor = "none"
  /\ \A c \in Clients : clientPc[c] # "enqueuing"
  /\ destructor' = "joining"
  /\ abort' = TRUE
  /\ workerPc' = [w \in Workers |-> IF w \in Asleep THEN "lock" ELSE workerPc[w]]
  /\ UNCHANGED <<queue, working, piece, clientVars, counter, options>>

(* Mutant: a computation is told once, however many of its pieces are left. *)
LeftInQueueOnce(c) == IF c \in ToSet(queue) THEN 1 ELSE 0

LeftInQueue(c) == Cardinality({i \in DOMAIN queue : queue[i] = c})

(* Wait() has joined the threads; NotifyComplete() for each piece that is  *)
(* still in the queue.                                                     *)
Unstick ==
  /\ destructor = "joining"
  /\ \A w \in Workers : workerPc[w] = "exited"
  /\ destructor' = "done"
  /\ dataready' = [c \in Clients |-> dataready[c] - LeftInQueue(c)]
  /\ queue' = <<>>
  /\ UNCHANGED <<abort, workerVars, clientPc, size, partial, unqueued, parents,
                 counter, options>>

Destroyed ==
  /\ destructor = "done"
  /\ \A c \in Clients : clientPc[c] = "idle"
  /\ UNCHANGED vars

Client(c) ==
  ComputeBlocking(c) \/ Enqueue(c) \/ StartWaiting(c) \/ ComputeReturns(c)
    \/ Release(c)

Next ==
  \/ \E c \in Clients : Client(c)
  \/ \E w \in Workers : Worker(w) \/ SpuriousWake(w)
  \/ Abort
  \/ Unstick
  \/ Destroyed

-----------------------------------------------------------------------------
(* Properties.                                                             *)

(* Where GetQVal(), GetDVal() and GetPVal() look for sample s. *)
Found(c, s) == [idx |-> s \div partial[c] + 1, offset |-> s % partial[c]]

(* Until the destructor gives up, every sample is found in a piece that    *)
(* was computed, at the place of its own input.                            *)
PiecesAreMine ==
  \A c \in Clients : clientPc[c] = "reading" /\ destructor # "done" =>
    \A s \in 0..size[c] - 1 :
      LET at == Found(c, s) IN
      /\ at.idx \in DOMAIN parents[c]
      /\ parents[c][at.idx].computed
      /\ s \in parents[c][at.idx].inputs
      /\ at.offset = Cardinality({t \in parents[c][at.idx].inputs : t < s})
=============================================================================
