---------------------------- MODULE MuxingNetwork ----------------------------
(***************************************************************************)
(* The "multiplexing" backend (src/neural/network_mux.cc): computations    *)
(* that several search threads wait for are gathered in a queue, and each  *)
(* backend thread takes as many of them as fit into one batch of its       *)
(* upstream network.                                                       *)
(*                                                                         *)
(* A client is a search thread; it has one MuxingComputation at a time and *)
(* is blocked in ComputeBlocking() until it is notified, so the pointers   *)
(* in queue_ and children are modelled by the clients themselves.  A batch *)
(* is a computation of an upstream network; its inputs are modelled by the *)
(* clients they came from.                                                 *)
(***************************************************************************)
EXTENDS Integers, Sequences, FiniteSets, SequencesExt, FiniteSetsExt, Functions

CONSTANTS
  Clients,
  Workers,       \* the threads of AddBackend()
  Batches,       \* addresses of upstream computations
  MaxBatch,      \* max_batch of each worker
  Sizes,         \* how many inputs a computation may have
  NoBatch

ASSUME SizeAssumption ==
  /\ Sizes \subseteq Nat \ {0}
  /\ MaxBatch \in [Workers -> Nat \ {0}]
ASSUME WorkerAssumption == IsFiniteSet(Workers)
ASSUME BatchAssumption == NoBatch \notin Batches

VARIABLES
  queue,       \* queue_ of the network
  abort,       \* abort_
  destructor,  \* how far ~MuxingNetwork() is
  workerPc,    \* "asleep" is blocked in cv_.wait()
  batch,       \* parent of each worker
  children,    \* children of each worker that were not notified yet
  clientPc,
  size,        \* planes_.size() of each client's computation
  ready,       \* dataready_
  parent,      \* parent_
  idx,         \* idx_in_parent_
  planes,      \* the inputs of a batch, by the client they came from
  computed     \* the batch has been computed

workerVars == <<workerPc, batch, children>>
clientVars == <<clientPc, size, ready, parent, idx>>
batchVars == <<planes, computed>>
vars == <<queue, abort, destructor, workerVars, clientVars, batchVars>>

TypeOK ==
  /\ queue \in Seq(Clients)
  /\ abort \in BOOLEAN
  /\ destructor \in {"none", "joining", "done"}
  /\ workerPc \in [Workers -> {"lock", "asleep", "compute", "notify", "exited"}]
  /\ batch \in [Workers -> Batches \cup {NoBatch}]
  /\ children \in [Workers -> Seq(Clients)]
  /\ clientPc \in [Clients -> {"idle", "waiting", "reading"}]
  /\ size \in [Clients -> Nat]
  /\ ready \in [Clients -> BOOLEAN]
  /\ parent \in [Clients -> Batches \cup {NoBatch}]
  /\ idx \in [Clients -> Nat]
  /\ planes \in [Batches -> Seq(Clients)]
  /\ computed \in [Batches -> BOOLEAN]

Init ==
  /\ queue = <<>>
  /\ abort = FALSE /\ destructor = "none"
  /\ workerPc = [w \in Workers |-> "lock"]
  /\ batch = [w \in Workers |-> NoBatch]
  /\ children = [w \in Workers |-> <<>>]
  /\ clientPc = [c \in Clients |-> "idle"]
  /\ size = [c \in Clients |-> 0]
  /\ ready = [c \in Clients |-> FALSE]
  /\ parent = [c \in Clients |-> NoBatch]
  /\ idx = [c \in Clients |-> 0]
  /\ planes = [b \in Batches |-> <<>>]
  /\ computed = [b \in Batches |-> FALSE]

----------------------------------------------------------------------------
(* The search threads.                                                     *)

Asleep == {w \in Workers : workerPc[w] = "asleep"}

(* cv_.notify_one() *)
NotifyOne ==
  IF Asleep = {} THEN UNCHANGED workerPc
  ELSE \E w \in Asleep : workerPc' = [workerPc EXCEPT ![w] = "lock"]

(* A new computation is filled with AddInput(), and ComputeBlocking() puts *)
(* it in the queue. *)
Enqueue(c) ==
  /\ clientPc[c] = "idle"
  /\ ~abort
  /\ \E s \in Sizes : size' = [size EXCEPT ![c] = s]
  /\ queue' = Append(queue, c)
  /\ clientPc' = [clientPc EXCEPT ![c] = "waiting"]
  /\ NotifyOne
  /\ UNCHANGED <<abort, destructor, batch, children, ready, parent, idx,
                 batchVars>>

(* dataready_cv_.wait() returns. *)
ComputeReturns(c) ==
  /\ clientPc[c] = "waiting"
  /\ ready[c]
  /\ clientPc' = [clientPc EXCEPT ![c] = "reading"]
  /\ UNCHANGED <<queue, abort, destructor, workerVars, size, ready, parent,
                 idx, batchVars>>

(* A batch is held by shared_ptr: it goes with the last one that refers to *)
(* it.                                                                     *)
FreeBatches ==
  LET used == Range(parent') \cup Range(batch') IN
  /\ planes' = [b \in Batches |-> IF b \in used THEN planes[b] ELSE <<>>]
  /\ computed' = [b \in Batches |-> b \in used /\ computed[b]]

(* The results have been read and the computation is destroyed. *)
Release(c) ==
  /\ clientPc[c] = "reading"
  /\ clientPc' = [clientPc EXCEPT ![c] = "idle"]
  /\ parent' = [parent EXCEPT ![c] = NoBatch]
  /\ size' = [size EXCEPT ![c] = 0]
  /\ ready' = [ready EXCEPT ![c] = FALSE]
  /\ idx' = [idx EXCEPT ![c] = 0]
  /\ UNCHANGED <<queue, abort, destructor, workerVars>>
  /\ FreeBatches

----------------------------------------------------------------------------
(* Worker()                                                                *)

(* What a new batch holds after PopulateToParent() of the first k          *)
(* computations in the queue.                                              *)
Populated ==
  LET inputs[k \in 0 .. Len(queue)] ==
        IF k = 0 THEN <<>>
        ELSE inputs[k - 1] \o [j \in 1 .. size[queue[k]] |-> queue[k]]
  IN inputs

(* How many computations may be taken at once: as many as fit into one     *)
(* batch, and the first one even if it does not fit.                       *)
Taken(w) ==
  {k \in 1 .. Len(queue) : k = 1 \/ Len(Populated[k]) <= MaxBatch[w]}

(* Mutant: every child starts at the first input of the batch. *)
IndexOfFirst(i) == 0

(* idx_in_parent_ of the i-th computation taken. *)
IndexOf(i) == Len(Populated[i - 1])

Unused == {b \in Batches : b \notin Range(parent) \cup Range(batch)}

(* The queue is not empty: PopulateToParent() for each one that is taken. *)
Gather(w) ==
  /\ workerPc[w] = "lock"
  /\ ~abort
  /\ queue # <<>>
  /\ \E b \in Unused :
     LET k == Max(Taken(w))
         taken == SubSeq(queue, 1, k)
         position(c) == CHOOSE i \in 1 .. k : queue[i] = c
     IN /\ children' = [children EXCEPT ![w] = taken]
        /\ queue' = SubSeq(queue, k + 1, Len(queue))
        /\ parent' = [c \in Clients |-> IF c \in Range(taken) THEN b ELSE parent[c]]
        /\ idx' = [c \in Clients |-> IF c \in Range(taken)
                                     THEN IndexOf(position(c)) ELSE idx[c]]
        /\ batch' = [batch EXCEPT ![w] = b]
        /\ planes' = [planes EXCEPT ![b] = Populated[k]]
  /\ UNCHANGED computed
  /\ workerPc' = [workerPc EXCEPT ![w] = "compute"]
  /\ UNCHANGED <<abort, destructor, clientPc, size, ready>>

(* The queue is empty: cv_.wait() blocks. *)
FallAsleep(w) ==
  /\ workerPc[w] = "lock"
  /\ ~abort
  /\ queue = <<>>
  /\ workerPc' = [workerPc EXCEPT ![w] = "asleep"]
  /\ UNCHANGED <<queue, abort, destructor, batch, children, clientVars,
                 batchVars>>

(* A condition variable may wake up for no reason. *)
SpuriousWake(w) ==
  /\ workerPc[w] = "asleep"
  /\ workerPc' = [workerPc EXCEPT ![w] = "lock"]
  /\ UNCHANGED <<queue, abort, destructor, batch, children, clientVars,
                 batchVars>>

(* parent->ComputeBlocking() *)
Compute(w) ==
  /\ workerPc[w] = "compute"
  /\ computed' = [computed EXCEPT ![batch[w]] = TRUE]
  /\ workerPc' = [workerPc EXCEPT ![w] = "notify"]
  /\ UNCHANGED <<queue, abort, destructor, batch, children, clientVars, planes>>

(* NotifyReady() of the next child; after the last one the worker forgets  *)
(* the batch and begins again.                                             *)
NotifyReady(w) ==
  /\ workerPc[w] = "notify"
  /\ children[w] # <<>>
  /\ ready' = [ready EXCEPT ![Head(children[w])] = TRUE]
  /\ children' = [children EXCEPT ![w] = Tail(@)]
  /\ UNCHANGED <<queue, abort, destructor, workerPc, batch, clientPc, size,
                 parent, idx, batchVars>>

BatchDone(w) ==
  /\ workerPc[w] = "notify"
  /\ children[w] = <<>>
  /\ batch' = [batch EXCEPT ![w] = NoBatch]
  /\ workerPc' = [workerPc EXCEPT ![w] = "lock"]
  /\ UNCHANGED <<queue, abort, destructor, children, clientVars>>
  /\ FreeBatches

Exit(w) ==
  /\ workerPc[w] = "lock"
  /\ abort
  /\ workerPc' = [workerPc EXCEPT ![w] = "exited"]
  /\ UNCHANGED <<queue, abort, destructor, batch, children, clientVars,
                 batchVars>>

Worker(w) ==
  Gather(w) \/ FallAsleep(w) \/ Compute(w) \/ NotifyReady(w) \/ BatchDone(w)
    \/ Exit(w)

----------------------------------------------------------------------------
(* ~MuxingNetwork()                                                        *)

(* cv_.notify_all() *)
WokenByAbort ==
  workerPc' = [w \in Workers |-> IF w \in Asleep THEN "lock" ELSE workerPc[w]]

Abort ==
  /\ destructor = "none"
  /\ destructor' = "joining"
  /\ abort' = TRUE
  /\ WokenByAbort
  /\ UNCHANGED <<queue, batch, children, clientVars, batchVars>>

(* Wait() has joined all threads; the computations that are still in the   *)
(* queue are released without a result.                                    *)
Unstick ==
  /\ destructor = "joining"
  /\ \A w \in Workers : workerPc[w] = "exited"
  /\ destructor' = "done"
  /\ ready' = [c \in Clients |-> ready[c] \/ c \in Range(queue)]
  /\ queue' = <<>>
  /\ UNCHANGED <<abort, workerVars, clientPc, size, parent, idx, batchVars>>

(* Everything has ended, and nobody can use the network any more. *)
Destroyed ==
  /\ destructor = "done"
  /\ \A c \in Clients : clientPc[c] = "idle"
  /\ UNCHANGED vars

Client(c) == Enqueue(c) \/ ComputeReturns(c) \/ Release(c)

Next ==
  \/ \E c \in Clients : Client(c)
  \/ \E w \in Workers : Worker(w) \/ SpuriousWake(w)
  \/ Abort
  \/ Unstick
  \/ Destroyed

Spec == Init /\ [][Next]_vars

----------------------------------------------------------------------------
(* Properties.                                                             *)

(* What a client reads through idx_in_parent_ is the result of its own     *)
(* inputs, from a batch that has been computed; without any batch it is    *)
(* woken by the destructor only.                                           *)
ResultsAreMine ==
  \A c \in Clients : clientPc[c] = "reading" =>
    IF parent[c] = NoBatch THEN destructor = "done"
    ELSE /\ computed[parent[c]]
         /\ \A s \in 1 .. size[c] :
              /\ idx[c] + s \in DOMAIN planes[parent[c]]
              /\ planes[parent[c]][idx[c] + s] = c

(* A computation that waits is in the queue or with a worker, in one place *)
(* and once, until it is notified; one that does not wait any more, and    *)
(* may be freed, is in none.                                               *)
EachInOnePlace ==
  /\ IsInjective(queue)
  /\ \A w \in Workers : /\ IsInjective(children[w])
                         /\ Range(queue) \cap Range(children[w]) = {}
  /\ \A v, w \in Workers : v # w => Range(children[v]) \cap Range(children[w]) = {}
  /\ \A c \in Clients :
       clientPc[c] = "waiting" /\ ~ready[c]
         <=> c \in Range(queue) \/ \E w \in Workers : c \in Range(children[w])

(* Batches respect max_batch; only a computation that is larger by itself  *)
(* makes a larger one, and then it is alone.                               *)
BatchBounded ==
  \A w \in Workers :
    workerPc[w] = "compute" =>
      Len(planes[batch[w]]) <= MaxBatch[w] \/ Len(children[w]) = 1

(* No wakeup is lost: while a backend thread sleeps, there is another one  *)
(* on its way for each computation in the queue.                           *)
NoLostWakeup ==
  Asleep # {} => Len(queue) <= Cardinality({w \in Workers : workerPc[w] = "lock"})
=============================================================================
