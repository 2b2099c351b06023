-------------------------- MODULE CachingComputation --------------------------
(***************************************************************************)
(* CachingComputation (neural/cache.cc): a search thread gathers a batch   *)
(* of positions, those in the cache by a lock on their entry, the others   *)
(* as inputs of a computation of the network, whose results it inserts.    *)
(* All threads share the LruCache.                                         *)
(*                                                                         *)
(* A lookup of the cache is begun by a test of its capacity, see LruCache; *)
(* in between a thread has a goal.                                         *)
(***************************************************************************)
EXTENDS LruCache

CONSTANT MaxBatch   \* bound: positions in the batches of all threads
ASSUME MaxBatchAssumption == MaxBatch \in Nat \ {0}

VARIABLES
  batch,   \* batch_ of each thread
  goal     \* what the thread is doing with its batch

vars == <<cacheVars, batch, goal>>

NoItem == 0
ASSUME NoItemAssumption == NoItem \notin Items
NoParent == -1
Gathering == [is |-> "gathering"]
Misses(b) == Cardinality({i \in DOMAIN b : b[i].parent # NoParent})
Hit(k, i) == [hash |-> k, lock |-> i, parent |-> NoParent]
(* Mutant: the index counts the hits of the batch as well. *)
MissAtEnd(b, k) == [hash |-> k, lock |-> NoItem, parent |-> Len(b)]
Miss(b, k) == [hash |-> k, lock |-> NoItem, parent |-> Misses(b)]

Init ==
  /\ CacheInit
  /\ batch = [t \in Threads |-> <<>>]
  /\ goal = [t \in Threads |-> Gathering]

Goal(t, g) == goal' = [goal EXCEPT ![t] = g]
Add(t, entry) == batch' = [batch EXCEPT ![t] = Append(@, entry)]

(* AddInputByHash() wants a hit, AddInput() takes a miss as well. *)
BeginLookup(t, k, is) ==
  /\ goal[t] = Gathering
  /\ SumFunctionOnSet([u \in Threads |-> Len(batch[u])], Threads) < MaxBatch
  /\ IF capacity # 0
     THEN Begin(t, [op |-> "lookup", key |-> k]) /\ Goal(t, [is |-> is]) /\ UNCHANGED batch
     ELSE is = "input" /\ Add(t, Miss(batch[t], k)) /\ UNCHANGED <<cacheVars, goal>>

AddHit(t) ==
  /\ LookupAndPin(t)
  /\ \E i \in Items : held'[t][i] > held[t][i] /\ Add(t, Hit(key[i], i))
  /\ Goal(t, Gathering)

AddMiss(t) ==
  /\ LookupFails(t)
  /\ IF goal[t].is = "input" THEN Add(t, Miss(batch[t], pending[t].key)) ELSE UNCHANGED batch
  /\ Goal(t, Gathering)

(* PopCacheHit() and PopLastInputHit(): for a collision, the last hit goes. *)
Drop(t) == batch' = [batch EXCEPT ![t] = Front(@)]
PopLastHit(t) ==
  /\ goal[t] = Gathering
  /\ batch[t] # <<>> /\ Last(batch[t]).lock # NoItem
  /\ Unpin(t, Last(batch[t]).lock)
  /\ Drop(t) /\ UNCHANGED goal

(* ComputeBlocking(): nothing to do without a miss; the results of the     *)
(* network are inserted one by one.                                        *)
ComputeBlocking(t) ==
  /\ goal[t] = Gathering /\ batch[t] # <<>>
  /\ Goal(t, IF Misses(batch[t]) = 0 THEN [is |-> "reading"] ELSE [is |-> "inserting", at |-> 1])
  /\ UNCHANGED <<cacheVars, batch>>

Inserts(entry) == entry.parent # NoParent
NextGoal(t, i) ==
  IF i = Len(batch[t]) THEN [is |-> "reading"] ELSE [is |-> "inserting", at |-> i + 1]

BeginInsert(t) ==
  /\ goal[t].is = "inserting" /\ pending[t] = Idle
  /\ LET i == goal[t].at
         entry == batch[t][i]
     IN IF Inserts(entry) /\ capacity # 0
        THEN Begin(t, [op |-> "insert", key |-> entry.hash]) /\ UNCHANGED <<batch, goal>>
        ELSE Goal(t, NextGoal(t, i)) /\ UNCHANGED <<cacheVars, batch>>

InsertResult(t) ==
  /\ goal[t].is = "inserting"
  /\ Insert(t)
  /\ Goal(t, NextGoal(t, goal[t].at))
  /\ UNCHANGED batch

(* The results have been read; the destructor releases the locks. *)
Release(t) ==
  /\ goal[t].is = "reading"
  /\ batch[t] # <<>>
  /\ IF Last(batch[t]).lock = NoItem THEN UNCHANGED cacheVars ELSE Unpin(t, Last(batch[t]).lock)
  /\ Drop(t)
  /\ Goal(t, IF Len(batch[t]) = 1 THEN Gathering ELSE goal[t])

Thread(t) ==
  \/ \E k \in Keys, is \in {"hit", "input"} : BeginLookup(t, k, is)
  \/ AddHit(t) \/ AddMiss(t) \/ PopLastHit(t)
  \/ ComputeBlocking(t) \/ BeginInsert(t) \/ InsertResult(t) \/ Release(t)

Next ==
  \/ (SetCapacity \/ Clear) /\ UNCHANGED <<batch, goal>>
  \/ \E t \in Threads : Thread(t)

Spec == Init /\ [][Next]_vars

(* For TLC: no thread differs from another. *)
ThreadSymmetry == Permutations(Threads)

----------------------------------------------------------------------------
(* What a thread reads of a sample is about the position it gathered it    *)
(* for: an entry of that position that is still there, or the result of    *)
(* its own input (those of a computation are the misses of the batch in    *)
(* their order), whatever the other threads inserted, evicted or cleared   *)
(* between the gathering and the reading.                                  *)
SamplesAreOfTheirPositions ==
  \A t \in Threads : goal[t].is \in {"inserting", "reading"} =>
    \A i \in DOMAIN batch[t] :
      LET e == batch[t][i] IN
      IF e.lock = NoItem
      THEN e.parent = Cardinality({j \in 1 .. i - 1 : batch[t][j].lock = NoItem})
      ELSE e.lock \in lists.alive /\ key[e.lock] = e.hash
=============================================================================
