------------------------------- MODULE LruCache -------------------------------
(***************************************************************************)
(* LruCache and LruCacheLock of src/utils/cache.h: the cache of network    *)
(* evaluations that all search threads share.  Entries are found through a *)
(* hash table, leave through a queue, and live on in a third list when     *)
(* they are evicted while somebody holds a lock on them.                   *)
(*                                                                         *)
(* Every operation runs under mutex_ and is one action, except for the     *)
(* test of capacity_, which Insert() and LookupAndPin() make before they   *)
(* lock.  Items are identified by their address: an address is used again  *)
(* after the item was deleted.  size_ is the length of the queue and       *)
(* allocated_ the number of items that are alive.                          *)
(***************************************************************************)
EXTENDS Integers, Sequences, SequencesExt, FiniteSets, FiniteSetsExt, Functions

CONSTANTS
  Threads,
  Keys,            \* hash values of positions; hasher_ is the identity
  Items,           \* addresses of Item structures
  Capacities,      \* values of the NNCacheSize option
  ResizeInUse      \* whether SetCapacity() meets a cache that is not empty

ASSUME ThreadAssumption == IsFiniteSet(Threads)
ASSUME KeyAssumption == Keys \subseteq Nat /\ Keys # {} /\ IsFiniteSet(Keys)
ASSUME CapacityAssumption == Capacities \subseteq Nat /\ Capacities # {}
ASSUME ResizeAssumption == ResizeInUse \in BOOLEAN
ASSUME ItemAssumption == Items \subseteq Nat /\ IsFiniteSet(Items)

VARIABLES
  capacity,   \* capacity_
  lists,      \* the linked lists, see Lists
  key,        \* Item::key
  pins,       \* Item::pins
  pending,    \* the operation a thread is in, after its test of capacity_
  held        \* how many LruCacheLock of each thread hold each item

cacheVars == <<capacity, lists, key, pins, pending, held>>

(* chain: hash_, each bucket as the sequence of its items.                 *)
(* looped: the buckets whose last item has itself as next_in_hash.         *)
(* queue: from lru_head_ to lru_tail_.  evicted: from evicted_head_.       *)
(* alive: the items that were created and not deleted.                     *)
(* broken: a walk along a looped bucket goes on for ever, or a deleted     *)
(* item is still linked.                                                   *)
Lists(buckets) ==
  [chain : [0 .. buckets - 1 -> Seq(Items)], looped : SUBSET Nat,
   queue : Seq(Items), evicted : Seq(Items), alive : SUBSET Items,
   broken : BOOLEAN]

(* static_cast<size_t>(capacity * kLoadFactor + 1) *)
BucketsFor(c) == (c * 133) \div 100 + 1

Idle == [op |-> "idle"]
Operations == {Idle} \cup [op : {"insert", "lookup"}, key : Keys]

TypeOK ==
  /\ capacity \in Capacities
  /\ lists \in Lists(BucketsFor(capacity))
  /\ key \in [Items -> Keys]
  /\ pins \in [Items -> Nat]
  /\ pending \in [Threads -> Operations]
  /\ held \in [Threads -> [Items -> Nat]]

NoItems(buckets) == [b \in 0 .. buckets - 1 |-> <<>>]

CacheInit ==
  /\ capacity \in Capacities
  /\ lists = [chain |-> NoItems(BucketsFor(capacity)), looped |-> {},
              queue |-> <<>>, evicted |-> <<>>, alive |-> {},
              broken |-> FALSE]
  /\ key \in [Items -> {CHOOSE k \in Keys : TRUE}]
  /\ pins = [i \in Items |-> 0]
  /\ pending = [t \in Threads |-> Idle]
  /\ held = [t \in Threads |-> [i \in Items |-> 0]]

----------------------------------------------------------------------------
(* The lists.                                                              *)

BucketOf(l, k) == k % Cardinality(DOMAIN l.chain)

(* The list s after i is unlinked; an item is in a list once. *)
Without(s, i) ==
  IF i \in Range(s) THEN RemoveAt(s, CHOOSE n \in DOMAIN s : s[n] = i) ELSE s

(* The items a walk along the bucket of k finds under k. *)
Matches(l, k) == {i \in Range(l.chain[BucketOf(l, k)]) : key[i] = k}

(* A walk along the bucket of k that is not cut short by a match. *)
WalkAll(l, k) == [l EXCEPT !.broken = @ \/ BucketOf(l, k) \in l.looped]

(* Mutant: a pinned item that is evicted is not kept anywhere. *)
EvictItemForgotten(l, i) ==
  LET b == BucketOf(l, key[i]) IN
  [l EXCEPT !.queue = Without(@, i),
            !.chain[b] = Without(@, i),
            !.alive = IF pins[i] = 0 THEN @ \ {i} ELSE @]

(* EvictItem(): out of the queue and of its bucket; deleted, or kept among *)
(* the evicted ones while it is pinned.  assert(false) at its end does     *)
(* nothing in a release build: an item its bucket has lost is leaked.      *)
EvictItem(l, i) ==
  LET b == BucketOf(l, key[i])
      unqueued == [l EXCEPT !.queue = Without(@, i)]
      unlinked == [unqueued EXCEPT
        !.chain[b] = Without(@, i),
        !.broken = @ \/ (b \in l.looped /\ i = Last(l.chain[b]))]
  IN IF i \notin Range(l.chain[b]) THEN WalkAll(unqueued, key[i])
     ELSE IF pins[i] = 0 THEN [unlinked EXCEPT !.alive = @ \ {i}]
     ELSE [unlinked EXCEPT !.evicted = <<i>> \o @]

(* ShrinkToCapacity(): the oldest items go first, one by one. *)
EvictOldest(l, c) ==
  IF l.queue # <<>> /\ Len(l.queue) > c THEN EvictItem(l, Last(l.queue)) ELSE l

ShrinkToCapacity(l, c) ==
  LET evict[n \in 0 .. Len(l.queue)] ==
        IF n = 0 THEN l ELSE EvictOldest(evict[n - 1], c)
  IN evict[Len(l.queue)]

----------------------------------------------------------------------------
(* The operations of a thread.                                             *)

(* Insert() and LookupAndPin() return at once when capacity_ is 0. *)
Begin(t, o) ==
  /\ pending[t] = Idle
  /\ capacity # 0
  /\ pending' = [pending EXCEPT ![t] = o]
  /\ UNCHANGED <<capacity, lists, key, pins, held>>

(* Mutant: an entry under the same key is left where it is.                *)
RoomForDuplicate(k) == ShrinkToCapacity(WalkAll(lists, k), capacity - 1)

(* What Insert() does before it links the new item: the entry under the    *)
(* same key goes, and the oldest ones until there is room for one more.    *)
RoomFor(k) ==
  LET old == Matches(lists, k)
      replaced == IF old = {} THEN WalkAll(lists, k)
                  ELSE EvictItem(lists, CHOOSE i \in old : TRUE)
  IN ShrinkToCapacity(replaced, capacity - 1)

(* The new item is first in its bucket and first in the queue.  Bound: it  *)
(* needs an address that is free.                                          *)
Insert(t) ==
  /\ ~lists.broken
  /\ pending[t].op = "insert"
  /\ LET k == pending[t].key
         l == RoomFor(k)
         new == Min(Items \ l.alive)
     IN /\ Items \ l.alive # {}
        /\ lists' = [l EXCEPT !.chain[BucketOf(l, k)] = <<new>> \o @,
                              !.queue = <<new>> \o @,
                              !.alive = @ \cup {new}]
        /\ key' = [key EXCEPT ![new] = k]
        /\ pins' = [pins EXCEPT ![new] = 0]
  /\ pending' = [pending EXCEPT ![t] = Idle]
  /\ UNCHANGED <<capacity, held>>

(* LookupAndPin() in the constructor of a LruCacheLock, a hit: the item is *)
(* pinned; BringToFront() is commented out.                                *)
LookupAndPin(t) ==
  /\ ~lists.broken
  /\ pending[t].op = "lookup"
  /\ \E i \in Matches(lists, pending[t].key) :
       /\ pins' = [pins EXCEPT ![i] = @ + 1]
       /\ held' = [held EXCEPT ![t][i] = @ + 1]
  /\ pending' = [pending EXCEPT ![t] = Idle]
  /\ UNCHANGED <<capacity, lists, key>>

(* A miss. *)
LookupFails(t) ==
  /\ ~lists.broken
  /\ pending[t].op = "lookup"
  /\ Matches(lists, pending[t].key) = {}
  /\ lists' = WalkAll(lists, pending[t].key)
  /\ pending' = [pending EXCEPT ![t] = Idle]
  /\ UNCHANGED <<capacity, key, pins, held>>

(* Mutant: an evicted item is deleted by the first of its locks that goes. *)
UnpinnedEager(i) ==
  IF i \in Range(lists.evicted)
  THEN [lists EXCEPT !.evicted = Without(@, i),
                     !.alive = @ \ {i}]
  ELSE WalkAll(lists, key[i])

(* The lists after Unpin(): the evicted items are searched first, and one  *)
(* that nobody holds any more is deleted.                                  *)
Unpinned(i) ==
  IF i \in Range(lists.evicted)
  THEN IF pins[i] > 1 THEN lists
       ELSE [lists EXCEPT !.evicted = Without(@, i),
                          !.alive = @ \ {i}]
  ELSE IF i \in Matches(lists, key[i]) THEN lists
  ELSE WalkAll(lists, key[i])

(* An item that is in neither list keeps its pins. *)
PinsAfter(i) ==
  IF i \in Range(lists.evicted) \cup Matches(lists, key[i])
  THEN pins[i] - 1 ELSE pins[i]

(* The destructor of a LruCacheLock. *)
Unpin(t, i) ==
  /\ ~lists.broken
  /\ held[t][i] > 0
  /\ held' = [held EXCEPT ![t][i] = @ - 1]
  /\ pins' = [pins EXCEPT ![i] = PinsAfter(i)]
  /\ lists' = Unpinned(i)
  /\ UNCHANGED <<capacity, key, pending>>

----------------------------------------------------------------------------
(* The operations of the engine.                                           *)

(* The heads of the old buckets that belong into bucket b of n buckets. *)
HeadsFor(l, b, n) ==
  LET filled == SelectSeq([i \in 1 .. Cardinality(DOMAIN l.chain) |->
                             l.chain[i - 1]],
                          LAMBDA c : c # <<>>)
  IN SelectSeq([i \in DOMAIN filled |-> Head(filled[i])],
               LAMBDA i : key[i] % n = b)

(* The loop of SetCapacity() relinks `iter`, which stays the first item of *)
(* its old bucket, while `head` follows the links that were just changed:  *)
(* the other items of a bucket are lost, a second head that comes into a   *)
(* new bucket links to itself, and a third one makes the loop endless.     *)
Relinked(l, n) ==
  LET heads(b) == HeadsFor(l, b, n)
      buckets == 0 .. n - 1
  IN [l EXCEPT
        !.chain = [b \in buckets |->
                     IF heads(b) = <<>> THEN <<>> ELSE <<Last(heads(b))>>],
        !.looped = {b \in buckets : Len(heads(b)) > 1},
        !.broken = @ \/ \E b \in buckets : Len(heads(b)) > 2]

(* The new table is left empty when size_ is 0. *)
Rehashed(l, n) ==
  IF l.queue = <<>> THEN [l EXCEPT !.chain = NoItems(n), !.looped = {}]
  ELSE Relinked(l, n)

SetCapacity ==
  /\ ~lists.broken
  /\ ResizeInUse \/ lists.queue = <<>>
  /\ \E c \in Capacities \ {capacity} :
       /\ capacity' = c
       /\ lists' = Rehashed(ShrinkToCapacity(lists, c), BucketsFor(c))
  /\ UNCHANGED <<key, pins, pending, held>>

Clear ==
  /\ ~lists.broken
  /\ lists' = ShrinkToCapacity(lists, 0)
  /\ UNCHANGED <<capacity, key, pins, pending, held>>

----------------------------------------------------------------------------
(* Properties.                                                             *)

Queued == Range(lists.queue)
Evicted == Range(lists.evicted)
Holders(i) == SumFunctionOnSet([t \in Threads |-> held[t][i]], Threads)

(* A value is not deleted under a lock, whatever is inserted, cleared or   *)
(* resized meanwhile, and the pins of an item are exactly its locks.       *)
LockedIsAlive ==
  \A i \in Items : Holders(i) > 0 => i \in lists.alive /\ pins[i] = Holders(i)

(* Nothing leaks: what is alive can be evicted some day or waits for the   *)
(* last of its locks; once all locks are gone ~LruCache() finds            *)
(* allocated_ = 0 as it asserts.                                           *)
NothingLeaks ==
  /\ lists.alive = Queued \cup Evicted
  /\ Queued \cap Evicted = {}
  /\ \A i \in Evicted : Holders(i) > 0

(* The hash table and the queue hold the same items, each in the bucket of *)
(* its key, and no two under one key: a lookup finds the newest value.     *)
HashAgreesWithQueue ==
  /\ ~lists.broken /\ lists.looped = {}
  /\ Queued = UNION {Range(lists.chain[b]) : b \in DOMAIN lists.chain}
  /\ \A b \in DOMAIN lists.chain : \A i \in Range(lists.chain[b]) :
        BucketOf(lists, key[i]) = b
  /\ \A i, j \in Queued : key[i] = key[j] => i = j

(* A change of the capacity evicts the oldest entries and no others: what  *)
(* is left in the queue can be looked up.                                  *)
RehashKeepsEntries ==
  Queued = UNION {Range(lists.chain[b]) : b \in DOMAIN lists.chain}
=============================================================================
