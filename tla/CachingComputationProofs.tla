----------------------- MODULE CachingComputationProofs -----------------------
(***************************************************************************)
(* Proofs about LruCache and CachingComputation for any number of threads, *)
(* keys, items and capacities, as long as the capacity is changed only     *)
(* while the cache is empty: a locked value is alive and found under its   *)
(* key, nothing leaks, and the hash table agrees with the queue.           *)
(***************************************************************************)
EXTENDS CachingComputation, SumTheorems

-----------------------------------------------------------------------------
(* The lists. *)

(* What holds of the lists l in a cache with n buckets. *)
Shaped(l, n) ==
  /\ l \in Lists(n)
  /\ IsInjective(l.queue) /\ IsInjective(l.evicted)
  /\ \A b \in 0 .. n - 1 : IsInjective(l.chain[b])

(* Each queued item is in the bucket of its key, and a bucket holds queued *)
(* items only.                                                             *)
Hashed(l) ==
  /\ ~l.broken /\ l.looped = {}
  /\ \A i \in Range(l.queue) : i \in Range(l.chain[BucketOf(l, key[i])])
  /\ \A b \in DOMAIN l.chain : \A i \in Range(l.chain[b]) :
       i \in Range(l.queue) /\ BucketOf(l, key[i]) = b
  /\ \A i, j \in Range(l.queue) : key[i] = key[j] => i = j

(* Every item that is alive is queued, or evicted and pinned. *)
Kept(l) ==
  /\ l.alive = Range(l.queue) \cup Range(l.evicted)
  /\ Range(l.queue) \cap Range(l.evicted) = {}
  /\ \A i \in Range(l.evicted) : pins[i] > 0

Good(l, n) == Shaped(l, n) /\ Hashed(l) /\ Kept(l)

(* The pins of an item are its locks, and what is deleted has none. *)
LocksInv ==
  \A i \in Items : /\ i \in lists.alive => pins[i] = Holders(i)
                   /\ Holders(i) > 0 => i \in lists.alive

(* A removed item is gone, and the other ones stay in the list once. *)
LEMMA WithoutFacts ==
  ASSUME NEW S, NEW s \in Seq(S), IsInjective(s), NEW i
  PROVE  /\ Without(s, i) \in Seq(S) /\ IsInjective(Without(s, i))
         /\ Range(Without(s, i)) = Range(s) \ {i}
<1>1. CASE i \notin Range(s)
  BY <1>1 DEF Without
<1>2. CASE i \in Range(s)
  <2> DEFINE n == CHOOSE m \in DOMAIN s : s[m] = i
             r == Without(s, i)
  <2>1. n \in 1 .. Len(s) /\ s[n] = i
    BY <1>2 DEF Range
  <2>2. r = SubSeq(s, 1, n - 1) \o SubSeq(s, n + 1, Len(s))
    BY <1>2 DEF Without, RemoveAt
  <2> HIDE DEF n, r
  <2>3. /\ r \in Seq(S) /\ Len(r) = Len(s) - 1
        /\ \A m \in 1 .. Len(r) : r[m] = s[IF m < n THEN m ELSE m + 1]
    <3> DEFINE a == SubSeq(s, 1, n - 1)
               c == SubSeq(s, n + 1, Len(s))
    <3>1. /\ a \in Seq(S) /\ Len(a) = n - 1
          /\ \A m \in 1 .. n - 1 : a[m] = s[m]
      BY <2>1, Len(s) \in Nat
    <3>2. /\ c \in Seq(S) /\ Len(c) = Len(s) - n
          /\ \A m \in 1 .. Len(s) - n : c[m] = s[m + n]
      BY <2>1, Len(s) \in Nat
    <3>3. r = a \o c
      BY <2>2
    <3> HIDE DEF a, c
    <3>4. r \in Seq(S) /\ Len(r) = Len(s) - 1
      <4>1. r \in Seq(S) /\ Len(r) = Len(a) + Len(c)
        BY <3>1, <3>2, <3>3, ConcatProperties
      <4> QED BY <4>1, <3>1, <3>2, <2>1, Len(s) \in Nat
    <3>5. \A m \in 1 .. Len(r) : r[m] = IF m <= n - 1 THEN a[m] ELSE c[m - (n - 1)]
      BY <3>1, <3>2, <3>3, <2>1
    <3>6. ASSUME NEW m \in 1 .. Len(r)
          PROVE  r[m] = s[IF m < n THEN m ELSE m + 1]
      <4>1. CASE m < n
        BY <4>1, <3>1, <3>5, <2>1
      <4>2. CASE m >= n
        <5>1. m - (n - 1) \in 1 .. Len(s) - n /\ m - (n - 1) + n = m + 1
          BY <4>2, <3>4, <2>1
        <5> QED BY <4>2, <5>1, <3>2, <3>5, <2>1
      <4> QED BY <4>1, <4>2, <2>1
    <3> QED BY <3>4, <3>6
  <2>4. \A m \in 1 .. Len(s) : m # n => s[m] # i
    BY <2>1 DEF IsInjective
  <2>5. IsInjective(r)
    BY <2>1, <2>3 DEF IsInjective
  <2>6. Range(r) \subseteq Range(s) \ {i}
    BY <2>1, <2>3, <2>4 DEF Range
  <2>7. ASSUME NEW x \in Range(s) \ {i} PROVE x \in Range(r)
    <3>1. PICK m \in 1 .. Len(s) : s[m] = x
      BY DEF Range
    <3>2. CASE m < n
      BY <3>1, <3>2, <2>1, <2>3 DEF Range
    <3>3. CASE m > n
      <4>1. m - 1 \in 1 .. Len(r) /\ r[m - 1] = x
        BY <3>1, <3>3, <2>1, <2>3
      <4> QED BY <4>1, <2>3 DEF Range
    <3> QED BY <3>1, <3>2, <3>3, <2>1
  <2> QED BY <2>3, <2>5, <2>6, <2>7 DEF r
<1> QED BY <1>1, <1>2

LEMMA Buckets ==
  /\ \A c \in Nat : BucketsFor(c) \in Nat \ {0}
  /\ \A n \in Nat : Cardinality(0 .. n - 1) = n
BY FS_Interval DEF BucketsFor

LEMMA BucketFacts ==
  ASSUME NEW n \in Nat \ {0}, NEW l \in Lists(n), NEW k \in Keys
  PROVE  BucketOf(l, k) = k % n /\ BucketOf(l, k) \in 0 .. n - 1
<1>1. DOMAIN l.chain = 0 .. n - 1
  BY DEF Lists
<1>2. k \in Nat
  BY KeyAssumption
<1>3. BucketOf(l, k) = k % n
  BY <1>1, Buckets DEF BucketOf
<1>4. k % n \in 0 .. n - 1
  BY <1>2
<1> QED BY <1>3, <1>4

(* What EvictItem() does to an item that is queued. *)
Evicts(l, r, i, b) ==
  /\ r.queue = Without(l.queue, i)
  /\ r.chain = [l.chain EXCEPT ![b] = Without(l.chain[b], i)]
  /\ r.alive = IF pins[i] = 0 THEN l.alive \ {i} ELSE l.alive
  /\ r.evicted = IF pins[i] = 0 THEN l.evicted ELSE <<i>> \o l.evicted
  /\ r.looped = l.looped /\ r.broken = l.broken

LEMMA EvictFields ==
  ASSUME NEW n \in Nat \ {0}, NEW l, Good(l, n), NEW i \in Range(l.queue),
         key \in [Items -> Keys], pins \in [Items -> Nat]
  PROVE  /\ Evicts(l, EvictItem(l, i), i, key[i] % n)
         /\ EvictItem(l, i) \in Lists(n)
         /\ key[i] % n \in 0 .. n - 1 /\ i \in Items
<1> DEFINE b == key[i] % n
           q == Without(l.queue, i)
           c == Without(l.chain[b], i)
<1>1. i \in Items /\ key[i] \in Keys /\ l \in Lists(n)
  BY DEF Good, Shaped, Lists, Range
<1>2. b = BucketOf(l, key[i]) /\ b \in 0 .. n - 1
  BY <1>1, BucketFacts
<1>3. q \in Seq(Items) /\ c \in Seq(Items)
  <2>1. l.queue \in Seq(Items) /\ l.chain[b] \in Seq(Items)
    BY <1>1, <1>2 DEF Lists
  <2>2. IsInjective(l.queue) /\ IsInjective(l.chain[b])
    BY <1>2 DEF Good, Shaped
  <2> QED BY <2>1, <2>2, WithoutFacts
<1>4. i \in Range(l.chain[b]) /\ l.looped = {} /\ l.broken = FALSE
  <2>1. i \in Range(l.chain[b]) /\ l.looped = {} /\ ~l.broken
    BY <1>2 DEF Good, Hashed
  <2>2. l.broken \in BOOLEAN
    BY <1>1 DEF Lists
  <2> QED BY <2>1, <2>2
<1> DEFINE u == [[l EXCEPT !.queue = q] EXCEPT !.chain[b] = c,
                   !.broken = l.broken \/ (b \in l.looped /\ i = Last(l.chain[b]))]
<1>5. EvictItem(l, i) = IF pins[i] = 0 THEN [u EXCEPT !.alive = @ \ {i}]
                        ELSE [u EXCEPT !.evicted = <<i>> \o @]
  BY <1>2, <1>4 DEF EvictItem
<1>6. u \in Lists(n)
  BY <1>1, <1>2, <1>3, <1>4 DEF Lists
<1>7. u.queue = q /\ u.chain = [l.chain EXCEPT ![b] = c] /\ u.looped = {}
        /\ u.evicted = l.evicted /\ u.alive = l.alive /\ u.broken = FALSE
  BY <1>1, <1>2, <1>3, <1>4 DEF Lists
<1> HIDE DEF u
<1>8. CASE pins[i] = 0
  <2> DEFINE v == [u EXCEPT !.alive = @ \ {i}]
  <2>1. /\ v \in Lists(n)
        /\ v.queue = u.queue /\ v.chain = u.chain /\ v.looped = u.looped
        /\ v.evicted = u.evicted /\ v.alive = u.alive \ {i} /\ v.broken = u.broken
    BY <1>6 DEF Lists
  <2> HIDE DEF v
  <2>2. EvictItem(l, i) = v
    BY <1>5, <1>8 DEF v
  <2>3. Evicts(l, v, i, b)
    BY <1>4, <1>7, <1>8, <2>1 DEF Evicts
  <2> QED BY <1>1, <1>2, <2>1, <2>2, <2>3
<1>9. CASE pins[i] # 0
  <2> DEFINE v == [u EXCEPT !.evicted = <<i>> \o @]
  <2>1. <<i>> \o u.evicted \in Seq(Items)
    <3>1. u.evicted \in Seq(Items) /\ <<i>> \in Seq(Items)
      BY <1>1, <1>6 DEF Lists
    <3> QED BY <3>1, ConcatProperties
  <2>2. /\ v \in Lists(n)
        /\ v.queue = u.queue /\ v.chain = u.chain /\ v.looped = u.looped
        /\ v.evicted = <<i>> \o u.evicted /\ v.alive = u.alive /\ v.broken = u.broken
    BY <1>6, <2>1 DEF Lists
  <2> HIDE DEF v
  <2>3. EvictItem(l, i) = v
    BY <1>5, <1>9 DEF v
  <2>4. Evicts(l, v, i, b)
    BY <1>4, <1>7, <1>9, <2>2 DEF Evicts
  <2> QED BY <1>1, <1>2, <2>2, <2>3, <2>4
<1> QED BY <1>8, <1>9

LEMMA Prepend ==
  ASSUME NEW S, NEW s \in Seq(S), NEW i \in S
  PROVE  /\ <<i>> \o s \in Seq(S) /\ Range(<<i>> \o s) = {i} \cup Range(s)
         /\ IsInjective(s) /\ i \notin Range(s) => IsInjective(<<i>> \o s)
<1> DEFINE r == <<i>> \o s
<1>1. /\ r \in Seq(S) /\ Len(r) = Len(s) + 1
      /\ \A m \in 1 .. Len(s) + 1 : r[m] = IF m = 1 THEN i ELSE s[m - 1]
  BY ConcatProperties
<1> HIDE DEF r
<1>2. \A m \in 1 .. Len(s) : m + 1 \in 1 .. Len(r) /\ r[m + 1] = s[m]
  BY <1>1
<1>3. Range(r) = {i} \cup Range(s)
  <2>1. \A m \in 1 .. Len(r) : r[m] = i \/ (m - 1 \in 1 .. Len(s) /\ r[m] = s[m - 1])
    BY <1>1
  <2>2. r[1] = i /\ 1 \in 1 .. Len(r)
    BY <1>1
  <2>3. Range(r) \subseteq {i} \cup Range(s)
    BY <1>1, <2>1 DEF Range
  <2>4. {i} \cup Range(s) \subseteq Range(r)
    <3>1. DOMAIN s = 1 .. Len(s) /\ DOMAIN r = 1 .. Len(r)
      BY <1>1
    <3>2. \A x \in Range(s) : \E m \in 1 .. Len(s) : x = s[m]
      BY <3>1 DEF Range
    <3>3. \A x \in Range(s) : \E m \in 1 .. Len(r) : x = r[m]
      BY <3>2, <1>2
    <3> QED BY <3>1, <3>3, <2>2 DEF Range
  <2> QED BY <2>3, <2>4
<1>4. ASSUME IsInjective(s), i \notin Range(s) PROVE IsInjective(r)
  <2>1. ASSUME NEW m \in 1 .. Len(r), NEW k \in 1 .. Len(r), r[m] = r[k], m < k
        PROVE  FALSE
    <3>1. k - 1 \in 1 .. Len(s) /\ r[k] = s[k - 1]
      BY <1>1, <2>1
    <3>2. CASE m = 1
      BY <3>1, <3>2, <1>1, <1>4, <2>1 DEF Range
    <3>3. CASE m > 1
      <4>1. m - 1 \in 1 .. Len(s) /\ r[m] = s[m - 1] /\ m - 1 # k - 1
        BY <1>1, <2>1, <3>3
      <4>2. s[m - 1] = s[k - 1] /\ m - 1 \in DOMAIN s /\ k - 1 \in DOMAIN s
        BY <4>1, <3>1, <2>1
      <4> QED BY <4>1, <4>2, <1>4 DEF IsInjective
    <3> QED BY <3>2, <3>3, <2>1
  <2>2. ASSUME NEW m \in 1 .. Len(r), NEW k \in 1 .. Len(r), r[m] = r[k]
        PROVE  m = k
    BY <2>1, <2>2
  <2> QED BY <1>1, <2>2 DEF IsInjective
<1> QED BY <1>1, <1>3, <1>4 DEF r

(* EvictItem() keeps the lists in order, unlinks the item, and deletes     *)
(* nothing that is pinned.                                                 *)
LEMMA EvictKeeps ==
  ASSUME NEW n \in Nat \ {0}, NEW l, Good(l, n), NEW i \in Range(l.queue),
         key \in [Items -> Keys], pins \in [Items -> Nat]
  PROVE  /\ Good(EvictItem(l, i), n)
         /\ Range(EvictItem(l, i).queue) = Range(l.queue) \ {i}
         /\ EvictItem(l, i).alive \subseteq l.alive
         /\ \A j \in l.alive \ EvictItem(l, i).alive : pins[j] = 0
<1> DEFINE r == EvictItem(l, i)
           b == key[i] % n
<1>1. Evicts(l, r, i, b) /\ r \in Lists(n) /\ b \in 0 .. n - 1 /\ i \in Items
  BY EvictFields
<1> HIDE DEF r
<1>2. l \in Lists(n)
  BY DEF Good, Shaped
<1>3. /\ IsInjective(r.queue)
      /\ Range(r.queue) = Range(l.queue) \ {i}
  <2>1. l.queue \in Seq(Items) /\ IsInjective(l.queue)
    BY <1>2 DEF Good, Shaped, Lists
  <2> QED BY <2>1, <1>1, WithoutFacts DEF Evicts
<1>4. /\ \A c \in 0 .. n - 1 : IsInjective(r.chain[c])
      /\ Range(r.chain[b]) = Range(l.chain[b]) \ {i}
      /\ DOMAIN r.chain = 0 .. n - 1
      /\ \A c \in 0 .. n - 1 : c # b => r.chain[c] = l.chain[c]
  <2>1. /\ l.chain \in [0 .. n - 1 -> Seq(Items)]
        /\ \A c \in 0 .. n - 1 : IsInjective(l.chain[c])
    BY <1>2 DEF Good, Shaped, Lists
  <2>2. /\ IsInjective(Without(l.chain[b], i))
        /\ Range(Without(l.chain[b], i)) = Range(l.chain[b]) \ {i}
    BY <2>1, <1>1, WithoutFacts
  <2> QED BY <2>1, <2>2, <1>1 DEF Evicts
<1>5. /\ IsInjective(r.evicted)
      /\ Range(r.evicted) = Range(l.evicted) \cup (IF pins[i] = 0 THEN {} ELSE {i})
  <2>1. l.evicted \in Seq(Items) /\ IsInjective(l.evicted) /\ i \notin Range(l.evicted)
    BY <1>2 DEF Good, Shaped, Lists, Kept
  <2>2. /\ IsInjective(<<i>> \o l.evicted)
        /\ Range(<<i>> \o l.evicted) = {i} \cup Range(l.evicted)
    BY <2>1, <1>1, Prepend
  <2> QED BY <2>1, <2>2, <1>1 DEF Evicts
<1>6. Shaped(r, n)
  BY <1>1, <1>3, <1>4, <1>5 DEF Shaped
<1>7. Hashed(r)
  <2>1. \A j \in Range(l.queue) :
          /\ j \in Items /\ BucketOf(l, key[j]) \in 0 .. n - 1
          /\ BucketOf(r, key[j]) = BucketOf(l, key[j])
    <3>1. \A j \in Range(l.queue) : j \in Items
      BY <1>2 DEF Lists, Range
    <3> QED BY <3>1, <1>1, <1>2, BucketFacts
  <2>2. ~r.broken /\ r.looped = {}
    BY <1>1 DEF Good, Hashed, Evicts
  <2>3. ASSUME NEW j \in Range(r.queue)
        PROVE  j \in Range(r.chain[BucketOf(r, key[j])])
    <3>1. j \in Range(l.queue) /\ j # i /\ j \in Range(l.chain[BucketOf(l, key[j])])
      BY <1>3 DEF Good, Hashed
    <3> QED BY <3>1, <2>1, <1>4
  <2>4. ASSUME NEW c \in DOMAIN r.chain, NEW j \in Range(r.chain[c])
        PROVE  j \in Range(r.queue) /\ BucketOf(r, key[j]) = c
    <3>1. c \in DOMAIN l.chain /\ c \in 0 .. n - 1
      BY <1>2, <1>4 DEF Lists
    <3>2. j \in Range(l.chain[c])
      BY <3>1, <1>4
    <3>3. j \in Range(l.queue) /\ BucketOf(l, key[j]) = c
      BY <3>1, <3>2 DEF Good, Hashed
    <3>4. j # i
      <4>1. c # b => BucketOf(l, key[i]) # c
        BY <1>1, <1>2, BucketFacts
      <4> QED BY <4>1, <3>3, <1>4, <3>1
    <3> QED BY <3>3, <3>4, <1>3, <2>1
  <2>5. \A j, k \in Range(r.queue) : key[j] = key[k] => j = k
    BY <1>3 DEF Good, Hashed
  <2> QED BY <2>2, <2>3, <2>4, <2>5 DEF Hashed
<1>8. Kept(r)
  <2>1. /\ l.alive = Range(l.queue) \cup Range(l.evicted)
        /\ Range(l.queue) \cap Range(l.evicted) = {}
        /\ \A j \in Range(l.evicted) : pins[j] > 0
    BY DEF Good, Kept
  <2>2. pins[i] # 0 => pins[i] > 0
    BY <1>1
  <2>3. CASE pins[i] = 0
    BY <2>1, <2>3, <1>1, <1>3, <1>5 DEF Kept, Evicts
  <2>4. CASE pins[i] # 0
    BY <2>1, <2>2, <2>4, <1>1, <1>3, <1>5 DEF Kept, Evicts
  <2> QED BY <2>3, <2>4
<1>9. /\ r.alive \subseteq l.alive
      /\ \A j \in l.alive \ r.alive : pins[j] = 0
  BY <1>1 DEF Evicts
<1> QED BY <1>3, <1>6, <1>7, <1>8, <1>9 DEF Good, r

(* The recursion behind ShrinkToCapacity(). *)
Evictions(l, c, N, g) ==
  g = [n \in 0 .. N |-> IF n = 0 THEN l ELSE EvictOldest(g[n - 1], c)]

LEMMA EvictionsExist ==
  ASSUME NEW l, NEW c PROVE \A N \in Nat : \E g : Evictions(l, c, N, g)
<1> DEFINE T == {N \in Nat : ~ \E g : Evictions(l, c, N, g)}
<1>1. SUFFICES ASSUME T # {} PROVE FALSE
  OBVIOUS
<1>2. PICK N \in T : \A m \in T : N <= m
  <2> HIDE DEF T
  <2>1. T \in SUBSET Nat
    BY DEF T
  <2> QED BY <1>1, <2>1, LeastNat
<1>3. N # 0
  <2> DEFINE g == [n \in 0 .. 0 |-> l]
  <2>1. Evictions(l, c, 0, g)
    BY DEF Evictions
  <2> QED BY <2>1, <1>2
<1>4. PICK g : Evictions(l, c, N - 1, g)
  <2>1. N - 1 \in Nat /\ N - 1 \notin T
    BY <1>2, <1>3
  <2> QED BY <2>1
<1> DEFINE h == [n \in 0 .. N |-> IF n < N THEN g[n] ELSE EvictOldest(g[N - 1], c)]
<1>5. Evictions(l, c, N, h)
  <2>1. \A n \in 0 .. N - 1 : g[n] = IF n = 0 THEN l ELSE EvictOldest(g[n - 1], c)
    BY <1>4 DEF Evictions
  <2>2. ASSUME NEW n \in 0 .. N
        PROVE  h[n] = IF n = 0 THEN l ELSE EvictOldest(h[n - 1], c)
    <3>1. CASE n = N
      BY <3>1, <1>2, <1>3
    <3>2. CASE n < N
      <4>1. n \in 0 .. N - 1 /\ h[n] = g[n]
        BY <3>2, <1>2
      <4>2. n # 0 => n - 1 \in 0 .. N /\ n - 1 < N
        BY <4>1, <1>2
      <4> QED BY <4>1, <4>2, <2>1
    <3> QED BY <3>1, <3>2, <1>2
  <2>3. h = [n \in 0 .. N |-> h[n]]
    OBVIOUS
  <2> HIDE DEF h
  <2> QED BY <2>2, <2>3 DEF Evictions
<1> QED BY <1>2, <1>5

(* What the lists r have to do with the lists l they come from. *)
Shrunk(l, r, n) ==
  /\ Good(r, n)
  /\ Range(r.queue) \subseteq Range(l.queue)
  /\ r.alive \subseteq l.alive
  /\ \A j \in l.alive \ r.alive : pins[j] = 0

LEMMA EvictOldestKeeps ==
  ASSUME NEW n \in Nat \ {0}, NEW p, Good(p, n), NEW c,
         key \in [Items -> Keys], pins \in [Items -> Nat]
  PROVE  Shrunk(p, EvictOldest(p, c), n)
<1>1. CASE p.queue # <<>> /\ Len(p.queue) > c
  <2> DEFINE v == Last(p.queue)
  <2>1. v \in Range(p.queue)
    <3>1. p.queue \in Seq(Items)
      BY DEF Good, Shaped, Lists
    <3>2. Len(p.queue) \in 1 .. Len(p.queue)
      BY <3>1, <1>1
    <3> QED BY <3>1, <3>2 DEF Last, Range
  <2> HIDE DEF v
  <2>2. Shrunk(p, EvictItem(p, v), n)
    <3>1. /\ Good(EvictItem(p, v), n)
          /\ Range(EvictItem(p, v).queue) = Range(p.queue) \ {v}
          /\ EvictItem(p, v).alive \subseteq p.alive
          /\ \A j \in p.alive \ EvictItem(p, v).alive : pins[j] = 0
      BY <2>1, EvictKeeps
    <3> QED BY <3>1 DEF Shrunk
  <2> QED BY <2>2, <1>1 DEF EvictOldest, v
<1>2. CASE ~(p.queue # <<>> /\ Len(p.queue) > c)
  BY <1>2 DEF EvictOldest, Shrunk
<1> QED BY <1>1, <1>2

LEMMA ShrinkKeeps ==
  ASSUME NEW n \in Nat \ {0}, NEW l, Good(l, n), NEW c \in Int,
         key \in [Items -> Keys], pins \in [Items -> Nat]
  PROVE  Shrunk(l, ShrinkToCapacity(l, c), n)
<1> DEFINE N == Len(l.queue)
           g == CHOOSE g : Evictions(l, c, N, g)
<1>1. N \in Nat
  BY DEF Good, Shaped, Lists
<1>2. ShrinkToCapacity(l, c) = g[N]
  BY DEF ShrinkToCapacity, Evictions
<1>3. Evictions(l, c, N, g)
  <2>1. \E h : Evictions(l, c, N, h)
    BY <1>1, EvictionsExist
  <2> QED BY <2>1
<1> HIDE DEF g
<1>4. \A m \in 0 .. N : g[m] = IF m = 0 THEN l ELSE EvictOldest(g[m - 1], c)
  BY <1>3 DEF Evictions
<1> DEFINE T == {m \in 0 .. N : ~Shrunk(l, g[m], n)}
<1>5. T = {}
  <2>1. SUFFICES ASSUME T # {} PROVE FALSE
    OBVIOUS
  <2>2. PICK m \in T : \A k \in T : m <= k
    <3>1. T \in SUBSET Nat
      BY <1>1
    <3> HIDE DEF T
    <3> QED BY <2>1, <3>1, LeastNat
  <2>3. m # 0
    <3>1. Shrunk(l, l, n)
      BY DEF Shrunk
    <3> QED BY <3>1, <2>2, <1>1, <1>4
  <2>4. m - 1 \in 0 .. N /\ Shrunk(l, g[m - 1], n)
    BY <2>2, <2>3, <1>1
  <2>5. g[m] = EvictOldest(g[m - 1], c)
    BY <2>2, <2>3, <1>4
  <2> DEFINE p == g[m - 1]
  <2> HIDE DEF p
  <2>6. Good(p, n) /\ Shrunk(l, p, n)
    BY <2>4 DEF Shrunk, p
  <2>7. Shrunk(l, EvictOldest(p, c), n)
    <3>1. Shrunk(p, EvictOldest(p, c), n)
      BY <2>6, EvictOldestKeeps
    <3> QED BY <3>1, <2>6 DEF Shrunk
  <2> QED BY <2>2, <2>5, <2>7 DEF p
<1> QED BY <1>1, <1>2, <1>5

-----------------------------------------------------------------------------
(* The operations of the cache. *)

CacheInv == TypeOK /\ Good(lists, BucketsFor(capacity)) /\ LocksInv

LEMMA CacheFacts ==
  ASSUME CacheInv
  PROVE  /\ capacity \in Nat /\ BucketsFor(capacity) \in Nat \ {0}
         /\ key \in [Items -> Keys] /\ pins \in [Items -> Nat]
         /\ held \in [Threads -> [Items -> Nat]]
         /\ lists \in Lists(BucketsFor(capacity))
         /\ Good(lists, BucketsFor(capacity))
         /\ \A i \in Range(lists.queue) \cup Range(lists.evicted) : i \in Items
<1>1. lists \in Lists(BucketsFor(capacity))
  BY DEF CacheInv, TypeOK
<1>2. \A i \in Range(lists.queue) \cup Range(lists.evicted) : i \in Items
  BY <1>1 DEF Lists, Range
<1> QED BY <1>1, <1>2, Buckets, CapacityAssumption DEF CacheInv, TypeOK

(* Without a looped bucket a walk changes nothing. *)
LEMMA WalkNothing ==
  ASSUME NEW n, NEW l \in Lists(n), Hashed(l), NEW k
  PROVE  WalkAll(l, k) = l
<1>1. l.broken = FALSE /\ l.looped = {}
  BY DEF Hashed, Lists
<1>2. WalkAll(l, k) = [l EXCEPT !.broken = FALSE]
  BY <1>1 DEF WalkAll
<1>3. [l EXCEPT !.broken = FALSE] = l
  BY <1>1 DEF Lists
<1> QED BY <1>2, <1>3

LEMMA MatchesFacts ==
  ASSUME NEW n \in Nat \ {0}, NEW l, Good(l, n), NEW k \in Keys, key \in [Items -> Keys]
  PROVE  /\ Matches(l, k) = {i \in Range(l.queue) : key[i] = k}
         /\ \A i, j \in Matches(l, k) : i = j
<1>1. l \in Lists(n) /\ DOMAIN l.chain = 0 .. n - 1 /\ BucketOf(l, k) \in 0 .. n - 1
  BY BucketFacts DEF Good, Shaped, Lists
<1>2. \A i \in Range(l.chain[BucketOf(l, k)]) : i \in Range(l.queue)
  BY <1>1 DEF Good, Hashed
<1>3. \A i \in Range(l.queue) : i \in Range(l.chain[BucketOf(l, key[i])])
  BY DEF Good, Hashed
<1>4. Matches(l, k) = {i \in Range(l.queue) : key[i] = k}
  BY <1>2, <1>3 DEF Matches
<1> QED BY <1>4 DEF Good, Hashed

(* There is room for one more, and nothing else under the key. *)
LEMMA RoomForFacts ==
  ASSUME CacheInv, NEW k \in Keys
  PROVE  /\ Shrunk(lists, RoomFor(k), BucketsFor(capacity))
         /\ \A i \in Range(RoomFor(k).queue) : key[i] # k
<1> DEFINE n == BucketsFor(capacity)
           old == Matches(lists, k)
           replaced == IF old = {} THEN WalkAll(lists, k)
                       ELSE EvictItem(lists, CHOOSE i \in old : TRUE)
<1>1. /\ capacity \in Nat /\ n \in Nat \ {0} /\ Good(lists, n) /\ lists \in Lists(n)
      /\ key \in [Items -> Keys] /\ pins \in [Items -> Nat]
  BY CacheFacts
<1>2. old = {i \in Range(lists.queue) : key[i] = k} /\ \A i, j \in old : i = j
  BY <1>1, MatchesFacts
<1>3. RoomFor(k) = ShrinkToCapacity(replaced, capacity - 1)
  BY DEF RoomFor
<1> HIDE DEF n, old, replaced
<1>4. Shrunk(lists, replaced, n) /\ \A i \in Range(replaced.queue) : key[i] # k
  <2>1. CASE old = {}
    <3>1. replaced = lists
      BY <1>1, <2>1, WalkNothing DEF replaced, Good
    <3> QED BY <1>1, <1>2, <2>1, <3>1 DEF Shrunk
  <2>2. CASE old # {}
    <3> DEFINE i == CHOOSE j \in old : TRUE
    <3>1. i \in old /\ replaced = EvictItem(lists, i)
      BY <2>2 DEF replaced
    <3> HIDE DEF i
    <3>2. i \in Range(lists.queue) /\ \A j \in Range(lists.queue) : key[j] = k => j = i
      BY <1>2, <3>1
    <3>3. /\ Good(replaced, n)
          /\ Range(replaced.queue) = Range(lists.queue) \ {i}
          /\ replaced.alive \subseteq lists.alive
          /\ \A j \in lists.alive \ replaced.alive : pins[j] = 0
      BY <1>1, <3>1, <3>2, EvictKeeps
    <3> QED BY <3>2, <3>3 DEF Shrunk
  <2> QED BY <2>1, <2>2
<1>5. Shrunk(replaced, RoomFor(k), n)
  <2>1. Good(replaced, n) /\ capacity - 1 \in Int
    BY <1>1, <1>4 DEF Shrunk
  <2> QED BY <1>1, <1>3, <2>1, ShrinkKeeps
<1> QED BY <1>4, <1>5 DEF Shrunk, n

LEMMA MinInside == ASSUME NEW S \in SUBSET Nat, S # {} PROVE Min(S) \in S
<1>1. \E x \in S : \A y \in S : x <= y
  BY LeastNat
<1> QED BY <1>1 DEF Min

LEMMA HoldersNat ==
  ASSUME held \in [Threads -> [Items -> Nat]], NEW i \in Items
  PROVE  Holders(i) \in Nat
<1> DEFINE f == [t \in Threads |-> held[t][i]]
<1>1. f \in [Threads -> Nat]
  OBVIOUS
<1> HIDE DEF f
<1>2. \A x \in Threads : f[x] \in Nat
  BY <1>1
<1>3. SumFunctionOnSet(f, Threads) \in Nat
  BY <1>2, ThreadAssumption, SumNat
<1> QED BY <1>3 DEF Holders, f

(* The lists l with a new item under the key k. *)
Inserted(l, new, b) ==
  [l EXCEPT !.chain[b] = <<new>> \o @, !.queue = <<new>> \o @,
            !.alive = @ \cup {new}]

IsInserted(l, r, new, b, n) ==
  /\ Shaped(r, n) /\ DOMAIN r.chain = 0 .. n - 1
  /\ ~r.broken /\ r.looped = {} /\ r.evicted = l.evicted
  /\ r.alive = l.alive \cup {new}
  /\ Range(r.queue) = {new} \cup Range(l.queue)
  /\ \A c \in 0 .. n - 1 : Range(r.chain[c]) =
       IF c = b THEN {new} \cup Range(l.chain[c]) ELSE Range(l.chain[c])

LEMMA InsertFields ==
  ASSUME NEW n \in Nat \ {0}, NEW l, Good(l, n), NEW b \in 0 .. n - 1,
         NEW new \in Items \ l.alive
  PROVE  IsInserted(l, Inserted(l, new, b), new, b, n)
<1> DEFINE r == Inserted(l, new, b)
           q == <<new>> \o l.queue
           x == <<new>> \o l.chain[b]
<1>1. l \in Lists(n) /\ l.queue \in Seq(Items) /\ l.chain[b] \in Seq(Items)
  BY DEF Good, Shaped, Lists
<1>2. /\ IsInjective(l.queue) /\ IsInjective(l.chain[b])
      /\ new \notin Range(l.queue) /\ new \notin Range(l.chain[b])
  <2>1. b \in DOMAIN l.chain
    BY <1>1 DEF Lists
  <2> QED BY <2>1 DEF Good, Shaped, Hashed, Kept
<1>3. /\ q \in Seq(Items) /\ Range(q) = {new} \cup Range(l.queue) /\ IsInjective(q)
      /\ x \in Seq(Items) /\ Range(x) = {new} \cup Range(l.chain[b]) /\ IsInjective(x)
  BY <1>1, <1>2, Prepend
<1> HIDE DEF q, x
<1>4. r = [l EXCEPT !.chain[b] = x, !.queue = q, !.alive = @ \cup {new}]
  BY DEF Inserted, q, x
<1>5. /\ r \in Lists(n)
      /\ r.queue = q /\ r.chain = [l.chain EXCEPT ![b] = x] /\ r.alive = l.alive \cup {new}
      /\ r.looped = l.looped /\ r.evicted = l.evicted /\ r.broken = FALSE
  <2>1. l.broken = FALSE
    BY <1>1 DEF Good, Hashed, Lists
  <2> DEFINE y == [l EXCEPT !.chain[b] = x]
             z == [y EXCEPT !.queue = q]
  <2>2. /\ y \in Lists(n)
        /\ y.chain = [l.chain EXCEPT ![b] = x] /\ y.queue = l.queue /\ y.alive = l.alive
        /\ y.looped = l.looped /\ y.evicted = l.evicted /\ y.broken = FALSE
    BY <1>1, <1>3, <2>1 DEF Lists
  <2> HIDE DEF y
  <2>3. /\ z \in Lists(n)
        /\ z.chain = y.chain /\ z.queue = q /\ z.alive = y.alive
        /\ z.looped = y.looped /\ z.evicted = y.evicted /\ z.broken = FALSE
    BY <1>3, <2>2 DEF Lists
  <2>4. r = [z EXCEPT !.alive = @ \cup {new}]
    BY <1>4 DEF y
  <2> HIDE DEF z, r
  <2>5. /\ r \in Lists(n)
        /\ r.chain = z.chain /\ r.queue = z.queue /\ r.alive = z.alive \cup {new}
        /\ r.looped = z.looped /\ r.evicted = z.evicted /\ r.broken = FALSE
    BY <2>3, <2>4 DEF Lists
  <2> QED BY <2>2, <2>3, <2>5, <1>1 DEF Good, Hashed
<1> HIDE DEF r
<1>6. /\ DOMAIN r.chain = 0 .. n - 1
      /\ \A c \in 0 .. n - 1 : r.chain[c] = IF c = b THEN x ELSE l.chain[c]
  BY <1>1, <1>5 DEF Lists
<1>7. Shaped(r, n)
  BY <1>3, <1>5, <1>6 DEF Good, Shaped
<1>8. \A c \in 0 .. n - 1 : Range(r.chain[c]) =
        IF c = b THEN {new} \cup Range(l.chain[c]) ELSE Range(l.chain[c])
  BY <1>3, <1>6
<1>9. l.looped = {}
  BY DEF Good, Hashed
<1> QED BY <1>3, <1>5, <1>6, <1>7, <1>8, <1>9 DEF IsInserted, r

LEMMA GoodPrimed ==
  ASSUME NEW n, Good(lists', n), UNCHANGED <<key, pins>>, n = BucketsFor(capacity')
  PROVE  Good(lists, BucketsFor(capacity))'
BY DEF Good, Shaped, Hashed, Kept

(* Lists that only lost what nobody holds. *)
LEMMA ShrunkKeepsInv ==
  ASSUME CacheInv, Shrunk(lists, lists', BucketsFor(capacity)),
         capacity' \in Capacities, BucketsFor(capacity') = BucketsFor(capacity),
         pending' \in [Threads -> Operations], UNCHANGED <<key, pins, held>>
  PROVE  CacheInv'
<1>1. Good(lists', BucketsFor(capacity'))
  BY DEF Shrunk
<1>2. Good(lists, BucketsFor(capacity))'
  BY <1>1, GoodPrimed
<1>3. lists' \in Lists(BucketsFor(capacity'))
  BY <1>1 DEF Good, Shaped
<1>4. TypeOK'
  BY <1>3, CacheFacts DEF CacheInv, TypeOK
<1>5. \A i \in Items : Holders(i)' = Holders(i) /\ Holders(i) \in Nat
  BY CacheFacts, HoldersNat DEF Holders
<1>6. LocksInv'
  <2>1. \A i \in Items : /\ i \in lists.alive => pins[i] = Holders(i)
                         /\ Holders(i) > 0 => i \in lists.alive
    BY DEF CacheInv, LocksInv
  <2>2. /\ lists'.alive \subseteq lists.alive
        /\ \A i \in lists.alive \ lists'.alive : pins[i] = 0
    BY DEF Shrunk
  <2>3. ASSUME NEW i \in Items
        PROVE  /\ i \in lists'.alive => pins[i] = Holders(i)
               /\ Holders(i) > 0 => i \in lists'.alive
    BY <2>1, <2>2
  <2> QED BY <2>3, <1>5 DEF LocksInv
<1> QED BY <1>2, <1>4, <1>6 DEF CacheInv

LEMMA SameIsShrunk ==
  ASSUME CacheInv PROVE Shrunk(lists, lists, BucketsFor(capacity))
BY DEF CacheInv, Shrunk

LEMMA BeginStep ==
  ASSUME CacheInv, NEW t \in Threads, NEW o \in Operations, Begin(t, o)
  PROVE  CacheInv'
<1>1. /\ UNCHANGED <<capacity, lists, key, pins, held>>
      /\ pending' \in [Threads -> Operations]
  BY DEF Begin, CacheInv, TypeOK
<1>2. capacity' \in Capacities /\ BucketsFor(capacity') = BucketsFor(capacity)
  BY <1>1 DEF CacheInv, TypeOK
<1>3. Shrunk(lists, lists', BucketsFor(capacity))
  BY <1>1, SameIsShrunk
<1> QED BY <1>1, <1>2, <1>3, ShrunkKeepsInv

LEMMA LookupFailsStep ==
  ASSUME CacheInv, NEW t \in Threads, LookupFails(t)
  PROVE  CacheInv' /\ UNCHANGED <<key, held>> /\ pending[t] \in Operations
<1>1. Hashed(lists) /\ lists \in Lists(BucketsFor(capacity))
  BY CacheFacts DEF Good
<1>2. UNCHANGED <<capacity, lists, key, pins, held>>
  BY <1>1, WalkNothing DEF LookupFails
<1>3. pending' \in [Threads -> Operations] /\ pending[t] \in Operations
  BY DEF LookupFails, CacheInv, TypeOK, Operations
<1>4. capacity' \in Capacities /\ BucketsFor(capacity') = BucketsFor(capacity)
  BY <1>2 DEF CacheInv, TypeOK
<1>5. Shrunk(lists, lists', BucketsFor(capacity))
  BY <1>2, SameIsShrunk
<1> QED BY <1>2, <1>3, <1>4, <1>5, ShrunkKeepsInv

LEMMA ClearStep ==
  ASSUME CacheInv, Clear PROVE CacheInv' /\ UNCHANGED <<key, held, pending>>
<1>1. lists' = ShrinkToCapacity(lists, 0) /\ UNCHANGED <<capacity, key, pins, pending, held>>
  BY DEF Clear
<1>2. Shrunk(lists, lists', BucketsFor(capacity))
  BY <1>1, CacheFacts, ShrinkKeeps
<1>3. /\ capacity' \in Capacities /\ BucketsFor(capacity') = BucketsFor(capacity)
      /\ pending' \in [Threads -> Operations]
  BY <1>1 DEF CacheInv, TypeOK
<1> QED BY <1>1, <1>2, <1>3, ShrunkKeepsInv

(* An empty cache gets a table that is empty as well. *)
LEMMA SetCapacityStep ==
  ASSUME CacheInv, ~ResizeInUse, SetCapacity
  PROVE  CacheInv' /\ UNCHANGED <<key, held, pending>>
<1>1. PICK c \in Capacities :
        /\ capacity' = c
        /\ lists' = Rehashed(ShrinkToCapacity(lists, c), BucketsFor(c))
  BY DEF SetCapacity
<1> DEFINE l == ShrinkToCapacity(lists, c)
           n == BucketsFor(c)
           r == [l EXCEPT !.chain = NoItems(n), !.looped = {}]
<1>2. lists.queue = <<>> /\ UNCHANGED <<key, pins, pending, held>>
  BY DEF SetCapacity
<1>3. Shrunk(lists, l, BucketsFor(capacity)) /\ c \in Nat /\ n \in Nat \ {0}
  <2>1. c \in Nat /\ c \in Int
    BY CapacityAssumption
  <2>2. n \in Nat \ {0}
    BY <2>1, Buckets
  <2>3. Shrunk(lists, l, BucketsFor(capacity))
    BY <2>1, CacheFacts, ShrinkKeeps
  <2> QED BY <2>1, <2>2, <2>3
<1>4. /\ Good(l, BucketsFor(capacity)) /\ l \in Lists(BucketsFor(capacity))
      /\ Range(l.queue) = {} /\ l.queue \in Seq(Items)
  <2>1. Range(lists.queue) = {}
    BY <1>2 DEF Range
  <2>2. Good(l, BucketsFor(capacity)) /\ Range(l.queue) \subseteq Range(lists.queue)
    BY <1>3 DEF Shrunk
  <2> QED BY <2>1, <2>2 DEF Good, Shaped, Lists
<1>5. l.queue = <<>>
  <2>1. Len(l.queue) = 0
    <3>1. Len(l.queue) > 0 => l.queue[1] \in Range(l.queue)
      BY <1>4 DEF Range
    <3> QED BY <3>1, <1>4
  <2> QED BY <2>1, <1>4
<1> HIDE DEF l, n
<1>6. lists' = r
  BY <1>1, <1>5 DEF Rehashed, l, n
<1>7. NoItems(n) \in [0 .. n - 1 -> Seq(Items)]
  BY DEF NoItems
<1>8. /\ r \in Lists(n)
      /\ r.chain = NoItems(n) /\ r.looped = {} /\ r.queue = <<>> /\ r.evicted = l.evicted
      /\ r.alive = l.alive /\ r.broken = FALSE
  <2>1. l.broken = FALSE
    BY <1>4 DEF Good, Hashed, Lists
  <2> QED BY <1>4, <1>5, <1>7, <2>1 DEF Lists
<1> HIDE DEF r
<1>9. Good(r, n)
  <2>1. \A b \in 0 .. n - 1 : r.chain[b] = <<>> /\ IsInjective(r.chain[b])
    BY <1>8 DEF NoItems, IsInjective
  <2>2. IsInjective(r.queue) /\ IsInjective(r.evicted)
    BY <1>4, <1>8 DEF Good, Shaped, IsInjective
  <2>3. Shaped(r, n)
    BY <1>8, <2>1, <2>2 DEF Shaped
  <2>4. Range(r.queue) = {} /\ \A b \in 0 .. n - 1 : Range(r.chain[b]) = {}
    BY <1>8, <2>1 DEF Range
  <2>5. DOMAIN r.chain = 0 .. n - 1
    BY <1>8 DEF NoItems
  <2>6. Hashed(r)
    BY <1>8, <2>4, <2>5 DEF Hashed
  <2>7. Kept(r)
    BY <1>4, <1>8, <2>4 DEF Good, Kept
  <2> QED BY <2>3, <2>6, <2>7 DEF Good
<1>10. Good(lists, BucketsFor(capacity))'
  BY <1>1, <1>2, <1>6, <1>9, GoodPrimed DEF n
<1>11. TypeOK'
  BY <1>1, <1>2, <1>6, <1>8 DEF CacheInv, TypeOK, n
<1>12. LocksInv'
  <2>1. \A i \in Items : Holders(i)' = Holders(i) /\ Holders(i) \in Nat
    BY <1>2, CacheFacts, HoldersNat DEF Holders
  <2>2. /\ l.alive \subseteq lists.alive
        /\ \A i \in lists.alive \ l.alive : pins[i] = 0
    BY <1>3 DEF Shrunk
  <2>3. ASSUME NEW i \in Items
        PROVE  /\ i \in lists'.alive => pins'[i] = Holders(i)
               /\ Holders(i) > 0 => i \in lists'.alive
    <3>1. lists'.alive = l.alive /\ pins' = pins
      BY <1>2, <1>6, <1>8
    <3> QED BY <3>1, <2>1, <2>2 DEF CacheInv, LocksInv
  <2> QED BY <2>1, <2>3 DEF LocksInv
<1> QED BY <1>2, <1>10, <1>11, <1>12 DEF CacheInv

(* One more lock, or one lock less, of one thread. *)
LEMMA HoldersChange ==
  ASSUME held \in [Threads -> [Items -> Nat]], NEW t \in Threads, NEW i \in Items,
         NEW d \in {-1, 1}, held[t][i] + d \in Nat,
         held' = [held EXCEPT ![t][i] = @ + d]
  PROVE  /\ held' \in [Threads -> [Items -> Nat]]
         /\ Holders(i) \in Nat /\ Holders(i)' = Holders(i) + d
         /\ \A j \in Items \ {i} : Holders(j)' = Holders(j) /\ Holders(j) \in Nat
<1> DEFINE f == [u \in Threads |-> held[u][i]]
           g == [u \in Threads |-> held'[u][i]]
<1>1. held' \in [Threads -> [Items -> Nat]]
  OBVIOUS
<1>2. /\ \A u \in Threads : f[u] \in Int /\ g[u] \in Int
      /\ \A u \in Threads \ {t} : g[u] = f[u]
      /\ g[t] = f[t] + d
  BY <1>1
<1>3. Holders(i) = SumFunctionOnSet(f, Threads) /\ Holders(i)' = SumFunctionOnSet(g, Threads)
  BY DEF Holders
<1> HIDE DEF f, g
<1>4. SumFunctionOnSet(g, Threads) = SumFunctionOnSet(f, Threads) + g[t] - f[t]
  BY <1>2, ThreadAssumption, SumChange
<1>5. Holders(i) \in Nat
  BY HoldersNat
<1>6. Holders(i)' = Holders(i) + d
  BY <1>2, <1>3, <1>4, <1>5
<1>7. ASSUME NEW j \in Items \ {i} PROVE Holders(j)' = Holders(j) /\ Holders(j) \in Nat
  <2>1. [u \in Threads |-> held'[u][j]] = [u \in Threads |-> held[u][j]]
    OBVIOUS
  <2> QED BY <2>1, HoldersNat DEF Holders
<1> QED BY <1>1, <1>5, <1>6, <1>7

LEMMA LookupStep ==
  ASSUME CacheInv, NEW t \in Threads, LookupAndPin(t)
  PROVE  /\ CacheInv' /\ UNCHANGED key /\ pending[t] \in Operations
         /\ \E i \in Items : /\ held' = [held EXCEPT ![t][i] = @ + 1]
                             /\ key[i] = pending[t].key
<1> DEFINE k == pending[t].key
           n == BucketsFor(capacity)
<1>1. PICK i \in Matches(lists, k) :
        /\ pins' = [pins EXCEPT ![i] = @ + 1]
        /\ held' = [held EXCEPT ![t][i] = @ + 1]
  BY DEF LookupAndPin
<1>2. pending[t] \in Operations /\ k \in Keys
  BY DEF LookupAndPin, CacheInv, TypeOK, Operations, Idle
<1>3. UNCHANGED <<capacity, lists, key>>
  BY DEF LookupAndPin
<1>4. /\ n \in Nat \ {0} /\ Good(lists, n) /\ key \in [Items -> Keys]
      /\ pins \in [Items -> Nat] /\ held \in [Threads -> [Items -> Nat]]
  BY CacheFacts
<1> HIDE DEF n, k
<1>5. i \in Range(lists.queue) /\ key[i] = k /\ i \in Items
  BY <1>1, <1>2, <1>4, MatchesFacts, CacheFacts
<1>6. /\ held' \in [Threads -> [Items -> Nat]]
      /\ Holders(i) \in Nat /\ Holders(i)' = Holders(i) + 1
      /\ \A j \in Items \ {i} : Holders(j)' = Holders(j) /\ Holders(j) \in Nat
  <2>1. held[t][i] + 1 \in Nat
    BY <1>4, <1>5
  <2> QED BY <2>1, <1>1, <1>4, <1>5, HoldersChange
<1>7. pins' \in [Items -> Nat] /\ \A j \in Items : pins'[j] = IF j = i THEN pins[i] + 1 ELSE pins[j]
  BY <1>1, <1>4, <1>5
<1>8. TypeOK'
  <2>1. pending' \in [Threads -> Operations]
    BY DEF LookupAndPin, CacheInv, TypeOK, Operations
  <2> QED BY <2>1, <1>3, <1>6, <1>7 DEF CacheInv, TypeOK
<1>9. Good(lists, BucketsFor(capacity))'
  <2>1. Shaped(lists, n)' /\ Hashed(lists)'
    BY <1>3, <1>4 DEF Good, Shaped, Hashed, n
  <2>2. Kept(lists)'
    <3>1. \A j \in Range(lists.evicted) : j \in Items
      BY CacheFacts
    <3> QED BY <3>1, <1>3, <1>4, <1>7 DEF Good, Kept
  <2> QED BY <1>3, <2>1, <2>2 DEF Good, n
<1>10. LocksInv'
  <2>1. i \in lists.alive
    BY <1>4, <1>5 DEF Good, Kept
  <2>2. ASSUME NEW j \in Items
        PROVE  /\ j \in lists'.alive => pins'[j] = Holders(j)'
               /\ Holders(j)' > 0 => j \in lists'.alive
    BY <2>1, <1>3, <1>6, <1>7 DEF CacheInv, LocksInv
  <2> QED BY <2>2 DEF LocksInv
<1> QED BY <1>1, <1>2, <1>3, <1>5, <1>8, <1>9, <1>10 DEF CacheInv, k

LEMMA InsertStep ==
  ASSUME CacheInv, NEW t \in Threads, Insert(t)
  PROVE  /\ CacheInv' /\ UNCHANGED held
         /\ \A i \in Items : Holders(i) > 0 => key'[i] = key[i]
<1> DEFINE k == pending[t].key
           n == BucketsFor(capacity)
           l == RoomFor(k)
           new == Min(Items \ l.alive)
           b == BucketOf(l, k)
<1>1. /\ Items \ l.alive # {}
      /\ lists' = Inserted(l, new, b)
      /\ key' = [key EXCEPT ![new] = k]
      /\ pins' = [pins EXCEPT ![new] = 0]
      /\ pending' = [pending EXCEPT ![t] = Idle]
      /\ UNCHANGED <<capacity, held>>
  BY DEF Insert, Inserted
<1>2. k \in Keys
  BY DEF Insert, CacheInv, TypeOK, Operations, Idle
<1>3. /\ n \in Nat \ {0} /\ Good(lists, n) /\ key \in [Items -> Keys]
      /\ pins \in [Items -> Nat] /\ held \in [Threads -> [Items -> Nat]]
  BY CacheFacts
<1>4. Shrunk(lists, l, n) /\ \A i \in Range(l.queue) : key[i] # k
  BY <1>2, RoomForFacts
<1>5. Good(l, n) /\ l \in Lists(n)
  BY <1>4 DEF Shrunk, Good, Shaped
<1>6. new \in Items \ l.alive
  <2>1. Items \ l.alive \in SUBSET Nat
    BY ItemAssumption
  <2> HIDE DEF l
  <2> QED BY <2>1, <1>1, MinInside
<1> HIDE DEF n, k, l, new
<1>7. b = k % n /\ b \in 0 .. n - 1
  BY <1>2, <1>3, <1>5, BucketFacts
<1> DEFINE r == Inserted(l, new, b)
<1>8. /\ Shaped(r, n) /\ DOMAIN r.chain = 0 .. n - 1
      /\ ~r.broken /\ r.looped = {} /\ r.evicted = l.evicted
      /\ r.alive = l.alive \cup {new}
      /\ Range(r.queue) = {new} \cup Range(l.queue)
      /\ \A c \in 0 .. n - 1 : Range(r.chain[c]) =
           IF c = b THEN {new} \cup Range(l.chain[c]) ELSE Range(l.chain[c])
  <2> HIDE DEF b
  <2>1. IsInserted(l, r, new, b, n)
    BY <1>3, <1>5, <1>6, <1>7, InsertFields
  <2> HIDE DEF r
  <2> QED BY <2>1 DEF IsInserted
<1> HIDE DEF r, b
<1>9. /\ key' \in [Items -> Keys] /\ key'[new] = k
      /\ \A i \in Items \ {new} : key'[i] = key[i]
      /\ pins' \in [Items -> Nat] /\ pins'[new] = 0
      /\ \A i \in Items \ {new} : pins'[i] = pins[i]
  BY <1>1, <1>2, <1>3, <1>6
<1>10. /\ l.alive = Range(l.queue) \cup Range(l.evicted)
       /\ Range(l.queue) \cap Range(l.evicted) = {}
       /\ \A i \in Range(l.evicted) : pins[i] > 0
       /\ \A i \in Range(l.queue) \cup Range(l.evicted) : i \in Items /\ i # new
  <2>1. \A i \in Range(l.queue) \cup Range(l.evicted) : i \in Items
    BY <1>5 DEF Lists, Range
  <2> QED BY <2>1, <1>5, <1>6 DEF Good, Kept
<1>11. lists' = r
  BY <1>1 DEF r
<1>12. Hashed(lists)'
  <2>1. \A i \in Items : BucketOf(r, key'[i]) = key'[i] % n /\ BucketOf(l, key[i]) = key[i] % n
    <3>1. r \in Lists(n)
      BY <1>8 DEF Shaped
    <3> QED BY <3>1, <1>3, <1>5, <1>9, BucketFacts
  <2>2. ASSUME NEW i \in Range(r.queue)
        PROVE  i \in Range(r.chain[BucketOf(r, key'[i])])
    <3>1. CASE i = new
      BY <3>1, <2>1, <1>6, <1>7, <1>8, <1>9
    <3>2. CASE i # new
      <4>1. i \in Range(l.queue) /\ i \in Items
        BY <3>2, <1>8, <1>10
      <4>2. i \in Range(l.chain[BucketOf(l, key[i])]) /\ BucketOf(l, key[i]) \in 0 .. n - 1
        BY <4>1, <1>3, <1>5, BucketFacts DEF Good, Hashed
      <4>3. BucketOf(r, key'[i]) = BucketOf(l, key[i])
        BY <3>2, <4>1, <2>1, <1>9
      <4> QED BY <3>2, <4>2, <4>3, <1>8
    <3> QED BY <3>1, <3>2
  <2>3. ASSUME NEW c \in DOMAIN r.chain, NEW i \in Range(r.chain[c])
        PROVE  i \in Range(r.queue) /\ BucketOf(r, key'[i]) = c
    <3>1. CASE i = new
      <4>1. c \in DOMAIN l.chain
        BY <1>5, <1>8 DEF Lists
      <4>2. new \notin Range(l.chain[c])
        BY <4>1, <1>5, <1>10 DEF Good, Hashed
      <4>3. c = b
        BY <4>2, <3>1, <1>8
      <4> QED BY <3>1, <4>3, <2>1, <1>6, <1>7, <1>8, <1>9
    <3>2. CASE i # new
      <4>1. c \in DOMAIN l.chain /\ i \in Range(l.chain[c])
        BY <3>2, <1>5, <1>8 DEF Lists
      <4>2. i \in Range(l.queue) /\ BucketOf(l, key[i]) = c
        BY <4>1, <1>5 DEF Good, Hashed
      <4> QED BY <3>2, <4>2, <2>1, <1>8, <1>9, <1>10
    <3> QED BY <3>1, <3>2
  <2>4. ASSUME NEW i \in Range(r.queue), NEW j \in Range(r.queue), key'[i] = key'[j]
        PROVE  i = j
    <3>1. \A m \in Range(l.queue) : key'[m] = key[m] /\ key[m] # k
      BY <1>4, <1>9, <1>10
    <3>2. \A m, o \in Range(l.queue) : key[m] = key[o] => m = o
      BY <1>5 DEF Good, Hashed
    <3> QED BY <2>4, <3>1, <3>2, <1>8, <1>9
  <2> QED BY <1>8, <1>11, <2>2, <2>3, <2>4 DEF Hashed
<1>13. Kept(lists)'
  <2>1. \A i \in Range(r.evicted) : pins'[i] > 0
    BY <1>8, <1>9, <1>10
  <2>2. Range(r.queue) \cap Range(r.evicted) = {}
    BY <1>8, <1>10
  <2> QED BY <2>1, <2>2, <1>8, <1>10, <1>11 DEF Kept
<1>14. Good(lists, BucketsFor(capacity))'
  BY <1>1, <1>8, <1>11, <1>12, <1>13 DEF Good, Shaped, n
<1>15. TypeOK'
  <2>1. pending' \in [Threads -> Operations]
    BY <1>1 DEF CacheInv, TypeOK, Operations
  <2>2. lists' \in Lists(n)
    BY <1>8, <1>11 DEF Shaped
  <2> QED BY <1>1, <1>3, <1>9, <2>1, <2>2 DEF CacheInv, TypeOK, n
<1>16. \A i \in Items : Holders(i)' = Holders(i) /\ Holders(i) \in Nat
  BY <1>1, <1>3, HoldersNat DEF Holders
<1>17. Holders(new) = 0
  <2>1. CASE new \in lists.alive
    BY <2>1, <1>4, <1>6 DEF Shrunk, CacheInv, LocksInv
  <2>2. CASE new \notin lists.alive
    BY <2>2, <1>6, <1>16 DEF CacheInv, LocksInv
  <2> QED BY <2>1, <2>2
<1>18. LocksInv'
  <2>1. ASSUME NEW i \in Items
        PROVE  /\ i \in lists'.alive => pins'[i] = Holders(i)
               /\ Holders(i) > 0 => i \in lists'.alive
    <3>1. CASE i = new
      BY <3>1, <1>8, <1>9, <1>11, <1>17
    <3>2. CASE i # new
      <4>1. /\ l.alive \subseteq lists.alive
            /\ i \in lists.alive \ l.alive => pins[i] = 0
        BY <1>4 DEF Shrunk
      <4>2. /\ i \in lists.alive => pins[i] = Holders(i)
            /\ Holders(i) > 0 => i \in lists.alive
        BY DEF CacheInv, LocksInv
      <4> QED BY <3>2, <4>1, <4>2, <1>8, <1>9, <1>11, <1>16
    <3> QED BY <3>1, <3>2
  <2> QED BY <2>1, <1>16 DEF LocksInv
<1>19. \A i \in Items : Holders(i) > 0 => key'[i] = key[i]
  BY <1>9, <1>16, <1>17
<1> QED BY <1>1, <1>14, <1>15, <1>18, <1>19 DEF CacheInv

LEMMA UnpinStep ==
  ASSUME CacheInv, NEW t \in Threads, NEW i \in Items, Unpin(t, i)
  PROVE  /\ CacheInv' /\ UNCHANGED <<key, pending>>
         /\ held[t][i] > 0 /\ held' = [held EXCEPT ![t][i] = @ - 1]
<1> DEFINE n == BucketsFor(capacity)
<1>1. /\ n \in Nat \ {0} /\ Good(lists, n) /\ lists \in Lists(n)
      /\ key \in [Items -> Keys]
      /\ pins \in [Items -> Nat] /\ held \in [Threads -> [Items -> Nat]]
  BY CacheFacts
<1>2. /\ held[t][i] > 0 /\ held' = [held EXCEPT ![t][i] = @ - 1]
      /\ pins' = [pins EXCEPT ![i] = PinsAfter(i)]
      /\ lists' = Unpinned(i)
      /\ UNCHANGED <<capacity, key, pending>>
  BY DEF Unpin
<1> HIDE DEF n
<1>3. /\ held' \in [Threads -> [Items -> Nat]]
      /\ Holders(i) \in Nat /\ Holders(i)' = Holders(i) - 1
      /\ \A j \in Items \ {i} : Holders(j)' = Holders(j) /\ Holders(j) \in Nat
  <2>1. held[t][i] + (-1) \in Nat /\ held[t][i] + (-1) = held[t][i] - 1
    BY <1>1, <1>2
  <2>2. held' = [held EXCEPT ![t][i] = @ + (-1)]
    BY <1>2, <2>1
  <2>3. /\ held' \in [Threads -> [Items -> Nat]]
        /\ Holders(i) \in Nat /\ Holders(i)' = Holders(i) + (-1)
        /\ \A j \in Items \ {i} : Holders(j)' = Holders(j) /\ Holders(j) \in Nat
    BY <2>1, <2>2, <1>1, HoldersChange
  <2> QED BY <2>3
<1>4. Holders(i) > 0
  <2> DEFINE f == [u \in Threads |-> held[u][i]]
  <2>1. \A u \in Threads : f[u] \in Nat
    BY <1>1
  <2>2. f[t] = held[t][i]
    OBVIOUS
  <2>3. Holders(i) = SumFunctionOnSet(f, Threads)
    BY DEF Holders
  <2> HIDE DEF f
  <2>4. f[t] <= SumFunctionOnSet(f, Threads)
    BY <2>1, ThreadAssumption, SumAtLeast
  <2> QED BY <2>1, <2>2, <2>3, <2>4, <1>2, <1>3
<1>5. i \in lists.alive /\ pins[i] = Holders(i)
  BY <1>4 DEF CacheInv, LocksInv
<1>6. /\ lists.alive = Range(lists.queue) \cup Range(lists.evicted)
      /\ Range(lists.queue) \cap Range(lists.evicted) = {}
      /\ \A j \in Range(lists.evicted) : pins[j] > 0 /\ j \in Items
  BY <1>1, CacheFacts DEF Good, Kept
<1>7. i \in Range(lists.queue) => i \in Matches(lists, key[i])
  BY <1>1, MatchesFacts
<1>8. PinsAfter(i) = pins[i] - 1
  BY <1>5, <1>6, <1>7 DEF PinsAfter
<1>9. pins' \in [Items -> Nat] /\ \A j \in Items : pins'[j] = IF j = i THEN pins[i] - 1 ELSE pins[j]
  BY <1>1, <1>2, <1>3, <1>4, <1>5, <1>8
<1>10. /\ Shaped(lists', n) /\ Hashed(lists') /\ lists' \in Lists(n)
       /\ Range(lists'.queue) = Range(lists.queue)
       /\ \/ pins[i] = 1 /\ i \in Range(lists.evicted)
             /\ Range(lists'.evicted) = Range(lists.evicted) \ {i}
             /\ lists'.alive = lists.alive \ {i}
          \/ (i \in Range(lists.evicted) => pins[i] > 1) /\ lists' = lists
  <2>1. CASE i \in Range(lists.evicted) /\ ~(pins[i] > 1)
    <3> DEFINE e == Without(lists.evicted, i)
               v == [lists EXCEPT !.evicted = e, !.alive = @ \ {i}]
    <3>1. lists' = v
      BY <1>2, <2>1 DEF Unpinned
    <3>2. e \in Seq(Items) /\ IsInjective(e) /\ Range(e) = Range(lists.evicted) \ {i}
      <4>1. lists.evicted \in Seq(Items) /\ IsInjective(lists.evicted)
        BY <1>1 DEF Good, Shaped, Lists
      <4> QED BY <4>1, WithoutFacts
    <3> HIDE DEF e
    <3>3. lists.broken = FALSE
      BY <1>1 DEF Good, Hashed, Lists
    <3>4. /\ v \in Lists(n)
          /\ v.queue = lists.queue /\ v.chain = lists.chain /\ v.looped = lists.looped
          /\ v.broken = FALSE /\ v.evicted = e /\ v.alive = lists.alive \ {i}
      BY <1>1, <3>2, <3>3 DEF Lists
    <3> HIDE DEF v
    <3>5. Shaped(v, n)
      BY <1>1, <3>2, <3>4 DEF Good, Shaped
    <3>6. Hashed(v)
      <4>1. \A k : BucketOf(v, k) = BucketOf(lists, k)
        BY <3>4 DEF BucketOf
      <4> QED BY <1>1, <3>4, <4>1 DEF Good, Hashed
    <3>7. pins[i] = 1
      BY <2>1, <1>3, <1>4, <1>5
    <3> QED BY <2>1, <3>1, <3>2, <3>4, <3>5, <3>6, <3>7
  <2>2. CASE i \in Range(lists.evicted) /\ pins[i] > 1
    <3>1. lists' = lists
      BY <1>2, <2>2 DEF Unpinned
    <3> QED BY <2>2, <3>1, <1>1 DEF Good
  <2>3. CASE i \notin Range(lists.evicted)
    <3>1. lists' = lists
      BY <1>2, <1>5, <1>6, <1>7, <2>3 DEF Unpinned
    <3> QED BY <2>3, <3>1, <1>1 DEF Good
  <2> QED BY <2>1, <2>2, <2>3
<1>11. Good(lists, BucketsFor(capacity))'
  <2>1. Shaped(lists, n)' /\ Hashed(lists)'
    BY <1>2, <1>10 DEF Shaped, Hashed, n
  <2>2. Kept(lists)'
    <3>1. CASE /\ pins[i] = 1 /\ i \in Range(lists.evicted)
               /\ Range(lists'.evicted) = Range(lists.evicted) \ {i}
               /\ lists'.alive = lists.alive \ {i}
      BY <3>1, <1>6, <1>9, <1>10 DEF Kept
    <3>2. CASE (i \in Range(lists.evicted) => pins[i] > 1) /\ lists' = lists
      <4>1. \A j \in Range(lists.evicted) : pins'[j] > 0
        BY <3>2, <1>1, <1>6, <1>9
      <4> QED BY <3>2, <4>1, <1>6 DEF Kept
    <3> QED BY <3>1, <3>2, <1>10
  <2> QED BY <1>2, <2>1, <2>2 DEF Good, n
<1>12. TypeOK'
  BY <1>1, <1>2, <1>3, <1>9, <1>10 DEF CacheInv, TypeOK, n
<1>13. LocksInv'
  <2>1. ASSUME NEW j \in Items
        PROVE  /\ j \in lists'.alive => pins'[j] = Holders(j)'
               /\ Holders(j)' > 0 => j \in lists'.alive
    <3>1. /\ j \in lists.alive => pins[j] = Holders(j)
          /\ Holders(j) > 0 => j \in lists.alive
      BY DEF CacheInv, LocksInv
    <3>2. CASE j = i
      BY <3>2, <1>3, <1>4, <1>5, <1>9, <1>10
    <3>3. CASE j # i
      BY <3>1, <3>3, <1>3, <1>9, <1>10
    <3> QED BY <3>2, <3>3
  <2> QED BY <2>1 DEF LocksInv
<1> QED BY <1>2, <1>11, <1>12, <1>13 DEF CacheInv

LEMMA CacheInitHolds == CacheInit => CacheInv
<1> SUFFICES ASSUME CacheInit PROVE CacheInv
  OBVIOUS
<1> DEFINE n == BucketsFor(capacity)
<1>1. capacity \in Capacities /\ capacity \in Nat /\ n \in Nat \ {0}
  BY CapacityAssumption, Buckets DEF CacheInit
<1> HIDE DEF n
<1>2. lists = [chain |-> NoItems(n), looped |-> {}, queue |-> <<>>, evicted |-> <<>>,
               alive |-> {}, broken |-> FALSE]
  BY DEF CacheInit, n
<1>3. NoItems(n) \in [0 .. n - 1 -> Seq(Items)]
  BY DEF NoItems
<1>4. /\ lists \in Lists(n)
      /\ lists.chain = NoItems(n) /\ lists.looped = {} /\ lists.queue = <<>>
      /\ lists.evicted = <<>> /\ lists.alive = {} /\ ~lists.broken
  BY <1>2, <1>3 DEF Lists
<1>5. /\ key \in [Items -> Keys] /\ pins \in [Items -> Nat]
      /\ pending \in [Threads -> Operations]
      /\ held = [t \in Threads |-> [i \in Items |-> 0]]
      /\ held \in [Threads -> [Items -> Nat]]
  <2>1. key \in [Items -> Keys]
    <3>1. (CHOOSE k \in Keys : TRUE) \in Keys
      BY KeyAssumption
    <3> QED BY <3>1 DEF CacheInit
  <2> QED BY <2>1 DEF CacheInit, Operations
<1>6. Good(lists, n)
  <2>1. DOMAIN lists.chain = 0 .. n - 1 /\ \A b \in 0 .. n - 1 : lists.chain[b] = <<>>
    BY <1>4 DEF NoItems
  <2>2. IsInjective(<<>>) /\ Range(<<>>) = {}
    BY DEF IsInjective, Range
  <2>3. Shaped(lists, n)
    BY <1>4, <2>1, <2>2 DEF Shaped
  <2>4. Hashed(lists)
    BY <1>4, <2>1, <2>2 DEF Hashed
  <2>5. Kept(lists)
    BY <1>4, <2>2 DEF Kept
  <2> QED BY <2>3, <2>4, <2>5 DEF Good
<1>7. \A i \in Items : Holders(i) = 0
  <2>1. ASSUME NEW i \in Items PROVE Holders(i) = 0
    <3> DEFINE f == [t \in Threads |-> held[t][i]]
    <3>1. \A t \in Threads : f[t] = 0
      BY <1>5
    <3>2. Holders(i) = SumFunctionOnSet(f, Threads)
      BY DEF Holders
    <3> HIDE DEF f
    <3> QED BY <3>1, <3>2, ThreadAssumption, SumZero
  <2> QED BY <2>1
<1> QED BY <1>1, <1>4, <1>5, <1>6, <1>7 DEF CacheInv, TypeOK, LocksInv, n

-----------------------------------------------------------------------------
(* The batches. *)

Entries == [hash : Keys, lock : Items \cup {NoItem}, parent : Nat \cup {NoParent}]
Goals ==
  [is : {"gathering", "hit", "input", "reading"}] \cup [is : {"inserting"}, at : Nat]

(* The entries of a batch that hold a lock on an item, and the misses      *)
(* before an entry.                                                        *)
Locking(b, i) == {n \in DOMAIN b : b[n].lock = i}
Earlier(b, n) == {m \in 1 .. n - 1 : b[m].lock = NoItem}

EntryOK(b, n, k) ==
  IF b[n].lock = NoItem THEN b[n].parent = Cardinality(Earlier(b, n))
  ELSE b[n].parent = NoParent /\ k[b[n].lock] = b[n].hash

(* A batch holds the locks of its thread, one for each hit. *)
BatchOK(b, h, k) ==
  /\ b \in Seq(Entries)
  /\ \A n \in DOMAIN b : EntryOK(b, n, k)
  /\ \A i \in Items : h[i] = Cardinality(Locking(b, i))

(* A thread that looks something up gathers; one that inserts is at an     *)
(* entry of its batch.                                                     *)
GoalOK(t) ==
  /\ pending[t].op = "lookup" => goal[t].is \in {"hit", "input"}
  /\ goal[t].is = "inserting" => goal[t].at \in DOMAIN batch[t]

BatchInv ==
  /\ batch \in [Threads -> Seq(Entries)]
  /\ goal \in [Threads -> Goals]
  /\ \A t \in Threads : BatchOK(batch[t], held[t], key) /\ GoalOK(t)

IInv == CacheInv /\ BatchInv

LEMMA LockingFacts ==
  ASSUME NEW b \in Seq(Entries)
  PROVE  /\ \A i : IsFiniteSet(Locking(b, i)) /\ Cardinality(Locking(b, i)) \in Nat
         /\ \A n \in DOMAIN b : IsFiniteSet(Earlier(b, n)) /\ Cardinality(Earlier(b, n)) \in Nat
<1>1. DOMAIN b = 1 .. Len(b) /\ Len(b) \in Nat
  OBVIOUS
<1>2. IsFiniteSet(1 .. Len(b))
  BY <1>1, FS_Interval
<1>3. \A i : Locking(b, i) \subseteq 1 .. Len(b)
  BY <1>1 DEF Locking
<1>4. \A n \in DOMAIN b : Earlier(b, n) \subseteq 1 .. Len(b)
  BY <1>1 DEF Earlier
<1> QED BY <1>2, <1>3, <1>4, FS_Subset, FS_CardinalityType

(* The thread has a lock on the item of each hit of its batch. *)
LEMMA HitIsHeld ==
  ASSUME CacheInv, NEW t \in Threads, NEW b, NEW k, BatchOK(b, held[t], k), NEW n \in DOMAIN b,
         b[n].lock # NoItem
  PROVE  b[n].lock \in Items /\ held[t][b[n].lock] > 0 /\ Holders(b[n].lock) > 0
<1> DEFINE i == b[n].lock
           f == [u \in Threads |-> held[u][i]]
<1>1. b \in Seq(Entries) /\ i \in Items
  <2>1. b[n] \in Entries
    BY DEF BatchOK
  <2> QED BY <2>1 DEF BatchOK, Entries
<1>2. held[t][i] > 0
  <2>1. n \in Locking(b, i)
    BY DEF Locking
  <2>2. Cardinality(Locking(b, i)) # 0
    BY <2>1, <1>1, LockingFacts, FS_EmptySet
  <2> QED BY <1>1, <2>2, LockingFacts DEF BatchOK
<1>3. /\ \A u \in Threads : f[u] \in Nat
      /\ f[t] = held[t][i] /\ Holders(i) = SumFunctionOnSet(f, Threads)
      /\ Holders(i) \in Nat
  BY <1>1, CacheFacts, HoldersNat DEF Holders
<1> HIDE DEF f, i
<1>4. f[t] <= SumFunctionOnSet(f, Threads)
  BY <1>3, ThreadAssumption, SumAtLeast
<1> QED BY <1>1, <1>2, <1>3, <1>4 DEF i

LEMMA Appended ==
  ASSUME NEW b \in Seq(Entries), NEW e \in Entries
  PROVE  LET c == Append(b, e) IN
         /\ c \in Seq(Entries) /\ DOMAIN c = 1 .. Len(b) + 1 /\ DOMAIN b = 1 .. Len(b)
         /\ c[Len(b) + 1] = e /\ \A n \in 1 .. Len(b) : c[n] = b[n]
         /\ \A i : Locking(c, i) = IF e.lock = i THEN Locking(b, i) \cup {Len(b) + 1}
                                   ELSE Locking(b, i)
         /\ \A n \in 1 .. Len(b) + 1 : Earlier(c, n) = Earlier(b, n)
<1> DEFINE c == Append(b, e)
<1>1. /\ c \in Seq(Entries) /\ DOMAIN c = 1 .. Len(b) + 1 /\ DOMAIN b = 1 .. Len(b)
      /\ c[Len(b) + 1] = e /\ \A n \in 1 .. Len(b) : c[n] = b[n]
  OBVIOUS
<1> HIDE DEF c
<1>2. ASSUME NEW i
      PROVE  Locking(c, i) = IF e.lock = i THEN Locking(b, i) \cup {Len(b) + 1}
                             ELSE Locking(b, i)
  <2>1. \A n : n \in DOMAIN c <=> n \in DOMAIN b \/ n = Len(b) + 1
    BY <1>1
  <2> QED BY <2>1, <1>1 DEF Locking
<1>3. ASSUME NEW n \in 1 .. Len(b) + 1 PROVE Earlier(c, n) = Earlier(b, n)
  <2>1. \A m \in 1 .. n - 1 : c[m] = b[m]
    BY <1>1
  <2> QED BY <2>1 DEF Earlier
<1> QED BY <1>1, <1>2, <1>3 DEF c

LEMMA AppendHit ==
  ASSUME NEW b, NEW h, NEW k, BatchOK(b, h, k), NEW g, NEW e \in Entries,
         e.lock \in Items, e.parent = NoParent, k[e.lock] = e.hash,
         \A i \in Items : g[i] = IF i = e.lock THEN h[i] + 1 ELSE h[i]
  PROVE  BatchOK(Append(b, e), g, k)
<1> DEFINE c == Append(b, e)
<1>1. b \in Seq(Entries) /\ Len(b) \in Nat
  BY DEF BatchOK
<1>2. /\ c \in Seq(Entries) /\ DOMAIN c = 1 .. Len(b) + 1 /\ DOMAIN b = 1 .. Len(b)
      /\ c[Len(b) + 1] = e /\ \A n \in 1 .. Len(b) : c[n] = b[n]
      /\ \A i : Locking(c, i) = IF e.lock = i THEN Locking(b, i) \cup {Len(b) + 1}
                                ELSE Locking(b, i)
      /\ \A n \in 1 .. Len(b) + 1 : Earlier(c, n) = Earlier(b, n)
  BY <1>1, Appended
<1> HIDE DEF c
<1>3. ASSUME NEW n \in DOMAIN c PROVE EntryOK(c, n, k)
  <2>1. CASE n = Len(b) + 1
    BY <2>1, <1>2, NoItemAssumption DEF EntryOK
  <2>2. CASE n \in 1 .. Len(b)
    BY <2>2, <1>2 DEF BatchOK, EntryOK
  <2> QED BY <2>1, <2>2, <1>1, <1>2
<1>4. ASSUME NEW i \in Items PROVE g[i] = Cardinality(Locking(c, i))
  <2>1. h[i] = Cardinality(Locking(b, i)) /\ IsFiniteSet(Locking(b, i))
    BY <1>1, LockingFacts DEF BatchOK
  <2>2. CASE i = e.lock
    <3>1. Len(b) + 1 \notin Locking(b, i)
      BY <1>1, <1>2 DEF Locking
    <3>2. Cardinality(Locking(b, i) \cup {Len(b) + 1}) = Cardinality(Locking(b, i)) + 1
      BY <2>1, <3>1, FS_AddElement
    <3> QED BY <2>1, <2>2, <3>2, <1>2
  <2>3. CASE i # e.lock
    BY <2>1, <2>3, <1>2
  <2> QED BY <2>2, <2>3
<1> QED BY <1>2, <1>3, <1>4 DEF BatchOK, c

LEMMA AppendMiss ==
  ASSUME NEW b, NEW h, NEW k, BatchOK(b, h, k), NEW e \in Entries,
         e.lock = NoItem, e.parent = Misses(b)
  PROVE  BatchOK(Append(b, e), h, k)
<1> DEFINE c == Append(b, e)
<1>1. b \in Seq(Entries) /\ Len(b) \in Nat
  BY DEF BatchOK
<1>2. /\ c \in Seq(Entries) /\ DOMAIN c = 1 .. Len(b) + 1 /\ DOMAIN b = 1 .. Len(b)
      /\ c[Len(b) + 1] = e /\ \A n \in 1 .. Len(b) : c[n] = b[n]
      /\ \A i : Locking(c, i) = IF e.lock = i THEN Locking(b, i) \cup {Len(b) + 1}
                                ELSE Locking(b, i)
      /\ \A n \in 1 .. Len(b) + 1 : Earlier(c, n) = Earlier(b, n)
  BY <1>1, Appended
<1>3. Misses(b) = Cardinality(Earlier(b, Len(b) + 1))
  <2>1. \A n \in DOMAIN b : b[n].parent # NoParent <=> b[n].lock = NoItem
    <3>1. ASSUME NEW n \in DOMAIN b PROVE b[n].parent # NoParent <=> b[n].lock = NoItem
      <4>1. EntryOK(b, n, k) /\ Cardinality(Earlier(b, n)) \in Nat
        BY <1>1, LockingFacts DEF BatchOK
      <4> QED BY <4>1 DEF EntryOK, NoParent
    <3> QED BY <3>1
  <2>2. {n \in DOMAIN b : b[n].parent # NoParent} = Earlier(b, Len(b) + 1)
    BY <2>1, <1>1, <1>2 DEF Earlier
  <2> QED BY <2>2 DEF Misses
<1> HIDE DEF c
<1>4. ASSUME NEW n \in DOMAIN c PROVE EntryOK(c, n, k)
  <2>1. CASE n = Len(b) + 1
    BY <2>1, <1>2, <1>3 DEF EntryOK
  <2>2. CASE n \in 1 .. Len(b)
    BY <2>2, <1>2 DEF BatchOK, EntryOK
  <2> QED BY <2>1, <2>2, <1>1, <1>2
<1>5. \A i \in Items : h[i] = Cardinality(Locking(c, i))
  BY <1>2, NoItemAssumption DEF BatchOK
<1> QED BY <1>2, <1>4, <1>5 DEF BatchOK, c

(* The batch without its last entry, and the locks without that of it. *)
LEMMA FrontKeeps ==
  ASSUME NEW b, NEW h, NEW k, BatchOK(b, h, k), b # <<>>, NEW g,
         \A i \in Items : g[i] = IF i = Last(b).lock THEN h[i] - 1 ELSE h[i]
  PROVE  BatchOK(Front(b), g, k) /\ DOMAIN Front(b) = 1 .. Len(b) - 1
<1> DEFINE c == Front(b)
<1>1. b \in Seq(Entries) /\ Len(b) \in Nat \ {0}
  BY DEF BatchOK
<1>2. /\ c \in Seq(Entries) /\ DOMAIN c = 1 .. Len(b) - 1 /\ DOMAIN b = 1 .. Len(b)
      /\ \A n \in 1 .. Len(b) - 1 : c[n] = b[n]
      /\ b[Len(b)] = Last(b)
  BY <1>1 DEF Front, Last
<1> HIDE DEF c
<1>3. ASSUME NEW n \in DOMAIN c PROVE EntryOK(c, n, k)
  <2>1. n \in DOMAIN b /\ c[n] = b[n] /\ EntryOK(b, n, k)
    BY <1>1, <1>2 DEF BatchOK
  <2>2. \A m \in 1 .. n - 1 : c[m] = b[m]
    BY <1>1, <1>2
  <2>3. Earlier(c, n) = Earlier(b, n)
    BY <2>2 DEF Earlier
  <2> QED BY <2>1, <2>3 DEF EntryOK
<1>4. ASSUME NEW i \in Items PROVE g[i] = Cardinality(Locking(c, i))
  <2>1. h[i] = Cardinality(Locking(b, i)) /\ IsFiniteSet(Locking(b, i))
    BY <1>1, LockingFacts DEF BatchOK
  <2>2. Locking(c, i) = Locking(b, i) \ {Len(b)}
    <3>1. \A n : n \in DOMAIN c <=> n \in DOMAIN b /\ n # Len(b)
      BY <1>1, <1>2
    <3> QED BY <3>1, <1>2 DEF Locking
  <2>3. CASE i = Last(b).lock
    <3>1. Len(b) \in Locking(b, i)
      BY <1>1, <1>2, <2>3 DEF Locking
    <3>2. Cardinality(Locking(b, i) \ {Len(b)}) = Cardinality(Locking(b, i)) - 1
      BY <2>1, <3>1, FS_RemoveElement
    <3> QED BY <2>1, <2>2, <2>3, <3>2
  <2>4. CASE i # Last(b).lock
    <3>1. Len(b) \notin Locking(b, i)
      BY <1>2, <2>4 DEF Locking
    <3>2. Locking(c, i) = Locking(b, i)
      BY <2>2, <3>1
    <3> QED BY <2>1, <2>4, <3>2
  <2> QED BY <2>3, <2>4
<1> QED BY <1>2, <1>3, <1>4 DEF BatchOK, c

KeysKept == \A i \in Items : Holders(i) > 0 => key'[i] = key[i]

LEMMA BatchStays ==
  ASSUME CacheInv, KeysKept, NEW u \in Threads, NEW b, BatchOK(b, held[u], key)
  PROVE  BatchOK(b, held[u], key')
<1>1. b \in Seq(Entries)
  BY DEF BatchOK
<1>2. ASSUME NEW n \in DOMAIN b PROVE EntryOK(b, n, key')
  <2>1. CASE b[n].lock = NoItem
    BY <2>1 DEF BatchOK, EntryOK
  <2>2. CASE b[n].lock # NoItem
    <3>1. b[n].lock \in Items /\ Holders(b[n].lock) > 0
      BY <2>2, HitIsHeld
    <3> QED BY <3>1, <2>2 DEF BatchOK, EntryOK, KeysKept
  <2> QED BY <2>1, <2>2
<1> QED BY <1>1, <1>2 DEF BatchOK

(* A step of one thread leaves the batches of the others as they are. *)
LEMMA OneThread ==
  ASSUME IInv, KeysKept, NEW t \in Threads, NEW b, NEW g \in Goals,
         batch' = [batch EXCEPT ![t] = b], goal' = [goal EXCEPT ![t] = g],
         \A u \in Threads \ {t} : held'[u] = held[u] /\ pending'[u] = pending[u],
         BatchOK(b, held'[t], key'),
         pending'[t].op = "lookup" => g.is \in {"hit", "input"},
         g.is = "inserting" => g.at \in DOMAIN b
  PROVE  BatchInv'
<1>1. /\ batch \in [Threads -> Seq(Entries)] /\ goal \in [Threads -> Goals]
      /\ \A u \in Threads : BatchOK(batch[u], held[u], key) /\ GoalOK(u)
  BY DEF IInv, BatchInv
<1>2. b \in Seq(Entries)
  BY DEF BatchOK
<1>3. /\ batch' \in [Threads -> Seq(Entries)] /\ goal' \in [Threads -> Goals]
      /\ batch'[t] = b /\ goal'[t] = g
      /\ \A u \in Threads \ {t} : batch'[u] = batch[u] /\ goal'[u] = goal[u]
  BY <1>1, <1>2
<1>4. ASSUME NEW u \in Threads
      PROVE  BatchOK(batch'[u], held'[u], key') /\ GoalOK(u)'
  <2>1. CASE u = t
    BY <2>1, <1>3 DEF GoalOK
  <2>2. CASE u # t
    <3>1. BatchOK(batch[u], held[u], key')
      BY <1>1, BatchStays DEF IInv
    <3>2. GoalOK(u)'
      BY <2>2, <1>1, <1>3 DEF GoalOK
    <3> QED BY <2>2, <3>1, <3>2, <1>3
  <2> QED BY <2>1, <2>2
<1> QED BY <1>3, <1>4 DEF BatchInv

LEMMA ThreadFacts ==
  ASSUME IInv, NEW t \in Threads
  PROVE  /\ CacheInv /\ BatchOK(batch[t], held[t], key) /\ GoalOK(t)
         /\ batch[t] \in Seq(Entries) /\ goal[t] \in Goals /\ pending[t] \in Operations
         /\ held \in [Threads -> [Items -> Nat]] /\ pending \in [Threads -> Operations]
         /\ batch \in [Threads -> Seq(Entries)] /\ goal \in [Threads -> Goals]
BY DEF IInv, BatchInv, CacheInv, TypeOK

LEMMA SameBatch ==
  ASSUME IInv, NEW t \in Threads, UNCHANGED batch
  PROVE  batch' = [batch EXCEPT ![t] = batch[t]]
BY ThreadFacts

LEMMA SameGoal ==
  ASSUME IInv, NEW t \in Threads, UNCHANGED goal
  PROVE  goal' = [goal EXCEPT ![t] = goal[t]]
BY ThreadFacts

LEMMA MissesNat == ASSUME NEW b \in Seq(Entries) PROVE Misses(b) \in Nat
<1>1. {n \in DOMAIN b : b[n].parent # NoParent} \subseteq 1 .. Len(b) /\ Len(b) \in Nat
  OBVIOUS
<1>2. IsFiniteSet(1 .. Len(b))
  BY <1>1, FS_Interval
<1> QED BY <1>1, <1>2, FS_Subset, FS_CardinalityType DEF Misses

LEMMA MissAppended ==
  ASSUME NEW b, NEW h, NEW k, BatchOK(b, h, k), NEW x \in Keys
  PROVE  BatchOK(Append(b, Miss(b, x)), h, k)
<1> DEFINE e == Miss(b, x)
<1>1. e \in Entries /\ e.lock = NoItem /\ e.parent = Misses(b)
  <2>1. Misses(b) \in Nat
    BY MissesNat DEF BatchOK
  <2> QED BY <2>1 DEF Miss, Entries
<1> HIDE DEF e
<1>2. BatchOK(Append(b, e), h, k)
  BY <1>1, AppendMiss
<1> QED BY <1>2 DEF e

LEMMA BeginLookupStep ==
  ASSUME IInv, NEW t \in Threads, NEW k \in Keys, NEW is \in {"hit", "input"},
         BeginLookup(t, k, is)
  PROVE  IInv'
<1> DEFINE o == [op |-> "lookup", key |-> k]
<1>1. CASE capacity # 0
  <2>1. Begin(t, o) /\ goal' = [goal EXCEPT ![t] = [is |-> is]] /\ UNCHANGED batch
    BY <1>1 DEF BeginLookup, Goal
  <2>2. o \in Operations /\ [is |-> is] \in Goals /\ [is |-> is].is = is
    BY DEF Operations, Goals
  <2>3. /\ UNCHANGED <<key, held>> /\ pending' = [pending EXCEPT ![t] = o]
    BY <2>1 DEF Begin
  <2>4. CacheInv'
    BY <2>1, <2>2, ThreadFacts, BeginStep
  <2>5. BatchOK(batch[t], held'[t], key') /\ KeysKept
    BY <2>3, ThreadFacts DEF KeysKept
  <2>6. \A u \in Threads \ {t} : held'[u] = held[u] /\ pending'[u] = pending[u]
    BY <2>3, ThreadFacts
  <2>7. [is |-> is].is \in {"hit", "input"} /\ [is |-> is].is # "inserting"
    OBVIOUS
  <2> DEFINE g == [is |-> is]
  <2> HIDE DEF g, o
  <2>8. BatchInv'
    BY <2>1, <2>2, <2>5, <2>6, <2>7, SameBatch, OneThread DEF g
  <2> QED BY <2>4, <2>8 DEF IInv
<1>2. CASE capacity = 0
  <2>1. /\ batch' = [batch EXCEPT ![t] = Append(batch[t], Miss(batch[t], k))]
        /\ UNCHANGED <<capacity, lists, key, pins, pending, held, goal>>
    BY <1>2, ThreadFacts DEF BeginLookup, Add, cacheVars
  <2>2. CacheInv'
    BY <2>1, ThreadFacts, SameIsShrunk, ShrunkKeepsInv DEF CacheInv, TypeOK
  <2>3. BatchOK(Append(batch[t], Miss(batch[t], k)), held'[t], key') /\ KeysKept
    BY <2>1, ThreadFacts, MissAppended DEF KeysKept
  <2>4. goal[t] \in Goals /\ goal[t].is = "gathering"
    BY ThreadFacts DEF BeginLookup, Gathering
  <2>5. \A u \in Threads : held'[u] = held[u] /\ pending'[u] = pending[u]
    BY <2>1
  <2>6. pending'[t].op = "lookup" => goal[t].is \in {"hit", "input"}
    BY <2>5, ThreadFacts DEF GoalOK
  <2>7. BatchInv'
    BY <2>1, <2>3, <2>4, <2>5, <2>6, SameGoal, OneThread
  <2> QED BY <2>2, <2>7 DEF IInv
<1> QED BY <1>1, <1>2

LEMMA AddHitStep == ASSUME IInv, NEW t \in Threads, AddHit(t) PROVE IInv'
<1>1. LookupAndPin(t) /\ goal' = [goal EXCEPT ![t] = Gathering]
  BY DEF AddHit, Goal
<1>2. CacheInv' /\ UNCHANGED key
  BY <1>1, ThreadFacts, LookupStep
<1>3. PICK i \in Items : held' = [held EXCEPT ![t][i] = @ + 1]
  BY <1>1, ThreadFacts, LookupStep
<1>4. PICK j \in Items : /\ held'[t][j] > held[t][j]
                         /\ batch' = [batch EXCEPT ![t] = Append(@, Hit(key[j], j))]
  BY DEF AddHit, Add
<1>5. /\ \A u \in Threads \ {t} : held'[u] = held[u]
      /\ \A m \in Items : held'[t][m] = IF m = i THEN held[t][m] + 1 ELSE held[t][m]
      /\ \A m \in Items : held[t][m] \in Nat
  BY <1>3, ThreadFacts
<1>6. j = i
  BY <1>4, <1>5
<1> DEFINE e == Hit(key[j], j)
<1>7. /\ e \in Entries /\ e.lock = j /\ e.parent = NoParent /\ key[e.lock] = e.hash
      /\ e.lock \in Items
  BY ThreadFacts, CacheFacts DEF Hit, Entries
<1>8. batch' = [batch EXCEPT ![t] = Append(batch[t], e)]
  BY <1>4, ThreadFacts
<1> HIDE DEF e
<1>9. BatchOK(batch[t], held[t], key)
  BY ThreadFacts
<1>10. \A m \in Items : held'[t][m] = IF m = e.lock THEN held[t][m] + 1 ELSE held[t][m]
  BY <1>5, <1>6, <1>7
<1>11. BatchOK(Append(batch[t], e), held'[t], key)
  BY <1>7, <1>9, <1>10, AppendHit
<1>12. pending' = [pending EXCEPT ![t] = Idle]
  BY <1>1 DEF LookupAndPin
<1>13. /\ \A u \in Threads \ {t} : pending'[u] = pending[u]
       /\ pending'[t].op # "lookup"
  BY <1>12, ThreadFacts DEF Idle
<1>14. Gathering \in Goals /\ Gathering.is # "inserting"
  BY DEF Gathering, Goals
<1>15. BatchOK(Append(batch[t], e), held'[t], key') /\ KeysKept
  BY <1>2, <1>11 DEF KeysKept
<1>16. BatchInv'
  BY <1>1, <1>5, <1>8, <1>13, <1>14, <1>15, OneThread
<1> QED BY <1>2, <1>16 DEF IInv

LEMMA AddMissStep == ASSUME IInv, NEW t \in Threads, AddMiss(t) PROVE IInv'
<1>1. LookupFails(t) /\ goal' = [goal EXCEPT ![t] = Gathering]
  BY DEF AddMiss, Goal
<1>2. CacheInv' /\ UNCHANGED <<key, held>> /\ pending[t] \in Operations
  BY <1>1, ThreadFacts, LookupFailsStep
<1>3. pending' = [pending EXCEPT ![t] = Idle] /\ pending[t].op = "lookup"
  BY <1>1 DEF LookupFails
<1>4. pending[t].key \in Keys
  BY <1>2, <1>3 DEF Operations, Idle
<1>5. /\ \A u \in Threads \ {t} : held'[u] = held[u] /\ pending'[u] = pending[u]
      /\ pending'[t].op # "lookup"
  BY <1>2, <1>3, ThreadFacts DEF Idle
<1>6. Gathering \in Goals /\ Gathering.is # "inserting" /\ KeysKept
  BY <1>2 DEF Gathering, Goals, KeysKept
<1>7. CASE goal[t].is = "input"
  <2> DEFINE b == Append(batch[t], Miss(batch[t], pending[t].key))
  <2>1. batch' = [batch EXCEPT ![t] = b]
    BY <1>7, ThreadFacts DEF AddMiss, Add
  <2>2. BatchOK(b, held'[t], key')
    <3>1. BatchOK(b, held[t], key)
      BY <1>4, ThreadFacts, MissAppended
    <3> QED BY <3>1, <1>2
  <2> HIDE DEF b
  <2>3. BatchInv'
    BY <1>1, <1>5, <1>6, <2>1, <2>2, OneThread
  <2> QED BY <1>2, <2>3 DEF IInv
<1>8. CASE goal[t].is # "input"
  <2>1. batch' = [batch EXCEPT ![t] = batch[t]]
    BY <1>8, SameBatch DEF AddMiss
  <2>2. BatchOK(batch[t], held'[t], key')
    BY <1>2, ThreadFacts
  <2>3. BatchInv'
    BY <1>1, <1>5, <1>6, <2>1, <2>2, OneThread
  <2> QED BY <1>2, <2>3 DEF IInv
<1> QED BY <1>7, <1>8

(* The last entry goes with its lock. *)
LEMMA Dropped ==
  ASSUME IInv, NEW t \in Threads, batch[t] # <<>>, Last(batch[t]).lock # NoItem,
         Unpin(t, Last(batch[t]).lock), Drop(t)
  PROVE  /\ CacheInv' /\ KeysKept /\ UNCHANGED pending
         /\ \A u \in Threads \ {t} : held'[u] = held[u]
         /\ batch' = [batch EXCEPT ![t] = Front(batch[t])]
         /\ BatchOK(Front(batch[t]), held'[t], key')
         /\ DOMAIN Front(batch[t]) = 1 .. Len(batch[t]) - 1
<1> DEFINE i == Last(batch[t]).lock
<1>1. i \in Items
  <2>1. Last(batch[t]) \in Entries
    BY ThreadFacts DEF Last
  <2> QED BY <2>1 DEF Entries
<1> HIDE DEF i
<1>2. CacheInv' /\ UNCHANGED <<key, pending>> /\ held' = [held EXCEPT ![t][i] = @ - 1]
  <2>1. Unpin(t, i)
    BY DEF i
  <2> QED BY <1>1, <2>1, ThreadFacts, UnpinStep
<1>3. /\ \A u \in Threads \ {t} : held'[u] = held[u]
      /\ \A m \in Items : held'[t][m] = IF m = i THEN held[t][m] - 1 ELSE held[t][m]
  BY <1>1, <1>2, ThreadFacts
<1>4. BatchOK(Front(batch[t]), held'[t], key) /\ DOMAIN Front(batch[t]) = 1 .. Len(batch[t]) - 1
  <2> DEFINE b == batch[t]
             g == held'[t]
  <2>1. BatchOK(b, held[t], key) /\ b # <<>>
    BY ThreadFacts
  <2>2. \A m \in Items : g[m] = IF m = Last(b).lock THEN held[t][m] - 1 ELSE held[t][m]
    BY <1>3 DEF i
  <2> HIDE DEF b, g
  <2>3. BatchOK(Front(b), g, key) /\ DOMAIN Front(b) = 1 .. Len(b) - 1
    BY <2>1, <2>2, FrontKeeps
  <2> QED BY <2>3 DEF b, g
<1>5. batch' = [batch EXCEPT ![t] = Front(batch[t])]
  BY ThreadFacts DEF Drop
<1> QED BY <1>2, <1>3, <1>4, <1>5 DEF KeysKept

LEMMA PopLastHitStep == ASSUME IInv, NEW t \in Threads, PopLastHit(t) PROVE IInv'
<1>1. /\ goal[t] = Gathering /\ batch[t] # <<>> /\ Last(batch[t]).lock # NoItem
      /\ Unpin(t, Last(batch[t]).lock) /\ Drop(t) /\ UNCHANGED goal
  BY DEF PopLastHit
<1>2. /\ CacheInv' /\ KeysKept /\ UNCHANGED pending
      /\ \A u \in Threads \ {t} : held'[u] = held[u]
      /\ batch' = [batch EXCEPT ![t] = Front(batch[t])]
      /\ BatchOK(Front(batch[t]), held'[t], key')
  BY <1>1, Dropped
<1>3. goal[t] \in Goals /\ goal[t].is = "gathering" /\ goal' = [goal EXCEPT ![t] = goal[t]]
  BY <1>1, ThreadFacts, SameGoal DEF Gathering
<1>4. pending'[t].op # "lookup"
  BY <1>2, <1>3, ThreadFacts DEF GoalOK
<1>5. BatchInv'
  BY <1>2, <1>3, <1>4, OneThread
<1> QED BY <1>2, <1>5 DEF IInv

(* Steps that leave the cache, and the locks, alone. *)
LEMMA CacheAlone == ASSUME IInv, UNCHANGED cacheVars PROVE CacheInv' /\ KeysKept
<1>1. CacheInv /\ UNCHANGED <<capacity, lists, key, pins, pending, held>>
  BY DEF IInv, cacheVars
<1>2. Shrunk(lists, lists', BucketsFor(capacity))
  BY <1>1, SameIsShrunk
<1>3. /\ capacity' \in Capacities /\ BucketsFor(capacity') = BucketsFor(capacity)
      /\ pending' \in [Threads -> Operations]
  BY <1>1 DEF CacheInv, TypeOK
<1> QED BY <1>1, <1>2, <1>3, ShrunkKeepsInv DEF KeysKept

LEMMA ComputeBlockingStep == ASSUME IInv, NEW t \in Threads, ComputeBlocking(t) PROVE IInv'
<1> DEFINE g == IF Misses(batch[t]) = 0 THEN [is |-> "reading"]
                ELSE [is |-> "inserting", at |-> 1]
<1>1. /\ goal[t] = Gathering /\ batch[t] # <<>> /\ goal' = [goal EXCEPT ![t] = g]
      /\ UNCHANGED cacheVars /\ UNCHANGED <<batch, held, key, pending>>
  BY DEF ComputeBlocking, Goal, cacheVars
<1>2. CacheInv' /\ KeysKept
  BY <1>1, CacheAlone
<1>3. g \in Goals /\ (g.is = "inserting" => g.at \in DOMAIN batch[t])
  <2>1. 1 \in DOMAIN batch[t]
    BY <1>1, ThreadFacts
  <2> QED BY <2>1 DEF Goals
<1> HIDE DEF g
<1>4. pending'[t].op # "lookup"
  <2>1. goal[t].is = "gathering"
    BY <1>1 DEF Gathering
  <2>2. pending[t].op # "lookup"
    BY <2>1, ThreadFacts DEF GoalOK
  <2> QED BY <1>1, <2>2
<1>5. BatchOK(batch[t], held'[t], key') /\ batch' = [batch EXCEPT ![t] = batch[t]]
  BY <1>1, ThreadFacts, SameBatch
<1>6. \A u \in Threads \ {t} : held'[u] = held[u] /\ pending'[u] = pending[u]
  BY <1>1
<1>7. BatchInv'
  BY <1>1, <1>2, <1>3, <1>4, <1>5, <1>6, OneThread
<1> QED BY <1>2, <1>7 DEF IInv

LEMMA NextGoalFacts ==
  ASSUME NEW t, batch[t] \in Seq(Entries), NEW n \in DOMAIN batch[t]
  PROVE  /\ NextGoal(t, n) \in Goals
         /\ NextGoal(t, n).is = "inserting" => NextGoal(t, n).at \in DOMAIN batch[t]
         /\ NextGoal(t, n).is \in {"reading", "inserting"}
<1>1. CASE n = Len(batch[t])
  BY <1>1 DEF NextGoal, Goals
<1>2. CASE n # Len(batch[t])
  <2>1. n + 1 \in DOMAIN batch[t] /\ n + 1 \in Nat
    BY <1>2
  <2> QED BY <1>2, <2>1 DEF NextGoal, Goals
<1> QED BY <1>1, <1>2

LEMMA BeginInsertStep == ASSUME IInv, NEW t \in Threads, BeginInsert(t) PROVE IInv'
<1> DEFINE n == goal[t].at
           o == [op |-> "insert", key |-> batch[t][n].hash]
<1>1. goal[t].is = "inserting" /\ pending[t] = Idle /\ n \in DOMAIN batch[t]
  BY ThreadFacts DEF BeginInsert, GoalOK
<1>2. CASE Inserts(batch[t][n]) /\ capacity # 0
  <2>1. Begin(t, o) /\ UNCHANGED <<batch, goal>>
    BY <1>2 DEF BeginInsert
  <2>2. o \in Operations /\ o.op # "lookup"
    <3>1. batch[t][n] \in Entries
      BY <1>1, ThreadFacts
    <3> QED BY <3>1 DEF Operations, Entries
  <2> HIDE DEF o
  <2>3. CacheInv'
    BY <2>1, <2>2, ThreadFacts, BeginStep
  <2>4. UNCHANGED <<key, held>> /\ pending' = [pending EXCEPT ![t] = o]
    BY <2>1 DEF Begin
  <2>5. /\ KeysKept /\ BatchOK(batch[t], held'[t], key')
        /\ \A u \in Threads \ {t} : held'[u] = held[u] /\ pending'[u] = pending[u]
        /\ pending'[t].op # "lookup" /\ goal[t] \in Goals
        /\ (goal[t].is = "inserting" => goal[t].at \in DOMAIN batch[t])
    BY <1>1, <2>2, <2>4, ThreadFacts DEF KeysKept
  <2>6. BatchInv'
    BY <2>1, <2>5, SameBatch, SameGoal, OneThread
  <2> QED BY <2>3, <2>6 DEF IInv
<1>3. CASE ~(Inserts(batch[t][n]) /\ capacity # 0)
  <2>1. goal' = [goal EXCEPT ![t] = NextGoal(t, n)] /\ UNCHANGED cacheVars
          /\ UNCHANGED <<batch, held, key, pending>>
    BY <1>3 DEF BeginInsert, Goal, cacheVars
  <2>2. CacheInv' /\ KeysKept
    BY <2>1, CacheAlone
  <2>3. /\ NextGoal(t, n) \in Goals
        /\ NextGoal(t, n).is = "inserting" => NextGoal(t, n).at \in DOMAIN batch[t]
    BY <1>1, ThreadFacts, NextGoalFacts
  <2>4. pending'[t].op # "lookup"
    BY <1>1, <2>1 DEF Idle
  <2>5. BatchOK(batch[t], held'[t], key') /\ batch' = [batch EXCEPT ![t] = batch[t]]
    BY <2>1, ThreadFacts, SameBatch
  <2>6. \A u \in Threads \ {t} : held'[u] = held[u] /\ pending'[u] = pending[u]
    BY <2>1
  <2>7. BatchInv'
    BY <2>1, <2>2, <2>3, <2>4, <2>5, <2>6, OneThread
  <2> QED BY <2>2, <2>7 DEF IInv
<1> QED BY <1>2, <1>3

LEMMA InsertResultStep == ASSUME IInv, NEW t \in Threads, InsertResult(t) PROVE IInv'
<1> DEFINE n == goal[t].at
<1>1. /\ goal[t].is = "inserting" /\ n \in DOMAIN batch[t] /\ Insert(t)
      /\ goal' = [goal EXCEPT ![t] = NextGoal(t, n)] /\ UNCHANGED batch
  BY ThreadFacts DEF InsertResult, GoalOK, Goal
<1>2. CacheInv' /\ UNCHANGED held /\ KeysKept
  BY <1>1, ThreadFacts, InsertStep DEF KeysKept
<1>3. pending' = [pending EXCEPT ![t] = Idle]
  BY <1>1 DEF Insert
<1>4. /\ \A u \in Threads \ {t} : held'[u] = held[u] /\ pending'[u] = pending[u]
      /\ pending'[t].op # "lookup"
  BY <1>2, <1>3, ThreadFacts DEF Idle
<1>5. BatchOK(batch[t], held'[t], key')
  BY <1>2, ThreadFacts, BatchStays
<1>6. /\ NextGoal(t, n) \in Goals
      /\ NextGoal(t, n).is = "inserting" => NextGoal(t, n).at \in DOMAIN batch[t]
  BY <1>1, ThreadFacts, NextGoalFacts
<1>7. BatchInv'
  BY <1>1, <1>2, <1>4, <1>5, <1>6, SameBatch, OneThread
<1> QED BY <1>2, <1>7 DEF IInv

LEMMA ReleaseStep == ASSUME IInv, NEW t \in Threads, Release(t) PROVE IInv'
<1> DEFINE b == batch[t]
           g == IF Len(b) = 1 THEN Gathering ELSE goal[t]
<1>1. /\ goal[t].is = "reading" /\ b # <<>> /\ Drop(t)
      /\ goal' = [goal EXCEPT ![t] = g]
  BY DEF Release, Goal
<1>2. g \in Goals /\ g.is \in {"gathering", "reading"}
  BY <1>1, ThreadFacts DEF Gathering, Goals
<1> HIDE DEF g
<1>3. CASE Last(b).lock = NoItem
  <2>1. UNCHANGED cacheVars /\ UNCHANGED <<held, key, pending>>
    BY <1>3 DEF Release, cacheVars
  <2>2. CacheInv' /\ KeysKept
    BY <2>1, CacheAlone
  <2>3. BatchOK(Front(b), held'[t], key')
    <3>1. \A i \in Items : held[t][i] = IF i = Last(b).lock THEN held[t][i] - 1 ELSE held[t][i]
      BY <1>3, NoItemAssumption
    <3>2. BatchOK(Front(b), held[t], key)
      BY <1>1, <3>1, ThreadFacts, FrontKeeps
    <3> QED BY <3>2, <2>1
  <2>4. batch' = [batch EXCEPT ![t] = Front(b)]
    BY <1>1, ThreadFacts DEF Drop
  <2>5. \A u \in Threads : held'[u] = held[u] /\ pending'[u] = pending[u]
    BY <2>1
  <2>6. pending'[t].op # "lookup"
    BY <1>1, <2>5, ThreadFacts DEF GoalOK
  <2>7. BatchInv'
    BY <1>1, <1>2, <2>2, <2>3, <2>4, <2>5, <2>6, OneThread
  <2> QED BY <2>2, <2>7 DEF IInv
<1>4. CASE Last(b).lock # NoItem
  <2>1. Unpin(t, Last(b).lock)
    BY <1>4 DEF Release
  <2>2. /\ CacheInv' /\ KeysKept /\ UNCHANGED pending
        /\ \A u \in Threads \ {t} : held'[u] = held[u]
        /\ batch' = [batch EXCEPT ![t] = Front(b)]
        /\ BatchOK(Front(b), held'[t], key')
    BY <1>1, <1>4, <2>1, Dropped
  <2>3. pending'[t].op # "lookup"
    BY <1>1, <2>2, ThreadFacts DEF GoalOK
  <2>4. BatchInv'
    BY <1>1, <1>2, <2>2, <2>3, OneThread
  <2> QED BY <2>2, <2>4 DEF IInv
<1> QED BY <1>3, <1>4

LEMMA InvInit == Init => IInv
<1> SUFFICES ASSUME Init PROVE IInv
  OBVIOUS
<1>1. CacheInv
  BY CacheInitHolds DEF Init
<1>2. /\ batch = [t \in Threads |-> <<>>] /\ goal = [t \in Threads |-> Gathering]
      /\ held = [t \in Threads |-> [i \in Items |-> 0]]
      /\ pending = [t \in Threads |-> Idle]
  BY DEF Init, CacheInit
<1>3. batch \in [Threads -> Seq(Entries)] /\ goal \in [Threads -> Goals]
  BY <1>2 DEF Gathering, Goals
<1>4. ASSUME NEW t \in Threads PROVE BatchOK(batch[t], held[t], key) /\ GoalOK(t)
  <2>1. batch[t] = <<>> /\ \A i \in Items : held[t][i] = 0
    BY <1>2
  <2>2. \A i : Locking(<<>>, i) = {}
    BY DEF Locking
  <2>3. BatchOK(<<>>, held[t], key)
    BY <2>1, <2>2, FS_EmptySet DEF BatchOK
  <2>4. goal[t].is # "inserting" /\ pending[t].op # "lookup"
    BY <1>2 DEF Gathering, Idle
  <2> QED BY <2>1, <2>3, <2>4 DEF GoalOK
<1> QED BY <1>1, <1>3, <1>4 DEF BatchInv, IInv

(* A step of the engine, which no batch takes part in. *)
LEMMA EngineStep ==
  ASSUME IInv, CacheInv', UNCHANGED <<key, held, pending, batch, goal>>
  PROVE  IInv'
BY DEF IInv, BatchInv, GoalOK

LEMMA InvStep ==
  ASSUME ~ResizeInUse, IInv, [Next]_vars PROVE IInv'
<1>1. CASE SetCapacity /\ UNCHANGED <<batch, goal>>
  BY <1>1, SetCapacityStep, EngineStep DEF IInv
<1>2. CASE Clear /\ UNCHANGED <<batch, goal>>
  BY <1>2, ClearStep, EngineStep DEF IInv
<1>3. ASSUME NEW t \in Threads, Thread(t) PROVE IInv'
  <2>1. CASE \E k \in Keys, is \in {"hit", "input"} : BeginLookup(t, k, is)
    BY <2>1, BeginLookupStep
  <2>2. CASE AddHit(t)
    BY <2>2, AddHitStep
  <2>3. CASE AddMiss(t)
    BY <2>3, AddMissStep
  <2>4. CASE PopLastHit(t)
    BY <2>4, PopLastHitStep
  <2>5. CASE ComputeBlocking(t)
    BY <2>5, ComputeBlockingStep
  <2>6. CASE BeginInsert(t)
    BY <2>6, BeginInsertStep
  <2>7. CASE InsertResult(t)
    BY <2>7, InsertResultStep
  <2>8. CASE Release(t)
    BY <2>8, ReleaseStep
  <2> QED BY <1>3, <2>1, <2>2, <2>3, <2>4, <2>5, <2>6, <2>7, <2>8 DEF Thread
<1>4. CASE UNCHANGED vars
  <2>1. UNCHANGED cacheVars /\ UNCHANGED <<key, held, pending, batch, goal>>
    BY <1>4 DEF vars, cacheVars
  <2> QED BY <2>1, CacheAlone, EngineStep
<1> QED BY <1>1, <1>2, <1>3, <1>4 DEF Next

-----------------------------------------------------------------------------
(* The theorems.  All of them are about a cache whose capacity is changed  *)
(* only while it is empty: RehashKeepsEntries is violated otherwise.       *)

(* The inductive invariant: the lists of the cache, the pins of an item    *)
(* and its locks, and the entries of each batch.                           *)
THEOREM Invariance == ASSUME ~ResizeInUse PROVE Spec => []IInv
<1>1. Init => IInv
  BY InvInit
<1>2. IInv /\ [Next]_vars => IInv'
  BY InvStep
<1> QED BY <1>1, <1>2, PTL DEF Spec

(* Every variable of the cache (utils/cache.h) keeps its type. *)
THEOREM TypeCorrect == ASSUME ~ResizeInUse PROVE Spec => []TypeOK
<1>1. IInv => TypeOK
  BY DEF IInv, CacheInv
<1> QED BY <1>1, Invariance, PTL

(* A value is not deleted under a lock, whatever the threads and the       *)
(* engine do with the cache, and the pins of an item are exactly its locks *)
(* (cache.h:119-146).                                                      *)
THEOREM LockedAlive == ASSUME ~ResizeInUse PROVE Spec => []LockedIsAlive
<1>1. IInv => LockedIsAlive
  BY DEF IInv, CacheInv, LocksInv, LockedIsAlive
<1> QED BY <1>1, Invariance, PTL

(* Every item that is alive is in the queue or is evicted and locked: once *)
(* the locks are gone, the destructor finds allocated_ = 0 (cache.h:53).   *)
THEOREM NothingIsLeaked == ASSUME ~ResizeInUse PROVE Spec => []NothingLeaks
<1>1. ASSUME IInv PROVE NothingLeaks
  <2>1. /\ lists.alive = Queued \cup Evicted /\ Queued \cap Evicted = {}
        /\ \A i \in Evicted : pins[i] > 0
    BY <1>1 DEF IInv, CacheInv, Good, Kept, Queued, Evicted
  <2>2. ASSUME NEW i \in Evicted PROVE Holders(i) > 0
    <3>1. i \in Items /\ i \in lists.alive /\ pins[i] > 0
      BY <1>1, <2>1, CacheFacts DEF IInv, Evicted
    <3> QED BY <1>1, <3>1 DEF IInv, CacheInv, LocksInv
  <2> QED BY <2>1, <2>2 DEF NothingLeaks
<1>2. IInv => NothingLeaks
  BY <1>1
<1> QED BY <1>2, Invariance, PTL

(* Hash table and queue hold the same items, each in the bucket of its key *)
(* and one under each key (cache.h:61-82, 201-234).                        *)
THEOREM HashAgrees == ASSUME ~ResizeInUse PROVE Spec => []HashAgreesWithQueue
<1>1. ASSUME IInv PROVE HashAgreesWithQueue
  <2>1. Good(lists, BucketsFor(capacity)) /\ key \in [Items -> Keys]
        /\ BucketsFor(capacity) \in Nat \ {0}
        /\ \A i \in Queued : i \in Items
    BY <1>1, CacheFacts DEF IInv, Queued
  <2>2. \A i \in Queued : BucketOf(lists, key[i]) \in DOMAIN lists.chain
    <3>1. lists \in Lists(BucketsFor(capacity))
      BY <2>1 DEF Good, Shaped
    <3> QED BY <2>1, <3>1, BucketFacts DEF Lists
  <2>3. Queued = UNION {Range(lists.chain[b]) : b \in DOMAIN lists.chain}
    <3>1. \A i \in Queued : i \in Range(lists.chain[BucketOf(lists, key[i])])
      BY <2>1 DEF Good, Hashed, Queued
    <3>2. \A b \in DOMAIN lists.chain : Range(lists.chain[b]) \subseteq Queued
      BY <2>1 DEF Good, Hashed, Queued
    <3> QED BY <3>1, <3>2, <2>2
  <2> QED BY <2>1, <2>3 DEF Good, Hashed, HashAgreesWithQueue, Queued
<1>2. IInv => HashAgreesWithQueue
  BY <1>1
<1> QED BY <1>2, Invariance, PTL

(* What a thread reads of a sample is about the position it gathered it    *)
(* for, whatever the others inserted, evicted or cleared meanwhile         *)
(* (neural/cache.cc).                                                      *)
THEOREM SamplesCorrect == ASSUME ~ResizeInUse PROVE Spec => []SamplesAreOfTheirPositions
<1>1. ASSUME IInv, NEW t \in Threads, NEW n \in DOMAIN batch[t]
      PROVE  IF batch[t][n].lock = NoItem
             THEN batch[t][n].parent =
                    Cardinality({j \in 1 .. n - 1 : batch[t][j].lock = NoItem})
             ELSE batch[t][n].lock \in lists.alive /\ key[batch[t][n].lock] = batch[t][n].hash
  <2>1. EntryOK(batch[t], n, key) /\ BatchOK(batch[t], held[t], key) /\ CacheInv
    BY <1>1, ThreadFacts DEF BatchOK
  <2>2. CASE batch[t][n].lock = NoItem
    BY <2>1, <2>2 DEF EntryOK, Earlier
  <2>3. CASE batch[t][n].lock # NoItem
    <3>1. batch[t][n].lock \in Items /\ Holders(batch[t][n].lock) > 0
      BY <2>1, <2>3, HitIsHeld
    <3>2. batch[t][n].lock \in lists.alive
      BY <2>1, <3>1 DEF CacheInv, LocksInv
    <3> QED BY <2>1, <2>3, <3>2 DEF EntryOK
  <2> QED BY <2>2, <2>3
<1>2. IInv => SamplesAreOfTheirPositions
  BY <1>1 DEF SamplesAreOfTheirPositions
<1> QED BY <1>2, Invariance, PTL
=============================================================================
