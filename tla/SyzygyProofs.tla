----------------------------- MODULE SyzygyProofs -----------------------------
(***************************************************************************)
(* Proofs about two parts of Syzygy.                                       *)
(*                                                                         *)
(* The tables in memory (SyzygyTables): for any number of threads and      *)
(* tables, whatever slots the keys have, and whichever files are bad.      *)
(* That linear probing finds what it put there is a fact about the table   *)
(* when all files are listed (FullHolds); then slots are only marked as    *)
(* deleted.                                                                *)
(*                                                                         *)
(* The probes and the play they guide (SyzygyProbe): for every game.  The  *)
(* stages of the retrograde analysis exist, the last of them adds          *)
(* nothing, so that the value of a position is that of its best move       *)
(* (TruthIsSound); the probes tell that value, and the moves with the      *)
(* best ranks keep its class (PlayInv).                                    *)
(***************************************************************************)
EXTENDS Syzygy, SumTheorems

-----------------------------------------------------------------------------
(* The hash table when all files are listed. *)

Places == 0 .. Slots - 1
Listing == Range(Materials)

(* The n-th slot that is looked at for a key. *)
Probed(key, n) == (Home[key] + n) % Slots

LEMMA Remainders ==
  ASSUME NEW a \in Nat, NEW n \in Nat \ {0}, a < n + n
  PROVE  (a % n) = IF a < n THEN a ELSE a - n
<1>1. CASE a < n
  BY <1>1
<1>2. CASE a >= n
  <2>1. a - n \in Nat /\ a - n < n /\ a = (a - n) + n
    BY <1>2
  <2> QED BY <2>1, <1>2
<1> QED BY <1>1, <1>2

LEMMA ListedKeysAreFinite ==
  /\ IsFiniteSet(ListedKeys) /\ Cardinality(ListedKeys) \in Nat
  /\ Slots \in Nat \ {0}
<1> DEFINE S == {Range(KeysOf[m]) : m \in Listing}
           f == [i \in 1 .. Len(Materials) |-> Range(KeysOf[Materials[i]])]
<1>1. Len(Materials) \in Nat /\ DOMAIN Materials = 1 .. Len(Materials)
  BY TablesAssumption
<1>2. IsFiniteSet(S)
  <2>0. Listing = {Materials[i] : i \in 1 .. Len(Materials)}
    BY <1>1 DEF Listing, Range
  <2>1. f \in Surjection(1 .. Len(Materials), S)
    <3>1. \A i \in 1 .. Len(Materials) : f[i] \in S
      BY <2>0
    <3>2. ASSUME NEW x \in S PROVE \E i \in 1 .. Len(Materials) : f[i] = x
      BY <2>0
    <3>3. f \in [1 .. Len(Materials) -> S]
      BY <3>1
    <3> HIDE DEF f, S
    <3> QED BY <3>2, <3>3 DEF Surjection
  <2>2. IsFiniteSet(1 .. Len(Materials))
    BY <1>1, FS_Interval
  <2> QED BY <2>1, <2>2, FS_Surjection
<1>3. ASSUME NEW m \in Listing PROVE IsFiniteSet(Range(KeysOf[m]))
  <2> DEFINE k == KeysOf[m]
  <2>1. Len(k) \in Nat /\ DOMAIN k = 1 .. Len(k)
    BY <1>3, TablesAssumption DEF Listing
  <2>2. k \in Surjection(1 .. Len(k), Range(k))
    <3>1. k \in Seq(ListedKeys)
      BY <1>3, TablesAssumption DEF Listing
    <3>2. k = [i \in 1 .. Len(k) |-> k[i]]
      BY <3>1
    <3> QED BY <3>1, <3>2, <2>1 DEF Surjection, Range
  <2>3. IsFiniteSet(1 .. Len(k))
    BY <2>1, FS_Interval
  <2> QED BY <2>2, <2>3, FS_Surjection
<1>4. IsFiniteSet(ListedKeys)
  <2>1. ListedKeys = UNION S
    BY DEF ListedKeys, Listing
  <2>2. \A T \in S : IsFiniteSet(T)
    BY <1>3
  <2> HIDE DEF S
  <2> QED BY <1>2, <2>1, <2>2, FS_UNION
<1>5. Cardinality(ListedKeys) \in Nat
  BY <1>4, FS_CardinalityType
<1> QED BY <1>4, <1>5, TablesAssumption

LEMMA ProbedFacts ==
  ASSUME NEW key \in AllKeys
  PROVE  /\ \A n \in Places : Probed(key, n) \in Places
         /\ \A i \in Places : \E n \in Places : Probed(key, n) = i
<1>1. Slots \in Nat \ {0} /\ Home[key] \in 0 .. Slots - 1
  BY ListedKeysAreFinite, TablesAssumption
<1> DEFINE h == Home[key]
<1>2. ASSUME NEW n \in Places
      PROVE  Probed(key, n) = IF h + n < Slots THEN h + n ELSE h + n - Slots
  BY <1>1, Remainders DEF Places, Probed
<1>3. ASSUME NEW i \in Places PROVE \E n \in Places : Probed(key, n) = i
  <2> DEFINE n == IF i >= h THEN i - h ELSE i - h + Slots
  <2>1. n \in Places
    BY <1>1 DEF Places
  <2>2. Probed(key, n) = i
    BY <1>1, <1>2, <2>1 DEF Places
  <2> QED BY <2>1, <2>2
<1>4. \A n \in Places : Probed(key, n) \in Places
  BY <1>1, <1>2 DEF Places
<1> QED BY <1>3, <1>4

(* Linear probing finds the first slot of a set. *)
LEMMA FirstSlotFacts ==
  ASSUME NEW key \in AllKeys, NEW F \in SUBSET Places, F # {}
  PROVE  \E n \in Places :
           /\ FirstSlot(key, F) = Probed(key, n)
           /\ Probed(key, n) \in F
           /\ \A j \in 0 .. n - 1 : Probed(key, j) \notin F
<1> DEFINE T == {n \in 0 .. Slots - 1 : Steps(key)[n] \in F}
<1>1. \A n \in Places : Steps(key)[n] = Probed(key, n)
  BY DEF Steps, Places, Probed
<1>2. T = {n \in Places : Probed(key, n) \in F}
  BY <1>1 DEF Places
<1>3. T # {}
  BY <1>2, ProbedFacts
<1>4. T \in SUBSET Nat
  BY DEF Places
<1>5. FirstSlot(key, F) = Steps(key)[Min(T)]
  BY Zenon DEF FirstSlot
<1> HIDE DEF T
<1>6. PICK n \in T : \A m \in T : n <= m
  BY <1>3, <1>4, LeastNat
<1>7. Min(T) = n
  <2>1. \A x \in T : (\A y \in T : x <= y) => x = n
    BY <1>6, <1>4
  <2> QED BY <1>6, <2>1 DEF Min
<1>8. n \in Places
  BY <1>2
<1>9. \A j \in 0 .. n - 1 : Probed(key, j) \notin F
  <2> SUFFICES ASSUME NEW j \in 0 .. n - 1, Probed(key, j) \in F PROVE FALSE
    OBVIOUS
  <2>1. j \in Places /\ j < n
    BY <1>8, ListedKeysAreFinite DEF Places
  <2> QED BY <2>1, <1>2, <1>4, <1>6
<1> QED BY <1>1, <1>2, <1>5, <1>7, <1>8, <1>9

Pairs == ListedKeys \X Listing

IsTable(h) ==
  h \in [Places -> [key : ListedKeys \cup {NoKey}, ptr : Listing \cup {NoEntry}]]

(* The table h has the entries E, each where probing finds it. *)
Holds(h, E) ==
  /\ IsTable(h)
  /\ \A i \in Places : IF h[i].ptr = NoEntry THEN h[i].key = NoKey
                       ELSE <<h[i].key, h[i].ptr>> \in E
  /\ \A e \in E : \E n \in Places :
       /\ h[Probed(e[1], n)].key = e[1] /\ h[Probed(e[1], n)].ptr = e[2]
       /\ \A j \in 0 .. n - 1 : h[Probed(e[1], j)].key # NoKey
  /\ \A i, j \in Places : h[i].key = h[j].key /\ h[i].key # NoKey => i = j

LEMMA Distinct == NoKey \notin AllKeys /\ ListedKeys \subseteq AllKeys /\ NoEntry \notin Listing
BY TablesAssumption DEF AllKeys, Listing

(* There are more slots than keys, and no two slots have the same key. *)
LEMMA RoomForOneMore ==
  ASSUME NEW h, NEW E \in SUBSET Pairs, Holds(h, E)
  PROVE  \E i \in Places : h[i].key = NoKey
<1> SUFFICES ASSUME \A i \in Places : h[i].key # NoKey PROVE FALSE
  OBVIOUS
<1> DEFINE f == [i \in Places |-> h[i].key]
<1>1. f \in [Places -> ListedKeys]
  BY DEF Holds, IsTable
<1>2. IsFiniteSet(Places) /\ Cardinality(Places) = Slots
  BY ListedKeysAreFinite, FS_Interval DEF Places
<1>3. Cardinality(ListedKeys) < Cardinality(Places)
  BY <1>2, TablesAssumption
<1>4. \E x, y \in Places : x # y /\ f[x] = f[y]
  <2> HIDE DEF f
  <2> QED BY <1>1, <1>2, <1>3, ListedKeysAreFinite, FS_PigeonHole
<1> QED BY <1>4 DEF Holds

(* A new key goes to the first free slot on its way, and lengthens no      *)
(* other key's way.                                                        *)
LEMMA AddHolds ==
  ASSUME NEW h, NEW E \in SUBSET Pairs, Holds(h, E),
         NEW key \in ListedKeys, NEW m \in Listing, \A e \in E : e[1] # key
  PROVE  Holds(add_to_hash(h, m, key), E \cup {<<key, m>>})
<1> DEFINE F == {i \in DOMAIN h : h[i].ptr = NoEntry}
           s == FirstSlot(key, F)
           new == [key |-> key, ptr |-> m]
           g == [h EXCEPT ![s] = new]
<1>0. add_to_hash(h, m, key) = g
  BY Zenon DEF add_to_hash
<1>1. DOMAIN h = Places /\ F \in SUBSET Places
  BY DEF Holds, IsTable
<1>2. F # {}
  <2>1. PICK i \in Places : h[i].key = NoKey
    BY RoomForOneMore
  <2>2. h[i].ptr = NoEntry
    <3> SUFFICES ASSUME h[i].ptr # NoEntry PROVE FALSE
      OBVIOUS
    <3>1. <<h[i].key, h[i].ptr>> \in E
      BY DEF Holds
    <3> QED BY <2>1, <3>1, Distinct DEF Pairs
  <2> QED BY <1>1, <2>1, <2>2
<1>3. PICK n \in Places : /\ s = Probed(key, n) /\ s \in F
                          /\ \A j \in 0 .. n - 1 : Probed(key, j) \notin F
  <2>1. key \in AllKeys
    BY Distinct
  <2> HIDE DEF F
  <2> QED BY <1>1, <1>2, <2>1, FirstSlotFacts
<1>4. s \in Places /\ h[s].ptr = NoEntry /\ h[s].key = NoKey
  BY <1>1, <1>3 DEF Holds
<1> HIDE DEF s
<1>5. /\ DOMAIN g = Places
      /\ \A i \in Places : g[i] = IF i = s THEN new ELSE h[i]
      /\ new.key = key /\ new.ptr = m
  BY <1>1, <1>4
<1>6. IsTable(g)
  BY <1>4 DEF Holds, IsTable
<1> HIDE DEF g
<1>7. ASSUME NEW i \in Places
      PROVE  IF g[i].ptr = NoEntry THEN g[i].key = NoKey
             ELSE <<g[i].key, g[i].ptr>> \in E \cup {<<key, m>>}
  BY <1>5, Distinct DEF Holds
<1>8. ASSUME NEW e \in E \cup {<<key, m>>}
      PROVE  \E k \in Places :
               /\ g[Probed(e[1], k)].key = e[1] /\ g[Probed(e[1], k)].ptr = e[2]
               /\ \A j \in 0 .. k - 1 : g[Probed(e[1], j)].key # NoKey
  <2>0. e[1] \in ListedKeys /\ e[1] \in AllKeys
    BY Distinct DEF Pairs
  <2>1. CASE e \in E
    <3>1. PICK k \in Places :
            /\ h[Probed(e[1], k)].key = e[1] /\ h[Probed(e[1], k)].ptr = e[2]
            /\ \A j \in 0 .. k - 1 : h[Probed(e[1], j)].key # NoKey
      BY <2>1 DEF Holds
    <3>2. \A j \in 0 .. k : j \in Places
      BY ListedKeysAreFinite DEF Places
    <3>3. \A j \in 0 .. k : Probed(e[1], j) \in Places
      BY <3>2, <2>0, ProbedFacts
    <3>4. \A j \in 0 .. k - 1 : g[Probed(e[1], j)].key # NoKey
      <4> SUFFICES ASSUME NEW j \in 0 .. k - 1 PROVE g[Probed(e[1], j)].key # NoKey
        OBVIOUS
      <4>1. j \in 0 .. k
        BY DEF Places
      <4> QED BY <3>1, <3>3, <4>1, <1>5, Distinct
    <3>5. k \in 0 .. k
      BY DEF Places
    <3>6. Probed(e[1], k) # s
      BY <1>4, <3>1, <2>0, Distinct
    <3> QED BY <3>1, <3>3, <3>4, <3>5, <3>6, <1>5
  <2>2. CASE e = <<key, m>>
    <3>1. e[1] = key /\ e[2] = m
      BY <2>2
    <3>2. \A j \in 0 .. n - 1 : j \in Places
      BY ListedKeysAreFinite DEF Places
    <3>3. ASSUME NEW j \in 0 .. n - 1 PROVE g[Probed(key, j)].key # NoKey
      <4>1. Probed(key, j) \in Places
        BY <3>1, <3>2, <2>0, ProbedFacts
      <4>2. h[Probed(key, j)].ptr # NoEntry
        BY <1>1, <1>3, <4>1
      <4>3. <<h[Probed(key, j)].key, h[Probed(key, j)].ptr>> \in E
        BY <4>1, <4>2 DEF Holds
      <4>4. h[Probed(key, j)].key # NoKey
        BY <4>3, Distinct DEF Pairs
      <4> QED BY <1>5, <4>1, <4>4, Distinct
    <3> QED BY <1>3, <1>4, <1>5, <3>1, <3>3
  <2> QED BY <2>1, <2>2
<1>9. ASSUME NEW i \in Places, NEW j \in Places, g[i].key = g[j].key, g[i].key # NoKey
      PROVE  i = j
  <2>1. \A k \in Places : h[k].key # key
    <3> SUFFICES ASSUME NEW k \in Places, h[k].key = key PROVE FALSE
      OBVIOUS
    <3>1. <<h[k].key, h[k].ptr>> \in E
      BY Distinct DEF Holds
    <3> QED BY <3>1
  <2>2. i # s /\ j # s => i = j
    BY <1>5, <1>9 DEF Holds
  <2> QED BY <2>1, <2>2, <1>5, <1>9
<1> QED BY <1>0, <1>6, <1>7, <1>8, <1>9 DEF Holds

(* The recursion behind Listed. *)
Lists(N, g) ==
  g = [n \in 0 .. N |->
         IF n = 0 THEN [i \in Places |-> [key |-> NoKey, ptr |-> NoEntry]]
         ELSE init_tb(g[n - 1], Materials[n])]

LEMMA ListsExist == \A N \in Nat : \E g : Lists(N, g)
<1> DEFINE T == {N \in Nat : ~ \E g : Lists(N, g)}
           none == [i \in Places |-> [key |-> NoKey, ptr |-> NoEntry]]
<1>1. SUFFICES ASSUME T # {} PROVE FALSE
  OBVIOUS
<1>2. PICK N \in T : \A m \in T : N <= m
  <2> HIDE DEF T
  <2>1. T \in SUBSET Nat
    BY DEF T
  <2> QED BY <1>1, <2>1, LeastNat
<1>3. N # 0
  <2> DEFINE g == [n \in 0 .. 0 |-> none]
  <2>1. Lists(0, g)
    <3>1. g = [n \in 0 .. 0 |-> IF n = 0 THEN none ELSE init_tb(g[n - 1], Materials[n])]
      OBVIOUS
    <3> QED BY <3>1, Zenon DEF Lists
  <2> QED BY <2>1, <1>2
<1>4. PICK g : Lists(N - 1, g)
  <2>1. N - 1 \in Nat /\ N - 1 \notin T
    BY <1>2, <1>3
  <2> QED BY <2>1
<1> DEFINE last == init_tb(g[N - 1], Materials[N])
           h == [n \in 0 .. N |-> IF n < N THEN g[n] ELSE last]
<1>5. Lists(N, h)
  <2>1. \A n \in 0 .. N - 1 : g[n] = IF n = 0 THEN none ELSE init_tb(g[n - 1], Materials[n])
    BY <1>4 DEF Lists
  <2>2. ASSUME NEW n \in 0 .. N
        PROVE  h[n] = IF n = 0 THEN none ELSE init_tb(h[n - 1], Materials[n])
    <3>1. CASE n = N
      <4>1. h[N] = last /\ h[N - 1] = g[N - 1]
        BY <1>2, <1>3
      <4> HIDE DEF h
      <4> QED BY <3>1, <4>1, <1>3
    <3>2. CASE n < N
      <4>1. n \in 0 .. N - 1 /\ h[n] = g[n]
        BY <3>2, <1>2
      <4>2. n # 0 => h[n - 1] = g[n - 1]
        BY <4>1, <1>2
      <4> HIDE DEF h
      <4> QED BY <4>1, <4>2, <2>1
    <3> QED BY <3>1, <3>2, <1>2
  <2>3. h = [n \in 0 .. N |-> h[n]]
    OBVIOUS
  <2>4. h = [n \in 0 .. N |-> IF n = 0 THEN none ELSE init_tb(h[n - 1], Materials[n])]
    <3> HIDE DEF h
    <3> QED BY <2>2, <2>3
  <2> HIDE DEF h
  <2> QED BY <2>4, Zenon DEF Lists
<1> QED BY <1>2, <1>5

LEMMA ListedUnfolds == Lists(Len(Materials), Listed)
<1>1. Len(Materials) \in Nat
  BY TablesAssumption
<1>2. PICK g : Lists(Len(Materials), g)
  BY <1>1, ListsExist
<1>3. Listed = CHOOSE f : Lists(Len(Materials), f)
  BY Zenon DEF Listed, Lists, Places
<1> QED BY <1>2, <1>3

(* The entries of the first n files. *)
Entries(n) ==
  {e \in Pairs : e[1] \in Range(KeysOf[e[2]]) /\ \E i \in 1 .. n : e[2] = Materials[i]}

LEMMA KeyFacts ==
  ASSUME NEW m \in Listing
  PROVE  /\ KeysOf[m][1] \in ListedKeys
         /\ Len(KeysOf[m]) = 1 => Range(KeysOf[m]) = {KeysOf[m][1]}
         /\ Len(KeysOf[m]) # 1 => /\ KeysOf[m][2] \in ListedKeys
                                  /\ KeysOf[m][1] # KeysOf[m][2]
                                  /\ Range(KeysOf[m]) = {KeysOf[m][1], KeysOf[m][2]}
<1> DEFINE k == KeysOf[m]
<1>1. /\ k \in Seq(ListedKeys)
      /\ \/ Len(k) = 1
         \/ Len(k) = 2 /\ k[1] # k[2]
  BY TablesAssumption DEF Listing
<1> HIDE DEF k
<1>2. k[1] \in ListedKeys
  BY <1>1
<1>3. DOMAIN k = 1 .. Len(k)
  BY <1>1
<1>4. Len(k) = 1 => Range(k) = {k[1]}
  BY <1>3 DEF Range
<1>5. Len(k) # 1 => k[2] \in ListedKeys /\ k[1] # k[2] /\ Range(k) = {k[1], k[2]}
  <2> SUFFICES ASSUME Len(k) # 1 PROVE k[2] \in ListedKeys /\ k[1] # k[2] /\ Range(k) = {k[1], k[2]}
    OBVIOUS
  <2>1. Len(k) = 2 /\ k[1] # k[2]
    BY <1>1
  <2>2. DOMAIN k = {1, 2}
    BY <2>1, <1>3
  <2>3. k[2] \in ListedKeys
    BY <1>1, <2>1
  <2>4. Range(k) = {k[1], k[2]}
    BY <2>2, Zenon DEF Range
  <2> QED BY <2>1, <2>3, <2>4
<1> QED BY <1>2, <1>4, <1>5 DEF k

LEMMA InitHolds ==
  ASSUME NEW h, NEW n \in 1 .. Len(Materials), Holds(h, Entries(n - 1))
  PROVE  Holds(init_tb(h, Materials[n]), Entries(n))
<1> DEFINE m == Materials[n]
           k == KeysOf[m]
           E == Entries(n - 1)
<1>1. m \in Listing
  BY TablesAssumption DEF Listing, Range
<1>2. E \in SUBSET Pairs
  BY DEF Entries
<1>3. \A e \in E : e[1] \notin Range(k)
  <2> SUFFICES ASSUME NEW e \in E, e[1] \in Range(k) PROVE FALSE
    OBVIOUS
  <2>1. e[2] \in Listing /\ e[1] \in Range(KeysOf[e[2]])
    BY DEF Entries, Pairs
  <2>2. e[2] = m
    BY <2>1, <1>1, TablesAssumption DEF Listing
  <2>3. PICK i \in 1 .. n - 1 : e[2] = Materials[i]
    BY DEF Entries
  <2>4. i \in DOMAIN Materials /\ n \in DOMAIN Materials /\ i # n
    BY TablesAssumption
  <2> QED BY <2>2, <2>3, <2>4, TablesAssumption
<1>4. Entries(n) = E \cup {e \in Pairs : e[1] \in Range(k) /\ e[2] = m}
  <2>1. \A i \in 1 .. n : i \in 1 .. n - 1 \/ i = n
    OBVIOUS
  <2>2. \A i \in 1 .. n - 1 : i \in 1 .. n
    OBVIOUS
  <2>3. n \in 1 .. n
    OBVIOUS
  <2> QED BY <2>1, <2>2, <2>3 DEF Entries
<1> DEFINE g == add_to_hash(h, m, k[1])
           D == E \cup {<<k[1], m>>}
<1>5. k[1] \in ListedKeys /\ k[1] \in Range(k)
  BY <1>1, KeyFacts
<1>6. Holds(g, D)
  BY <1>1, <1>2, <1>3, <1>5, AddHolds
<1>7. CASE Len(k) = 1
  <2>1. Entries(n) = D
    <3>1. Range(k) = {k[1]}
      BY <1>1, <1>7, KeyFacts
    <3>2. <<k[1], m>> \in Pairs
      BY <1>1, <1>5 DEF Pairs
    <3>3. {e \in Pairs : e[1] \in Range(k) /\ e[2] = m} = {<<k[1], m>>}
      <4> HIDE DEF k, m
      <4> QED BY <3>1, <3>2 DEF Pairs
    <3> QED BY <1>4, <3>3
  <2>2. init_tb(h, m) = g
    BY <1>7 DEF init_tb
  <2> QED BY <1>6, <2>1, <2>2
<1>8. CASE Len(k) # 1
  <2>1. k[2] \in ListedKeys /\ k[1] # k[2] /\ Range(k) = {k[1], k[2]}
    BY <1>1, <1>8, KeyFacts
  <2>2. D \in SUBSET Pairs /\ \A e \in D : e[1] # k[2]
    BY <1>1, <1>2, <1>3, <1>5, <2>1 DEF Pairs
  <2>3. Holds(add_to_hash(g, m, k[2]), D \cup {<<k[2], m>>})
    <3> HIDE DEF g, D
    <3> QED BY <1>1, <1>6, <2>1, <2>2, AddHolds
  <2>4. Entries(n) = D \cup {<<k[2], m>>}
    BY <1>1, <1>4, <1>5, <2>1 DEF Pairs
  <2>5. init_tb(h, m) = add_to_hash(g, m, k[2])
    BY <1>8 DEF init_tb
  <2> QED BY <2>3, <2>4, <2>5
<1> QED BY <1>7, <1>8

(* The table the constructor makes. *)
Full == Listed[Len(Materials)]
AllEntries == {e \in Pairs : e[1] \in Range(KeysOf[e[2]])}

LEMMA FullHolds == Holds(Full, AllEntries)
<1> DEFINE N == Len(Materials)
           T == {n \in 0 .. N : ~Holds(Listed[n], Entries(n))}
<1>1. N \in Nat /\ DOMAIN Materials = 1 .. N
  BY TablesAssumption
<1>2. \A n \in 0 .. N :
        Listed[n] = IF n = 0 THEN [i \in Places |-> [key |-> NoKey, ptr |-> NoEntry]]
                    ELSE init_tb(Listed[n - 1], Materials[n])
  BY ListedUnfolds DEF Lists
<1>3. T = {}
  <2> SUFFICES ASSUME T # {} PROVE FALSE
    OBVIOUS
  <2>1. PICK n \in T : \A m \in T : n <= m
    <3>1. T \in SUBSET Nat
      OBVIOUS
    <3> HIDE DEF T
    <3> QED BY <3>1, LeastNat
  <2>2. n # 0
    <3> DEFINE none == [i \in Places |-> [key |-> NoKey, ptr |-> NoEntry]]
    <3>1. Listed[0] = none
      BY <1>1, <1>2
    <3>2. Entries(0) = {}
      BY DEF Entries
    <3>3. IsTable(none)
      BY DEF IsTable
    <3>4. \A i \in Places : none[i].key = NoKey /\ none[i].ptr = NoEntry
      OBVIOUS
    <3>5. Holds(none, {})
      <4> HIDE DEF none
      <4> QED BY <3>3, <3>4 DEF Holds
    <3> QED BY <2>1, <3>1, <3>2, <3>5
  <2>3. n - 1 \in 0 .. N /\ n \in 1 .. N /\ Holds(Listed[n - 1], Entries(n - 1))
    BY <2>1, <2>2, <1>1
  <2>4. Listed[n] = init_tb(Listed[n - 1], Materials[n])
    BY <1>2, <2>2, <2>3
  <2>5. Holds(Listed[n], Entries(n))
    BY <2>3, <2>4, InitHolds
  <2> QED BY <2>1, <2>5
<1>4. Entries(N) = AllEntries
  <2>1. \A e \in Pairs : \E i \in 1 .. N : e[2] = Materials[i]
    BY <1>1 DEF Pairs, Listing, Range
  <2> QED BY <2>1 DEF Entries, AllEntries
<1> QED BY <1>1, <1>3, <1>4 DEF Full

-----------------------------------------------------------------------------
(* Where a key leads. *)

HasBad(m) == \E type \in Types : <<m, type>> \in Bad

(* A slot is as it was when the files were listed, or marked as deleted    *)
(* because a file of its material failed.                                  *)
HashInv ==
  /\ hash \in [Places -> [key : ListedKeys \cup {NoKey}, ptr : Listing \cup {NoEntry}]]
  /\ \A i \in Places :
       /\ hash[i].key = Full[i].key
       /\ \/ hash[i].ptr = Full[i].ptr
          \/ hash[i].ptr = NoEntry /\ HasBad(Full[i].ptr)

(* An entry that is listed in slot i. *)
LEMMA FullFacts ==
  ASSUME NEW i \in Places, Full[i].ptr # NoEntry
  PROVE  /\ Full[i].ptr \in Listing /\ Full[i].key \in ListedKeys
         /\ Full[i].key \in Range(KeysOf[Full[i].ptr])
<1>1. <<Full[i].key, Full[i].ptr>> \in AllEntries
  BY FullHolds DEF Holds
<1> QED BY <1>1 DEF AllEntries, Pairs

LEMMA EmptySlots ==
  ASSUME NEW i \in Places, Full[i].ptr = NoEntry PROVE Full[i].key = NoKey
BY FullHolds DEF Holds

(* A deleted slot keeps its key, so that it ends the same searches as      *)
(* before.                                                                 *)
LEMMA SlotFacts ==
  ASSUME HashInv, NEW key \in AllKeys
  PROVE  \E n \in Places :
           /\ SlotOf(key) = Probed(key, n) /\ SlotOf(key) \in Places
           /\ Full[SlotOf(key)].key \in {NoKey, key}
           /\ \A j \in 0 .. n - 1 : Full[Probed(key, j)].key \notin {NoKey, key}
<1> DEFINE F == {i \in DOMAIN hash : EndsSearch(hash[i], key)}
<1>1. DOMAIN hash = Places
  BY DEF HashInv
<1>2. F = {i \in Places : Full[i].key \in {NoKey, key}}
  BY <1>1 DEF HashInv, EndsSearch
<1>3. F # {}
  <2>1. AllEntries \in SUBSET Pairs
    BY DEF AllEntries
  <2>2. \E i \in Places : Full[i].key = NoKey
    BY <2>1, FullHolds, RoomForOneMore
  <2> QED BY <1>2, <2>2
<1>4. F \in SUBSET Places
  BY <1>1
<1>5. SlotOf(key) = FirstSlot(key, F)
  BY Zenon DEF SlotOf
<1> HIDE DEF F
<1>6. PICK n \in Places : /\ FirstSlot(key, F) = Probed(key, n)
                          /\ Probed(key, n) \in F
                          /\ \A j \in 0 .. n - 1 : Probed(key, j) \notin F
  BY <1>3, <1>4, FirstSlotFacts
<1>7. \A j \in 0 .. n - 1 : Probed(key, j) \in Places
  <2> SUFFICES ASSUME NEW j \in 0 .. n - 1 PROVE Probed(key, j) \in Places
    OBVIOUS
  <2>1. j \in Places
    BY ListedKeysAreFinite DEF Places
  <2> QED BY <2>1, ProbedFacts
<1> QED BY <1>2, <1>4, <1>5, <1>6, <1>7

(* The search passes no free slot before the one the key was put in.       *)
LEMMA KeysLead == HashInv => KeysLeadToTheirTables
<1> SUFFICES ASSUME HashInv, NEW key \in AllKeys
             PROVE  LET found == hash[SlotOf(key)].ptr
                        own == {m \in Listing : key \in Range(KeysOf[m])}
                    IN /\ found # NoEntry => found \in own
                       /\ \A m \in own : (\A type \in Types : <<m, type>> \notin Bad) => found = m
  BY DEF KeysLeadToTheirTables, Listing
<1> DEFINE s == SlotOf(key)
           found == hash[s].ptr
           own == {m \in Listing : key \in Range(KeysOf[m])}
<1>1. PICK n \in Places :
        /\ s = Probed(key, n) /\ s \in Places
        /\ Full[s].key \in {NoKey, key}
        /\ \A j \in 0 .. n - 1 : Full[Probed(key, j)].key \notin {NoKey, key}
  BY SlotFacts
<1> HIDE DEF s
<1>2. found # NoEntry => found \in own
  <2> SUFFICES ASSUME found # NoEntry PROVE found \in own
    OBVIOUS
  <2>1. Full[s].ptr = found
    BY <1>1 DEF HashInv
  <2>2. found \in Listing /\ Full[s].key \in ListedKeys /\ Full[s].key \in Range(KeysOf[found])
    BY <1>1, <2>1, FullFacts
  <2>3. Full[s].key = key
    BY <1>1, <2>2, Distinct
  <2> QED BY <2>2, <2>3
<1>3. ASSUME NEW m \in own, \A type \in Types : <<m, type>> \notin Bad PROVE found = m
  <2> DEFINE e == <<key, m>>
  <2>1. m \in Listing /\ key \in Range(KeysOf[m])
    OBVIOUS
  <2>2. key \in ListedKeys /\ e \in AllEntries
    <3>1. key \in ListedKeys
      BY <2>1 DEF ListedKeys, Listing
    <3> QED BY <2>1, <3>1 DEF AllEntries, Pairs
  <2>3. e[1] = key /\ e[2] = m
    OBVIOUS
  <2> HIDE DEF e, own
  <2>4. PICK k \in Places :
          /\ Full[Probed(e[1], k)].key = e[1] /\ Full[Probed(e[1], k)].ptr = e[2]
          /\ \A j \in 0 .. k - 1 : Full[Probed(e[1], j)].key # NoKey
    BY <2>2, FullHolds DEF Holds
  <2>5. Probed(key, k) \in Places /\ Full[Probed(key, k)].key = key /\ Full[Probed(key, k)].ptr = m
    BY <2>3, <2>4, ProbedFacts
  <2>6. s = Probed(key, k)
    <3>1. CASE n > k
      <4>1. k \in 0 .. n - 1
        BY <3>1 DEF Places
      <4> QED BY <4>1, <1>1, <2>5
    <3>2. CASE n < k
      <4>1. n \in 0 .. k - 1
        BY <3>2 DEF Places
      <4>2. Full[s].key = key
        BY <4>1, <1>1, <2>3, <2>4
      <4> QED BY <4>2, <1>1, <2>2, <2>5, Distinct, FullHolds DEF Holds
    <3>3. CASE n = k
      BY <3>3, <1>1
    <3> QED BY <3>1, <3>2, <3>3 DEF Places
  <2>7. found = m \/ HasBad(m)
    BY <2>5, <2>6 DEF HashInv
  <2> QED BY <2>7, <1>3 DEF HasBad
<1> QED BY <1>2, <1>3 DEF s

-----------------------------------------------------------------------------
(* Probes at the same time. *)

BusyAt == {"found", "check", "wait", "init", "publish", "use", "crashed"}
AtEntry == {"check", "wait", "init", "publish", "use"}

(* A probe that is not idle, and the slot it has found. *)
IsProbe(p) ==
  /\ p = [at |-> p.at, key |-> p.key, type |-> p.type, slot |-> p.slot, entry |-> p.entry]
  /\ p.at \in BusyAt /\ p.type \in Types
  /\ p.slot \in Places /\ Full[p.slot].ptr # NoEntry /\ Full[p.slot].key = p.key
  /\ p.at \in AtEntry => p.entry = Full[p.slot].ptr
  /\ p.at = "crashed" => HasBad(Full[p.slot].ptr)

ProbeInv ==
  /\ probe = [th \in Threads |-> probe[th]]
  /\ \A th \in Threads : probe[th] = Idle \/ (IsProbe(probe[th]) /\ open)

(* The lock is held from the second look at the flag until it is set. *)
LockInv ==
  /\ lock \in Threads \cup {NoEntry}
  /\ \A th \in Threads : probe[th].at \in {"init", "publish"} <=> lock = th

(* A file is mapped when its flag is set, or is about to be.               *)
Publishes(f) == \E th \in Threads : probe[th].at = "publish" /\ FileOf(th) = f

FileInv ==
  /\ open \in BOOLEAN
  /\ ready \in [Files -> BOOLEAN]
  /\ mapped \in [Files -> Nat]
  /\ \A f \in Files : ~open => ~ready[f]
  /\ \A f \in Files : mapped[f] = IF ready[f] \/ Publishes(f) THEN 1 ELSE 0
  /\ \A th \in Threads :
       /\ probe[th].at \in {"init", "publish"} => ~ready[FileOf(th)]
       /\ probe[th].at = "use" => ready[FileOf(th)]

(* The inductive invariant. *)
TablesInv == HashInv /\ ProbeInv /\ LockInv /\ FileInv

LEMMA TablesInitHolds == TablesInit => TablesInv
<1> SUFFICES ASSUME TablesInit PROVE TablesInv
  OBVIOUS
<1>1. Idle.at = "idle" /\ \A th \in Threads : probe[th] = Idle
  BY DEF TablesInit, Idle
<1>2. HashInv
  <2>1. hash = Full
    BY DEF TablesInit, Full
  <2>2. IsTable(Full)
    BY FullHolds DEF Holds
  <2> QED BY <2>1, <2>2 DEF HashInv, IsTable
<1>3. ProbeInv
  BY <1>1 DEF TablesInit, ProbeInv
<1>4. LockInv
  BY <1>1, TablesAssumption DEF TablesInit, LockInv
<1>5. FileInv
  <2>1. \A th \in Threads : probe[th].at = "idle"
    BY <1>1
  <2> QED BY <2>1 DEF TablesInit, FileInv, Publishes
<1> QED BY <1>2, <1>3, <1>4, <1>5 DEF TablesInv

LEMMA ProbeFacts ==
  ASSUME TablesInv, NEW th \in Threads, probe[th].at # "idle"
  PROVE  /\ IsProbe(probe[th]) /\ open
         /\ probe[th].at \in AtEntry => FileOf(th) \in Files /\ FileOf(th) = <<Full[probe[th].slot].ptr, probe[th].type>>
<1>1. IsProbe(probe[th]) /\ open
  BY DEF TablesInv, ProbeInv, Idle
<1>2. Full[probe[th].slot].ptr \in Listing
  BY <1>1, FullFacts DEF IsProbe
<1> QED BY <1>1, <1>2 DEF IsProbe, FileOf, Files, Listing

LEMMA TablesShared == TablesInv => TablesAreShared
<1> SUFFICES ASSUME TablesInv PROVE TablesAreShared
  OBVIOUS
<1>1. KeysLeadToTheirTables
  BY KeysLead DEF TablesInv
<1>2. ASSUME NEW f \in Files PROVE mapped[f] <= IF open THEN 1 ELSE 0
  <2>1. ASSUME ~open PROVE ~Publishes(f)
    BY <2>1, ProbeFacts DEF Publishes
  <2> QED BY <2>1 DEF TablesInv, FileInv
<1>3. ASSUME NEW th \in Threads
      PROVE  /\ probe[th].at = "use" => ready[FileOf(th)] /\ mapped[FileOf(th)] = 1
             /\ probe[th].at = "crashed" => \E m \in Range(Materials) :
                  probe[th].key \in Range(KeysOf[m]) /\ \E type \in Types : <<m, type>> \in Bad
  <2>1. ASSUME probe[th].at = "use" PROVE ready[FileOf(th)] /\ mapped[FileOf(th)] = 1
    <3>1. FileOf(th) \in Files
      BY <2>1, ProbeFacts DEF AtEntry
    <3> QED BY <2>1, <3>1 DEF TablesInv, FileInv
  <2>2. ASSUME probe[th].at = "crashed"
        PROVE  \E m \in Listing : probe[th].key \in Range(KeysOf[m]) /\ HasBad(m)
    <3>1. IsProbe(probe[th])
      BY <2>2, ProbeFacts
    <3> QED BY <2>2, <3>1, FullFacts DEF IsProbe
  <2> QED BY <2>1, <2>2 DEF Listing, HasBad
<1> QED BY <1>1, <1>2, <1>3 DEF TablesAreShared

(* A thread goes on with q. *)
Becomes(th, q) == probe' = [probe EXCEPT ![th] = q]

LEMMA ProbesStay ==
  ASSUME TablesInv, NEW th \in Threads, NEW q, Becomes(th, q), open' = open,
         q = Idle \/ (IsProbe(q) /\ open)
  PROVE  /\ ProbeInv'
         /\ probe'[th] = q /\ FileOf(th)' = <<q.entry, q.type>>
         /\ \A u \in Threads \ {th} : probe'[u] = probe[u] /\ FileOf(u)' = FileOf(u)
<1>1. probe'[th] = q /\ \A u \in Threads \ {th} : probe'[u] = probe[u]
  BY DEF TablesInv, ProbeInv, Becomes
<1>2. probe' = [u \in Threads |-> probe'[u]]
  BY DEF TablesInv, ProbeInv, Becomes
<1>3. \A u \in Threads : probe'[u] = Idle \/ (IsProbe(probe'[u]) /\ open')
  BY <1>1 DEF TablesInv, ProbeInv
<1> QED BY <1>1, <1>2, <1>3 DEF ProbeInv, FileOf

(* A step that changes nothing but the place of a thread without the lock. *)
LEMMA MovesKeep ==
  ASSUME TablesInv, NEW th \in Threads, NEW q, Becomes(th, q),
         UNCHANGED <<hash, ready, mapped, lock, open>>,
         q = Idle \/ (IsProbe(q) /\ open),
         probe[th].at \notin {"init", "publish"}, q.at \notin {"init", "publish"},
         q.at = "use" => ready[<<q.entry, q.type>>]
  PROVE  TablesInv'
<1>1. /\ ProbeInv'
      /\ probe'[th] = q /\ FileOf(th)' = <<q.entry, q.type>>
      /\ \A u \in Threads \ {th} : probe'[u] = probe[u] /\ FileOf(u)' = FileOf(u)
  BY ProbesStay
<1>2. HashInv'
  BY DEF TablesInv, HashInv
<1>3. LockInv'
  BY <1>1 DEF TablesInv, LockInv
<1>4. ASSUME NEW f \in Files PROVE Publishes(f)' <=> Publishes(f)
  BY <1>1 DEF Publishes
<1>5. FileInv'
  <2>1. \A f \in Files : mapped'[f] = IF ready'[f] \/ Publishes(f)' THEN 1 ELSE 0
    BY <1>4 DEF TablesInv, FileInv
  <2>2. \A u \in Threads :
          /\ probe'[u].at \in {"init", "publish"} => ~ready'[FileOf(u)']
          /\ probe'[u].at = "use" => ready'[FileOf(u)']
    BY <1>1 DEF TablesInv, FileInv
  <2> QED BY <2>1, <2>2 DEF TablesInv, FileInv
<1> QED BY <1>1, <1>2, <1>3, <1>5 DEF TablesInv

LEMMA FindKeeps ==
  ASSUME TablesInv, NEW th \in Threads, Find(th) PROVE TablesInv'
<1>1. PICK key \in AllKeys, type \in Types :
        /\ hash[SlotOf(key)].ptr # NoEntry
        /\ probe' = [probe EXCEPT ![th] = [at |-> "found", key |-> key, type |-> type,
                                           slot |-> SlotOf(key), entry |-> NoEntry]]
  BY DEF Find
<1> DEFINE p == [at |-> "found", key |-> key, type |-> type, slot |-> SlotOf(key), entry |-> NoEntry]
<1>2. IsProbe(p)
  <2> DEFINE s == SlotOf(key)
  <2>1. s \in Places /\ Full[s].key \in {NoKey, key}
    BY SlotFacts DEF TablesInv
  <2>2. Full[s].ptr # NoEntry
    BY <1>1, <2>1 DEF TablesInv, HashInv
  <2>3. Full[s].key = key
    BY <2>1, <2>2, FullFacts, Distinct
  <2> QED BY <2>1, <2>2, <2>3 DEF IsProbe, BusyAt, AtEntry
<1>3. probe[th] = Idle /\ open /\ UNCHANGED <<hash, ready, mapped, lock, open>>
  BY DEF Find
<1>4. Idle.at = "idle" /\ p.at = "found"
  BY DEF Idle
<1> HIDE DEF p
<1> QED BY <1>1, <1>2, <1>3, <1>4, MovesKeep DEF p, Becomes

LEMMA DereferenceKeeps ==
  ASSUME TablesInv, NEW th \in Threads, Dereference(th) PROVE TablesInv'
<1> DEFINE p == probe[th]
           entry == hash[p.slot].ptr
           q == IF entry = NoEntry THEN [p EXCEPT !.at = "crashed"]
                ELSE IF p.type = "dtz" /\ entry \notin Dtz THEN Idle
                ELSE [p EXCEPT !.at = "check", !.entry = entry]
<1>1. p.at = "found" /\ UNCHANGED <<hash, ready, mapped, lock, open>>
  BY DEF Dereference
<1>2. Becomes(th, q)
  BY Zenon DEF Dereference, Becomes
<1>3. IsProbe(p) /\ open
  BY <1>1, ProbeFacts
<1>4. \/ entry = Full[p.slot].ptr
      \/ entry = NoEntry /\ HasBad(Full[p.slot].ptr)
  BY <1>3 DEF IsProbe, TablesInv, HashInv
<1>5. q = Idle \/ IsProbe(q)
  <2>1. CASE entry = NoEntry
    <3>1. q = [at |-> "crashed", key |-> p.key, type |-> p.type, slot |-> p.slot, entry |-> p.entry]
      BY <1>3, <2>1 DEF IsProbe
    <3>2. HasBad(Full[p.slot].ptr)
      BY <1>3, <1>4, <2>1 DEF IsProbe
    <3> HIDE DEF q
    <3> QED BY <1>3, <3>1, <3>2 DEF IsProbe, BusyAt, AtEntry
  <2>2. CASE entry # NoEntry /\ ~(p.type = "dtz" /\ entry \notin Dtz)
    <3>1. q = [at |-> "check", key |-> p.key, type |-> p.type, slot |-> p.slot, entry |-> entry]
      <4>1. q = [p EXCEPT !.at = "check", !.entry = entry]
        BY <2>2
      <4> HIDE DEF q, entry
      <4> QED BY <1>3, <4>1 DEF IsProbe
    <3> HIDE DEF q
    <3> QED BY <1>3, <1>4, <2>2, <3>1 DEF IsProbe, BusyAt, AtEntry
  <2> QED BY <2>1, <2>2
<1>6. q.at \in {"crashed", "idle", "check"}
  <2>1. CASE entry = NoEntry
    BY <1>3, <2>1 DEF IsProbe
  <2>2. CASE entry # NoEntry /\ ~(p.type = "dtz" /\ entry \notin Dtz)
    BY <1>3, <2>2 DEF IsProbe
  <2>3. CASE entry # NoEntry /\ p.type = "dtz" /\ entry \notin Dtz
    BY <2>3 DEF Idle
  <2> QED BY <2>1, <2>2, <2>3
<1> HIDE DEF q
<1> QED BY <1>1, <1>2, <1>3, <1>5, <1>6, MovesKeep

(* Only at changes. *)
LEMMA Going ==
  ASSUME NEW p, IsProbe(p), NEW to \in BusyAt, to # "crashed",
         to \in AtEntry => p.at \in AtEntry
  PROVE  /\ IsProbe([p EXCEPT !.at = to])
         /\ [p EXCEPT !.at = to].at = to
         /\ [p EXCEPT !.at = to].entry = p.entry /\ [p EXCEPT !.at = to].type = p.type
<1> DEFINE q == [p EXCEPT !.at = to]
<1>1. q = [at |-> to, key |-> p.key, type |-> p.type, slot |-> p.slot, entry |-> p.entry]
  BY DEF IsProbe
<1> HIDE DEF q
<1> QED BY <1>1 DEF IsProbe, q

LEMMA GoesBecomes ==
  ASSUME NEW th, NEW to, Goes(th, to) PROVE Becomes(th, [probe[th] EXCEPT !.at = to])
BY Zenon DEF Goes, Becomes

LEMMA CheckReadyKeeps ==
  ASSUME TablesInv, NEW th \in Threads, CheckReady(th) PROVE TablesInv'
<1> DEFINE p == probe[th]
           to == IF ready[FileOf(th)] THEN "use" ELSE "wait"
           q == [p EXCEPT !.at = to]
<1>1. p.at = "check" /\ Goes(th, to) /\ UNCHANGED <<hash, ready, mapped, lock, open>>
  BY DEF CheckReady
<1>2. IsProbe(p) /\ open
  BY <1>1, ProbeFacts
<1>3. to \in BusyAt /\ to # "crashed" /\ to \notin {"init", "publish"} /\ p.at \in AtEntry
  BY <1>1 DEF BusyAt, AtEntry
<1>4. to = "use" => ready[<<p.entry, p.type>>]
  BY DEF FileOf
<1> HIDE DEF to
<1>5. IsProbe(q) /\ q.at = to /\ q.entry = p.entry /\ q.type = p.type /\ Becomes(th, q)
  BY <1>1, <1>2, <1>3, Going, GoesBecomes
<1> HIDE DEF q
<1> QED BY <1>1, <1>2, <1>3, <1>4, <1>5, MovesKeep

LEMMA LockKeeps ==
  ASSUME TablesInv, NEW th \in Threads, Lock(th) PROVE TablesInv'
<1> DEFINE p == probe[th]
           to == IF ready[FileOf(th)] THEN "use" ELSE "init"
           q == [p EXCEPT !.at = to]
<1>1. /\ p.at = "wait" /\ lock = NoEntry /\ Goes(th, to)
      /\ lock' = IF to = "use" THEN lock ELSE th
      /\ UNCHANGED <<hash, ready, mapped, open>>
  BY DEF Lock, ReadyUnderLock
<1>2. IsProbe(p) /\ open
  BY <1>1, ProbeFacts
<1>3. to \in {"use", "init"} /\ to \in BusyAt /\ p.at \in AtEntry
  BY <1>1 DEF BusyAt, AtEntry
<1>4. to = "use" <=> ready[<<p.entry, p.type>>]
  BY DEF FileOf
<1> HIDE DEF to
<1>5. IsProbe(q) /\ q.at = to /\ q.entry = p.entry /\ q.type = p.type /\ Becomes(th, q)
  BY <1>1, <1>2, <1>3, Going, GoesBecomes
<1> HIDE DEF q
<1>6. CASE to = "use"
  BY <1>1, <1>2, <1>3, <1>4, <1>5, <1>6, MovesKeep
<1>7. CASE to = "init"
  <2>1. /\ ProbeInv'
        /\ probe'[th] = q /\ FileOf(th)' = <<q.entry, q.type>>
        /\ \A u \in Threads \ {th} : probe'[u] = probe[u] /\ FileOf(u)' = FileOf(u)
    BY <1>1, <1>2, <1>5, ProbesStay
  <2>2. HashInv'
    BY <1>1 DEF TablesInv, HashInv
  <2>3. \A u \in Threads : probe[u].at \notin {"init", "publish"}
    BY <1>1, TablesAssumption DEF TablesInv, LockInv
  <2>4. lock' = th
    BY <1>1, <1>7
  <2>5. LockInv'
    BY <2>1, <2>3, <2>4, <1>5, <1>7 DEF LockInv
  <2>6. ASSUME NEW f \in Files PROVE Publishes(f)' <=> Publishes(f)
    BY <2>1, <2>3, <1>5, <1>7 DEF Publishes
  <2>7. FileInv'
    <3>1. \A f \in Files : mapped'[f] = IF ready'[f] \/ Publishes(f)' THEN 1 ELSE 0
      BY <1>1, <2>6 DEF TablesInv, FileInv
    <3>2. \A u \in Threads :
            /\ probe'[u].at \in {"init", "publish"} => ~ready'[FileOf(u)']
            /\ probe'[u].at = "use" => ready'[FileOf(u)']
      BY <1>1, <1>4, <1>5, <1>7, <2>1 DEF TablesInv, FileInv
    <3> QED BY <1>1, <3>1, <3>2 DEF TablesInv, FileInv
  <2> QED BY <2>1, <2>2, <2>5, <2>7 DEF TablesInv
<1> QED BY <1>3, <1>6, <1>7

(* Who has the lock is alone at those places. *)
LEMMA LockFacts ==
  ASSUME TablesInv, NEW th \in Threads, probe[th].at \in {"init", "publish"}
  PROVE  /\ lock = th
         /\ \A u \in Threads \ {th} : probe[u].at \notin {"init", "publish"}
         /\ FileOf(th) \in Files /\ ~ready[FileOf(th)]
<1>1. FileOf(th) \in Files
  BY ProbeFacts DEF AtEntry
<1> QED BY <1>1 DEF TablesInv, LockInv, FileInv

LEMMA InitTableKeeps ==
  ASSUME TablesInv, NEW th \in Threads, InitTable(th) PROVE TablesInv'
<1> DEFINE p == probe[th]
           q == [p EXCEPT !.at = "publish"]
           file == FileOf(th)
<1>1. /\ p.at = "init" /\ Goes(th, "publish")
      /\ mapped' = [mapped EXCEPT ![file] = @ + 1]
      /\ UNCHANGED <<hash, ready, lock, open>>
  BY DEF InitTable
<1>2. IsProbe(p) /\ open
  BY <1>1, ProbeFacts
<1>3. "publish" \in BusyAt /\ p.at \in AtEntry
  BY <1>1 DEF BusyAt, AtEntry
<1>5. IsProbe(q) /\ q.at = "publish" /\ q.entry = p.entry /\ q.type = p.type /\ Becomes(th, q)
  BY <1>1, <1>2, <1>3, Going, GoesBecomes
<1> HIDE DEF q
<1>6. /\ lock = th /\ file \in Files /\ ~ready[file]
      /\ \A u \in Threads \ {th} : probe[u].at \notin {"init", "publish"}
  BY <1>1, LockFacts
<1>7. /\ ProbeInv'
      /\ probe'[th] = q /\ FileOf(th)' = file
      /\ \A u \in Threads \ {th} : probe'[u] = probe[u] /\ FileOf(u)' = FileOf(u)
  <2>1. <<q.entry, q.type>> = file
    BY <1>5 DEF FileOf
  <2> QED BY <1>1, <1>2, <1>5, <2>1, ProbesStay
<1>8. HashInv'
  BY <1>1 DEF TablesInv, HashInv
<1>9. LockInv'
  BY <1>1, <1>5, <1>6, <1>7 DEF TablesInv, LockInv
<1> HIDE DEF file
<1>10. \A f \in Files : ~Publishes(f) /\ (Publishes(f)' <=> f = file)
  BY <1>1, <1>5, <1>6, <1>7 DEF Publishes
<1>11. FileInv'
  <2>1. ASSUME NEW f \in Files
        PROVE  mapped'[f] = (IF ready'[f] \/ Publishes(f)' THEN 1 ELSE 0)
    BY <1>1, <1>6, <1>10 DEF TablesInv, FileInv
  <2>2. \A u \in Threads :
          /\ probe'[u].at \in {"init", "publish"} => ~ready'[FileOf(u)']
          /\ probe'[u].at = "use" => ready'[FileOf(u)']
    BY <1>1, <1>5, <1>6, <1>7 DEF TablesInv, FileInv
  <2>3. mapped' \in [Files -> Nat]
    <3>1. mapped \in [Files -> Nat] /\ mapped[file] + 1 \in Nat
      BY <1>6 DEF TablesInv, FileInv
    <3> QED BY <1>1, <3>1
  <2> QED BY <1>1, <2>1, <2>2, <2>3 DEF TablesInv, FileInv
<1> QED BY <1>7, <1>8, <1>9, <1>11 DEF TablesInv

LEMMA PublishKeeps ==
  ASSUME TablesInv, NEW th \in Threads, Publish(th) PROVE TablesInv'
<1> DEFINE p == probe[th]
           q == [p EXCEPT !.at = "use"]
           file == FileOf(th)
<1>1. /\ p.at = "publish" /\ Goes(th, "use")
      /\ ready' = [ready EXCEPT ![file] = TRUE]
      /\ lock' = NoEntry
      /\ UNCHANGED <<hash, mapped, open>>
  BY DEF Publish
<1>2. IsProbe(p) /\ open
  BY <1>1, ProbeFacts
<1>3. "use" \in BusyAt /\ p.at \in AtEntry
  BY <1>1 DEF BusyAt, AtEntry
<1>5. IsProbe(q) /\ q.at = "use" /\ q.entry = p.entry /\ q.type = p.type /\ Becomes(th, q)
  BY <1>1, <1>2, <1>3, Going, GoesBecomes
<1> HIDE DEF q
<1>6. /\ lock = th /\ file \in Files /\ ~ready[file]
      /\ \A u \in Threads \ {th} : probe[u].at \notin {"init", "publish"}
  BY <1>1, LockFacts
<1>7. /\ ProbeInv'
      /\ probe'[th] = q /\ FileOf(th)' = file
      /\ \A u \in Threads \ {th} : probe'[u] = probe[u] /\ FileOf(u)' = FileOf(u)
  <2>1. <<q.entry, q.type>> = file
    BY <1>5 DEF FileOf
  <2> QED BY <1>1, <1>2, <1>5, <2>1, ProbesStay
<1>8. HashInv'
  BY <1>1 DEF TablesInv, HashInv
<1>9. LockInv'
  BY <1>1, <1>5, <1>6, <1>7, TablesAssumption DEF TablesInv, LockInv
<1>10. \A f \in Files : ~Publishes(f)' /\ (Publishes(f) <=> f = file)
  BY <1>1, <1>5, <1>6, <1>7 DEF Publishes
<1> HIDE DEF file
<1>11. FileInv'
  <2>1. ASSUME NEW f \in Files
        PROVE  mapped'[f] = (IF ready'[f] \/ Publishes(f)' THEN 1 ELSE 0)
    BY <1>1, <1>6, <1>10 DEF TablesInv, FileInv
  <2>2. \A u \in Threads :
          /\ probe'[u].at \in {"init", "publish"} => ~ready'[FileOf(u)']
          /\ probe'[u].at = "use" => ready'[FileOf(u)']
    <3>1. \A f \in Files : ready[f] => ready'[f]
      BY <1>1 DEF TablesInv, FileInv
    <3>2. ready'[file]
      BY <1>1, <1>6 DEF TablesInv, FileInv
    <3>3. ASSUME NEW u \in Threads \ {th}, probe[u].at = "use" PROVE ready'[FileOf(u)]
      <4>1. FileOf(u) \in Files
        BY <3>3, ProbeFacts DEF AtEntry
      <4> QED BY <3>1, <3>3, <4>1 DEF TablesInv, FileInv
    <3> QED BY <1>5, <1>6, <1>7, <3>2, <3>3
  <2>3. ready' \in [Files -> BOOLEAN]
    BY <1>1 DEF TablesInv, FileInv
  <2> QED BY <1>1, <1>2, <2>1, <2>2, <2>3 DEF TablesInv, FileInv
<1> QED BY <1>7, <1>8, <1>9, <1>11 DEF TablesInv

LEMMA InitFailsKeeps ==
  ASSUME TablesInv, NEW th \in Threads, InitFails(th) PROVE TablesInv'
<1> DEFINE p == probe[th]
<1>1. /\ p.at = "init" /\ FileOf(th) \in Bad /\ Becomes(th, Idle)
      /\ hash' = [hash EXCEPT ![p.slot].ptr = NoEntry]
      /\ lock' = NoEntry
      /\ UNCHANGED <<ready, mapped, open>>
  BY DEF InitFails, Returns, Becomes
<1>2. IsProbe(p) /\ FileOf(th) = <<Full[p.slot].ptr, p.type>>
  BY <1>1, ProbeFacts DEF AtEntry
<1>3. Idle.at = "idle"
  BY DEF Idle
<1>4. /\ lock = th
      /\ \A u \in Threads \ {th} : probe[u].at \notin {"init", "publish"}
  BY <1>1, LockFacts
<1>5. /\ ProbeInv'
      /\ probe'[th] = Idle
      /\ \A u \in Threads \ {th} : probe'[u] = probe[u] /\ FileOf(u)' = FileOf(u)
  <2>1. PICK q : q = Idle
    OBVIOUS
  <2> QED BY <1>1, <2>1, ProbesStay
<1>6. HashInv'
  <2>1. HasBad(Full[p.slot].ptr)
    BY <1>1, <1>2 DEF HasBad, IsProbe
  <2>2. p.slot \in Places
    BY <1>2 DEF IsProbe
  <2>3. \A i \in Places :
          /\ hash'[i].key = hash[i].key
          /\ hash'[i].ptr = IF i = p.slot THEN NoEntry ELSE hash[i].ptr
    BY <1>1, <2>2 DEF TablesInv, HashInv
  <2>4. hash' \in [Places -> [key : ListedKeys \cup {NoKey}, ptr : Listing \cup {NoEntry}]]
    BY <1>1, <2>2 DEF TablesInv, HashInv
  <2> QED BY <2>1, <2>3, <2>4 DEF TablesInv, HashInv
<1>7. LockInv'
  BY <1>1, <1>3, <1>4, <1>5, TablesAssumption DEF TablesInv, LockInv
<1>8. \A f \in Files : Publishes(f)' <=> Publishes(f)
  BY <1>1, <1>3, <1>5 DEF Publishes
<1>9. FileInv'
  <2>1. ASSUME NEW f \in Files
        PROVE  mapped'[f] = (IF ready'[f] \/ Publishes(f)' THEN 1 ELSE 0)
    BY <1>1, <1>8 DEF TablesInv, FileInv
  <2>2. \A u \in Threads :
          /\ probe'[u].at \in {"init", "publish"} => ~ready'[FileOf(u)']
          /\ probe'[u].at = "use" => ready'[FileOf(u)']
    BY <1>1, <1>3, <1>5 DEF TablesInv, FileInv
  <2> QED BY <1>1, <2>1, <2>2 DEF TablesInv, FileInv
<1> QED BY <1>5, <1>6, <1>7, <1>9 DEF TablesInv

LEMMA UseKeeps ==
  ASSUME TablesInv, NEW th \in Threads, Use(th) PROVE TablesInv'
<1>1. /\ probe[th].at = "use" /\ Becomes(th, Idle)
      /\ UNCHANGED <<hash, ready, mapped, lock, open>>
  BY DEF Use, Returns, Becomes
<1>2. Idle.at = "idle"
  BY DEF Idle
<1>3. PICK q : q = Idle
  OBVIOUS
<1>4. Becomes(th, q) /\ q.at \notin {"init", "publish", "use"}
  BY <1>1, <1>2, <1>3
<1> QED BY <1>1, <1>3, <1>4, MovesKeep

LEMMA CloseKeeps == ASSUME TablesInv, Close PROVE TablesInv'
<1>1. /\ open /\ \A th \in Threads : probe[th] = Idle
      /\ open' = FALSE
      /\ mapped' = [f \in Files |-> IF ready[f] THEN mapped[f] - 1 ELSE mapped[f]]
      /\ ready' = [f \in Files |-> FALSE]
      /\ UNCHANGED <<hash, lock, probe>>
  BY DEF Close
<1>2. Idle.at = "idle" /\ \A th \in Threads : probe[th].at = "idle" /\ probe'[th].at = "idle"
  BY <1>1 DEF Idle
<1>3. HashInv'
  BY <1>1 DEF TablesInv, HashInv
<1>4. ProbeInv'
  <2>1. probe' = probe /\ probe = [th \in Threads |-> probe[th]]
    BY <1>1 DEF TablesInv, ProbeInv
  <2>2. \A th \in Threads : probe'[th] = Idle
    BY <1>1
  <2>3. probe' = [th \in Threads |-> probe'[th]]
    BY <2>1, Zenon
  <2> QED BY <2>2, <2>3, Zenon DEF ProbeInv
<1>5. LockInv'
  BY <1>1 DEF TablesInv, LockInv
<1>6. \A f \in Files : ~Publishes(f) /\ ~Publishes(f)'
  BY <1>2 DEF Publishes
<1>7. \A f \in Files : mapped'[f] = 0 /\ ~ready'[f]
  BY <1>1, <1>6 DEF TablesInv, FileInv
<1>8. FileInv'
  <2>1. \A f \in Files : mapped'[f] = (IF ready'[f] \/ Publishes(f)' THEN 1 ELSE 0)
    BY <1>6, <1>7
  <2>2. mapped' \in [Files -> Nat]
    <3>1. \A f \in Files : (IF ready[f] THEN mapped[f] - 1 ELSE mapped[f]) = 0
      BY <1>1, <1>7
    <3> QED BY <1>1, <3>1
  <2>3. ready' \in [Files -> BOOLEAN]
    BY <1>1
  <2>4. open' \in BOOLEAN
    BY <1>1
  <2> QED BY <1>2, <1>7, <2>1, <2>2, <2>3, <2>4 DEF FileInv
<1> QED BY <1>3, <1>4, <1>5, <1>8 DEF TablesInv

LEMMA TablesStepHolds == ASSUME TablesInv, TablesNext PROVE TablesInv'
BY FindKeeps, DereferenceKeeps, CheckReadyKeeps, LockKeeps, InitTableKeeps, PublishKeeps,
   InitFailsKeeps, UseKeeps, CloseKeeps DEF TablesNext

LEMMA TablesStay == ASSUME TablesInv, UNCHANGED tablesVars PROVE TablesInv'
<1>1. UNCHANGED <<hash, ready, mapped, lock, probe, open>>
  BY DEF tablesVars
<1>2. HashInv' /\ ProbeInv' /\ LockInv'
  BY <1>1 DEF TablesInv, HashInv, ProbeInv, LockInv
<1>3. \A th : FileOf(th)' = FileOf(th)
  BY <1>1 DEF FileOf
<1>4. \A f : Publishes(f)' <=> Publishes(f)
  BY <1>1, <1>3 DEF Publishes
<1>5. FileInv'
  BY <1>1, <1>3, <1>4 DEF TablesInv, FileInv
<1> QED BY <1>2, <1>5 DEF TablesInv

(* The parts of Syzygy stand still while one is at work. *)
LEMMA TablesInvHolds == Spec => []TablesInv
<1>1. Init => TablesInv
  BY TablesInitHolds DEF Init
<1>2. TablesInv /\ [Next]_vars => TablesInv'
  <2> SUFFICES ASSUME TablesInv, [Next]_vars PROVE TablesInv'
    OBVIOUS
  <2>1. TablesNext \/ UNCHANGED tablesVars
    BY DEF Next, vars
  <2> QED BY <2>1, TablesStepHolds, TablesStay
<1> QED BY <1>1, <1>2, PTL DEF Spec

(* For any threads, materials, hash values and bad files: a key leads to   *)
(* the entry of its own material or to none, and to none only if a file of *)
(* that entry was bad, whatever other slots were deleted meanwhile; a file *)
(* is mapped at most once and read only when it is mapped and its flag     *)
(* set, although the flag is first read without the lock; a probe uses a   *)
(* cleared pointer only where a file was bad; and nothing stays mapped     *)
(* (syzygy.cc:1092, 1319, 996).                                            *)
THEOREM TablesSharedCorrect == Spec => []TablesAreShared
BY TablesInvHolds, TablesShared, PTL

-----------------------------------------------------------------------------
(* Sets of integers, and induction over an interval. *)

LEMMA MaxOf ==
  ASSUME NEW a \in Int, NEW b \in Int, NEW S \in SUBSET (a .. b), S # {}
  PROVE  Max(S) \in S /\ \A y \in S : y <= Max(S)
<1> DEFINE T == {n \in Nat : b - n \in S}
<1>1. T \in SUBSET Nat /\ T # {}
  <2>1. PICK x \in S : TRUE
    OBVIOUS
  <2>2. b - x \in Nat /\ b - (b - x) = x
    OBVIOUS
  <2> QED BY <2>1, <2>2
<1>2. PICK n \in T : \A k \in T : n <= k
  <2> HIDE DEF T
  <2> QED BY <1>1, LeastNat
<1>3. b - n \in S /\ \A y \in S : b - n >= y
  <2>1. ASSUME NEW y \in S PROVE b - n >= y
    <3>1. b - y \in Nat /\ b - (b - y) = y
      OBVIOUS
    <3>2. b - y \in T
      BY <3>1
    <3> QED BY <3>1, <3>2, <1>2
  <2> QED BY <2>1, <1>2
<1>4. Max(S) = CHOOSE x \in S : \A y \in S : x >= y
  BY DEF Max
<1>5. Max(S) \in S /\ \A y \in S : Max(S) >= y
  BY <1>3, <1>4
<1> QED BY <1>5

(* The same where the bounds do not matter. *)
Bounded(S) == S # {} /\ \E a, b \in Int : S \in SUBSET (a .. b)

LEMMA MaxOfBounded ==
  ASSUME NEW S, Bounded(S)
  PROVE  Max(S) \in S /\ \A y \in S : y <= Max(S)
<1>1. PICK a \in Int, b \in Int : S \in SUBSET (a .. b)
  BY DEF Bounded
<1>2. S # {}
  BY DEF Bounded
<1> QED BY <1>1, <1>2, MaxOf, Zenon

LEMMA BoundedBy ==
  ASSUME NEW a \in Int, NEW b \in Int, NEW S, \A y \in S : y \in a .. b, S # {}
  PROVE  Bounded(S)
<1>1. \E i, j \in Int : S \in SUBSET (i .. j)
  <2> WITNESS a \in Int, b \in Int
  <2> QED OBVIOUS
<1> QED BY <1>1, Zenon DEF Bounded

LEMMA MinOf ==
  ASSUME NEW a \in Int, NEW b \in Int, NEW S \in SUBSET (a .. b), S # {}
  PROVE  Min(S) \in S /\ \A y \in S : Min(S) <= y
<1> DEFINE T == {n \in Nat : a + n \in S}
<1>1. T \in SUBSET Nat /\ T # {}
  <2>1. PICK x \in S : TRUE
    OBVIOUS
  <2>2. x - a \in Nat /\ a + (x - a) = x
    OBVIOUS
  <2> QED BY <2>1, <2>2
<1>2. PICK n \in T : \A k \in T : n <= k
  <2> HIDE DEF T
  <2> QED BY <1>1, LeastNat
<1>3. a + n \in S /\ \A y \in S : a + n <= y
  <2>1. ASSUME NEW y \in S PROVE a + n <= y
    <3>1. y - a \in Nat /\ a + (y - a) = y
      OBVIOUS
    <3>2. y - a \in T
      BY <3>1
    <3> QED BY <3>1, <3>2, <1>2
  <2> QED BY <2>1, <1>2
<1>4. Min(S) = CHOOSE x \in S : \A y \in S : x <= y
  BY DEF Min
<1> QED BY <1>3, <1>4

LEMMA StepByStep ==
  ASSUME NEW N \in Nat, NEW S \in SUBSET (0 .. N), 0 \in S,
         \A k \in 0 .. N : k \in S /\ k < N => k + 1 \in S
  PROVE  S = 0 .. N
<1> DEFINE T == {n \in 0 .. N : n \notin S}
<1>1. SUFFICES ASSUME T # {} PROVE FALSE
  OBVIOUS
<1>2. PICK n \in T : \A k \in T : n <= k
  <2>1. T \in SUBSET Nat
    OBVIOUS
  <2> HIDE DEF T
  <2> QED BY <1>1, <2>1, LeastNat
<1>3. n # 0 /\ n - 1 \in 0 .. N /\ n - 1 \notin T
  BY <1>2
<1> QED BY <1>2, <1>3

-----------------------------------------------------------------------------
(* The retrograde analysis.  Its stages, as functions. *)

StageOne == [p \in Positions |-> IF Mated(p) THEN -1 ELSE 0]
Stage(before, k) ==
  LET d == Computed(before)
  IN [p \in Positions |-> IF d[p] # 0 THEN d[p]
                          ELSE IF WinsIn(d, p, k) THEN k
                          ELSE IF LosesIn(d, p, k) THEN -k ELSE 0]
Stages(N, D) == D = [k \in 0 .. N |-> IF k = 0 THEN StageOne ELSE Stage(D[k - 1], k)]

LEMMA StagesExist == \A N \in Nat : \E D : Stages(N, D)
<1> DEFINE T == {N \in Nat : ~ \E D : Stages(N, D)}
<1>1. SUFFICES ASSUME T # {} PROVE FALSE
  OBVIOUS
<1>2. PICK N \in T : \A m \in T : N <= m
  <2> HIDE DEF T
  <2>1. T \in SUBSET Nat
    BY DEF T
  <2> QED BY <1>1, <2>1, LeastNat
<1>3. N # 0
  <2> DEFINE g == [n \in 0 .. 0 |-> StageOne]
  <2>1. Stages(0, g)
    <3>1. g = [k \in 0 .. 0 |-> IF k = 0 THEN StageOne ELSE Stage(g[k - 1], k)]
      OBVIOUS
    <3> QED BY <3>1, Zenon DEF Stages
  <2> QED BY <2>1, <1>2
<1>4. PICK g : Stages(N - 1, g)
  <2>1. N - 1 \in Nat /\ N - 1 \notin T
    BY <1>2, <1>3
  <2> QED BY <2>1
<1> DEFINE last == Stage(g[N - 1], N)
           h == [n \in 0 .. N |-> IF n < N THEN g[n] ELSE last]
<1>5. Stages(N, h)
  <2>1. \A n \in 0 .. N - 1 : g[n] = IF n = 0 THEN StageOne ELSE Stage(g[n - 1], n)
    BY <1>4 DEF Stages
  <2>2. ASSUME NEW n \in 0 .. N
        PROVE  h[n] = IF n = 0 THEN StageOne ELSE Stage(h[n - 1], n)
    <3>1. CASE n = N
      <4>1. h[N] = last /\ h[N - 1] = g[N - 1]
        BY <1>2, <1>3
      <4> HIDE DEF h
      <4> QED BY <3>1, <4>1, <1>3
    <3>2. CASE n < N
      <4>1. n \in 0 .. N - 1 /\ h[n] = g[n]
        BY <3>2, <1>2
      <4>2. n # 0 => h[n - 1] = g[n - 1]
        BY <4>1, <1>2
      <4> HIDE DEF h
      <4> QED BY <4>1, <4>2, <2>1
    <3> QED BY <3>1, <3>2, <1>2
  <2>3. h = [n \in 0 .. N |-> h[n]]
    OBVIOUS
  <2>4. h = [n \in 0 .. N |-> IF n = 0 THEN StageOne ELSE Stage(h[n - 1], n)]
    <3> HIDE DEF h
    <3> QED BY <2>2, <2>3
  <2> HIDE DEF h
  <2> QED BY <2>4, Zenon DEF Stages
<1> QED BY <1>2, <1>5

LEMMA PliesFacts ==
  /\ Rule50 \in Nat /\ Rule50 >= 1 /\ Rule50 < 500
  /\ Cardinality(Positions) \in Nat /\ MaxPlies \in Nat /\ MaxPlies >= Rule50 + 1
BY ProbeAssumption, FS_CardinalityType DEF MaxPlies

LEMMA TruthUnfolds == \E D : Stages(MaxPlies, D) /\ Truth = D[MaxPlies]
<1>1. PICK g : Stages(MaxPlies, g)
  BY PliesFacts, StagesExist
<1>2. Truth = (CHOOSE D : Stages(MaxPlies, D))[MaxPlies]
  BY Zenon DEF Truth, Stages, Stage, StageOne
<1> QED BY <1>1, <1>2

LEMMA GameFacts ==
  ASSUME game \in Games, NEW p \in Positions
  PROVE  /\ Quiet(p) \subseteq Positions
         /\ \A q \in Quiet(p) : Side(q) # Side(p)
         /\ Len(Zeroing(p)) \in Nat /\ DOMAIN Zeroing(p) = 1 .. Len(Zeroing(p))
         /\ NoMoves(p) <=> (Quiet(p) = {} /\ DOMAIN Zeroing(p) = {})
         /\ \A i \in DOMAIN Zeroing(p) :
              Zeroing(p)[i].wdl \in -2 .. 2 /\ Zeroing(p)[i].known \in BOOLEAN
<1>1. IsGame(game)
  BY ProbeAssumption
<1>2. Zeroing(p) \in Seq([capture : BOOLEAN, wdl : -2..2, known : BOOLEAN])
  BY <1>1 DEF IsGame, Zeroing
<1>3. Quiet(p) \subseteq Positions /\ \A q \in Quiet(p) : Side(q) # Side(p)
  BY <1>1 DEF IsGame, Quiet
<1>4. Len(Zeroing(p)) \in Nat /\ DOMAIN Zeroing(p) = 1 .. Len(Zeroing(p))
  BY <1>2
<1>5. Zeroing(p) = <<>> <=> DOMAIN Zeroing(p) = {}
  <2>1. Zeroing(p) = <<>> <=> Len(Zeroing(p)) = 0
    BY <1>2, EmptySeq
  <2> QED BY <2>1, <1>4
<1>6. ASSUME NEW i \in DOMAIN Zeroing(p)
      PROVE  Zeroing(p)[i].wdl \in -2 .. 2 /\ Zeroing(p)[i].known \in BOOLEAN
  <2> DEFINE R == [capture : BOOLEAN, wdl : -2..2, known : BOOLEAN]
  <2>1. Zeroing(p)[i] \in R
    <3>1. Zeroing(p) \in Seq(R)
      BY <1>2
    <3> HIDE DEF R
    <3> QED BY <3>1, <1>4, <1>6, ElementOfSeq
  <2> QED BY <2>1
<1> QED BY <1>3, <1>4, <1>5, <1>6 DEF NoMoves

LEMMA CostFacts ==
  ASSUME NEW w \in -2 .. 2
  PROVE  /\ Cost(w) \in Nat /\ Cost(w) >= 1 /\ Cost(w) <= Rule50 + 1
         /\ w = 2 \/ w = -2 => Cost(w) = 1
         /\ w = 1 \/ w = -1 \/ w = 0 => Cost(w) = Rule50 + 1
BY PliesFacts DEF Cost, Abs

-----------------------------------------------------------------------------
(* How a value comes into the stages D. *)

LEMMA StageFacts ==
  ASSUME NEW D, Stages(MaxPlies, D), NEW p \in Positions
  PROVE  /\ D[0][p] = IF Mated(p) THEN -1 ELSE 0
         /\ \A k \in 1 .. MaxPlies :
              D[k][p] = IF D[k - 1][p] # 0 THEN D[k - 1][p]
                        ELSE IF WinsIn(D[k - 1], p, k) THEN k
                        ELSE IF LosesIn(D[k - 1], p, k) THEN -k ELSE 0
<1>1. /\ D[0] = StageOne
      /\ \A k \in 1 .. MaxPlies : D[k] = Stage(D[k - 1], k)
  BY PliesFacts DEF Stages
<1>2. D[0][p] = IF Mated(p) THEN -1 ELSE 0
  BY <1>1 DEF StageOne
<1>3. ASSUME NEW k \in 1 .. MaxPlies
      PROVE  D[k][p] = IF D[k - 1][p] # 0 THEN D[k - 1][p]
                        ELSE IF WinsIn(D[k - 1], p, k) THEN k
                        ELSE IF LosesIn(D[k - 1], p, k) THEN -k ELSE 0
  <2>1. D[k][p] = Stage(D[k - 1], k)[p]
    BY <1>1
  <2>2. Computed(D[k - 1]) = D[k - 1]
    BY DEF Computed
  <2> QED BY <2>1, <2>2, Zenon DEF Stage
<1> QED BY <1>2, <1>3

(* A value that is there stays. *)
LEMMA ValuesPersist ==
  ASSUME NEW D, Stages(MaxPlies, D), NEW p \in Positions,
         NEW j \in 0 .. MaxPlies, D[j][p] # 0
  PROVE  \A k \in j .. MaxPlies : D[k][p] = D[j][p]
<1> DEFINE S == {k \in 0 .. MaxPlies : k >= j => D[k][p] = D[j][p]}
<1>1. 0 \in S
  BY PliesFacts
<1>2. ASSUME NEW k \in 0 .. MaxPlies, k \in S, k < MaxPlies PROVE k + 1 \in S
  <2>1. k + 1 \in 1 .. MaxPlies /\ (k + 1) - 1 = k
    BY <1>2, PliesFacts
  <2>2. D[k][p] # 0 => D[k + 1][p] = D[k][p]
    BY <2>1, StageFacts
  <2> QED BY <1>2, <2>1, <2>2
<1>3. S = 0 .. MaxPlies
  <2> HIDE DEF S
  <2>1. S \in SUBSET (0 .. MaxPlies)
    BY DEF S
  <2> QED BY <1>1, <1>2, <2>1, PliesFacts, StepByStep
<1> QED BY <1>3, PliesFacts

(* A value v came in stage Abs(v), unless the side is mated. *)
Born(D, p, v) ==
  /\ v \in Int /\ v # 0 /\ Abs(v) \in 1 .. MaxPlies
  /\ D[Abs(v) - 1][p] = 0 /\ D[Abs(v)][p] = v
  /\ IF v > 0 THEN WinsIn(D[v - 1], p, v) ELSE LosesIn(D[-v - 1], p, -v)

LEMMA ValuesAreBorn ==
  ASSUME NEW D, Stages(MaxPlies, D), NEW p \in Positions
  PROVE  \A k \in 0 .. MaxPlies :
           IF Mated(p) THEN D[k][p] = -1
           ELSE D[k][p] = 0 \/ (Born(D, p, D[k][p]) /\ Abs(D[k][p]) <= k)
<1>1. CASE Mated(p)
  <2>1. D[0][p] = -1
    BY <1>1, StageFacts
  <2> QED BY <1>1, <2>1, ValuesPersist, PliesFacts
<1>2. CASE ~Mated(p)
  <2> DEFINE P(k) == D[k][p] = 0 \/ (Born(D, p, D[k][p]) /\ Abs(D[k][p]) <= k)
             S == {k \in 0 .. MaxPlies : P(k)}
  <2>1. 0 \in S
    <3>1. D[0][p] = 0 /\ 0 \in 0 .. MaxPlies
      BY <1>2, StageFacts, PliesFacts
    <3> QED BY <3>1
  <2>2. ASSUME NEW k \in 0 .. MaxPlies, k \in S, k < MaxPlies PROVE k + 1 \in S
    <3>0. SUFFICES P(k + 1)
      BY <2>2, PliesFacts
    <3>1. k + 1 \in 1 .. MaxPlies /\ (k + 1) - 1 = k
      BY <2>2, PliesFacts
    <3>2. CASE D[k][p] # 0
      <4>1. D[k + 1][p] = D[k][p]
        BY <3>1, <3>2, StageFacts
      <4>2. Born(D, p, D[k][p]) /\ Abs(D[k][p]) <= k
        BY <2>2, <3>2
      <4>3. Abs(D[k][p]) <= k + 1
        BY <4>2 DEF Born
      <4> QED BY <4>1, <4>2, <4>3, <3>1
    <3>3. CASE D[k][p] = 0
      <4>1. \/ D[k + 1][p] = 0
            \/ D[k + 1][p] = k + 1 /\ WinsIn(D[k], p, k + 1)
            \/ D[k + 1][p] = -(k + 1) /\ LosesIn(D[k], p, k + 1)
        BY <3>1, <3>3, StageFacts
      <4>2. CASE D[k + 1][p] = k + 1 /\ WinsIn(D[k], p, k + 1)
        <5>1. k + 1 > 0 /\ Abs(k + 1) = k + 1 /\ k + 1 \in Int
          BY <3>1 DEF Abs
        <5>2. Born(D, p, k + 1)
          BY <3>1, <3>3, <4>2, <5>1 DEF Born
        <5> QED BY <4>2, <5>1, <5>2, <3>1
      <4>3. CASE D[k + 1][p] = -(k + 1) /\ LosesIn(D[k], p, k + 1)
        <5> DEFINE v == -(k + 1)
        <5>1. v < 0 /\ ~(v > 0) /\ Abs(v) = k + 1 /\ v \in Int /\ -v = k + 1 /\ -v - 1 = k
          BY <3>1 DEF Abs
        <5>2. Born(D, p, v)
          <6> HIDE DEF v
          <6> QED BY <3>1, <3>3, <4>3, <5>1 DEF Born, v
        <5> QED BY <4>3, <5>1, <5>2, <3>1
      <4> QED BY <4>1, <4>2, <4>3, Zenon
    <3> QED BY <3>2, <3>3
  <2>3. S = 0 .. MaxPlies
    <3> HIDE DEF P
    <3>1. S \in SUBSET (0 .. MaxPlies)
      BY DEF S
    <3> HIDE DEF S
    <3> QED BY <2>1, <2>2, <3>1, PliesFacts, StepByStep
  <2> HIDE DEF P
  <2>4. \A k \in 0 .. MaxPlies : P(k)
    BY <2>3
  <2> QED BY <1>2, <2>4 DEF P
<1> QED BY <1>1, <1>2

(* The value in the last stage tells the values in the others. *)
Final(D, p) == D[MaxPlies][p]

LEMMA FinalFacts ==
  ASSUME NEW D, Stages(MaxPlies, D), NEW p \in Positions
  PROVE  /\ Final(D, p) \in -MaxPlies .. MaxPlies
         /\ Mated(p) => Final(D, p) = -1
         /\ ~Mated(p) /\ Final(D, p) # 0 => Born(D, p, Final(D, p))
         /\ \A k \in 0 .. MaxPlies :
              D[k][p] = IF Mated(p) \/ Abs(Final(D, p)) <= k THEN Final(D, p) ELSE 0
<1> DEFINE t == Final(D, p)
<1>1. CASE Mated(p)
  <2>1. \A k \in 0 .. MaxPlies : D[k][p] = -1
    BY <1>1, ValuesAreBorn
  <2> QED BY <1>1, <2>1, PliesFacts DEF Final
<1>2. CASE ~Mated(p)
  <2>1. t = 0 \/ (Born(D, p, t) /\ Abs(t) <= MaxPlies)
    BY <1>2, ValuesAreBorn, PliesFacts DEF Final
  <2>2. t \in -MaxPlies .. MaxPlies
    BY <2>1, PliesFacts DEF Born, Abs
  <2>3. ASSUME NEW k \in 0 .. MaxPlies PROVE D[k][p] = IF Abs(t) <= k THEN t ELSE 0
    <3>1. D[k][p] = 0 \/ (D[k][p] = t /\ Abs(D[k][p]) <= k)
      <4>1. D[k][p] # 0 => t = D[k][p]
        BY ValuesPersist, PliesFacts DEF Final
      <4> QED BY <4>1, <1>2, ValuesAreBorn
    <3>2. ASSUME t # 0, Abs(t) <= k PROVE D[k][p] = t
      <4>1. Born(D, p, t)
        BY <2>1, <3>2
      <4>2. Abs(t) \in 0 .. MaxPlies /\ D[Abs(t)][p] = t /\ k \in Abs(t) .. MaxPlies
        BY <4>1, <3>2 DEF Born
      <4> HIDE DEF t
      <4>3. D[Abs(t)][p] # 0
        BY <4>2, <3>2
      <4> QED BY <4>2, <4>3, ValuesPersist
    <3> QED BY <3>1, <3>2
  <2> QED BY <1>2, <2>1, <2>2, <2>3
<1> QED BY <1>1, <1>2

Lengths(d, p) == {1 + d[q] : q \in Quiet(p)} \cup {Cost(Zeroing(p)[i].wdl) : i \in DOMAIN Zeroing(p)}

LEMMA LosesInFacts ==
  ASSUME game \in Games, NEW p \in Positions, NEW d, NEW k,
         \A q \in Quiet(p) : d[q] \in -MaxPlies .. MaxPlies,
         LosesIn(d, p, k)
  PROVE  /\ ~NoMoves(p)
         /\ \A q \in Quiet(p) : d[q] > 0 /\ 1 + d[q] <= k
         /\ \A i \in DOMAIN Zeroing(p) : Zeroing(p)[i].wdl > 0 /\ Cost(Zeroing(p)[i].wdl) <= k
         /\ \/ \E q \in Quiet(p) : k = 1 + d[q]
            \/ \E i \in DOMAIN Zeroing(p) : k = Cost(Zeroing(p)[i].wdl)
<1>1. /\ ~NoMoves(p) /\ \A q \in Quiet(p) : d[q] > 0
      /\ \A i \in DOMAIN Zeroing(p) : Zeroing(p)[i].wdl > 0
      /\ k = Max(Lengths(d, p))
  BY Zenon DEF LosesIn, Lengths
<1>2. Lengths(d, p) \in SUBSET (1 - MaxPlies .. MaxPlies + 1)
  <2>1. \A q \in Quiet(p) : 1 + d[q] \in 1 - MaxPlies .. MaxPlies + 1
    BY PliesFacts
  <2>2. \A i \in DOMAIN Zeroing(p) : Cost(Zeroing(p)[i].wdl) \in 1 - MaxPlies .. MaxPlies + 1
    BY GameFacts, CostFacts, PliesFacts
  <2> QED BY <2>1, <2>2 DEF Lengths
<1>3. Lengths(d, p) # {}
  <2>1. Quiet(p) # {} \/ DOMAIN Zeroing(p) # {}
    BY <1>1, GameFacts
  <2> QED BY <2>1 DEF Lengths
<1>4. k \in Lengths(d, p) /\ \A y \in Lengths(d, p) : y <= k
  <2>1. 1 - MaxPlies \in Int /\ MaxPlies + 1 \in Int
    BY PliesFacts
  <2>2. Bounded(Lengths(d, p))
    BY <1>2, <1>3, <2>1, BoundedBy
  <2> QED BY <1>1, <2>2, MaxOfBounded, Zenon
<1> QED BY <1>1, <1>4 DEF Lengths

LEMMA LosesInSome ==
  ASSUME game \in Games, NEW p \in Positions, NEW d,
         \A q \in Quiet(p) : d[q] \in 1 .. MaxPlies - 1,
         \A i \in DOMAIN Zeroing(p) : Zeroing(p)[i].wdl > 0,
         ~NoMoves(p)
  PROVE  \E k \in 1 .. MaxPlies : LosesIn(d, p, k)
<1>2. Lengths(d, p) \in SUBSET (1 .. MaxPlies)
  <2>1. \A q \in Quiet(p) : 1 + d[q] \in 1 .. MaxPlies
    BY PliesFacts
  <2>2. \A i \in DOMAIN Zeroing(p) : Cost(Zeroing(p)[i].wdl) \in 1 .. MaxPlies
    BY GameFacts, CostFacts, PliesFacts
  <2> QED BY <2>1, <2>2 DEF Lengths
<1>3. Lengths(d, p) # {}
  <2>1. Quiet(p) # {} \/ DOMAIN Zeroing(p) # {}
    BY GameFacts
  <2> QED BY <2>1 DEF Lengths
<1>4. Max(Lengths(d, p)) \in Lengths(d, p)
  <2>1. 1 \in Int /\ MaxPlies \in Int
    BY PliesFacts
  <2>2. Bounded(Lengths(d, p))
    BY <2>1, <1>2, <1>3, BoundedBy
  <2> QED BY <2>2, MaxOfBounded, Zenon
<1>5. \A q \in Quiet(p) : d[q] > 0
  BY PliesFacts
<1>6. LosesIn(d, p, Max(Lengths(d, p)))
  BY <1>5, Zenon DEF LosesIn, Lengths
<1> QED BY <1>2, <1>4, <1>6

(* Beyond the costs of zeroing moves a value needs one of a ply less. *)
LEMMA OnePlyLess ==
  ASSUME game \in Games, NEW D, Stages(MaxPlies, D), NEW p \in Positions,
         ~Mated(p), Abs(Final(D, p)) > Rule50 + 1
  PROVE  \E q \in Positions : ~Mated(q) /\ Abs(Final(D, q)) = Abs(Final(D, p)) - 1
<1> DEFINE t == Final(D, p)
<1>1. t \in -MaxPlies .. MaxPlies /\ t # 0 /\ Born(D, p, t)
  BY FinalFacts, PliesFacts DEF Abs
<1>2. \A q \in Quiet(p) : q \in Positions
  BY GameFacts
<1>3. CASE t > 0
  <2>1. WinsIn(D[t - 1], p, t) /\ t - 1 \in 0 .. MaxPlies /\ Abs(t) = t
    BY <1>1, <1>3, PliesFacts DEF Born, Abs
  <2>2. t > Rule50 + 1 /\ t # 1
    BY <2>1, PliesFacts
  <2>3. ASSUME NEW i \in DOMAIN Zeroing(p) PROVE Cost(Zeroing(p)[i].wdl) # t
    BY <2>2, GameFacts, CostFacts, PliesFacts
  <2>4. PICK q \in Quiet(p) : ~Mated(q) /\ D[t - 1][q] < 0 /\ 1 - D[t - 1][q] = t
    BY <2>1, <2>2, <2>3 DEF WinsIn
  <2>5. D[t - 1][q] = Final(D, q) /\ Final(D, q) \in -MaxPlies .. MaxPlies
    BY <1>2, <2>1, <2>4, FinalFacts
  <2>6. Abs(Final(D, q)) = t - 1
    BY <2>4, <2>5, PliesFacts DEF Abs
  <2> QED BY <1>2, <2>1, <2>4, <2>6
<1>4. CASE t < 0
  <2>1. LosesIn(D[-t - 1], p, -t) /\ -t - 1 \in 0 .. MaxPlies /\ Abs(t) = -t
    BY <1>1, <1>4, PliesFacts DEF Born, Abs
  <2>2. \A q \in Quiet(p) :
          /\ D[-t - 1][q] \in -MaxPlies .. MaxPlies
          /\ D[-t - 1][q] # 0 => D[-t - 1][q] = Final(D, q)
    BY <1>2, <2>1, FinalFacts, PliesFacts
  <2>3. /\ \A q \in Quiet(p) : D[-t - 1][q] > 0
        /\ \/ \E q \in Quiet(p) : -t = 1 + D[-t - 1][q]
           \/ \E i \in DOMAIN Zeroing(p) : -t = Cost(Zeroing(p)[i].wdl)
    <3> DEFINE d == D[-t - 1]
               k == -t
    <3>1. LosesIn(d, p, k) /\ \A q \in Quiet(p) : d[q] \in -MaxPlies .. MaxPlies
      BY <2>1, <2>2
    <3> HIDE DEF d, k
    <3>2. /\ \A q \in Quiet(p) : d[q] > 0
          /\ \/ \E q \in Quiet(p) : k = 1 + d[q]
             \/ \E i \in DOMAIN Zeroing(p) : k = Cost(Zeroing(p)[i].wdl)
      BY <3>1, LosesInFacts
    <3> QED BY <3>2 DEF d, k
  <2>4. ASSUME NEW i \in DOMAIN Zeroing(p) PROVE Cost(Zeroing(p)[i].wdl) # -t
    BY <2>1, GameFacts, CostFacts, PliesFacts
  <2>5. PICK q \in Quiet(p) : D[-t - 1][q] > 0 /\ -t = 1 + D[-t - 1][q]
    BY <2>3, <2>4
  <2>6. D[-t - 1][q] = Final(D, q) /\ Final(D, q) \in -MaxPlies .. MaxPlies /\ ~Mated(q)
    BY <1>2, <2>2, <2>5, FinalFacts
  <2>7. Abs(Final(D, q)) = -t - 1
    BY <1>1, <2>5, <2>6, PliesFacts DEF Abs
  <2> QED BY <1>2, <2>1, <2>6, <2>7
<1> QED BY <1>1, <1>3, <1>4

(* So the last stage is empty: there are more stages than positions. *)
LEMMA LastStageIsEmpty ==
  ASSUME game \in Games, NEW D, Stages(MaxPlies, D), NEW r \in Positions, ~Mated(r)
  PROVE  Abs(Final(D, r)) < MaxPlies
<1> DEFINE C == Cardinality(Positions)
           At(i, p) == ~Mated(p) /\ Abs(Final(D, p)) = MaxPlies - i
           S == {i \in 0 .. C : \E p \in Positions : At(i, p)}
<1>1. C \in Nat /\ MaxPlies - C = Rule50 + 1 /\ MaxPlies \in Nat
  BY PliesFacts DEF MaxPlies
<1>2. SUFFICES ASSUME ~(Abs(Final(D, r)) < MaxPlies) PROVE FALSE
  OBVIOUS
<1>3. 0 \in S
  <2>1. Abs(Final(D, r)) = MaxPlies
    BY <1>2, FinalFacts, PliesFacts DEF Abs
  <2> QED BY <1>1, <2>1
<1>4. ASSUME NEW i \in 0 .. C, i \in S, i < C PROVE i + 1 \in S
  <2>1. PICK p \in Positions : At(i, p)
    BY <1>4
  <2>2. MaxPlies - i > Rule50 + 1
    BY <1>1, <1>4, PliesFacts
  <2>3. PICK q \in Positions : ~Mated(q) /\ Abs(Final(D, q)) = Abs(Final(D, p)) - 1
    BY <2>1, <2>2, OnePlyLess
  <2>4. At(i + 1, q)
    BY <2>1, <2>3, <1>1
  <2> HIDE DEF At
  <2> QED BY <1>1, <1>4, <2>4
<1>5. S = 0 .. C
  <2> HIDE DEF At
  <2>1. S \in SUBSET (0 .. C)
    OBVIOUS
  <2> HIDE DEF S, C
  <2> QED BY <1>1, <1>3, <1>4, <2>1, StepByStep
<1> DEFINE f == [i \in 0 .. C |-> CHOOSE p \in Positions : At(i, p)]
<1>6. \A i \in 0 .. C : f[i] \in Positions /\ At(i, f[i])
  <2> HIDE DEF At
  <2> QED BY <1>5
<1>7. f \in [0 .. C -> Positions]
  <2> HIDE DEF At
  <2> QED BY <1>6
<1>8. \E i, j \in 0 .. C : i # j /\ f[i] = f[j]
  <2>1. IsFiniteSet(0 .. C) /\ Cardinality(0 .. C) = C + 1
    BY <1>1, FS_Interval
  <2>2. IsFiniteSet(Positions) /\ Cardinality(Positions) < Cardinality(0 .. C)
    BY <1>1, <2>1, ProbeAssumption
  <2> HIDE DEF f, C
  <2> QED BY <1>7, <2>1, <2>2, FS_PigeonHole
<1> HIDE DEF f
<1> QED BY <1>1, <1>6, <1>8

-----------------------------------------------------------------------------
(* What the retrograde analysis says, without its stages: the value of a   *)
(* position is that of its best move, by the plies the moves need.         *)

QuietAfter(t, q) == IF Mated(q) THEN 1 ELSE OnePlyMore(-t[q])
ZeroAfter(p, i) == -dtz_before_zeroing(Zeroing(p)[i].wdl)
Sound(t, p) ==
  /\ t[p] \in Int
  /\ Mated(p) => t[p] = -1
  /\ \A q \in Quiet(p) : QuietAfter(t, q) > 0 => t[p] > 0 /\ t[p] <= QuietAfter(t, q)
  /\ \A i \in DOMAIN Zeroing(p) : ZeroAfter(p, i) > 0 => t[p] > 0 /\ t[p] <= ZeroAfter(p, i)
  /\ t[p] < 0 /\ ~Mated(p) =>
       /\ \A q \in Quiet(p) : QuietAfter(t, q) < 0 /\ t[p] <= QuietAfter(t, q)
       /\ \A i \in DOMAIN Zeroing(p) : ZeroAfter(p, i) < 0 /\ t[p] <= ZeroAfter(p, i)
  /\ ~NoMoves(p) =>
       \/ \E q \in Quiet(p) : QuietAfter(t, q) = t[p]
       \/ \E i \in DOMAIN Zeroing(p) : ZeroAfter(p, i) = t[p]
  /\ NoMoves(p) /\ ~Mated(p) => t[p] = 0

LEMMA DtzBeforeZeroing ==
  ASSUME NEW w \in -2 .. 2
  PROVE  dtz_before_zeroing(w) = IF w < 0 THEN -Cost(w) ELSE IF w > 0 THEN Cost(w) ELSE 0
<1>1. w = -2 \/ w = -1 \/ w = 0 \/ w = 1 \/ w = 2
  OBVIOUS
<1>2. CASE w = -2
  BY <1>2, CostFacts DEF dtz_before_zeroing, kWdlToDtz
<1>3. CASE w = -1
  BY <1>3, CostFacts DEF dtz_before_zeroing, kWdlToDtz
<1>4. CASE w = 0
  BY <1>4, CostFacts DEF dtz_before_zeroing, kWdlToDtz
<1>5. CASE w = 1
  BY <1>5, CostFacts DEF dtz_before_zeroing, kWdlToDtz
<1>6. CASE w = 2
  BY <1>6, CostFacts DEF dtz_before_zeroing, kWdlToDtz
<1> QED BY <1>1, <1>2, <1>3, <1>4, <1>5, <1>6

LEMMA ZeroAfterFacts ==
  ASSUME game \in Games, NEW p \in Positions, NEW i \in DOMAIN Zeroing(p)
  PROVE  LET w == Zeroing(p)[i].wdl
         IN /\ w \in -2 .. 2 /\ Cost(w) \in 1 .. Rule50 + 1
            /\ ZeroAfter(p, i) = IF w < 0 THEN Cost(w) ELSE IF w > 0 THEN -Cost(w) ELSE 0
<1> DEFINE w == Zeroing(p)[i].wdl
<1>1. w \in -2 .. 2
  BY GameFacts
<1> HIDE DEF w
<1>2. Cost(w) \in 1 .. Rule50 + 1
  BY <1>1, CostFacts, PliesFacts
<1>3. dtz_before_zeroing(w) = IF w < 0 THEN -Cost(w) ELSE IF w > 0 THEN Cost(w) ELSE 0
  BY <1>1, DtzBeforeZeroing
<1>4. -dtz_before_zeroing(w) = IF w < 0 THEN Cost(w) ELSE IF w > 0 THEN -Cost(w) ELSE 0
  BY <1>1, <1>2, <1>3, PliesFacts
<1>5. ZeroAfter(p, i) = -dtz_before_zeroing(w)
  BY DEF ZeroAfter, w
<1> QED BY <1>1, <1>2, <1>4, <1>5 DEF w

(* A move that wins in j plies makes a win in as many, or less. *)
LEMMA WinsAreSeen ==
  ASSUME game \in Games, NEW D, Stages(MaxPlies, D), NEW p \in Positions,
         NEW j \in 1 .. MaxPlies, WinsIn(D[j - 1], p, j),
         \A k \in 1 .. MaxPlies : ~LosesIn(D[k - 1], p, k)
  PROVE  Final(D, p) > 0 /\ Final(D, p) <= j
<1> DEFINE t == Final(D, p)
<1>1. ~Mated(p)
  <2>1. ~NoMoves(p)
    BY GameFacts DEF WinsIn
  <2> QED BY <2>1 DEF Mated
<1>2. D[j][p] # 0
  <2>1. D[j][p] = IF D[j - 1][p] # 0 THEN D[j - 1][p]
                  ELSE IF WinsIn(D[j - 1], p, j) THEN j
                  ELSE IF LosesIn(D[j - 1], p, j) THEN -j ELSE 0
    BY StageFacts
  <2>2. j # 0
    OBVIOUS
  <2> QED BY <2>1, <2>2, Zenon
<1>3. D[j][p] = t /\ Abs(t) <= j
  BY <1>1, <1>2, FinalFacts, PliesFacts
<1>4. Born(D, p, t)
  BY <1>1, <1>2, <1>3, FinalFacts
<1>5. t > 0
  <2>1. SUFFICES ASSUME ~(t > 0) PROVE FALSE
    OBVIOUS
  <2>2. t < 0 /\ Abs(t) = -t /\ -t \in 1 .. MaxPlies /\ LosesIn(D[-t - 1], p, -t)
    <3> HIDE DEF t
    <3> QED BY <1>4, <2>1 DEF Born, Abs
  <2>3. -t - 1 = (-t) - 1
    OBVIOUS
  <2> DEFINE k == -t
  <2>4. k \in 1 .. MaxPlies /\ LosesIn(D[k - 1], p, k)
    BY <2>2, <2>3
  <2> HIDE DEF k
  <2> QED BY <2>4
<1>6. t \in Int
  BY FinalFacts, PliesFacts
<1> HIDE DEF t
<1>7. t > 0 /\ t <= j
  BY <1>3, <1>5, <1>6 DEF Abs
<1> QED BY <1>7 DEF t

(* The other positions, when the stages end. *)
Ends(D) == \A r \in Positions : Final(D, r) \in 1 - MaxPlies .. MaxPlies - 1 \/ Mated(r)

LEMMA StagesEnd ==
  ASSUME game \in Games, NEW D, Stages(MaxPlies, D)
  PROVE  Ends(D)
BY LastStageIsEmpty, FinalFacts, PliesFacts DEF Ends, Abs

LEMMA QuietAfterFacts ==
  ASSUME NEW D, Stages(MaxPlies, D), NEW q \in Positions
  PROVE  QuietAfter(D[MaxPlies], q) =
           IF Mated(q) THEN 1
           ELSE IF Final(D, q) > 0 THEN -(Final(D, q) + 1)
           ELSE IF Final(D, q) < 0 THEN 1 - Final(D, q) ELSE 0
<1>1. Final(D, q) \in Int
  BY FinalFacts, PliesFacts
<1> QED BY <1>1 DEF QuietAfter, OnePlyMore, Sign, Final

(* Who moves to a lost position, or has a move that wins, does not lose. *)
LEMMA WinnersDoNotLose ==
  ASSUME game \in Games, NEW D, Stages(MaxPlies, D), NEW p \in Positions,
         NEW k \in 1 .. MaxPlies, LosesIn(D[k - 1], p, k)
  PROVE  /\ \A q \in Quiet(p) :
              /\ QuietAfter(D[MaxPlies], q) \in -k .. -1
              /\ Final(D, q) > 0
         /\ \A i \in DOMAIN Zeroing(p) : ZeroAfter(p, i) \in -k .. -1
         /\ \/ \E q \in Quiet(p) : QuietAfter(D[MaxPlies], q) = -k
            \/ \E i \in DOMAIN Zeroing(p) : ZeroAfter(p, i) = -k
<1> DEFINE d == D[k - 1]
<1>1. \A q \in Quiet(p) : q \in Positions
  BY GameFacts
<1>2. \A q \in Quiet(p) : d[q] \in -MaxPlies .. MaxPlies /\ (d[q] # 0 => d[q] = Final(D, q))
  BY <1>1, FinalFacts, PliesFacts
<1>3. LosesIn(d, p, k)
  OBVIOUS
<1> HIDE DEF d
<1>4. /\ \A q \in Quiet(p) : d[q] > 0 /\ 1 + d[q] <= k
      /\ \A i \in DOMAIN Zeroing(p) : Zeroing(p)[i].wdl > 0 /\ Cost(Zeroing(p)[i].wdl) <= k
      /\ \/ \E q \in Quiet(p) : k = 1 + d[q]
         \/ \E i \in DOMAIN Zeroing(p) : k = Cost(Zeroing(p)[i].wdl)
  BY <1>2, <1>3, LosesInFacts
<1>5. ASSUME NEW q \in Quiet(p)
      PROVE  Final(D, q) = d[q] /\ QuietAfter(D[MaxPlies], q) = -(1 + d[q])
  <2>1. Final(D, q) = d[q] /\ d[q] > 0 /\ d[q] \in Int
    BY <1>2, <1>4, PliesFacts
  <2>2. ~Mated(q)
    BY <1>1, <2>1, FinalFacts
  <2> QED BY <1>1, <2>1, <2>2, QuietAfterFacts
<1>6. ASSUME NEW i \in DOMAIN Zeroing(p)
      PROVE  ZeroAfter(p, i) = -Cost(Zeroing(p)[i].wdl) /\ Cost(Zeroing(p)[i].wdl) \in 1 .. Rule50 + 1
  BY <1>4, ZeroAfterFacts
<1> QED BY <1>2, <1>4, <1>5, <1>6, PliesFacts

LEMMA NoWinAtAll ==
  ASSUME game \in Games, NEW D, Stages(MaxPlies, D), NEW p \in Positions,
         \/ \E q \in Quiet(p) : QuietAfter(D[MaxPlies], q) > 0
         \/ \E i \in DOMAIN Zeroing(p) : ZeroAfter(p, i) > 0
  PROVE  \A k \in 1 .. MaxPlies : ~LosesIn(D[k - 1], p, k)
<1> SUFFICES ASSUME NEW k \in 1 .. MaxPlies, LosesIn(D[k - 1], p, k) PROVE FALSE
  OBVIOUS
<1>1. /\ \A q \in Quiet(p) : QuietAfter(D[MaxPlies], q) \in -k .. -1
      /\ \A i \in DOMAIN Zeroing(p) : ZeroAfter(p, i) \in -k .. -1
  BY WinnersDoNotLose
<1> QED BY <1>1, PliesFacts

LEMMA TruthIsSound ==
  ASSUME game \in Games, NEW D, Stages(MaxPlies, D), NEW p \in Positions
  PROVE  Sound(D[MaxPlies], p)
<1> DEFINE t == Final(D, p)
<1>0. t = D[MaxPlies][p] /\ t \in Int /\ t \in -MaxPlies .. MaxPlies
  BY FinalFacts, PliesFacts DEF Final
<1>1. Mated(p) => t = -1
  BY FinalFacts
<1>2. \A q \in Quiet(p) : q \in Positions
  BY GameFacts
<1>3. ASSUME NEW q \in Quiet(p), QuietAfter(D[MaxPlies], q) > 0
      PROVE  t > 0 /\ t <= QuietAfter(D[MaxPlies], q)
  <2> DEFINE j == QuietAfter(D[MaxPlies], q)
  <2>1. j \in 1 .. MaxPlies /\ WinsIn(D[j - 1], p, j)
    <3>1. CASE Mated(q)
      <4>1. j = 1
        BY <3>1 DEF QuietAfter
      <4>2. 1 \in 1 .. MaxPlies
        BY PliesFacts
      <4>3. WinsIn(D[j - 1], p, j)
        BY <3>1, <4>1 DEF WinsIn
      <4> QED BY <4>1, <4>2, <4>3
    <3>2. CASE ~Mated(q)
      <4>1. Final(D, q) < 0 /\ j = 1 - Final(D, q) /\ Final(D, q) \in 1 - MaxPlies .. MaxPlies - 1
        <5>1. Final(D, q) \in 1 - MaxPlies .. MaxPlies - 1
          BY <1>2, <3>2, StagesEnd DEF Ends
        <5>2. j = IF Final(D, q) > 0 THEN -(Final(D, q) + 1)
                  ELSE IF Final(D, q) < 0 THEN 1 - Final(D, q) ELSE 0
          BY <1>2, <3>2, QuietAfterFacts
        <5>3. j > 0
          BY <1>3
        <5> HIDE DEF j
        <5> QED BY <5>1, <5>2, <5>3, PliesFacts
      <4> HIDE DEF j
      <4>2. j \in 1 .. MaxPlies /\ j - 1 \in 0 .. MaxPlies /\ Abs(Final(D, q)) <= j - 1
        BY <4>1, PliesFacts DEF Abs
      <4>3. D[j - 1][q] = Final(D, q)
        BY <1>2, <4>2, FinalFacts
      <4>4. D[j - 1][q] < 0 /\ 1 - D[j - 1][q] = j
        BY <4>1, <4>3
      <4>5. WinsIn(D[j - 1], p, j)
        BY <3>2, <4>4, Zenon DEF WinsIn
      <4> QED BY <4>2, <4>5
    <3> QED BY <3>1, <3>2
  <2>2. \A k \in 1 .. MaxPlies : ~LosesIn(D[k - 1], p, k)
    BY <1>3, NoWinAtAll
  <2> HIDE DEF j
  <2>3. t > 0 /\ t <= j
    BY <2>1, <2>2, WinsAreSeen
  <2> QED BY <2>3 DEF j
<1>4. ASSUME NEW i \in DOMAIN Zeroing(p), ZeroAfter(p, i) > 0
      PROVE  t > 0 /\ t <= ZeroAfter(p, i)
  <2> DEFINE j == ZeroAfter(p, i)
             w == Zeroing(p)[i].wdl
  <2>1. w < 0 /\ Cost(w) = j /\ j \in 1 .. MaxPlies
    <3>1. /\ w \in -2 .. 2 /\ Cost(w) \in 1 .. Rule50 + 1
          /\ j = IF w < 0 THEN Cost(w) ELSE IF w > 0 THEN -Cost(w) ELSE 0
          /\ j > 0
      BY <1>4, ZeroAfterFacts
    <3> HIDE DEF j, w
    <3> QED BY <3>1, PliesFacts
  <2>2. WinsIn(D[j - 1], p, j)
    BY <2>1, Zenon DEF WinsIn
  <2>3. \A k \in 1 .. MaxPlies : ~LosesIn(D[k - 1], p, k)
    BY <1>4, NoWinAtAll
  <2> HIDE DEF j, w
  <2>4. t > 0 /\ t <= j
    BY <2>1, <2>2, <2>3, WinsAreSeen
  <2> QED BY <2>4 DEF j
<1>5. ASSUME t < 0, ~Mated(p)
      PROVE  /\ \A q \in Quiet(p) : QuietAfter(D[MaxPlies], q) \in t .. -1
             /\ \A i \in DOMAIN Zeroing(p) : ZeroAfter(p, i) \in t .. -1
             /\ \/ \E q \in Quiet(p) : QuietAfter(D[MaxPlies], q) = t
                \/ \E i \in DOMAIN Zeroing(p) : ZeroAfter(p, i) = t
  <2> DEFINE k == -t
  <2>1. k \in 1 .. MaxPlies /\ LosesIn(D[k - 1], p, k) /\ -k = t
    <3>1. Born(D, p, t)
      BY <1>5, FinalFacts
    <3>2. t < 0 /\ t \in Int
      BY <1>0, <1>5
    <3> HIDE DEF t
    <3> QED BY <3>1, <3>2 DEF Born, Abs
  <2> HIDE DEF k
  <2>2. /\ \A q \in Quiet(p) : QuietAfter(D[MaxPlies], q) \in -k .. -1
        /\ \A i \in DOMAIN Zeroing(p) : ZeroAfter(p, i) \in -k .. -1
        /\ \/ \E q \in Quiet(p) : QuietAfter(D[MaxPlies], q) = -k
           \/ \E i \in DOMAIN Zeroing(p) : ZeroAfter(p, i) = -k
    BY <2>1, WinnersDoNotLose
  <2> QED BY <2>1, <2>2
<1>6. ASSUME t > 0
      PROVE  \/ \E q \in Quiet(p) : QuietAfter(D[MaxPlies], q) = t
             \/ \E i \in DOMAIN Zeroing(p) : ZeroAfter(p, i) = t
  <2>1. WinsIn(D[t - 1], p, t) /\ t - 1 \in 0 .. MaxPlies
    <3>1. ~Mated(p)
      BY <1>1, <1>6
    <3>2. Born(D, p, t) /\ t > 0
      BY <1>6, <3>1, FinalFacts
    <3>3. t \in Int
      BY <1>0
    <3> HIDE DEF t
    <3>4. WinsIn(D[t - 1], p, t)
      BY <3>2, Zenon DEF Born
    <3>5. Abs(t) \in 1 .. MaxPlies
      BY <3>2 DEF Born
    <3> QED BY <3>2, <3>3, <3>4, <3>5, PliesFacts DEF Abs
  <2>2. CASE \E i \in DOMAIN Zeroing(p) : Zeroing(p)[i].wdl < 0 /\ Cost(Zeroing(p)[i].wdl) = t
    BY <2>2, ZeroAfterFacts
  <2>3. CASE \E q \in Quiet(p) : Mated(q) /\ t = 1
    BY <2>3 DEF QuietAfter
  <2>4. CASE \E q \in Quiet(p) : ~Mated(q) /\ D[t - 1][q] < 0 /\ 1 - D[t - 1][q] = t
    <3>1. PICK q \in Quiet(p) : ~Mated(q) /\ D[t - 1][q] < 0 /\ 1 - D[t - 1][q] = t
      BY <2>4
    <3>2. D[t - 1][q] = Final(D, q)
      BY <1>2, <2>1, <3>1, FinalFacts
    <3>3. QuietAfter(D[MaxPlies], q) = 1 - Final(D, q)
      <4>1. Final(D, q) \in Int /\ Final(D, q) < 0
        BY <1>2, <3>1, <3>2, FinalFacts, PliesFacts
      <4> QED BY <4>1, <1>2, <3>1, QuietAfterFacts
    <3> QED BY <3>1, <3>2, <3>3
  <2> QED BY <2>1, <2>2, <2>3, <2>4, Zenon DEF WinsIn
<1>7. ASSUME t = 0, ~NoMoves(p)
      PROVE  \/ \E q \in Quiet(p) : QuietAfter(D[MaxPlies], q) = 0
             \/ \E i \in DOMAIN Zeroing(p) : ZeroAfter(p, i) = 0
  <2>1. SUFFICES ASSUME \A q \in Quiet(p) : QuietAfter(D[MaxPlies], q) # 0,
                        \A i \in DOMAIN Zeroing(p) : ZeroAfter(p, i) # 0
                 PROVE  FALSE
    OBVIOUS
  <2> DEFINE d == D[MaxPlies]
  <2>2. ASSUME NEW q \in Quiet(p)
        PROVE  ~Mated(q) /\ d[q] \in 1 .. MaxPlies - 1
    <3>1. QuietAfter(D[MaxPlies], q) \in Int /\ QuietAfter(D[MaxPlies], q) # 0
      BY <1>2, <2>1, QuietAfterFacts, FinalFacts, PliesFacts
    <3>2. ~(QuietAfter(D[MaxPlies], q) > 0)
      BY <1>3, <1>7, <1>0
    <3>3. ~Mated(q) /\ Final(D, q) > 0
      BY <1>2, <3>1, <3>2, QuietAfterFacts, FinalFacts, PliesFacts
    <3> QED BY <1>2, <3>3, StagesEnd, PliesFacts DEF Ends, Final
  <2>3. ASSUME NEW i \in DOMAIN Zeroing(p) PROVE Zeroing(p)[i].wdl > 0
    BY <2>1, <1>4, <1>7, <1>0, ZeroAfterFacts
  <2>4. PICK k \in 1 .. MaxPlies : LosesIn(d, p, k)
    <3> HIDE DEF d
    <3> QED BY <1>7, <2>2, <2>3, LosesInSome
  <2>5. /\ \A q \in Quiet(p) : d[q] > 0 /\ 1 + d[q] <= k
        /\ \A i \in DOMAIN Zeroing(p) : Zeroing(p)[i].wdl > 0
        /\ k = Max(Lengths(d, p))
    <3>1. \A q \in Quiet(p) : d[q] \in -MaxPlies .. MaxPlies
      BY <2>2, PliesFacts
    <3> HIDE DEF d
    <3>2. \A q \in Quiet(p) : 1 + d[q] <= k
      BY <2>4, <3>1, LosesInFacts
    <3>3. /\ \A q \in Quiet(p) : d[q] > 0
          /\ \A i \in DOMAIN Zeroing(p) : Zeroing(p)[i].wdl > 0
          /\ k = Max(Lengths(d, p))
      BY <2>4, Zenon DEF LosesIn, Lengths
    <3> QED BY <3>2, <3>3
  <2> DEFINE e == D[k - 1]
  <2>6. \A q \in Quiet(p) : e[q] = d[q]
    <3>1. ASSUME NEW q \in Quiet(p) PROVE e[q] = d[q]
      <4>1. Final(D, q) = d[q] /\ d[q] \in 1 .. MaxPlies - 1 /\ 1 + d[q] <= k
        BY <2>2, <2>5 DEF Final
      <4>2. Abs(Final(D, q)) <= k - 1 /\ k - 1 \in 0 .. MaxPlies
        BY <4>1, PliesFacts DEF Abs
      <4> QED BY <1>2, <4>1, <4>2, FinalFacts
    <3> QED BY <3>1
  <2>7. LosesIn(e, p, k)
    <3> HIDE DEF d, e
    <3>1. Lengths(e, p) = Lengths(d, p)
      BY <2>6 DEF Lengths
    <3>2. \A q \in Quiet(p) : e[q] > 0
      BY <2>5, <2>6
    <3> QED BY <1>7, <2>5, <3>1, <3>2, Zenon DEF LosesIn, Lengths
  <2>8. D[k][p] # 0
    <3>1. D[k][p] = IF D[k - 1][p] # 0 THEN D[k - 1][p]
                    ELSE IF WinsIn(D[k - 1], p, k) THEN k
                    ELSE IF LosesIn(D[k - 1], p, k) THEN -k ELSE 0
      BY StageFacts
    <3>2. k # 0 /\ -k # 0
      OBVIOUS
    <3> QED BY <2>7, <3>1, <3>2, Zenon
  <2>9. D[k][p] = t \/ D[k][p] = 0
    BY FinalFacts, PliesFacts
  <2> QED BY <1>7, <2>8, <2>9
<1>8. ASSUME NoMoves(p), ~Mated(p) PROVE t = 0
  <2>1. Quiet(p) = {} /\ DOMAIN Zeroing(p) = {}
    BY <1>8, GameFacts
  <2>2. ~(t > 0)
    BY <1>6, <2>1
  <2>3. ~(t < 0)
    BY <1>5, <1>8, <2>1
  <2> QED BY <1>0, <2>2, <2>3
<1>9. \A q \in Quiet(p) : QuietAfter(D[MaxPlies], q) \in Int
  BY <1>2, QuietAfterFacts, FinalFacts, PliesFacts
<1>10. \A i \in DOMAIN Zeroing(p) : ZeroAfter(p, i) \in Int
  BY ZeroAfterFacts, PliesFacts
<1> HIDE DEF t
<1>11. t < 0 /\ ~Mated(p) =>
         /\ \A q \in Quiet(p) : QuietAfter(D[MaxPlies], q) < 0 /\ t <= QuietAfter(D[MaxPlies], q)
         /\ \A i \in DOMAIN Zeroing(p) : ZeroAfter(p, i) < 0 /\ t <= ZeroAfter(p, i)
  BY <1>5, <1>0
<1>12. ~NoMoves(p) =>
         \/ \E q \in Quiet(p) : QuietAfter(D[MaxPlies], q) = t
         \/ \E i \in DOMAIN Zeroing(p) : ZeroAfter(p, i) = t
  <2>1. t < 0 \/ t = 0 \/ t > 0
    BY <1>0
  <2>2. Mated(p) => NoMoves(p)
    BY DEF Mated
  <2> QED BY <1>5, <1>6, <1>7, <2>1, <2>2
<1> QED BY <1>0, <1>1, <1>3, <1>4, <1>8, <1>11, <1>12, Zenon DEF Sound

LEMMA TruthOfGame ==
  ASSUME game \in Games, truth = Truth
  PROVE  \A p \in Positions : Sound(truth, p)
<1>1. PICK D : Stages(MaxPlies, D) /\ Truth = D[MaxPlies]
  BY TruthUnfolds
<1>2. ASSUME NEW p \in Positions PROVE Sound(D[MaxPlies], p)
  BY <1>1, TruthIsSound
<1> QED BY <1>1, <1>2

-----------------------------------------------------------------------------
(* What the probes say of a position whose game is analysed so. *)

Told == game \in Games /\ EdgeInPlies /\ \A p \in Positions : Sound(truth, p)

LEMMA WdlOfFacts ==
  ASSUME NEW x \in Int
  PROVE  /\ WdlOf(x) \in -2 .. 2
         /\ WdlOf(x) = 2 <=> (x > 0 /\ x <= Rule50)
         /\ WdlOf(x) = 1 <=> (x > 0 /\ x > Rule50)
         /\ WdlOf(x) = 0 <=> x = 0
         /\ WdlOf(x) = -1 <=> (x < 0 /\ -x > Rule50)
         /\ WdlOf(x) = -2 <=> (x < 0 /\ -x <= Rule50)
<1>1. Sign(x) = IF x > 0 THEN 1 ELSE IF x < 0 THEN -1 ELSE 0
  BY DEF Sign
<1>2. Abs(x) = IF x < 0 THEN -x ELSE x
  BY DEF Abs
<1>3. CASE x > 0
  BY <1>1, <1>2, <1>3, PliesFacts DEF WdlOf
<1>4. CASE x < 0
  BY <1>1, <1>2, <1>4, PliesFacts DEF WdlOf
<1>5. CASE x = 0
  BY <1>1, <1>2, <1>5, PliesFacts DEF WdlOf
<1> QED BY <1>3, <1>4, <1>5

(* The class of a position and that of its zeroing moves. *)
LEMMA ZeroingClass ==
  ASSUME Told, NEW p \in Positions, NEW i \in DOMAIN Zeroing(p)
  PROVE  LET w == Zeroing(p)[i].wdl
         IN /\ w \in -2 .. 2 /\ -w <= WdlOf(truth[p])
            /\ w = -2 => truth[p] = 1
            /\ w = -1 => truth[p] > 0 /\ truth[p] <= Rule50 + 1
            /\ truth[p] = ZeroAfter(p, i) => WdlOf(truth[p]) = -w
            /\ truth[p] < 0 => truth[p] <= ZeroAfter(p, i)
<1> DEFINE w == Zeroing(p)[i].wdl
           x == ZeroAfter(p, i)
           t == truth[p]
<1>1. /\ w \in -2 .. 2 /\ Cost(w) \in 1 .. Rule50 + 1
      /\ x = IF w < 0 THEN Cost(w) ELSE IF w > 0 THEN -Cost(w) ELSE 0
  BY ZeroAfterFacts DEF Told
<1>2. ~NoMoves(p) /\ ~Mated(p)
  BY GameFacts DEF Told, Mated
<1>3. /\ t \in Int
      /\ x > 0 => t > 0 /\ t <= x
      /\ t < 0 => x < 0 /\ t <= x
  BY <1>2, Zenon DEF Told, Sound
<1> HIDE DEF w, x, t
<1>4. /\ w = 2 \/ w = -2 => Cost(w) = 1
      /\ w = 1 \/ w = -1 => Cost(w) = Rule50 + 1
  BY <1>1, CostFacts
<1>5. /\ w = -2 => x = 1
      /\ w = -1 => x = Rule50 + 1
      /\ w = 0 => x = 0
      /\ w = 1 => x = -(Rule50 + 1)
      /\ w = 2 => x = -1
  BY <1>1, <1>4, PliesFacts
<1>6. w = -2 \/ w = -1 \/ w = 0 \/ w = 1 \/ w = 2
  BY <1>1
<1>7. -w <= WdlOf(t)
  BY <1>3, <1>5, <1>6, WdlOfFacts, PliesFacts
<1>8. t = x => WdlOf(t) = -w
  BY <1>3, <1>5, <1>6, WdlOfFacts, PliesFacts
<1>9. w = -2 => t = 1
  BY <1>3, <1>5
<1>10. w = -1 => t > 0 /\ t <= Rule50 + 1
  BY <1>3, <1>5, PliesFacts
<1> QED BY <1>1, <1>3, <1>7, <1>8, <1>9, <1>10 DEF t, w, x

BestOf(p, tried) == Max({-2} \cup {-Zeroing(p)[i].wdl : i \in tried})
Stops(p, tried) == {i \in tried : ~Zeroing(p)[i].known \/ Zeroing(p)[i].wdl = -2}

LEMMA BestOfFacts ==
  ASSUME Told, NEW p \in Positions, NEW tried \in SUBSET DOMAIN Zeroing(p)
  PROVE  /\ BestOf(p, tried) \in -2 .. 2
         /\ BestOf(p, tried) <= WdlOf(truth[p])
         /\ \A i \in tried : -Zeroing(p)[i].wdl <= BestOf(p, tried)
         /\ BestOf(p, tried) = -2 \/ \E i \in tried : BestOf(p, tried) = -Zeroing(p)[i].wdl
<1> DEFINE S == {-2} \cup {-Zeroing(p)[i].wdl : i \in tried}
           b == BestOf(p, tried)
<1>1. \A i \in tried : Zeroing(p)[i].wdl \in -2 .. 2 /\ -Zeroing(p)[i].wdl <= WdlOf(truth[p])
  BY ZeroingClass
<1>2. S \in SUBSET (-2 .. 2) /\ -2 \in S
  BY <1>1
<1>3. b = Max(S)
  BY DEF BestOf
<1>4. b \in S /\ \A y \in S : y <= b
  <2>1. -2 \in Int /\ 2 \in Int /\ S # {}
    BY <1>2
  <2> HIDE DEF S, b
  <2> QED BY <1>2, <1>3, <2>1, MaxOf
<1>5. WdlOf(truth[p]) \in -2 .. 2
  BY WdlOfFacts DEF Told, Sound
<1>6. \A y \in S : y <= WdlOf(truth[p])
  BY <1>1, <1>5
<1> HIDE DEF b
<1>7. \A i \in tried : -Zeroing(p)[i].wdl <= b
  BY <1>4
<1>8. b = -2 \/ \E i \in tried : b = -Zeroing(p)[i].wdl
  BY <1>4
<1>9. b \in -2 .. 2 /\ b <= WdlOf(truth[p])
  <2> HIDE DEF S
  <2> QED BY <1>2, <1>4, <1>6
<1> QED BY <1>7, <1>8, <1>9 DEF b

OnlyTried(p, tried) == Quiet(p) = {} /\ tried = DOMAIN Zeroing(p) /\ tried # {}

(* search, for what it has tried. *)
LEMMA SearchTells ==
  ASSUME Told, NEW p \in Positions, NEW tried,
         tried = DOMAIN Zeroing(p) \/ tried = Captures(p),
         NEW s, s = SearchMoves(p, tried, Stops(p, tried), BestOf(p, tried))
  PROVE  /\ s.state \in {FAIL, OK, ZEROING_BEST_MOVE}
         /\ s.state # FAIL => s.value = WdlOf(truth[p])
         /\ (\A i \in DOMAIN Zeroing(p) : Zeroing(p)[i].known) => s.state # FAIL
         /\ s.state = ZEROING_BEST_MOVE =>
              \/ \E i \in tried : Zeroing(p)[i].wdl = -2
              \/ BestOf(p, tried) = WdlOf(truth[p]) /\ (BestOf(p, tried) > 0 \/ OnlyTried(p, tried))
         /\ s.state = OK =>
              /\ ~ \E i \in tried : Zeroing(p)[i].wdl = -2
              /\ ~(BestOf(p, tried) = WdlOf(truth[p]) /\ BestOf(p, tried) > 0)
<1> DEFINE stops == Stops(p, tried)
           best == BestOf(p, tried)
           W == WdlOf(truth[p])
<1>1. tried \in SUBSET DOMAIN Zeroing(p) /\ Captures(p) \in SUBSET DOMAIN Zeroing(p)
  BY DEF Captures
<1>2. /\ best \in -2 .. 2 /\ best <= W
      /\ \A i \in tried : -Zeroing(p)[i].wdl <= best
      /\ best = -2 \/ \E i \in tried : best = -Zeroing(p)[i].wdl
  BY <1>1, BestOfFacts
<1>3. W \in -2 .. 2
  BY WdlOfFacts DEF Told, Sound
<1>4. CASE stops # {}
  <2> DEFINE i == Min(stops)
  <2>1. i \in stops
    <3>1. DOMAIN Zeroing(p) = 1 .. Len(Zeroing(p)) /\ Len(Zeroing(p)) \in Int
      BY GameFacts DEF Told
    <3>2. stops \in SUBSET (1 .. Len(Zeroing(p)))
      BY <1>1, <3>1 DEF Stops
    <3>3. 1 \in Int
      OBVIOUS
    <3> HIDE DEF stops
    <3> QED BY <1>4, <3>1, <3>2, <3>3, MinOf
  <2>2. i \in tried /\ (~Zeroing(p)[i].known \/ Zeroing(p)[i].wdl = -2)
    BY <2>1 DEF Stops
  <2>3. i \in DOMAIN Zeroing(p)
    BY <1>1, <2>2
  <2>4. s = IF Zeroing(p)[i].known THEN [value |-> 2, state |-> ZEROING_BEST_MOVE]
            ELSE [value |-> 0, state |-> FAIL]
    BY <1>4, Zenon DEF SearchMoves
  <2> HIDE DEF i
  <2>5. CASE Zeroing(p)[i].known
    <3>1. s.value = 2 /\ s.state = ZEROING_BEST_MOVE /\ Zeroing(p)[i].wdl = -2
      BY <2>2, <2>4, <2>5
    <3>2. W = 2
      <4>1. truth[p] = 1
        BY <2>3, <3>1, ZeroingClass
      <4> QED BY <4>1, WdlOfFacts, PliesFacts
    <3> QED BY <2>2, <3>1, <3>2 DEF ZEROING_BEST_MOVE, FAIL, OK
  <2>6. CASE ~Zeroing(p)[i].known
    <3>1. s.value = 0 /\ s.state = FAIL
      BY <2>4, <2>6
    <3> QED BY <2>3, <2>6, <3>1 DEF ZEROING_BEST_MOVE, FAIL, OK
  <2> QED BY <2>5, <2>6
<1>5. CASE stops = {}
  <2>1. \A i \in tried : Zeroing(p)[i].wdl # -2
    BY <1>5 DEF Stops
  <2>2. CASE OnlyTried(p, tried)
    <3>1. s = [value |-> best, state |-> ZEROING_BEST_MOVE]
      <4>1. s = Better(best, best, TRUE)
        BY <1>5, <2>2, Zenon DEF SearchMoves, OnlyTried
      <4>2. best >= best
        BY <1>2
      <4> QED BY <4>1, <4>2, Zenon DEF Better
    <3>2. best = W
      <4>1. ~NoMoves(p)
        BY <2>2, GameFacts DEF Told, OnlyTried
      <4>2. \E i \in DOMAIN Zeroing(p) : ZeroAfter(p, i) = truth[p]
        BY <2>2, <4>1 DEF Told, Sound, OnlyTried
      <4>3. PICK i \in DOMAIN Zeroing(p) : W = -Zeroing(p)[i].wdl
        BY <4>2, ZeroingClass
      <4>4. i \in tried
        BY <2>2 DEF OnlyTried
      <4>5. W <= best
        BY <1>2, <4>3, <4>4
      <4> HIDE DEF W, best
      <4> QED BY <1>2, <1>3, <4>5
    <3>3. s.value = best /\ s.state = ZEROING_BEST_MOVE
      BY <3>1
    <3> HIDE DEF W, best
    <3> QED BY <2>2, <3>2, <3>3 DEF ZEROING_BEST_MOVE, FAIL, OK, W, best
  <2>3. CASE ~OnlyTried(p, tried)
    <3> DEFINE table == probe_wdl_table(p)
    <3>1. s = Better(best, table, FALSE)
      BY <1>5, <2>3, Zenon DEF SearchMoves, OnlyTried
    <3>2. ~(Quiet(p) = {} /\ Captures(p) = DOMAIN Zeroing(p) /\ Captures(p) # {})
      BY <2>3 DEF OnlyTried
    <3>3. table = IF W = BestCapture(p) THEN -2 ELSE W
      BY <3>2, Zenon DEF probe_wdl_table
    <3>4. BestCapture(p) <= best
      <4>1. BestCapture(p) = BestOf(p, Captures(p))
        BY Zenon DEF BestCapture, BestOf
      <4>2. CASE tried = Captures(p)
        BY <1>2, <4>1, <4>2
      <4>3. CASE tried = DOMAIN Zeroing(p)
        <5> DEFINE b == BestOf(p, Captures(p))
        <5>1. b = -2 \/ \E i \in Captures(p) : b = -Zeroing(p)[i].wdl
          BY <1>1, BestOfFacts
        <5>2. \A i \in Captures(p) : -Zeroing(p)[i].wdl <= best
          BY <1>1, <1>2, <4>3
        <5> HIDE DEF b, best
        <5>3. b <= best
          BY <1>2, <5>1, <5>2
        <5> QED BY <4>1, <5>3 DEF b
      <4> QED BY <4>2, <4>3
    <3>5. (table = -2 /\ best = W) \/ table = W
      <4> HIDE DEF W, best, table
      <4>1. W = BestCapture(p) => best = W
        BY <1>2, <1>3, <3>4
      <4> QED BY <3>3, <4>1
    <3>6. CASE best >= table
      <4>1. best = W
        <5> HIDE DEF W, best, table
        <5> QED BY <1>2, <1>3, <3>5, <3>6
      <4>2. s = [value |-> best, state |-> IF best > 0 THEN ZEROING_BEST_MOVE ELSE OK]
        <5>1. (best > 0 \/ FALSE) <=> best > 0
          OBVIOUS
        <5> QED BY <3>1, <3>6, <5>1, Zenon DEF Better
      <4>3. s.value = best /\ s.state = IF best > 0 THEN ZEROING_BEST_MOVE ELSE OK
        BY <4>2
      <4> HIDE DEF W, best
      <4> QED BY <2>1, <4>1, <4>3 DEF ZEROING_BEST_MOVE, FAIL, OK, W, best
    <3>7. CASE ~(best >= table)
      <4>1. s = [value |-> table, state |-> OK]
        BY <3>1, <3>7, Zenon DEF Better
      <4>2. table = W /\ best # W
        <5> HIDE DEF W, best, table
        <5> QED BY <1>2, <1>3, <3>5, <3>7
      <4>3. s.value = table /\ s.state = OK
        BY <4>1
      <4> HIDE DEF W, best, table
      <4> QED BY <2>1, <4>2, <4>3 DEF ZEROING_BEST_MOVE, FAIL, OK, W, best
    <3> QED BY <3>6, <3>7
  <2> QED BY <2>2, <2>3
<1> QED BY <1>4, <1>5

LEMMA Searches ==
  ASSUME NEW p
  PROVE  /\ search(p, TRUE) =
              SearchMoves(p, DOMAIN Zeroing(p), Stops(p, DOMAIN Zeroing(p)), BestOf(p, DOMAIN Zeroing(p)))
         /\ search(p, FALSE) =
              SearchMoves(p, Captures(p), Stops(p, Captures(p)), BestOf(p, Captures(p)))
<1>1. Tried(p, TRUE) = DOMAIN Zeroing(p) /\ Tried(p, FALSE) = Captures(p)
  BY Zenon DEF Tried
<1>2. search(p, TRUE) =
        SearchMoves(p, DOMAIN Zeroing(p), Stops(p, DOMAIN Zeroing(p)), BestOf(p, DOMAIN Zeroing(p)))
  BY <1>1, Zenon DEF search, Stops, BestOf
<1>3. search(p, FALSE) =
        SearchMoves(p, Captures(p), Stops(p, Captures(p)), BestOf(p, Captures(p)))
  BY <1>1, Zenon DEF search, Stops, BestOf
<1> QED BY <1>2, <1>3

AllKnown(p) == \A i \in DOMAIN Zeroing(p) : Zeroing(p)[i].known

LEMMA ProbeWdlTells ==
  ASSUME Told, NEW p \in Positions
  PROVE  /\ probe_wdl(p).state # FAIL => probe_wdl(p).value = WdlOf(truth[p])
         /\ AllKnown(p) => probe_wdl(p).state # FAIL
<1> DEFINE s == probe_wdl(p)
           tried == Captures(p)
<1>1. s = SearchMoves(p, tried, Stops(p, tried), BestOf(p, tried))
  BY Searches, Zenon DEF probe_wdl
<1> HIDE DEF s
<1>2. tried = DOMAIN Zeroing(p) \/ tried = Captures(p)
  OBVIOUS
<1> HIDE DEF tried
<1>3. /\ s.state # FAIL => s.value = WdlOf(truth[p])
      /\ (\A i \in DOMAIN Zeroing(p) : Zeroing(p)[i].known) => s.state # FAIL
  BY <1>1, <1>2, SearchTells
<1> QED BY <1>3 DEF s, AllKnown

-----------------------------------------------------------------------------
(* What probe_dtz may answer for plies d of a side in p: d or one less.  A *)
(* table of moves has the odd plies of its own side exactly, and from them *)
(* the even ones of the other; one of plies has all up to the rule's edge. *)

NearTo(e, d) ==
  /\ e \in Int
  /\ d > 0 => e > 0 /\ (e = d \/ e = d - 1)
  /\ d < 0 => e < 0 /\ (e = d \/ e = d + 1)
  /\ d = 0 => e = 0
  /\ e > Rule50 <=> d > Rule50
  /\ -e > Rule50 <=> -d > Rule50
Parity(p) == IF Side(p) = game.stored THEN 1 ELSE 0
Counts(p, d) ==
  IF Side(p) = game.stored
  THEN (d > 0 /\ 2 \in game.plies) \/ (d < 0 /\ -2 \in game.plies)
  ELSE (d > 0 /\ -2 \in game.plies) \/ (d < 0 /\ 2 \in game.plies)
Tells(p, e, d) ==
  /\ NearTo(e, d)
  /\ d % 2 = Parity(p) => e = d
  /\ Counts(p, d) /\ d \in -Rule50 .. Rule50 => e = d

LEMMA ExactTells == ASSUME NEW p, NEW d \in Int PROVE Tells(p, d, d)
BY DEF Tells, NearTo

LEMMA RuleIsEven == Rule50 % 2 = 0
BY ProbeAssumption

(* The classes whose plies the tables count. *)
LEMMA CountsFacts ==
  ASSUME Told, NEW p \in Positions
  PROVE  /\ CountsPlies(p) <=> (Counts(p, truth[p]) /\ truth[p] \in -Rule50 .. Rule50)
         /\ truth[p] = Rule50 \/ truth[p] = -Rule50 => Counts(p, truth[p])
         /\ Side(p) = game.stored => (CountsPlies(p) <=> WdlOf(truth[p]) \in game.plies)
<1> DEFINE t == truth[p]
           W == WdlOf(t)
<1>1. t \in Int
  BY DEF Told, Sound
<1>2. /\ W \in -2 .. 2
      /\ W = 2 <=> (t > 0 /\ t <= Rule50)
      /\ W = -2 <=> (t < 0 /\ -t <= Rule50)
  BY <1>1, WdlOfFacts
<1>3. game.plies \subseteq {-2, 2}
  BY ProbeAssumption DEF Told, IsGame
<1>4. CountsPlies(p) <=> (IF Side(p) = game.stored THEN W ELSE -W) \in game.plies
  <2>1. ClassOfStored(p) = (IF Side(p) = game.stored THEN 1 ELSE -1) * W
    BY DEF ClassOfStored
  <2> HIDE DEF W
  <2>2. ClassOfStored(p) = IF Side(p) = game.stored THEN W ELSE -W
    BY <1>2, <2>1
  <2> QED BY <2>2 DEF CountsPlies
<1> HIDE DEF W
<1>5. Abs(t) = Rule50 <=> t = Rule50 \/ t = -Rule50
  <2> HIDE DEF t
  <2> QED BY <1>1, PliesFacts DEF Abs
<1>6. t = Rule50 \/ t = -Rule50 => CountsPlies(p)
  BY <1>5 DEF Told, EdgeInPlies
<1> HIDE DEF t
<1>7. CountsPlies(p) <=> (Counts(p, t) /\ t \in -Rule50 .. Rule50)
  <2>1. W = -2 \/ W = -1 \/ W = 0 \/ W = 1 \/ W = 2
    BY <1>2
  <2>2. CASE W = 2
    BY <1>1, <1>2, <1>4, <2>2, PliesFacts DEF Counts
  <2>3. CASE W = -2
    BY <1>1, <1>2, <1>4, <2>3, PliesFacts DEF Counts
  <2>4. CASE W # 2 /\ W # -2
    <3>1. ~CountsPlies(p)
      BY <1>3, <1>4, <2>1, <2>4
    <3>2. t = 0 \/ t \notin -Rule50 .. Rule50
      BY <1>1, <1>2, <2>4, PliesFacts
    <3>3. t = 0 => ~Counts(p, t)
      BY DEF Counts
    <3> QED BY <3>1, <3>2, <3>3
  <2> QED BY <2>2, <2>3, <2>4
<1> QED BY <1>4, <1>6, <1>7 DEF t, W

(* One ply on: from what is told of q to what is told of the move to q.    *)
LEMMA OnePlyOn ==
  ASSUME Told, NEW p \in Positions, NEW q \in Quiet(p), NEW e, Tells(q, e, truth[q])
  PROVE  /\ Tells(p, IF Mated(q) THEN 1 ELSE OnePlyMore(-e), QuietAfter(truth, q))
         /\ Mated(q) => OnePlyMore(-e) = 2
<1> DEFINE t == truth[q]
           x == QuietAfter(truth, q)
           a == OnePlyMore(-e)
<1>1. q \in Positions /\ Side(q) # Side(p)
  BY GameFacts DEF Told
<1>2. t \in Int /\ (Mated(q) => t = -1)
  BY <1>1 DEF Told, Sound
<1>3. x = IF Mated(q) THEN 1 ELSE -t + IF -t > 0 THEN 1 ELSE IF -t < 0 THEN -1 ELSE 0
  BY Zenon DEF QuietAfter, OnePlyMore, Sign
<1>4. a = -e + IF -e > 0 THEN 1 ELSE IF -e < 0 THEN -1 ELSE 0
  BY Zenon DEF OnePlyMore, Sign
<1>5. NearTo(e, t)
  BY DEF Tells
<1>6. t = Rule50 \/ t = -Rule50 => e = t
  <2>1. t = Rule50 \/ t = -Rule50 => Counts(q, t) /\ t \in -Rule50 .. Rule50
    BY <1>1, CountsFacts, PliesFacts
  <2> QED BY <2>1 DEF Tells
<1>7. /\ Parity(p) \in {0, 1} /\ Parity(q) = 1 - Parity(p)
      /\ \A d \in Int, u \in Int : (d > 0 /\ u < 0) \/ (d < 0 /\ u > 0) => (Counts(p, d) <=> Counts(q, u))
  <2>1. game.stored \in {"white", "black"}
    BY ProbeAssumption DEF Told, IsGame
  <2>2. Side(q) \in {"white", "black"} /\ Side(p) \in {"white", "black"}
    BY DEF Side
  <2>3. Side(p) = game.stored <=> Side(q) # game.stored
    BY <1>1, <2>1, <2>2
  <2> QED BY <2>3 DEF Parity, Counts
<1>8. t % 2 = Parity(q) => e = t
  BY DEF Tells
<1>9. Counts(q, t) /\ t \in -Rule50 .. Rule50 => e = t
  BY DEF Tells
<1> HIDE DEF t, x, a
<1>10. CASE Mated(q)
  <2>1. x = 1 /\ t = -1
    BY <1>2, <1>3, <1>10
  <2>2. e = -1
    BY <1>5, <2>1 DEF NearTo
  <2>3. Tells(p, x, x)
    BY <2>1, ExactTells
  <2> QED BY <1>4, <1>10, <2>1, <2>2, <2>3 DEF a, x
<1>11. CASE ~Mated(q)
  <2>1. x = -t + IF -t > 0 THEN 1 ELSE IF -t < 0 THEN -1 ELSE 0
    BY <1>3, <1>11
  <2>2. x \in Int /\ a \in Int /\ e \in Int
    BY <1>2, <1>4, <1>5, <2>1 DEF NearTo
  <2>3. e = t => a = x
    BY <1>4, <2>1
  <2>4. NearTo(a, x)
    BY <1>2, <1>4, <1>5, <1>6, <2>1, <2>2, PliesFacts DEF NearTo
  <2>5. x % 2 = Parity(p) => a = x
    <3>1. CASE t = 0
      BY <1>5, <2>3, <3>1 DEF NearTo
    <3>2. CASE t # 0
      <4>1. x % 2 = 1 - (t % 2)
        BY <1>2, <2>1, <3>2
      <4>2. t % 2 \in {0, 1}
        BY <1>2
      <4> QED BY <1>7, <1>8, <2>3, <4>1, <4>2
    <3> QED BY <3>1, <3>2
  <2>6. Counts(p, x) /\ x \in -Rule50 .. Rule50 => a = x
    <3>1. CASE t = 0
      BY <1>5, <2>3, <3>1 DEF NearTo
    <3>2. CASE t # 0
      <4>1. (x > 0 /\ t < 0) \/ (x < 0 /\ t > 0)
        BY <1>2, <2>1, <3>2
      <4>2. Counts(p, x) => Counts(q, t)
        BY <1>2, <1>7, <2>2, <4>1
      <4>3. x \in -Rule50 .. Rule50 => t \in -Rule50 .. Rule50
        BY <1>2, <2>1, <3>2, PliesFacts
      <4> QED BY <1>9, <2>3, <4>2, <4>3
    <3> QED BY <3>1, <3>2
  <2>7. Tells(p, a, x)
    BY <2>4, <2>5, <2>6 DEF Tells
  <2> QED BY <1>11, <2>7 DEF a, x
<1> QED BY <1>10, <1>11

(* Half the plies, rounded down, and doubled again. *)
LEMMA Halved ==
  ASSUME NEW c \in Nat
  PROVE  /\ 2 * (c \div 2) \in Nat
         /\ 2 * (c \div 2) = c \/ (2 * (c \div 2) = c - 1 /\ c % 2 = 1)
OBVIOUS

(* The class and the plies that the table's value stands for. *)
LEMMA TableTells ==
  ASSUME Told, NEW p \in Positions, Side(p) = game.stored, truth[p] # 0, NEW v,
         v = Counted(p) \/ v = 2 * (Counted(p) \div 2),
         WdlOf(truth[p]) \in game.plies => v = Counted(p)
  PROVE  Tells(p, Sign(WdlOf(truth[p])) *
                    (v + 1 + IF Abs(WdlOf(truth[p])) = 1 THEN Rule50 ELSE 0), truth[p])
<1> DEFINE t == truth[p]
           W == WdlOf(t)
           c == Counted(p)
           e == Sign(W) * (v + 1 + IF Abs(W) = 1 THEN Rule50 ELSE 0)
<1>1. t \in Int /\ t # 0
  BY DEF Told, Sound
<1>2. /\ W \in -2 .. 2
      /\ W = 2 <=> (t > 0 /\ t <= Rule50)
      /\ W = 1 <=> (t > 0 /\ t > Rule50)
      /\ W = -1 <=> (t < 0 /\ -t > Rule50)
      /\ W = -2 <=> (t < 0 /\ -t <= Rule50)
  BY <1>1, WdlOfFacts
<1>3. c = Abs(t) - 1 - IF Abs(t) > Rule50 THEN Rule50 ELSE 0
  BY DEF Counted
<1>4. c \in Nat
  <2> HIDE DEF c, t
  <2> QED BY <1>1, <1>3, PliesFacts DEF Abs
<1>5. v \in Nat /\ (v = c \/ (v = c - 1 /\ c % 2 = 1))
  <2>1. v = c \/ v = 2 * (c \div 2)
    OBVIOUS
  <2> HIDE DEF c
  <2> QED BY <1>4, <2>1, Halved
<1>6. Parity(p) = 1
  BY DEF Parity
<1>7. Counts(p, t) /\ t \in -Rule50 .. Rule50 => v = c
  BY CountsFacts
<1> HIDE DEF t, W, c, e
<1> DEFINE n == IF t > 0 THEN t ELSE -t
           g == IF n > Rule50 THEN Rule50 ELSE 0
<1>8. n \in Nat /\ n > 0 /\ c = n - 1 - g
  BY <1>1, <1>3 DEF Abs
<1>9. e = IF t > 0 THEN v + 1 + g ELSE -(v + 1 + g)
  <2>1. Sign(W) = IF t > 0 THEN 1 ELSE -1
    BY <1>1, <1>2, PliesFacts DEF Sign
  <2>2. (IF Abs(W) = 1 THEN Rule50 ELSE 0) = g
    BY <1>1, <1>2, PliesFacts DEF Abs
  <2> HIDE DEF g
  <2>3. e = Sign(W) * (v + 1 + g)
    BY <2>2 DEF e
  <2>4. g \in Int
    BY PliesFacts DEF g
  <2> QED BY <1>5, <2>1, <2>3, <2>4
<1>10. v = c => e = t
  BY <1>1, <1>8, <1>9, PliesFacts
<1>11. NearTo(e, t)
  BY <1>1, <1>5, <1>8, <1>9, PliesFacts DEF NearTo
<1>12. t % 2 = 1 => e = t
  <2>1. t % 2 = n % 2
    BY <1>1
  <2>2. g % 2 = 0 /\ g \in Nat
    BY RuleIsEven, PliesFacts
  <2> HIDE DEF n, g
  <2>3. t % 2 = 1 => c % 2 = 0
    BY <1>4, <1>8, <2>1, <2>2
  <2> QED BY <1>5, <1>10, <2>3
<1> QED BY <1>6, <1>7, <1>10, <1>11, <1>12 DEF Tells, t, W, e

(* probe_dtz, where the table is for the side to move. *)
LEMMA SettledTells ==
  ASSUME Told, NEW p \in Positions
  PROVE  LET r == Settled(p)
         IN /\ r.state \in {FAIL, OK, ZEROING_BEST_MOVE, CHANGE_STM}
            /\ r.state \notin {FAIL, CHANGE_STM} => Tells(p, r.value, truth[p])
            /\ r.state = CHANGE_STM =>
                 r.value = WdlOf(truth[p]) /\ truth[p] # 0 /\ Side(p) # game.stored
            /\ AllKnown(p) /\ game.hasDtz => r.state # FAIL
<1> DEFINE tried == DOMAIN Zeroing(p)
           s == search(p, TRUE)
           r == Settled(p)
           t == truth[p]
           W == WdlOf(truth[p])
           best == BestOf(p, tried)
<1>0. t \in Int
  BY DEF Told, Sound
<1>1. s = SearchMoves(p, tried, Stops(p, tried), BestOf(p, tried))
  BY Searches, Zenon
<1>2. /\ s.state \in {FAIL, OK, ZEROING_BEST_MOVE}
      /\ s.state # FAIL => s.value = W
      /\ AllKnown(p) => s.state # FAIL
      /\ s.state = ZEROING_BEST_MOVE =>
           \/ \E i \in tried : Zeroing(p)[i].wdl = -2
           \/ best = W /\ (best > 0 \/ OnlyTried(p, tried))
      /\ s.state = OK =>
           /\ ~ \E i \in tried : Zeroing(p)[i].wdl = -2
           /\ ~(best = W /\ best > 0)
  <2>1. tried = DOMAIN Zeroing(p) \/ tried = Captures(p)
    OBVIOUS
  <2> HIDE DEF s, tried
  <2> QED BY <1>1, <2>1, SearchTells DEF AllKnown
<1>3. r = FromSearch(p, s)
  BY Zenon DEF Settled
<1>4. /\ W \in -2 .. 2 /\ (W = 0 <=> t = 0)
      /\ W = 2 <=> (t > 0 /\ t <= Rule50)
      /\ W = 1 <=> (t > 0 /\ t > Rule50)
      /\ W = -1 <=> (t < 0 /\ -t > Rule50)
      /\ W = -2 <=> (t < 0 /\ -t <= Rule50)
  BY <1>0, WdlOfFacts
<1>5. /\ best \in -2 .. 2 /\ best <= W
      /\ \A i \in tried : -Zeroing(p)[i].wdl <= best
      /\ best = -2 \/ \E i \in tried : best = -Zeroing(p)[i].wdl
  BY BestOfFacts
<1> HIDE DEF s, r
<1>6. CASE s.state = FAIL \/ s.value = 0
  <2>1. r = [value |-> 0, state |-> s.state]
    BY <1>3, <1>6, Zenon DEF FromSearch
  <2>2. r.value = 0 /\ r.state = s.state
    BY <2>1
  <2>3. r.state # FAIL => t = 0
    BY <1>2, <1>4, <1>6, <2>2
  <2>4. r.state # FAIL => Tells(p, r.value, t)
    <3> HIDE DEF t, W
    <3> QED BY <2>2, <2>3, ExactTells
  <2> HIDE DEF t, W
  <2> QED BY <1>2, <2>2, <2>3, <2>4 DEF FAIL, OK, ZEROING_BEST_MOVE, CHANGE_STM, r, t
<1>7. CASE s.state = ZEROING_BEST_MOVE /\ s.value # 0
  <2>1. r = [value |-> dtz_before_zeroing(s.value), state |-> s.state]
    BY <1>3, <1>7, Zenon DEF FromSearch, ZEROING_BEST_MOVE, FAIL
  <2>2. s.value = W
    BY <1>2, <1>7 DEF ZEROING_BEST_MOVE, FAIL
  <2>3. r.state = ZEROING_BEST_MOVE /\ r.value = dtz_before_zeroing(W)
    BY <1>7, <2>1, <2>2
  <2>4. dtz_before_zeroing(W) = IF W < 0 THEN -Cost(W) ELSE IF W > 0 THEN Cost(W) ELSE 0
    <3> HIDE DEF W
    <3> QED BY <1>4, DtzBeforeZeroing
  <2>5. dtz_before_zeroing(W) = t
    <3>1. CASE \E i \in tried : Zeroing(p)[i].wdl = -2
      <4>1. t = 1
        BY <3>1, ZeroingClass
      <4>2. W = 2
        BY <1>4, <4>1, PliesFacts
      <4> HIDE DEF W, t
      <4> QED BY <2>4, <4>1, <4>2, CostFacts
    <3>2. CASE best = W /\ best > 0 /\ ~ \E i \in tried : Zeroing(p)[i].wdl = -2
      <4>1. PICK i \in tried : best = -Zeroing(p)[i].wdl /\ Zeroing(p)[i].wdl # -2
        BY <1>5, <3>2
      <4>2. Zeroing(p)[i].wdl = -1 /\ W = 1
        <5>1. Zeroing(p)[i].wdl \in -2 .. 2
          BY ZeroingClass
        <5> HIDE DEF W, best
        <5> QED BY <5>1, <4>1, <3>2
      <4>3. t <= Rule50 + 1 /\ t > Rule50
        BY <1>4, <4>2, ZeroingClass
      <4>4. t = Rule50 + 1
        <5> HIDE DEF t
        <5> QED BY <1>0, <4>3, PliesFacts
      <4> HIDE DEF W, t
      <4> QED BY <2>4, <4>2, <4>4, CostFacts
    <3>3. CASE OnlyTried(p, tried)
      <4>1. ~NoMoves(p) /\ Quiet(p) = {}
        BY <3>3, GameFacts DEF Told, OnlyTried
      <4>2. PICK i \in DOMAIN Zeroing(p) : ZeroAfter(p, i) = t
        BY <4>1 DEF Told, Sound
      <4>3. W = -Zeroing(p)[i].wdl
        BY <4>2, ZeroingClass
      <4> DEFINE w == Zeroing(p)[i].wdl
      <4>4. /\ w \in -2 .. 2 /\ Cost(w) \in 1 .. Rule50 + 1
            /\ t = IF w < 0 THEN Cost(w) ELSE IF w > 0 THEN -Cost(w) ELSE 0
        BY <4>2, ZeroAfterFacts DEF Told
      <4>5. W = -w
        BY <4>3
      <4> HIDE DEF W, t, w
      <4>6. Cost(W) = Cost(w)
        <5>1. w = -2 \/ w = -1 \/ w = 0 \/ w = 1 \/ w = 2
          BY <4>4
        <5> QED BY <4>5, <5>1, CostFacts
      <4> QED BY <2>4, <4>4, <4>5, <4>6
    <3> QED BY <1>2, <1>7, <3>1, <3>2, <3>3
  <2>6. Tells(p, r.value, t)
    <3> HIDE DEF t, W
    <3> QED BY <1>0, <2>3, <2>5, ExactTells
  <2> HIDE DEF t, W
  <2> QED BY <2>3, <2>6 DEF FAIL, OK, ZEROING_BEST_MOVE, CHANGE_STM, r, t
<1>8. CASE s.state = OK /\ s.value # 0
  <2> DEFINE table == probe_dtz_table(p, W)
  <2>1. s.value = W /\ s.state # FAIL /\ s.state # ZEROING_BEST_MOVE
    BY <1>2, <1>8 DEF ZEROING_BEST_MOVE, FAIL, OK
  <2>2. r = IF table.state = OK THEN FromTable(p, W) ELSE [value |-> W, state |-> table.state]
    BY <1>3, <1>8, <2>1, Zenon DEF FromSearch
  <2>3. CASE ~game.hasDtz
    <3>1. table = [value |-> 0, state |-> FAIL]
      BY <2>3, Zenon DEF probe_dtz_table
    <3>2. table.state = FAIL
      BY <3>1
    <3>3. r.state = FAIL
      BY <2>2, <3>2 DEF FAIL, OK
    <3> QED BY <2>3, <3>3 DEF FAIL, OK, ZEROING_BEST_MOVE, CHANGE_STM, r
  <2>4. CASE game.hasDtz /\ Side(p) # game.stored
    <3>1. table = [value |-> 0, state |-> CHANGE_STM]
      BY <2>4, Zenon DEF probe_dtz_table
    <3>2. table.state = CHANGE_STM
      BY <3>1
    <3>3. r.state = CHANGE_STM /\ r.value = W
      BY <2>2, <3>2 DEF CHANGE_STM, OK
    <3>4. t # 0
      BY <1>4, <1>8, <2>1
    <3> HIDE DEF t, W
    <3> QED BY <2>4, <3>3, <3>4 DEF FAIL, OK, ZEROING_BEST_MOVE, CHANGE_STM, r, t, W
  <2>5. CASE game.hasDtz /\ Side(p) = game.stored
    <3> DEFINE v == table.value
    <3>1. ~ZeroingWins(p)
      <4>1. SUFFICES ASSUME NEW i \in DOMAIN Zeroing(p), Zeroing(p)[i].wdl < 0,
                            Cost(Zeroing(p)[i].wdl) = t
                     PROVE  FALSE
        BY DEF ZeroingWins
      <4> DEFINE w == Zeroing(p)[i].wdl
      <4>2. w \in -2 .. 2 /\ w # -2 /\ w < 0 /\ -w <= best /\ Cost(w) = t
        BY <1>2, <1>5, <1>8, <4>1, ZeroingClass
      <4> HIDE DEF w, t, best, W
      <4>3. w = -1 /\ t = Rule50 + 1
        BY <4>2, CostFacts
      <4>4. W = 1 /\ best >= 1
        BY <1>4, <1>5, <4>2, <4>3, PliesFacts
      <4>5. best = W /\ best > 0
        BY <1>5, <4>4
      <4> QED BY <1>2, <1>8, <4>5
    <3>2. table = [state |-> OK,
                   value |-> IF W \in game.plies THEN DtzEntry(p) ELSE 2 * DtzEntry(p)]
      BY <2>5, Zenon DEF probe_dtz_table
    <3>3. table.state = OK /\ v = IF W \in game.plies THEN DtzEntry(p) ELSE 2 * DtzEntry(p)
      BY <3>2
    <3>4. DtzEntry(p) = IF CountsPlies(p) THEN Counted(p) ELSE Counted(p) \div 2
      BY <3>1, Zenon DEF DtzEntry
    <3>5. CountsPlies(p) <=> W \in game.plies
      BY <2>5, CountsFacts
    <3>6. /\ v = Counted(p) \/ v = 2 * (Counted(p) \div 2)
          /\ W \in game.plies => v = Counted(p)
      BY <3>3, <3>4, <3>5, Zenon
    <3>7. t # 0
      BY <1>4, <1>8, <2>1
    <3> HIDE DEF v
    <3>8. Tells(p, Sign(W) * (v + 1 + IF Abs(W) = 1 THEN Rule50 ELSE 0), t)
      BY <2>5, <3>6, <3>7, TableTells
    <3>9. r = [state |-> OK, value |-> Sign(W) * (v + 1 + IF Abs(W) = 1 THEN Rule50 ELSE 0)]
      BY <2>2, <3>3, Zenon DEF FromTable, v
    <3>10. r.state = OK /\ r.value = Sign(W) * (v + 1 + IF Abs(W) = 1 THEN Rule50 ELSE 0)
      BY <3>9
    <3> HIDE DEF t, W
    <3> QED BY <3>8, <3>10 DEF FAIL, OK, ZEROING_BEST_MOVE, CHANGE_STM, r, t
  <2> QED BY <2>3, <2>4, <2>5
<1> QED BY <1>2, <1>6, <1>7, <1>8

LEMMA MinIs ==
  ASSUME NEW S \in SUBSET Int, NEW x \in S, \A y \in S : x <= y
  PROVE  Min(S) = x
<1>1. Min(S) = CHOOSE z \in S : \A y \in S : z <= y
  BY DEF Min
<1>2. Min(S) \in S /\ \A y \in S : Min(S) <= y
  BY <1>1
<1>3. Min(S) <= x /\ x <= Min(S) /\ Min(S) \in Int /\ x \in Int
  BY <1>2
<1> QED BY <1>3

(* probe_dtz, by the moves if the table is for the other side: the least   *)
(* of the values told is told of the least.                                *)
LEMMA FromMovesTells ==
  ASSUME Told, NEW p \in Positions, truth[p] # 0,
         \A q \in Quiet(p) : Tells(p, AfterQuiet(q), QuietAfter(truth, q))
  PROVE  Tells(p, BestDtz({dtz \in {AfterQuiet(q) : q \in Quiet(p)}
                          \cup {-dtz_before_zeroing(Zeroing(p)[i].wdl) : i \in DOMAIN Zeroing(p)} :
                    Sign(dtz) = Sign(WdlOf(truth[p]))}), truth[p])
<1> DEFINE t == truth[p]
           all == {AfterQuiet(q) : q \in Quiet(p)}
                    \cup {-dtz_before_zeroing(Zeroing(p)[i].wdl) : i \in DOMAIN Zeroing(p)}
           good == {dtz \in all : Sign(dtz) = Sign(WdlOf(t))}
           IsMove(x) == /\ x \in Int
                        /\ x > 0 => t > 0 /\ t <= x
                        /\ t < 0 => x < 0 /\ t <= x
<1>1. t \in Int /\ t # 0
  BY DEF Told, Sound
<1>2. Sign(WdlOf(t)) = IF t > 0 THEN 1 ELSE -1
  <2> HIDE DEF t
  <2> QED BY <1>1, WdlOfFacts DEF Sign
<1>3. \A d \in Int : Sign(d) = IF d > 0 THEN 1 ELSE IF d < 0 THEN -1 ELSE 0
  BY DEF Sign
<1>4. \A i \in DOMAIN Zeroing(p) : ZeroAfter(p, i) \in Int
  BY ZeroAfterFacts, PliesFacts DEF Told
<1>5. \A q \in Quiet(p) : QuietAfter(truth, q) \in Int
  <2>1. ASSUME NEW q \in Quiet(p) PROVE QuietAfter(truth, q) \in Int
    <3>1. truth[q] \in Int
      BY GameFacts DEF Told, Sound
    <3> QED BY <3>1 DEF QuietAfter, OnePlyMore, Sign
  <2> QED BY <2>1
<1>6. CASE Mated(p)
  <2>1. Quiet(p) = {} /\ DOMAIN Zeroing(p) = {} /\ t = -1
    BY <1>6, GameFacts DEF Told, Sound, Mated
  <2>2. good = {}
    BY <2>1
  <2> HIDE DEF good
  <2>3. BestDtz(good) = -1
    BY <2>2, Zenon DEF BestDtz
  <2>4. Tells(p, t, t)
    BY <1>1, ExactTells
  <2> HIDE DEF t
  <2> QED BY <2>1, <2>3, <2>4 DEF good, t
<1>7. CASE ~Mated(p)
  <2>1. ~NoMoves(p)
    BY <1>1, <1>7 DEF Told, Sound
  <2>2. \A y \in all : \E x : IsMove(x) /\ Tells(p, y, x)
    <3>1. ASSUME NEW q \in Quiet(p) PROVE \E x : IsMove(x) /\ Tells(p, AfterQuiet(q), x)
      <4>1. IsMove(QuietAfter(truth, q))
        BY <1>5, <1>7 DEF Told, Sound
      <4> QED BY <4>1
    <3>2. ASSUME NEW i \in DOMAIN Zeroing(p) PROVE \E x : IsMove(x) /\ Tells(p, ZeroAfter(p, i), x)
      <4>1. IsMove(ZeroAfter(p, i))
        BY <1>4, <1>7 DEF Told, Sound
      <4>2. Tells(p, ZeroAfter(p, i), ZeroAfter(p, i))
        BY <1>4, ExactTells
      <4> QED BY <4>1, <4>2
    <3> HIDE DEF IsMove
    <3> QED BY <3>1, <3>2 DEF ZeroAfter
  <2>3. PICK y \in all : Tells(p, y, t)
    <3>1. CASE \E q \in Quiet(p) : QuietAfter(truth, q) = t
      <4>1. PICK q \in Quiet(p) : QuietAfter(truth, q) = t
        BY <3>1
      <4>2. Tells(p, AfterQuiet(q), QuietAfter(truth, q)) /\ AfterQuiet(q) \in all
        OBVIOUS
      <4> HIDE DEF all, t
      <4> QED BY <4>1, <4>2
    <3>2. CASE \E i \in DOMAIN Zeroing(p) : ZeroAfter(p, i) = t
      <4>1. PICK i \in DOMAIN Zeroing(p) : ZeroAfter(p, i) = t
        BY <3>2
      <4>2. t \in all
        BY <4>1 DEF ZeroAfter
      <4>3. Tells(p, t, t)
        BY <1>1, ExactTells
      <4> QED BY <4>2, <4>3
    <3> QED BY <2>1, <3>1, <3>2 DEF Told, Sound
  <2> HIDE DEF t, all
  <2>4. \A z \in all : z \in Int
    BY <2>2 DEF Tells, NearTo
  <2>5. good \in SUBSET Int
    BY <2>4
  <2>6. y \in good
    <3>1. y \in Int /\ (t > 0 => y > 0) /\ (t < 0 => y < 0)
      BY <2>3 DEF Tells, NearTo
    <3>2. Sign(y) = Sign(WdlOf(t))
      BY <1>1, <1>2, <1>3, <3>1
    <3> QED BY <3>2
  <2>7. ASSUME NEW m \in good, \A z \in good : m <= z, Tells(p, m, t)
        PROVE  Tells(p, BestDtz(good), t)
    <3> HIDE DEF good
    <3>1. Min(good) = m /\ good # {}
      BY <2>5, <2>7, MinIs
    <3>2. BestDtz(good) = m
      BY <3>1, Zenon DEF BestDtz
    <3> QED BY <2>7, <3>2
  <2>8. CASE t > 0
    <3>1. ASSUME NEW z \in good PROVE z \in Int /\ z >= t - 1 /\ (z = t - 1 => Tells(p, z, t))
      <4>1. z \in all /\ Sign(z) = 1 /\ z \in Int
        BY <1>2, <2>4, <2>8
      <4>2. z > 0
        BY <1>3, <4>1
      <4>3. PICK x : IsMove(x) /\ Tells(p, z, x)
        BY <2>2, <4>1
      <4>4. x > 0 /\ x \in Int /\ (z = x \/ z = x - 1)
        BY <4>2, <4>3 DEF Tells, NearTo
      <4>5. t <= x
        BY <4>3, <4>4
      <4>6. z = t - 1 => x = t
        BY <1>1, <4>4, <4>5
      <4> QED BY <1>1, <4>3, <4>4, <4>5, <4>6
    <3>2. CASE t - 1 \in good
      <4>1. \A z \in good : t - 1 <= z
        BY <3>1, <1>1
      <4>2. Tells(p, t - 1, t)
        BY <3>1, <3>2
      <4> HIDE DEF good
      <4> QED BY <2>7, <3>2, <4>1, <4>2 DEF good, t, all
    <3>3. CASE t - 1 \notin good
      <4>1. y = t
        BY <1>1, <2>3, <2>6, <2>8, <3>3 DEF Tells, NearTo
      <4>2. \A z \in good : y <= z
        <5>1. \A z \in good : z \in Int /\ z >= t - 1
          BY <3>1
        <5> HIDE DEF good
        <5> QED BY <1>1, <3>3, <4>1, <5>1
      <4> HIDE DEF good
      <4> QED BY <2>3, <2>6, <2>7, <4>2 DEF good, t, all
    <3> QED BY <3>2, <3>3
  <2>9. CASE t < 0
    <3>1. ASSUME NEW z \in good PROVE z \in Int /\ z >= t
      <4>1. z \in all /\ z \in Int
        BY <2>4
      <4>2. PICK x : IsMove(x) /\ Tells(p, z, x)
        BY <2>2, <4>1
      <4>3. x < 0 /\ x \in Int /\ t <= x
        BY <2>9, <4>2
      <4>4. z = x \/ z = x + 1
        BY <4>2, <4>3 DEF Tells, NearTo
      <4> QED BY <1>1, <4>1, <4>3, <4>4
    <3>2. CASE t \in good
      <4>1. Tells(p, t, t)
        BY <1>1, ExactTells
      <4>2. \A z \in good : t <= z
        BY <3>1, <1>1
      <4> HIDE DEF good
      <4> QED BY <2>7, <3>2, <4>1, <4>2 DEF good, t, all
    <3>3. CASE t \notin good
      <4>1. y = t + 1
        BY <1>1, <2>3, <2>6, <2>9, <3>3 DEF Tells, NearTo
      <4>2. \A z \in good : y <= z
        <5>1. \A z \in good : z \in Int /\ z >= t
          BY <3>1
        <5> HIDE DEF good
        <5> QED BY <1>1, <3>3, <4>1, <5>1
      <4> HIDE DEF good
      <4> QED BY <2>3, <2>6, <2>7, <4>2 DEF good, t, all
    <3> QED BY <3>2, <3>3
  <2> QED BY <1>1, <2>8, <2>9
<1> QED BY <1>6, <1>7

LEMMA ProbeDtzTells ==
  ASSUME Told, NEW p \in Positions
  PROVE  /\ probe_dtz(p).state # FAIL => Tells(p, probe_dtz(p).value, truth[p])
         /\ Complete => probe_dtz(p).state # FAIL
<1> DEFINE r == Settled(p)
           s == probe_dtz(p)
<1>1. /\ r.state \in {FAIL, OK, ZEROING_BEST_MOVE, CHANGE_STM}
      /\ r.state \notin {FAIL, CHANGE_STM} => Tells(p, r.value, truth[p])
      /\ r.state = CHANGE_STM =>
           r.value = WdlOf(truth[p]) /\ truth[p] # 0 /\ Side(p) # game.stored
      /\ AllKnown(p) /\ game.hasDtz => r.state # FAIL
  BY SettledTells
<1>2. s = IF r.state # CHANGE_STM THEN r ELSE FromMoves(p, r.value)
  BY Zenon DEF probe_dtz, FromSide
<1>3. Complete => AllKnown(p) /\ game.hasDtz
  BY DEF Complete, AllKnown
<1> HIDE DEF r, s
<1>4. CASE r.state # CHANGE_STM
  BY <1>1, <1>2, <1>3, <1>4 DEF s
<1>5. CASE r.state = CHANGE_STM
  <2>1. \A q \in Quiet(p) : q \in Positions /\ Side(q) # Side(p)
    BY GameFacts DEF Told
  <2>2. ASSUME NEW q \in Quiet(p)
        PROVE  /\ Settled(q).state # FAIL => Tells(q, Settled(q).value, truth[q])
               /\ Complete => Settled(q).state # FAIL
    <3>1. q \in Positions /\ Side(q) # Side(p) /\ Side(p) # game.stored
      BY <1>1, <1>5, <2>1
    <3>2. Side(q) = game.stored
      <4>1. game.stored \in {"white", "black"}
        BY ProbeAssumption DEF Told, IsGame
      <4>2. Side(q) \in {"white", "black"} /\ Side(p) \in {"white", "black"}
        BY DEF Side
      <4> QED BY <3>1, <4>1, <4>2
    <3>3. Complete => AllKnown(q) /\ game.hasDtz
      BY <3>1 DEF Complete, AllKnown
    <3> DEFINE rq == Settled(q)
    <3>4. /\ rq.state \notin {FAIL, CHANGE_STM} => Tells(q, rq.value, truth[q])
          /\ rq.state = CHANGE_STM => Side(q) # game.stored
          /\ AllKnown(q) /\ game.hasDtz => rq.state # FAIL
      BY <3>1, SettledTells
    <3> HIDE DEF rq
    <3> QED BY <3>2, <3>3, <3>4 DEF rq
  <2> DEFINE failed == \/ \E q \in Quiet(p) : Settled(q).state = FAIL
                       \/ \E i \in DOMAIN Zeroing(p) : ~Zeroing(p)[i].known
             best == BestDtz({dtz \in {AfterQuiet(q) : q \in Quiet(p)}
                        \cup {-dtz_before_zeroing(Zeroing(p)[i].wdl) : i \in DOMAIN Zeroing(p)} :
                    Sign(dtz) = Sign(WdlOf(truth[p]))})
  <2>3. s = IF failed THEN [value |-> 0, state |-> FAIL] ELSE [value |-> best, state |-> OK]
    <3>1. s = FromMoves(p, WdlOf(truth[p]))
      BY <1>1, <1>2, <1>5
    <3> QED BY <3>1, Zenon DEF FromMoves
  <2>4. Complete => ~failed
    BY <1>3, <2>2 DEF AllKnown
  <2>5. CASE failed
    <3>1. s.state = FAIL
      BY <2>3, <2>5
    <3> QED BY <2>4, <2>5, <3>1 DEF s
  <2>6. CASE ~failed
    <3>1. ASSUME NEW q \in Quiet(p) PROVE Tells(p, AfterQuiet(q), QuietAfter(truth, q))
      <4>1. Tells(q, Settled(q).value, truth[q])
        BY <2>2, <2>6
      <4> DEFINE e == Settled(q).value
      <4>2. AfterQuiet(q) = IF Mated(q) THEN 1 ELSE OnePlyMore(-e)
        BY DEF AfterQuiet
      <4> HIDE DEF e
      <4>3. Tells(q, e, truth[q])
        BY <4>1 DEF e
      <4>4. Tells(p, IF Mated(q) THEN 1 ELSE OnePlyMore(-e), QuietAfter(truth, q))
        BY <4>3, OnePlyOn
      <4> QED BY <4>2, <4>4
    <3>2. truth[p] # 0
      BY <1>1, <1>5
    <3>3. Tells(p, best, truth[p])
      BY <3>1, <3>2, FromMovesTells
    <3> HIDE DEF best
    <3>4. s.state = OK /\ s.value = best
      BY <2>3, <2>6
    <3> QED BY <3>3, <3>4 DEF s, OK, FAIL
  <2> HIDE DEF failed
  <2> QED BY <2>5, <2>6
<1> QED BY <1>4, <1>5

-----------------------------------------------------------------------------
(* The moves of the root. *)

MoveDtz(p, m) == IF IsZeroing(m) THEN ZeroAfter(p, m.zero) ELSE QuietAfter(truth, m.to)

LEMMA RootMoveFacts ==
  ASSUME NEW p, NEW m \in RootMoves(p)
  PROVE  \/ IsZeroing(m) /\ m.zero \in DOMAIN Zeroing(p) /\ m = [zero |-> m.zero]
         \/ ~IsZeroing(m) /\ m.to \in Quiet(p) /\ m = [to |-> m.to]
<1>1. CASE \E q \in Quiet(p) : m = [to |-> q]
  <2>1. PICK q \in Quiet(p) : m = [to |-> q]
    BY <1>1
  <2>2. m.to = q /\ DOMAIN m = {"to"}
    BY <2>1
  <2>3. "zero" \notin {"to"}
    OBVIOUS
  <2> QED BY <2>1, <2>2, <2>3 DEF IsZeroing
<1>2. CASE \E i \in DOMAIN Zeroing(p) : m = [zero |-> i]
  <2>1. PICK i \in DOMAIN Zeroing(p) : m = [zero |-> i]
    BY <1>2
  <2>2. m.zero = i /\ DOMAIN m = {"zero"}
    BY <2>1
  <2> QED BY <2>1, <2>2 DEF IsZeroing
<1> QED BY <1>1, <1>2 DEF RootMoves

(* What a move leads to, by its plies. *)
LEMMA MoveDtzFacts ==
  ASSUME Told, NEW p \in Positions, NEW m \in RootMoves(p)
  PROVE  /\ MoveDtz(p, m) \in Int
         /\ ~IsZeroing(m) =>
              /\ m.to \in Quiet(p) /\ m.to \in Positions /\ Side(m.to) # Side(p)
              /\ truth[m.to] \in Int
              /\ Mated(m.to) => MoveDtz(p, m) = 1 /\ truth[m.to] = -1
              /\ ~Mated(m.to) =>
                   /\ MoveDtz(p, m) > 0 => truth[m.to] = 1 - MoveDtz(p, m) /\ truth[m.to] < 0
                   /\ MoveDtz(p, m) < 0 => truth[m.to] = -MoveDtz(p, m) - 1 /\ truth[m.to] > 0
                   /\ MoveDtz(p, m) = 0 => truth[m.to] = 0
         /\ IsZeroing(m) =>
              /\ m.zero \in DOMAIN Zeroing(p) /\ Zeroing(p)[m.zero].wdl \in -2 .. 2
              /\ Zeroing(p)[m.zero].wdl = -2 => MoveDtz(p, m) = 1
              /\ Zeroing(p)[m.zero].wdl = -1 => MoveDtz(p, m) = Rule50 + 1
              /\ Zeroing(p)[m.zero].wdl = 0 => MoveDtz(p, m) = 0
              /\ Zeroing(p)[m.zero].wdl = 1 => MoveDtz(p, m) = -(Rule50 + 1)
              /\ Zeroing(p)[m.zero].wdl = 2 => MoveDtz(p, m) = -1
<1>1. CASE IsZeroing(m)
  <2> DEFINE w == Zeroing(p)[m.zero].wdl
             x == MoveDtz(p, m)
  <2>1. m.zero \in DOMAIN Zeroing(p)
    BY <1>1, RootMoveFacts
  <2>2. x = ZeroAfter(p, m.zero)
    BY <1>1 DEF MoveDtz
  <2>3. /\ w \in -2 .. 2 /\ Cost(w) \in 1 .. Rule50 + 1
        /\ x = IF w < 0 THEN Cost(w) ELSE IF w > 0 THEN -Cost(w) ELSE 0
    BY <2>1, <2>2, ZeroAfterFacts DEF Told
  <2> HIDE DEF w, x
  <2>4. /\ w = 2 \/ w = -2 => Cost(w) = 1
        /\ w = 1 \/ w = -1 => Cost(w) = Rule50 + 1
    BY <2>3, CostFacts
  <2>5. /\ x \in Int
        /\ w = -2 => x = 1
        /\ w = -1 => x = Rule50 + 1
        /\ w = 0 => x = 0
        /\ w = 1 => x = -(Rule50 + 1)
        /\ w = 2 => x = -1
    BY <2>3, <2>4, PliesFacts
  <2> QED BY <1>1, <2>1, <2>3, <2>5 DEF w, x
<1>2. CASE ~IsZeroing(m)
  <2> DEFINE q == m.to
             x == MoveDtz(p, m)
  <2>1. q \in Quiet(p) /\ q \in Positions /\ Side(q) # Side(p)
    BY <1>2, RootMoveFacts, GameFacts DEF Told
  <2>2. truth[q] \in Int /\ (Mated(q) => truth[q] = -1)
    BY <2>1 DEF Told, Sound
  <2>3. x = IF Mated(q) THEN 1
            ELSE -truth[q] + IF -truth[q] > 0 THEN 1 ELSE IF -truth[q] < 0 THEN -1 ELSE 0
    BY <1>2, Zenon DEF MoveDtz, QuietAfter, OnePlyMore, Sign
  <2> HIDE DEF x, q
  <2>4. /\ x \in Int
        /\ Mated(q) => x = 1
        /\ ~Mated(q) =>
                   /\ x > 0 => truth[q] = 1 - x /\ truth[q] < 0
                   /\ x < 0 => truth[q] = -x - 1 /\ truth[q] > 0
                   /\ x = 0 => truth[q] = 0
    BY <2>2, <2>3
  <2> QED BY <1>2, <2>1, <2>2, <2>4 DEF x, q
<1> QED BY <1>1, <1>2

(* The value of a position is that of its best move. *)
LEMMA BestMoves ==
  ASSUME Told, NEW p \in Positions
  PROVE  /\ truth[p] \in Int
         /\ Mated(p) => truth[p] = -1
         /\ NoMoves(p) => RootMoves(p) = {}
         /\ NoMoves(p) /\ ~Mated(p) => truth[p] = 0
         /\ \A m \in RootMoves(p) :
              /\ ~NoMoves(p) /\ ~Mated(p)
              /\ MoveDtz(p, m) > 0 => truth[p] > 0 /\ truth[p] <= MoveDtz(p, m)
              /\ truth[p] < 0 => MoveDtz(p, m) < 0 /\ truth[p] <= MoveDtz(p, m)
         /\ ~NoMoves(p) => \E m \in RootMoves(p) : MoveDtz(p, m) = truth[p]
<1>1. Sound(truth, p)
  BY DEF Told
<1>2. /\ truth[p] \in Int
      /\ Mated(p) => truth[p] = -1
      /\ NoMoves(p) /\ ~Mated(p) => truth[p] = 0
  BY <1>1, Zenon DEF Sound
<1>3. NoMoves(p) <=> (Quiet(p) = {} /\ DOMAIN Zeroing(p) = {})
  BY GameFacts DEF Told
<1>4. NoMoves(p) => RootMoves(p) = {}
  BY <1>3 DEF RootMoves
<1>5. ASSUME NEW m \in RootMoves(p)
      PROVE  /\ ~NoMoves(p) /\ ~Mated(p)
             /\ MoveDtz(p, m) > 0 => truth[p] > 0 /\ truth[p] <= MoveDtz(p, m)
             /\ truth[p] < 0 => MoveDtz(p, m) < 0 /\ truth[p] <= MoveDtz(p, m)
  <2>1. ~NoMoves(p) /\ ~Mated(p)
    BY <1>4 DEF Mated
  <2>2. CASE IsZeroing(m)
    <3>1. m.zero \in DOMAIN Zeroing(p) /\ MoveDtz(p, m) = ZeroAfter(p, m.zero)
      BY <2>2, RootMoveFacts DEF MoveDtz
    <3> QED BY <1>1, <2>1, <3>1 DEF Sound
  <2>3. CASE ~IsZeroing(m)
    <3>1. m.to \in Quiet(p) /\ MoveDtz(p, m) = QuietAfter(truth, m.to)
      BY <2>3, RootMoveFacts DEF MoveDtz
    <3> QED BY <1>1, <2>1, <3>1 DEF Sound
  <2> QED BY <2>2, <2>3
<1>6. ASSUME ~NoMoves(p) PROVE \E m \in RootMoves(p) : MoveDtz(p, m) = truth[p]
  <2>1. ASSUME NEW q \in Quiet(p), QuietAfter(truth, q) = truth[p]
        PROVE  \E m \in RootMoves(p) : MoveDtz(p, m) = truth[p]
    <3> DEFINE m == [to |-> q]
    <3>1. m \in RootMoves(p)
      BY DEF RootMoves
    <3>2. ~IsZeroing(m)
      <4>1. DOMAIN m = {"to"} /\ "zero" \notin {"to"}
        OBVIOUS
      <4> HIDE DEF m
      <4> QED BY <4>1 DEF IsZeroing
    <3>3. m.to = q
      OBVIOUS
    <3> HIDE DEF m
    <3>4. MoveDtz(p, m) = truth[p]
      BY <2>1, <3>2, <3>3 DEF MoveDtz
    <3> QED BY <3>1, <3>4
  <2>2. ASSUME NEW i \in DOMAIN Zeroing(p), ZeroAfter(p, i) = truth[p]
        PROVE  \E m \in RootMoves(p) : MoveDtz(p, m) = truth[p]
    <3> DEFINE m == [zero |-> i]
    <3>1. m \in RootMoves(p)
      BY DEF RootMoves
    <3>2. IsZeroing(m)
      BY DEF IsZeroing
    <3>3. m.zero = i
      OBVIOUS
    <3> HIDE DEF m
    <3>4. MoveDtz(p, m) = truth[p]
      BY <2>2, <3>2, <3>3 DEF MoveDtz
    <3> QED BY <3>1, <3>4
  <2> QED BY <1>1, <1>6, <2>1, <2>2 DEF Sound
<1> QED BY <1>2, <1>4, <1>5, <1>6

LEMMA RootDtzTells ==
  ASSUME Told, NEW p \in Positions, NEW m \in RootMoves(p)
  PROVE  /\ RootDtz(p, m).state # FAIL => Tells(p, RootDtz(p, m).value, MoveDtz(p, m))
         /\ Complete => RootDtz(p, m).state # FAIL
<1> DEFINE r == RootDtz(p, m)
<1>1. CASE IsZeroing(m)
  <2> DEFINE z == Zeroing(p)[m.zero]
             w == z.wdl
  <2>1. m.zero \in DOMAIN Zeroing(p)
    BY <1>1, RootMoveFacts
  <2>2. w \in -2 .. 2
    BY <2>1, ZeroAfterFacts DEF Told
  <2>3. r = ZeroingDtz(AfterZeroing(z))
    BY <1>1, Zenon DEF RootDtz
  <2>4. MoveDtz(p, m) = -dtz_before_zeroing(w)
    BY <1>1 DEF MoveDtz, ZeroAfter
  <2>5. CASE z.known
    <3>1. AfterZeroing(z) = [value |-> w, state |-> OK]
      BY <2>5, Zenon DEF AfterZeroing
    <3>2. r = [value |-> dtz_before_zeroing(-w), state |-> OK]
      <4>1. AfterZeroing(z).value = w /\ AfterZeroing(z).state = OK
        BY <3>1
      <4> QED BY <2>3, <4>1, Zenon DEF ZeroingDtz
    <3>3. r.value = dtz_before_zeroing(-w) /\ r.state = OK
      BY <3>2
    <3> HIDE DEF w
    <3>4. dtz_before_zeroing(-w) = -dtz_before_zeroing(w)
      <4>1. -w \in -2 .. 2
        BY <2>2
      <4>2. /\ dtz_before_zeroing(w) = IF w < 0 THEN -Cost(w) ELSE IF w > 0 THEN Cost(w) ELSE 0
            /\ dtz_before_zeroing(-w) = IF -w < 0 THEN -Cost(-w) ELSE IF -w > 0 THEN Cost(-w) ELSE 0
        BY <2>2, <4>1, DtzBeforeZeroing
      <4>3. Cost(w) = Cost(-w) /\ Cost(w) \in Int
        <5>1. w = -2 \/ w = -1 \/ w = 0 \/ w = 1 \/ w = 2
          BY <2>2
        <5> QED BY <5>1, CostFacts, PliesFacts
      <4> QED BY <2>2, <4>2, <4>3
    <3> HIDE DEF r
    <3>5. r.value = MoveDtz(p, m) /\ MoveDtz(p, m) \in Int
      BY <2>4, <3>3, <3>4, MoveDtzFacts DEF w
    <3>6. Tells(p, r.value, MoveDtz(p, m))
      BY <3>5, ExactTells
    <3> QED BY <3>3, <3>6 DEF FAIL, OK, r
  <2>6. CASE ~z.known
    <3>1. AfterZeroing(z) = [value |-> 0, state |-> FAIL]
      BY <2>6, Zenon DEF AfterZeroing
    <3>2. r.state = FAIL
      <4>1. AfterZeroing(z).state = FAIL
        BY <3>1
      <4> QED BY <2>3, <4>1 DEF ZeroingDtz
    <3>3. ~Complete
      BY <2>1, <2>6 DEF Complete
    <3> QED BY <3>2, <3>3
  <2> QED BY <2>5, <2>6
<1>2. CASE ~IsZeroing(m)
  <2> DEFINE q == m.to
             a == probe_dtz(q)
  <2>1. q \in Quiet(p) /\ q \in Positions
    BY <1>2, RootMoveFacts, GameFacts DEF Told
  <2>2. r = QuietDtz(q, a)
    BY <1>2, Zenon DEF RootDtz
  <2>3. /\ a.state # FAIL => Tells(q, a.value, truth[q])
        /\ Complete => a.state # FAIL
    BY <2>1, ProbeDtzTells
  <2>4. MoveDtz(p, m) = QuietAfter(truth, q)
    BY <1>2, Zenon DEF MoveDtz
  <2> HIDE DEF a, q
  <2>5. /\ r.state = a.state
        /\ r.value = IF Mated(q) /\ OnePlyMore(-a.value) = 2 THEN 1 ELSE OnePlyMore(-a.value)
    <3>1. r = [value |-> IF Mated(q) /\ OnePlyMore(-a.value) = 2 THEN 1 ELSE OnePlyMore(-a.value),
               state |-> a.state]
      BY <2>2, Zenon DEF QuietDtz
    <3> HIDE DEF r
    <3> QED BY <3>1
  <2>6. ASSUME r.state # FAIL PROVE Tells(p, r.value, MoveDtz(p, m))
    <3> DEFINE e == a.value
    <3>1. Tells(q, e, truth[q])
      BY <2>3, <2>5, <2>6
    <3>2. r.value = IF Mated(q) /\ OnePlyMore(-e) = 2 THEN 1 ELSE OnePlyMore(-e)
      BY <2>5
    <3> HIDE DEF e, r
    <3>3. /\ Tells(p, IF Mated(q) THEN 1 ELSE OnePlyMore(-e), QuietAfter(truth, q))
          /\ Mated(q) => OnePlyMore(-e) = 2
      BY <2>1, <3>1, OnePlyOn
    <3>4. r.value = IF Mated(q) THEN 1 ELSE OnePlyMore(-e)
      BY <3>2, <3>3
    <3> QED BY <2>4, <3>3, <3>4
  <2>7. Complete => r.state # FAIL
    BY <2>3, <2>5
  <2> HIDE DEF r
  <2> QED BY <2>6, <2>7 DEF r
<1> QED BY <1>1, <1>2

LEMMA BestIsTop ==
  ASSUME NEW rank, NEW m \in Best(rank), Bounded({-1000} \cup Range(rank))
  PROVE  m \in DOMAIN rank /\ \A x \in DOMAIN rank : rank[x] <= rank[m]
<1> DEFINE S == {-1000} \cup Range(rank)
           top == Max(S)
<1>1. m \in DOMAIN rank /\ rank[m] = top
  BY DEF Best
<1>2. \A x \in DOMAIN rank : rank[x] \in S
  BY DEF Range
<1>3. Bounded(S)
  OBVIOUS
<1> HIDE DEF S
<1>4. \A y \in S : y <= top
  BY <1>3, MaxOfBounded
<1> HIDE DEF top
<1> QED BY <1>1, <1>2, <1>4

LEMMA BestFacts ==
  ASSUME NEW a \in Int, NEW b \in Int, a <= -1000, -1000 <= b,
         NEW M, NEW rank \in [M -> a .. b], NEW m \in Best(rank)
  PROVE  m \in M /\ \A x \in M : rank[x] <= rank[m]
<1> DEFINE S == {-1000} \cup Range(rank)
<1>1. (\A y \in S : y \in a .. b) /\ S # {}
  BY DEF Range
<1>2. Bounded(S)
  <2> HIDE DEF S
  <2> QED BY <1>1, BoundedBy
<1>3. DOMAIN rank = M
  OBVIOUS
<1> QED BY <1>2, <1>3, BestIsTop

-----------------------------------------------------------------------------
(* root_probe_wdl *)

(* The class after a move, for the side that moves next. *)
ClassAfter(p, m) == IF IsZeroing(m) THEN Zeroing(p)[m.zero].wdl ELSE WdlOf(truth[m.to])

LEMMA RootWdlTells ==
  ASSUME Told, NEW p \in Positions, NEW m \in RootMoves(p), RootWdl(p, m).state # FAIL
  PROVE  RootWdl(p, m).value = ClassAfter(p, m)
<1>1. CASE IsZeroing(m)
  <2> DEFINE z == Zeroing(p)[m.zero]
  <2>1. RootWdl(p, m) = AfterZeroing(z)
    BY <1>1, Zenon DEF RootWdl
  <2>2. CASE z.known
    <3>1. AfterZeroing(z) = [value |-> z.wdl, state |-> OK]
      BY <2>2, Zenon DEF AfterZeroing
    <3>2. AfterZeroing(z).value = z.wdl
      BY <3>1
    <3> QED BY <1>1, <2>1, <3>2 DEF ClassAfter
  <2>3. CASE ~z.known
    <3>1. AfterZeroing(z) = [value |-> 0, state |-> FAIL]
      BY <2>3, Zenon DEF AfterZeroing
    <3>2. AfterZeroing(z).state = FAIL
      BY <3>1
    <3> QED BY <2>1, <3>2
  <2> QED BY <2>2, <2>3
<1>2. CASE ~IsZeroing(m)
  <2>1. m.to \in Positions
    BY <1>2, RootMoveFacts, GameFacts DEF Told
  <2>2. RootWdl(p, m) = probe_wdl(m.to)
    BY <1>2, Zenon DEF RootWdl
  <2> QED BY <1>2, <2>1, <2>2, ProbeWdlTells DEF ClassAfter
<1> QED BY <1>1, <1>2

(* It has the sign of the move's plies, from the other side. *)
LEMMA ClassAfterFacts ==
  ASSUME Told, NEW p \in Positions, NEW m \in RootMoves(p)
  PROVE  /\ ClassAfter(p, m) \in -2 .. 2
         /\ ClassAfter(p, m) < 0 <=> MoveDtz(p, m) > 0
         /\ ClassAfter(p, m) > 0 <=> MoveDtz(p, m) < 0
<1> DEFINE c == ClassAfter(p, m)
           x == MoveDtz(p, m)
<1>1. CASE IsZeroing(m)
  <2>1. c = Zeroing(p)[m.zero].wdl
    BY <1>1 DEF ClassAfter
  <2>2. /\ x \in Int /\ c \in -2 .. 2
        /\ c = -2 => x = 1
        /\ c = -1 => x = Rule50 + 1
        /\ c = 0 => x = 0
        /\ c = 1 => x = -(Rule50 + 1)
        /\ c = 2 => x = -1
    BY <1>1, <2>1, MoveDtzFacts
  <2> HIDE DEF c, x
  <2>3. c = -2 \/ c = -1 \/ c = 0 \/ c = 1 \/ c = 2
    BY <2>2
  <2> QED BY <2>2, <2>3, PliesFacts DEF c, x
<1>2. CASE ~IsZeroing(m)
  <2> DEFINE q == m.to
  <2>1. c = WdlOf(truth[q])
    BY <1>2 DEF ClassAfter
  <2>2. /\ truth[q] \in Int /\ x \in Int
        /\ Mated(q) => x = 1 /\ truth[q] = -1
        /\ ~Mated(q) =>
             /\ x > 0 => truth[q] = 1 - x /\ truth[q] < 0
             /\ x < 0 => truth[q] = -x - 1 /\ truth[q] > 0
             /\ x = 0 => truth[q] = 0
    BY <1>2, MoveDtzFacts
  <2> HIDE DEF x, q
  <2>3. /\ truth[q] < 0 <=> x > 0
        /\ truth[q] > 0 <=> x < 0
    BY <2>2
  <2>4. /\ c \in -2 .. 2
        /\ c < 0 <=> truth[q] < 0
        /\ c > 0 <=> truth[q] > 0
    <3> HIDE DEF c
    <3> QED BY <2>1, <2>2, WdlOfFacts, PliesFacts
  <2> QED BY <2>3, <2>4 DEF x, q
<1> QED BY <1>1, <1>2

RankOfClass(c) == WDL_to_rank[3 - c]

LEMMA RankOfClassFacts ==
  ASSUME NEW c \in -2 .. 2
  PROVE  /\ RankOfClass(c) \in -1000 .. 1000
         /\ RankOfClass(c) > 0 <=> c < 0
         /\ RankOfClass(c) < 0 <=> c > 0
<1>1. c = -2 \/ c = -1 \/ c = 0 \/ c = 1 \/ c = 2
  OBVIOUS
<1>2. CASE c = -2
  BY <1>2 DEF RankOfClass, WDL_to_rank
<1>3. CASE c = -1
  BY <1>3 DEF RankOfClass, WDL_to_rank
<1>4. CASE c = 0
  BY <1>4 DEF RankOfClass, WDL_to_rank
<1>5. CASE c = 1
  BY <1>5 DEF RankOfClass, WDL_to_rank
<1>6. CASE c = 2
  BY <1>6 DEF RankOfClass, WDL_to_rank
<1> QED BY <1>1, <1>2, <1>3, <1>4, <1>5, <1>6

LEMMA RootProbeWdlTells ==
  ASSUME Told, NEW p \in Positions, ~RootProbeWdlFails(p), NEW m \in root_probe_wdl(p)
  PROVE  Sign(truth[p]) = -Sign(IF IsZeroing(m) THEN Zeroing(p)[m.zero].wdl ELSE truth[m.to])
<1> DEFINE rank == [x \in RootMoves(p) |-> WDL_to_rank[3 - RootWdl(p, x).value]]
           t == truth[p]
<1>1. ASSUME NEW x \in RootMoves(p)
      PROVE  /\ rank[x] = RankOfClass(ClassAfter(p, x))
             /\ ClassAfter(p, x) \in -2 .. 2
             /\ rank[x] \in -1000 .. 1000 /\ rank[x] \in Int
             /\ rank[x] > 0 <=> MoveDtz(p, x) > 0
             /\ rank[x] < 0 <=> MoveDtz(p, x) < 0
  <2>1. RootWdl(p, x).value = ClassAfter(p, x)
    BY RootWdlTells DEF RootProbeWdlFails
  <2>2. rank[x] = RankOfClass(ClassAfter(p, x))
    BY <2>1 DEF RankOfClass
  <2> DEFINE r == rank[x]
             c == ClassAfter(p, x)
             d == MoveDtz(p, x)
  <2>3. c \in -2 .. 2 /\ (c < 0 <=> d > 0) /\ (c > 0 <=> d < 0)
    BY ClassAfterFacts
  <2>4. r = RankOfClass(c)
    BY <2>2
  <2> HIDE DEF r, c, d, rank
  <2>5. r \in -1000 .. 1000 /\ (r > 0 <=> c < 0) /\ (r < 0 <=> c > 0)
    BY <2>3, <2>4, RankOfClassFacts
  <2> QED BY <2>2, <2>3, <2>5 DEF r, c, d
<1>2. m \in Best(rank)
  BY Zenon DEF root_probe_wdl
<1>3. rank \in [RootMoves(p) -> -1000 .. 1000]
  <2>1. rank = [x \in RootMoves(p) |-> rank[x]]
    OBVIOUS
  <2> HIDE DEF rank
  <2> QED BY <1>1, <2>1
<1> HIDE DEF rank
<1>4. m \in RootMoves(p) /\ \A x \in RootMoves(p) : rank[x] <= rank[m]
  <2> DEFINE a == -1000
             b == 1000
             M == RootMoves(p)
  <2>1. a \in Int /\ b \in Int /\ a <= -1000 /\ -1000 <= b
    OBVIOUS
  <2>2. rank \in [M -> a .. b]
    BY <1>3
  <2> HIDE DEF a, b, M
  <2>3. m \in M /\ \A x \in M : rank[x] <= rank[m]
    BY <1>2, <2>1, <2>2, BestFacts
  <2> QED BY <2>3 DEF M
<1>5. PICK x \in RootMoves(p) : MoveDtz(p, x) = t
  BY <1>4, BestMoves
<1> DEFINE d == MoveDtz(p, m)
<1>6. /\ t \in Int /\ d \in Int
      /\ d > 0 => t > 0
      /\ t < 0 => d < 0
  BY <1>4, BestMoves, MoveDtzFacts
<1> DEFINE rx == rank[x]
           rm == rank[m]
<1>11. rx \in Int /\ rm \in Int /\ rx <= rm
  BY <1>1, <1>4
<1>12. (rx > 0 <=> t > 0) /\ (rx < 0 <=> t < 0)
  BY <1>1, <1>5
<1>13. (rm > 0 <=> d > 0) /\ (rm < 0 <=> d < 0)
  BY <1>1, <1>4
<1>7. t > 0 => d > 0
  <2> HIDE DEF t, d, rx, rm
  <2> QED BY <1>6, <1>11, <1>12, <1>13
<1>8. t = 0 => d = 0
  <2> HIDE DEF t, d, rx, rm
  <2> QED BY <1>6, <1>11, <1>12, <1>13
<1> DEFINE v == IF IsZeroing(m) THEN Zeroing(p)[m.zero].wdl ELSE truth[m.to]
<1>9. v \in Int /\ (v < 0 <=> d > 0) /\ (v > 0 <=> d < 0)
  <2>1. CASE IsZeroing(m)
    <3>1. v = ClassAfter(p, m)
      BY <2>1 DEF ClassAfter
    <3> QED BY <1>4, <3>1, ClassAfterFacts
  <2>2. CASE ~IsZeroing(m)
    <3>1. v = truth[m.to]
      BY <2>2
    <3>2. /\ v \in Int
          /\ Mated(m.to) => d = 1 /\ v = -1
          /\ ~Mated(m.to) =>
               /\ d > 0 => v < 0
               /\ d < 0 => v > 0
               /\ d = 0 => v = 0
      BY <1>4, <2>2, <3>1, MoveDtzFacts
    <3> HIDE DEF v, d
    <3> QED BY <1>6, <3>2
  <2> QED BY <2>1, <2>2
<1> HIDE DEF v, d, t
<1>10. Sign(t) = -Sign(v)
  <2>1. t < 0 \/ t = 0 \/ t > 0
    BY <1>6
  <2> QED BY <1>6, <1>7, <1>8, <1>9, <2>1 DEF Sign
<1> QED BY <1>10, Zenon DEF t, v

(* What is told is what TellsDtz allows. *)
LEMMA TellsIsEnough ==
  ASSUME Told, NEW p \in Positions, NEW e, Tells(p, e, truth[p])
  PROVE  TellsDtz(p, e)
<1> DEFINE t == truth[p]
<1>1. t \in Int /\ e \in Int
  BY DEF Told, Sound, Tells, NearTo
<1>2. NearTo(e, t)
  BY DEF Tells
<1>3. CountsPlies(p) => e = t
  BY CountsFacts DEF Tells
<1> HIDE DEF t
<1>4. WdlOf(e) = WdlOf(t)
  <2>1. /\ WdlOf(e) \in -2 .. 2 /\ WdlOf(t) \in -2 .. 2
        /\ WdlOf(e) = 2 <=> WdlOf(t) = 2
        /\ WdlOf(e) = 1 <=> WdlOf(t) = 1
        /\ WdlOf(e) = 0 <=> WdlOf(t) = 0
        /\ WdlOf(e) = -1 <=> WdlOf(t) = -1
        /\ WdlOf(e) = -2 <=> WdlOf(t) = -2
    BY <1>1, <1>2, WdlOfFacts, PliesFacts DEF NearTo
  <2> QED BY <2>1
<1>5. Abs(t) - Abs(e) \in {0, 1}
  BY <1>1, <1>2 DEF NearTo, Abs
<1> QED BY <1>3, <1>4, <1>5 DEF TellsDtz, t

LEMMA ProbesTell == ASSUME Told, at \in Positions PROVE ProbesTellTheTruth
<1>1. /\ probe_wdl(at).state # FAIL => probe_wdl(at).value = WdlOf(truth[at])
      /\ AllKnown(at) => probe_wdl(at).state # FAIL
  BY ProbeWdlTells
<1>2. /\ probe_dtz(at).state # FAIL => TellsDtz(at, probe_dtz(at).value)
      /\ Complete => probe_dtz(at).state # FAIL
  <2>1. /\ probe_dtz(at).state # FAIL => Tells(at, probe_dtz(at).value, truth[at])
        /\ Complete => probe_dtz(at).state # FAIL
    BY ProbeDtzTells
  <2> DEFINE e == probe_dtz(at).value
  <2> HIDE DEF e
  <2>2. Tells(at, e, truth[at]) => TellsDtz(at, e)
    BY TellsIsEnough
  <2> QED BY <2>1, <2>2 DEF e
<1>3. Complete => AllKnown(at)
  BY DEF Complete, AllKnown
<1>4. ~RootProbeWdlFails(at) =>
       \A m \in root_probe_wdl(at) :
         Sign(truth[at]) = -Sign(IF IsZeroing(m) THEN Zeroing(at)[m.zero].wdl ELSE truth[m.to])
  BY RootProbeWdlTells
<1> QED BY <1>1, <1>2, <1>3, <1>4, Zenon DEF ProbesTellTheTruth

-----------------------------------------------------------------------------
(* root_probe: what the best ranks mean for the plies of a move. *)

Ranked == \A p \in Positions : Abs(truth[p]) + Rule50 < 1000

(* A rank for the plies d; whether a position was repeated does not matter.*)
IsRank(r, d) ==
  /\ r \in Int /\ r >= -1000 /\ r <= 1000
  /\ d > 0 => \/ r = 1000 /\ d + cnt50 <= Rule50 - 1
              \/ r = 1000 - (d + cnt50) /\ r > 0
  /\ d < 0 => \/ r = -1000 /\ -d * 2 + cnt50 < Rule50
              \/ r = -1000 + (-d + cnt50) /\ r < 0 /\ ~(-d * 2 + cnt50 < Rule50)
  /\ d = 0 => r = 0

LEMMA IsRankBounds ==
  ASSUME NEW r, NEW d, IsRank(r, d)
  PROVE  r \in -1000 .. 1000
<1>1. r \in Int /\ r >= -1000 /\ r <= 1000
  BY DEF IsRank
<1> QED BY <1>1

(* The three cases of a rank. *)
LEMMA RankOfWin ==
  ASSUME NEW d, NEW n, NEW rep \in BOOLEAN, d > 0
  PROVE  \/ MoveRank(d, n, rep) = 1000 /\ d + n <= Rule50 - 1
         \/ MoveRank(d, n, rep) = 1000 - (d + n)
BY SMT DEF MoveRank

LEMMA RankOfLoss ==
  ASSUME NEW d, NEW n, NEW rep \in BOOLEAN, d < 0, ~(d > 0)
  PROVE  \/ MoveRank(d, n, rep) = -1000 /\ -d * 2 + n < Rule50
         \/ MoveRank(d, n, rep) = -1000 + (-d + n) /\ ~(-d * 2 + n < Rule50)
BY SMT DEF MoveRank

LEMMA RankOfDraw ==
  ASSUME NEW n, NEW rep
  PROVE  MoveRank(0, n, rep) = 0
BY SMT DEF MoveRank

LEMMA RankFacts ==
  ASSUME NEW d \in Int, cnt50 \in Nat, Abs(d) + cnt50 < 1000
  PROVE  IsRank(MoveRank(d, Counter(cnt50), HasRepeated), d)
<1> DEFINE r == MoveRank(d, cnt50, HasRepeated)
<1> SUFFICES IsRank(r, d)
  BY DEF Counter
<1>1. HasRepeated \in BOOLEAN
  BY DEF HasRepeated
<1>2. CASE d > 0
  <2>1. \/ r = 1000 /\ d + cnt50 <= Rule50 - 1
        \/ r = 1000 - (d + cnt50)
    BY <1>1, <1>2, RankOfWin
  <2>2. d + cnt50 < 1000
    BY <1>2 DEF Abs
  <2> HIDE DEF r
  <2> QED BY <1>2, <2>1, <2>2, PliesFacts DEF IsRank
<1>3. CASE d < 0
  <2>1. ~(d > 0)
    BY <1>3
  <2>2. \/ r = -1000 /\ -d * 2 + cnt50 < Rule50
        \/ r = -1000 + (-d + cnt50) /\ ~(-d * 2 + cnt50 < Rule50)
    BY <1>1, <1>3, <2>1, RankOfLoss
  <2>3. -d + cnt50 < 1000
    BY <1>3 DEF Abs
  <2> HIDE DEF r
  <2> QED BY <1>3, <2>2, <2>3, PliesFacts DEF IsRank
<1>4. CASE d = 0
  <2>1. r = 0
    BY <1>4, RankOfDraw
  <2> HIDE DEF r
  <2> QED BY <1>4, <2>1, PliesFacts DEF IsRank
<1> QED BY <1>2, <1>3, <1>4

LEMMA MovesAreRanked ==
  ASSUME Told, Ranked, NEW p \in Positions, NEW m \in RootMoves(p), cnt50 \in 0 .. Rule50 - 1
  PROVE  Abs(MoveDtz(p, m)) + cnt50 < 1000
<1> DEFINE d == MoveDtz(p, m)
<1>1. d \in Int
  BY MoveDtzFacts
<1>2. CASE IsZeroing(m)
  <2> DEFINE w == Zeroing(p)[m.zero].wdl
  <2>1. /\ w \in -2 .. 2
        /\ w = -2 => d = 1
        /\ w = -1 => d = Rule50 + 1
        /\ w = 0 => d = 0
        /\ w = 1 => d = -(Rule50 + 1)
        /\ w = 2 => d = -1
    BY <1>2, MoveDtzFacts
  <2> HIDE DEF w, d
  <2>2. w = -2 \/ w = -1 \/ w = 0 \/ w = 1 \/ w = 2
    BY <2>1
  <2>3. d \in -(Rule50 + 1) .. Rule50 + 1
    BY <2>1, <2>2, PliesFacts
  <2>4. Abs(d) <= Rule50 + 1 /\ Abs(d) \in Int
    BY <2>3, PliesFacts DEF Abs
  <2> QED BY <2>4, PliesFacts DEF d
<1>3. CASE ~IsZeroing(m)
  <2> DEFINE t == truth[m.to]
  <2>1. /\ t \in Int
        /\ Mated(m.to) => d = 1
        /\ ~Mated(m.to) =>
             /\ d > 0 => t = 1 - d
             /\ d < 0 => t = -d - 1
             /\ d = 0 => t = 0
    BY <1>3, MoveDtzFacts
  <2>2. Abs(t) + Rule50 < 1000
    BY <1>3, MoveDtzFacts DEF Ranked
  <2> HIDE DEF t, d
  <2>3. Abs(d) <= Abs(t) + 1 /\ Abs(d) \in Int /\ Abs(t) \in Int
    BY <1>1, <2>1 DEF Abs
  <2> QED BY <2>2, <2>3, PliesFacts DEF d
<1> QED BY <1>2, <1>3

LEMMA ToldMovesAreRanked ==
  ASSUME Told, Ranked, NEW p \in Positions, NEW m \in RootMoves(p), cnt50 \in 0 .. Rule50 - 1,
         NEW e, Tells(p, e, MoveDtz(p, m))
  PROVE  Abs(e) + cnt50 < 1000
<1> DEFINE d == MoveDtz(p, m)
<1>1. Abs(d) + cnt50 < 1000 /\ d \in Int
  BY MovesAreRanked, MoveDtzFacts
<1>2. NearTo(e, d)
  BY DEF Tells
<1> HIDE DEF d
<1>3. Abs(e) <= Abs(d) /\ Abs(e) \in Int /\ Abs(d) \in Int
  BY <1>1, <1>2 DEF NearTo, Abs
<1> QED BY <1>1, <1>3, PliesFacts

(* Whether a side of p never loses a ply by what it is told of its wins    *)
(* (s = 1) or of its losses (s = -1).                                      *)
Exact(p, s) == Side(p) = game.stored \/ Counts(p, s)
Brink(p) == IF Exact(p, 1) THEN Rule50 ELSE Rule50 - 1
Saved(p, n) == n > Rule50 /\ (Exact(p, -1) \/ n > Rule50 + 1)

(* An even number of plies has been played when a side is to move again.   *)
LEMMA SafeMoves ==
  ASSUME Told, Ranked, Complete, NEW p \in Positions, cnt50 \in 0 .. Rule50 - 1, cnt50 % 2 = 0,
         NEW m \in root_probe(p, HasRepeated)
  PROVE  /\ m \in RootMoves(p)
         /\ truth[p] > 0 /\ truth[p] + cnt50 <= Brink(p) =>
              MoveDtz(p, m) > 0 /\ MoveDtz(p, m) + cnt50 <= Brink(p)
         /\ truth[p] >= 0 => MoveDtz(p, m) >= 0
         /\ truth[p] < 0 /\ (Saved(p, -truth[p] + cnt50) \/ (cnt50 = 0 /\ -truth[p] > Rule50)) =>
              /\ MoveDtz(p, m) < 0 /\ -MoveDtz(p, m) + cnt50 > Rule50
              /\ ~IsZeroing(m) => Saved(p, -MoveDtz(p, m) + cnt50)
<1> DEFINE rank == [x \in RootMoves(p) |->
                      MoveRank(RootDtz(p, x).value, Counter(cnt50), HasRepeated)]
           t == truth[p]
           d == MoveDtz(p, m)
<1>1. ASSUME NEW x \in RootMoves(p)
      PROVE  IsRank(rank[x], RootDtz(p, x).value) /\ Tells(p, RootDtz(p, x).value, MoveDtz(p, x))
  <2> DEFINE e == RootDtz(p, x).value
  <2>1. Tells(p, e, MoveDtz(p, x))
    BY RootDtzTells
  <2>2. rank[x] = MoveRank(e, Counter(cnt50), HasRepeated)
    OBVIOUS
  <2>3. cnt50 \in Nat
    BY PliesFacts
  <2> HIDE DEF rank, e
  <2>4. Abs(e) + cnt50 < 1000 /\ e \in Int
    BY <2>1, ToldMovesAreRanked DEF Tells, NearTo
  <2>5. IsRank(rank[x], e)
    BY <2>2, <2>3, <2>4, RankFacts
  <2> QED BY <2>1, <2>5 DEF e
<1>2. m \in Best(rank)
  BY Zenon DEF root_probe
<1>3. rank \in [RootMoves(p) -> -1000 .. 1000]
  <2>1. rank = [x \in RootMoves(p) |-> rank[x]]
    OBVIOUS
  <2> HIDE DEF rank
  <2>2. \A x \in RootMoves(p) : rank[x] \in -1000 .. 1000
    <3>1. ASSUME NEW x \in RootMoves(p) PROVE rank[x] \in -1000 .. 1000
      <4> DEFINE r == rank[x]
      <4>1. IsRank(r, RootDtz(p, x).value)
        BY <1>1
      <4> HIDE DEF r
      <4>2. r \in -1000 .. 1000
        BY <4>1, IsRankBounds
      <4> QED BY <4>2 DEF r
    <3> QED BY <3>1
  <2> QED BY <2>1, <2>2
<1> HIDE DEF rank
<1>4. m \in RootMoves(p) /\ \A x \in RootMoves(p) : rank[x] <= rank[m]
  <2> DEFINE a == -1000
             b == 1000
             M == RootMoves(p)
  <2>1. a \in Int /\ b \in Int /\ a <= -1000 /\ -1000 <= b
    OBVIOUS
  <2>2. rank \in [M -> a .. b]
    BY <1>3
  <2> HIDE DEF a, b, M
  <2>3. m \in M /\ \A x \in M : rank[x] <= rank[m]
    BY <1>2, <2>1, <2>2, BestFacts
  <2> QED BY <2>3 DEF M
<1>5. PICK x \in RootMoves(p) : MoveDtz(p, x) = t
  BY <1>4, BestMoves
<1> DEFINE r == rank[m]
           s == rank[x]
           e == RootDtz(p, m).value
           f == RootDtz(p, x).value
           E1 == Exact(p, 1)
           E2 == Exact(p, -1)
<1>6. IsRank(r, e) /\ IsRank(s, f) /\ s <= r /\ Tells(p, e, d) /\ Tells(p, f, t)
  BY <1>1, <1>4, <1>5
<1>7. /\ t \in Int /\ d \in Int
      /\ d > 0 => t > 0 /\ t <= d
      /\ t < 0 => d < 0 /\ t <= d
  BY <1>4, BestMoves, MoveDtzFacts
<1>8. m \in RootMoves(p)
  BY <1>4
<1>9. NearTo(e, d) /\ NearTo(f, t)
  BY <1>6 DEF Tells
<1>10. /\ d > 0 /\ d <= Rule50 /\ E1 => e = d \/ (Parity(p) = 1 /\ d % 2 = 0)
       /\ d > 0 /\ ~E1 => e = d \/ d % 2 = 1
       /\ t < 0 /\ -t <= Rule50 /\ E2 => f = t \/ t % 2 = 0
       /\ t < 0 /\ ~E2 => f = t \/ t % 2 = 1
  <2>1. /\ d % 2 = Parity(p) => e = d
        /\ t % 2 = Parity(p) => f = t
        /\ Counts(p, d) /\ d \in -Rule50 .. Rule50 => e = d
        /\ Counts(p, t) /\ t \in -Rule50 .. Rule50 => f = t
    BY <1>6 DEF Tells
  <2>2. d % 2 \in {0, 1} /\ t % 2 \in {0, 1}
    BY <1>7
  <2>3. /\ Parity(p) = IF Side(p) = game.stored THEN 1 ELSE 0
        /\ E1 <=> Side(p) = game.stored \/ Counts(p, 1)
        /\ E2 <=> Side(p) = game.stored \/ Counts(p, -1)
    BY DEF Parity, Exact
  <2> HIDE DEF e, f, d, t, E1, E2
  <2>4. /\ d > 0 => (Counts(p, d) <=> Counts(p, 1))
        /\ t < 0 => (Counts(p, t) <=> Counts(p, -1))
    BY <1>7 DEF Counts
  <2>5. /\ d > 0 /\ d <= Rule50 => d \in -Rule50 .. Rule50
        /\ t < 0 /\ -t <= Rule50 => t \in -Rule50 .. Rule50
    BY <1>7, PliesFacts
  <2> QED BY <2>1, <2>2, <2>3, <2>4, <2>5
(* A move to the edge of the rule: the tables count plies then. *)
<1>11. ~IsZeroing(m) /\ d = -(Rule50 + 1) => E2
  <2> SUFFICES ASSUME ~IsZeroing(m), d = -(Rule50 + 1) PROVE Exact(p, -1)
    OBVIOUS
  <2>1. m.to \in Positions /\ Side(m.to) # Side(p) /\ (Mated(m.to) => d = 1)
        /\ (~Mated(m.to) => (d < 0 => truth[m.to] = -d - 1))
    BY <1>8, MoveDtzFacts
  <2> HIDE DEF d
  <2>2. truth[m.to] = Rule50
    BY <2>1, PliesFacts
  <2>3. Counts(m.to, Rule50)
    BY <2>1, <2>2, CountsFacts
  <2>4. game.stored \in {"white", "black"}
    BY ProbeAssumption DEF Told, IsGame
  <2>5. Side(m.to) \in {"white", "black"} /\ Side(p) \in {"white", "black"}
    BY DEF Side
  <2>6. Side(p) = game.stored <=> Side(m.to) # game.stored
    BY <2>1, <2>4, <2>5
  <2> QED BY <2>3, <2>6, PliesFacts DEF Exact, Counts
<1>12. Brink(p) = IF E1 THEN Rule50 ELSE Rule50 - 1
  BY DEF Brink
<1>13. \A n : Saved(p, n) <=> n > Rule50 /\ (E2 \/ n > Rule50 + 1)
  BY DEF Saved
<1>14. /\ cnt50 \in Nat /\ cnt50 % 2 = 0 /\ cnt50 <= Rule50 - 1
       /\ Rule50 \in Nat /\ Rule50 % 2 = 0 /\ Rule50 >= 1 /\ Rule50 < 500
  BY PliesFacts, RuleIsEven
<1>15. e \in Int /\ f \in Int /\ r \in Int /\ s \in Int
  BY <1>6, <1>9 DEF IsRank, NearTo
<1> HIDE DEF r, s, t, d, e, f, E1, E2
<1>16. ASSUME t > 0, t + cnt50 <= Brink(p) PROVE d > 0 /\ d + cnt50 <= Brink(p)
  <2>1. f > 0 /\ f <= t
    BY <1>7, <1>9, <1>15, <1>16 DEF NearTo
  <2>2. Brink(p) <= Rule50 /\ Brink(p) \in Int
    BY <1>12, <1>14
  <2>3. s > 0 /\ r > 0
    BY <1>6, <1>7, <1>14, <1>15, <1>16, <2>1, <2>2 DEF IsRank
  <2>4. e > 0 /\ d > 0
    BY <1>6, <1>7, <1>9, <1>15, <2>3 DEF IsRank, NearTo
  <2>5. e = d \/ e = d - 1
    BY <1>9, <2>4 DEF NearTo
  <2>6. e + cnt50 <= Brink(p) \/ e + cnt50 <= Rule50 - 1
    <3>1. CASE r = 1000 /\ e + cnt50 <= Rule50 - 1
      BY <3>1
    <3>2. CASE r = 1000 - (e + cnt50)
      <4>1. CASE s = 1000
        BY <1>6, <1>14, <1>15, <2>4, <3>2, <4>1
      <4>2. CASE s = 1000 - (f + cnt50)
        BY <1>6, <1>7, <1>14, <1>15, <1>16, <2>1, <2>2, <3>2, <4>2
      <4> QED BY <1>6, <2>1, <4>1, <4>2 DEF IsRank
    <3> QED BY <1>6, <2>4, <3>1, <3>2 DEF IsRank
  <2>7. CASE E1
    <3>1. e + cnt50 <= Rule50
      BY <1>12, <1>14, <1>15, <2>6, <2>7
    <3>2. d <= Rule50
      BY <1>7, <1>9, <1>14, <1>15, <3>1 DEF NearTo
    <3>3. e = d \/ d % 2 = 0
      BY <1>10, <2>4, <2>7, <3>2
    <3>4. CASE e = d
      BY <1>12, <2>4, <2>7, <3>1, <3>4
    <3>5. CASE e = d - 1 /\ d % 2 = 0
      BY <1>7, <1>12, <1>14, <2>4, <2>7, <3>1, <3>5
    <3> QED BY <2>5, <3>3, <3>4, <3>5
  <2>8. CASE ~E1
    <3>1. e + cnt50 <= Rule50 - 1
      BY <1>12, <1>14, <1>15, <2>6, <2>8
    <3>2. e = d \/ d % 2 = 1
      BY <1>10, <2>4, <2>8
    <3>3. CASE e = d
      BY <1>12, <2>4, <2>8, <3>1, <3>3
    <3>4. CASE e = d - 1 /\ d % 2 = 1
      BY <1>7, <1>12, <1>14, <2>4, <2>8, <3>1, <3>4
    <3> QED BY <2>5, <3>2, <3>3, <3>4
  <2> QED BY <2>7, <2>8
<1>17. ASSUME t >= 0 PROVE d >= 0
  <2>1. f >= 0
    BY <1>7, <1>9, <1>15, <1>17 DEF NearTo
  <2>2. s >= 0
    BY <1>6, <1>15, <2>1 DEF IsRank
  <2>3. r >= 0
    BY <1>6, <1>15, <2>2
  <2>4. e >= 0
    BY <1>6, <1>15, <2>3 DEF IsRank
  <2> QED BY <1>7, <1>9, <1>15, <2>4 DEF NearTo
<1>18. ASSUME t < 0, (-t + cnt50 > Rule50 /\ (E2 \/ -t + cnt50 > Rule50 + 1))
                     \/ (cnt50 = 0 /\ -t > Rule50)
       PROVE  /\ d < 0 /\ -d + cnt50 > Rule50
              /\ ~IsZeroing(m) => E2 \/ -d + cnt50 > Rule50 + 1
  <2>1. d < 0 /\ t <= d
    BY <1>7, <1>18
  <2>2. f < 0 /\ (f = t \/ f = t + 1) /\ (-f > Rule50 <=> -t > Rule50)
    BY <1>9, <1>18 DEF NearTo
  <2>3. e < 0 /\ (e = d \/ e = d + 1) /\ (-e > Rule50 <=> -d > Rule50)
    BY <1>9, <2>1 DEF NearTo
  <2>4. -t + cnt50 > Rule50
    BY <1>7, <1>14, <1>18
  <2>5. ~(-f * 2 + cnt50 < Rule50)
    BY <1>7, <1>14, <1>15, <2>2, <2>4
  <2>6. s = -1000 + (-f + cnt50) /\ s > -1000
    BY <1>6, <1>14, <1>15, <2>2, <2>5 DEF IsRank
  <2>7. r = -1000 + (-e + cnt50)
    BY <1>6, <1>15, <2>3, <2>6 DEF IsRank
  <2>8. e <= f /\ d <= e
    BY <1>6, <1>7, <1>14, <1>15, <2>3, <2>6, <2>7
  <2>9. CASE E2 /\ -t <= Rule50
    <3>1. f = t \/ t % 2 = 0
      BY <1>10, <1>18, <2>9
    <3>2. CASE f = t
      BY <1>7, <1>14, <1>15, <2>1, <2>4, <2>8, <2>9, <3>2
    <3>3. CASE t % 2 = 0
      <4>1. -t + cnt50 > Rule50 + 1
        BY <1>7, <1>14, <2>4, <3>3
      <4> QED BY <1>7, <1>14, <1>15, <2>1, <2>2, <2>8, <2>9, <4>1
    <3> QED BY <3>1, <3>2, <3>3
  <2>10. CASE E2 /\ -t > Rule50
    <3>1. -f > Rule50
      BY <2>2, <2>10
    <3>2. -e > Rule50
      BY <1>14, <1>15, <2>8, <3>1
    <3> QED BY <1>7, <1>14, <2>1, <2>3, <2>10, <3>2
  <2>11. CASE ~E2 /\ -t + cnt50 > Rule50 + 1
    <3>1. f = t \/ t % 2 = 1
      BY <1>10, <1>18, <2>11
    <3>2. CASE f = t
      BY <1>7, <1>14, <1>15, <2>1, <2>8, <2>11, <3>2
    <3>3. CASE t % 2 = 1
      <4>1. -t + cnt50 > Rule50 + 2
        BY <1>7, <1>14, <2>11, <3>3
      <4> QED BY <1>7, <1>14, <1>15, <2>1, <2>2, <2>8, <4>1
    <3> QED BY <3>1, <3>2, <3>3
  <2>12. CASE ~E2 /\ cnt50 = 0 /\ -t = Rule50 + 1
    <3>1. -f > Rule50
      BY <1>14, <2>2, <2>12
    <3>2. -e > Rule50
      BY <1>14, <1>15, <2>8, <3>1
    <3>3. -d > Rule50
      BY <2>3, <3>2
    <3>4. d = -(Rule50 + 1)
      BY <1>7, <1>14, <2>1, <2>12, <3>3
    <3> QED BY <1>11, <1>14, <2>1, <2>12, <3>3, <3>4
  <2> QED BY <1>7, <1>14, <1>18, <2>9, <2>10, <2>11, <2>12
<1>19. t < 0 /\ (Saved(p, -t + cnt50) \/ (cnt50 = 0 /\ -t > Rule50)) =>
         /\ d < 0 /\ -d + cnt50 > Rule50
         /\ ~IsZeroing(m) => Saved(p, -d + cnt50)
  BY <1>13, <1>18
<1> QED BY <1>8, <1>16, <1>17, <1>19 DEF t, d

-----------------------------------------------------------------------------
(* Play.  What each class of the first position keeps, by who is to move:  *)
(* the plies left stay within the rule, with one to spare where the tables *)
(* may hide one, or beyond it, with one to spare likewise.                 *)

Class == WdlOf(truth[start])
Kept ==
  /\ Class = 2 =>
       /\ OurMove => truth[at] > 0 /\ truth[at] + cnt50 <= Brink(start)
       /\ ~OurMove => Mated(at) \/ (truth[at] < 0 /\ -truth[at] + cnt50 <= Brink(start))
  /\ Class = 0 \/ Class = 1 =>
       /\ OurMove => truth[at] >= 0
       /\ ~OurMove => truth[at] <= 0
  /\ Class = -1 =>
       /\ OurMove => \/ truth[at] >= 0
                     \/ ~Mated(at) /\ Saved(start, -truth[at] + cnt50)
                     \/ ~Mated(at) /\ cnt50 = 0 /\ -truth[at] > Rule50
       /\ ~OurMove => truth[at] <= 0 \/ Saved(start, truth[at] + cnt50)

PlayInv ==
  /\ Told /\ Ranked
  /\ start \in Positions /\ at \in Positions
  /\ cnt50 \in 0 .. Rule50 /\ (OurMove <=> cnt50 % 2 = 0)
  /\ result \in -2 .. 2 \cup {Running}
  /\ Complete /\ result = Running => Kept
  /\ SafeMovesKeepTheResult

LEMMA PlayInitHolds ==
  ASSUME ProbeInit, Ranked
  PROVE  PlayInv
<1>1. Told
  BY TruthOfGame DEF ProbeInit, Told
<1>2. start \in Positions /\ at = start /\ cnt50 = 0 /\ result = Running
  BY DEF ProbeInit
<1>3. OurMove
  BY <1>2 DEF OurMove
<1>4. truth[at] \in Int /\ (Mated(at) => truth[at] = -1)
  BY <1>1, <1>2 DEF Told, Sound
<1>5. truth[start] = Rule50 => Exact(start, 1)
  <2>1. truth[start] = Rule50 => Counts(start, Rule50)
    BY <1>1, <1>2, CountsFacts
  <2> QED BY <2>1, PliesFacts DEF Exact, Counts
<1>6. Kept
  <2> DEFINE t == truth[start]
  <2>1. /\ t \in Int /\ (Mated(at) => t = -1) /\ truth[at] = t
        /\ Class = 2 => t > 0 /\ t <= Rule50
        /\ Class = 0 \/ Class = 1 => t >= 0
        /\ Class = -1 => t < 0 /\ -t > Rule50
    BY <1>2, <1>4, WdlOfFacts, PliesFacts DEF Class
  <2> HIDE DEF t
  <2>2. Class = 2 => t <= Brink(start)
    BY <1>5, <2>1, PliesFacts DEF Brink, t
  <2>3. Class = 2 => Kept
    BY <1>2, <1>3, <2>1, <2>2 DEF Kept
  <2>4. Class = 0 \/ Class = 1 => Kept
    BY <1>2, <1>3, <2>1 DEF Kept
  <2>5. Class = -1 => Kept
    BY <1>2, <1>3, <2>1, PliesFacts DEF Kept
  <2>6. ~(Class = 2 \/ Class = 0 \/ Class = 1 \/ Class = -1) => Kept
    BY DEF Kept
  <2> QED BY <2>3, <2>4, <2>5, <2>6
<1>7. OurMove <=> cnt50 % 2 = 0
  BY <1>2, <1>3
<1> QED BY <1>1, <1>2, <1>6, <1>7, PliesFacts DEF PlayInv, SafeMovesKeepTheResult

(* The game does not change while it is played. *)
LEMMA GameStays ==
  ASSUME UNCHANGED <<game, truth>>
  PROVE  /\ Told => Told'
         /\ Ranked => Ranked'
         /\ Complete' <=> Complete
         /\ \A p : (Mated(p))' <=> Mated(p)
<1>1. game' = game /\ truth' = truth
  OBVIOUS
<1>2. Told => Told'
  <2>1. ASSUME NEW p PROVE (Sound(truth, p))' <=> Sound(truth, p)
    BY <1>1 DEF Sound, QuietAfter, ZeroAfter, Quiet, Zeroing, Mated, NoMoves
  <2>2. EdgeInPlies' <=> EdgeInPlies
    BY <1>1 DEF EdgeInPlies, CountsPlies, ClassOfStored, WdlOf, Sign, Abs
  <2> QED BY <1>1, <2>1, <2>2, Zenon DEF Told
<1>3. Ranked => Ranked'
  BY <1>1 DEF Ranked
<1>4. Complete' <=> Complete
  BY <1>1 DEF Complete, Zeroing
<1>5. \A p : (Mated(p))' <=> Mated(p)
  BY <1>1 DEF Mated, NoMoves, Quiet, Zeroing
<1> QED BY <1>2, <1>3, <1>4, <1>5

(* What a side is told depends on the side alone. *)
LEMMA SameSide ==
  ASSUME OurMove
  PROVE  Brink(at) = Brink(start) /\ \A n : Saved(at, n) <=> Saved(start, n)
BY DEF OurMove, Brink, Saved, Exact, Counts

LEMMA CandidateFacts ==
  ASSUME PlayInv, cnt50 < Rule50, NEW m \in Candidates
  PROVE  /\ m \in RootMoves(at)
         /\ OurMove /\ Complete =>
              /\ truth[at] > 0 /\ truth[at] + cnt50 <= Brink(start) =>
                   MoveDtz(at, m) > 0 /\ MoveDtz(at, m) + cnt50 <= Brink(start)
              /\ truth[at] >= 0 => MoveDtz(at, m) >= 0
              /\ truth[at] < 0 /\ (\/ Saved(start, -truth[at] + cnt50)
                                   \/ cnt50 = 0 /\ -truth[at] > Rule50) =>
                   /\ MoveDtz(at, m) < 0 /\ -MoveDtz(at, m) + cnt50 > Rule50
                   /\ ~IsZeroing(m) => Saved(start, -MoveDtz(at, m) + cnt50)
<1>1. cnt50 \in 0 .. Rule50 - 1 /\ at \in Positions /\ Told /\ Ranked
  BY PliesFacts DEF PlayInv
<1>2. CASE ~OurMove \/ RootProbeFails(at)
  <2>1. m \in RootMoves(at)
    BY <1>2, Zenon DEF Candidates
  <2>2. Complete => ~RootProbeFails(at)
    BY <1>1, RootDtzTells DEF RootProbeFails
  <2> QED BY <1>2, <2>1, <2>2
<1>3. CASE ~(~OurMove \/ RootProbeFails(at))
  <2>1. m \in root_probe(at, HasRepeated)
    BY <1>3, Zenon DEF Candidates
  <2>2. m \in RootMoves(at)
    <3> DEFINE rank == [x \in RootMoves(at) |->
                          MoveRank(RootDtz(at, x).value, Counter(cnt50), HasRepeated)]
    <3>1. m \in Best(rank)
      BY <2>1, Zenon DEF root_probe
    <3>2. DOMAIN rank = RootMoves(at)
      OBVIOUS
    <3> HIDE DEF rank
    <3> QED BY <3>1, <3>2 DEF Best
  <2>3. OurMove /\ cnt50 % 2 = 0
    BY <1>3 DEF PlayInv
  <2>4. Brink(at) = Brink(start) /\ \A n : Saved(at, n) <=> Saved(start, n)
    BY <2>3, SameSide
  <2> QED BY <1>1, <2>1, <2>2, <2>3, <2>4, SafeMoves
<1> QED BY <1>2, <1>3

LEMMA PlayQuietKeeps == ASSUME PlayInv, PlayQuiet PROVE PlayInv'
<1>1. PICK m \in Candidates :
        ~IsZeroing(m) /\ at' = m.to /\ seen' = seen \cup {m.to}
  BY DEF PlayQuiet
<1>2. /\ result = Running /\ cnt50 < Rule50 /\ cnt50' = cnt50 + 1
      /\ game' = game /\ truth' = truth /\ start' = start /\ result' = result
  BY DEF PlayQuiet
<1>3. /\ Told /\ Ranked /\ start \in Positions /\ at \in Positions /\ cnt50 \in 0 .. Rule50
      /\ result \in -2 .. 2 \cup {Running}
      /\ Complete => Kept
  BY <1>2 DEF PlayInv
<1>4. /\ Told' /\ Ranked' /\ (Complete' <=> Complete)
      /\ \A p : (Mated(p))' <=> Mated(p)
  BY <1>2, <1>3, GameStays
<1>5. m \in RootMoves(at)
  BY <1>1, <1>2, CandidateFacts
<1> DEFINE d == MoveDtz(at, m)
           t == truth[at]
           u == truth[m.to]
<1>6. /\ d \in Int /\ t \in Int /\ u \in Int
      /\ m.to \in Positions /\ Side(m.to) # Side(at)
      /\ Mated(m.to) => d = 1 /\ u = -1
      /\ ~Mated(m.to) =>
           /\ d > 0 => u = 1 - d /\ u < 0
           /\ d < 0 => u = -d - 1 /\ u > 0
           /\ d = 0 => u = 0
      /\ ~Mated(at)
      /\ d > 0 => t > 0 /\ t <= d
      /\ t < 0 => d < 0 /\ t <= d
  BY <1>1, <1>3, <1>5, MoveDtzFacts, BestMoves
<1>7. (OurMove)' <=> ~OurMove
  <2>1. Side(m.to) \in {"white", "black"} /\ Side(at) \in {"white", "black"}
        /\ Side(start) \in {"white", "black"}
    BY DEF Side
  <2>2. (OurMove)' <=> Side(m.to) = Side(start)
    BY <1>1, <1>2 DEF OurMove, Side
  <2> QED BY <1>6, <2>1, <2>2 DEF OurMove
<1>8. Class' = Class
  BY <1>2 DEF Class, WdlOf, Sign, Abs
<1>9. (Mated(at))' <=> Mated(m.to)
  <2>1. (Mated(at))' <=> (Mated(m.to))'
    BY <1>1, <1>2 DEF Mated, NoMoves, Quiet, Zeroing
  <2>2. (Mated(m.to))' <=> Mated(m.to)
    BY <1>2 DEF Mated, NoMoves, Quiet, Zeroing
  <2> QED BY <2>1, <2>2
<1>10. (truth[at])' = u
  BY <1>1, <1>2
<1>11. ASSUME Complete PROVE Kept'
  <2>1. Kept
    BY <1>3, <1>11
  <2> DEFINE B == Brink(start)
             S(n) == Saved(start, n)
  <2>2. OurMove =>
          /\ t > 0 /\ t + cnt50 <= B => d > 0 /\ d + cnt50 <= B
          /\ t >= 0 => d >= 0
          /\ t < 0 /\ (S(-t + cnt50) \/ (cnt50 = 0 /\ -t > Rule50)) => d < 0 /\ S(-d + cnt50)
    BY <1>1, <1>2, <1>11, CandidateFacts
  <2>9. /\ B \in Int /\ B <= Rule50 /\ B >= Rule50 - 1
        /\ \A n, k \in Int : S(n) /\ n <= k => S(k)
        /\ \A n \in Int : S(n) => n > Rule50
    BY PliesFacts DEF Brink, Saved
  <2>10. /\ (Saved(start, -truth[at] + cnt50))' <=> S(-u + cnt50')
         /\ (Saved(start, truth[at] + cnt50))' <=> S(u + cnt50')
         /\ (Brink(start))' = B
    BY <1>2, <1>10 DEF Saved, Brink, Exact, Counts, Side
  <2> HIDE DEF d, t, u
  <2>3. cnt50 \in Int /\ cnt50' = cnt50 + 1 /\ cnt50 < Rule50 /\ cnt50 >= 0
    BY <1>2, <1>3, PliesFacts
  <2>4. ASSUME Class = 2
        PROVE  /\ ~OurMove => u > 0 /\ u + cnt50' <= B
               /\ OurMove => Mated(m.to) \/ (u < 0 /\ -u + cnt50' <= B)
    <3>1. /\ OurMove => t > 0 /\ t + cnt50 <= B
          /\ ~OurMove => t < 0 /\ -t + cnt50 <= B
      BY <1>6, <2>1, <2>4 DEF Kept, t
    <3> HIDE DEF B, S
    <3> QED BY <1>6, <2>2, <2>3, <2>9, <3>1
  <2>5. ASSUME Class = 0 \/ Class = 1
        PROVE  /\ ~OurMove => u >= 0
               /\ OurMove => u <= 0
    <3>1. /\ OurMove => t >= 0
          /\ ~OurMove => t <= 0
      BY <2>1, <2>5 DEF Kept, t
    <3> HIDE DEF B, S
    <3> QED BY <1>6, <2>2, <3>1
  <2>6. ASSUME Class = -1
        PROVE  /\ ~OurMove => u >= 0 \/ (~Mated(m.to) /\ S(-u + cnt50'))
               /\ OurMove => u <= 0 \/ S(u + cnt50')
    <3>1. /\ OurMove => t >= 0 \/ S(-t + cnt50) \/ (cnt50 = 0 /\ -t > Rule50)
          /\ ~OurMove => t <= 0 \/ S(t + cnt50)
      BY <2>1, <2>6 DEF Kept, t
    <3>2. ASSUME OurMove PROVE u <= 0 \/ S(u + cnt50')
      <4> HIDE DEF B, S
      <4>1. CASE t >= 0
        BY <1>6, <2>2, <3>2, <4>1
      <4>2. CASE t < 0
        <5>1. d < 0 /\ S(-d + cnt50)
          BY <1>6, <2>2, <3>1, <3>2, <4>2
        <5>2. u = -d - 1 /\ ~Mated(m.to)
          BY <1>6, <5>1
        <5>3. u + cnt50' = -d + cnt50
          BY <1>6, <2>3, <5>2
        <5> QED BY <5>1, <5>3
      <4> QED BY <1>6, <4>1, <4>2
    <3>3. ASSUME ~OurMove PROVE u >= 0 \/ (~Mated(m.to) /\ S(-u + cnt50'))
      <4> HIDE DEF B, S
      <4>1. CASE t <= 0
        BY <1>6, <4>1
      <4>2. CASE t > 0
        <5>1. S(t + cnt50) /\ t + cnt50 > Rule50
          BY <1>6, <2>3, <2>9, <3>1, <3>3, <4>2
        <5>2. CASE d > 0
          <6>1. t <= d /\ ~Mated(m.to)
            BY <1>6, <2>3, <5>1, <5>2, PliesFacts
          <6>2. u = 1 - d
            BY <1>6, <5>2, <6>1
          <6>3. t + cnt50 <= -u + cnt50' /\ -u + cnt50' \in Int /\ t + cnt50 \in Int
            BY <1>6, <2>3, <6>1, <6>2
          <6> QED BY <2>9, <5>1, <6>1, <6>3
        <5>3. CASE d <= 0
          BY <1>6, <5>3
        <5> QED BY <1>6, <5>2, <5>3
      <4> QED BY <1>6, <4>1, <4>2
    <3> QED BY <3>2, <3>3
  <2> HIDE DEF B, S
  <2> QED BY <1>7, <1>8, <1>9, <1>10, <2>4, <2>5, <2>6, <2>10 DEF Kept
<1>12. SafeMovesKeepTheResult'
  BY <1>2 DEF SafeMovesKeepTheResult, Running
<1>13. /\ start' \in Positions /\ at' \in Positions /\ cnt50' \in 0 .. Rule50
       /\ result' \in -2 .. 2 \cup {Running}
       /\ (OurMove)' <=> (cnt50 % 2 = 0)'
  <2>1. start' \in Positions /\ at' \in Positions /\ cnt50' \in 0 .. Rule50
        /\ result' \in -2 .. 2 \cup {Running}
    BY <1>1, <1>2, <1>3, <1>6, PliesFacts
  <2>2. OurMove <=> cnt50 % 2 = 0
    BY DEF PlayInv
  <2>3. cnt50' % 2 = 0 <=> ~(cnt50 % 2 = 0)
    BY <1>2, <1>3, PliesFacts
  <2> QED BY <1>7, <2>1, <2>2, <2>3
<1>14. (Complete /\ result = Running => Kept)'
  BY <1>4, <1>11
<1> QED BY <1>4, <1>12, <1>13, <1>14 DEF PlayInv

(* A result r is as good as the class of the first position. *)
Enough(r) == r >= Class \/ (r = 0 /\ Class = 1)

LEMMA ResultKeeps ==
  ASSUME PlayInv, result' \in -2 .. 2, UNCHANGED <<game, truth, start, at, cnt50, seen>>,
         Complete => Enough(result')
  PROVE  PlayInv'
<1>1. /\ Told /\ Ranked /\ start \in Positions /\ at \in Positions /\ cnt50 \in 0 .. Rule50
  BY DEF PlayInv
<1>2. Told' /\ Ranked' /\ (Complete' <=> Complete)
  BY <1>1, GameStays
<1>3. result' # Running
  BY DEF Running
<1>4. SafeMovesKeepTheResult'
  <2>1. Class' = Class
    BY DEF Class, WdlOf, Sign, Abs
  <2>2. WdlOf(truth[start])' = Class
    BY <2>1 DEF Class
  <2> QED BY <1>2, <2>2 DEF SafeMovesKeepTheResult, Enough
<1>5. (OurMove <=> cnt50 % 2 = 0)'
  BY DEF PlayInv, OurMove, Side
<1> QED BY <1>1, <1>2, <1>3, <1>4, <1>5 DEF PlayInv

LEMMA PlayZeroingKeeps == ASSUME PlayInv, PlayZeroing PROVE PlayInv'
<1>1. PICK m \in Candidates : IsZeroing(m) /\ result' = Result(-Zeroing(at)[m.zero].wdl)
  BY DEF PlayZeroing
<1>2. result = Running /\ cnt50 < Rule50 /\ UNCHANGED <<game, truth, start, at, cnt50, seen>>
  BY DEF PlayZeroing
<1>3. /\ Told /\ Ranked /\ start \in Positions /\ at \in Positions /\ cnt50 \in 0 .. Rule50
      /\ Complete => Kept
  BY <1>2 DEF PlayInv
<1>4. m \in RootMoves(at)
  BY <1>1, <1>2, CandidateFacts
<1> DEFINE d == MoveDtz(at, m)
           t == truth[at]
           w == Zeroing(at)[m.zero].wdl
<1>5. /\ d \in Int /\ t \in Int /\ w \in -2 .. 2
      /\ w = -2 => d = 1
      /\ w = -1 => d = Rule50 + 1
      /\ w = 0 => d = 0
      /\ w = 1 => d = -(Rule50 + 1)
      /\ w = 2 => d = -1
      /\ ~Mated(at)
      /\ d > 0 => t > 0 /\ t <= d
      /\ t < 0 => d < 0 /\ t <= d
  BY <1>1, <1>3, <1>4, MoveDtzFacts, BestMoves
<1>6. result' = IF OurMove THEN -w ELSE w
  <2>1. result' = IF OurMove THEN -w ELSE -(-w)
    BY <1>1 DEF Result
  <2>2. -(-w) = w
    <3> HIDE DEF w
    <3> QED BY <1>5
  <2> HIDE DEF w
  <2> QED BY <2>1, <2>2
<1>7. Class \in -2 .. 2
  BY <1>3, WdlOfFacts DEF Class, Told, Sound
<1>8. ASSUME Complete PROVE Enough(result')
  <2>1. Kept
    BY <1>3, <1>8
  <2> DEFINE B == Brink(start)
             S(n) == Saved(start, n)
  <2>2. OurMove =>
          /\ t > 0 /\ t + cnt50 <= B => d > 0 /\ d + cnt50 <= B
          /\ t >= 0 => d >= 0
          /\ t < 0 /\ (S(-t + cnt50) \/ (cnt50 = 0 /\ -t > Rule50)) => d < 0 /\ -d + cnt50 > Rule50
    BY <1>1, <1>2, <1>8, CandidateFacts
  <2>9. /\ B \in Int /\ B <= Rule50
        /\ \A n \in Int : S(n) => n > Rule50
    BY PliesFacts DEF Brink, Saved
  <2>3. cnt50 \in Int /\ cnt50 < Rule50 /\ cnt50 >= 0
    BY <1>2, <1>3, PliesFacts
  <2> HIDE DEF d, t, w
  <2>4. w = -2 \/ w = -1 \/ w = 0 \/ w = 1 \/ w = 2
    BY <1>5
  <2>5. CASE Class = 2
    <3>1. /\ OurMove => t > 0 /\ t + cnt50 <= B
          /\ ~OurMove => t < 0 /\ -t + cnt50 <= B
      BY <1>5, <2>1, <2>5 DEF Kept, t
    <3> HIDE DEF B, S
    <3>2. OurMove => w = -2
      BY <1>5, <2>2, <2>3, <2>4, <2>9, <3>1, PliesFacts
    <3>3. ~OurMove => w = 2
      BY <1>5, <2>3, <2>4, <2>9, <3>1, PliesFacts
    <3> QED BY <1>6, <2>5, <3>2, <3>3 DEF Enough
  <2>6. CASE Class = 0 \/ Class = 1
    <3>1. /\ OurMove => t >= 0
          /\ ~OurMove => t <= 0
      BY <2>1, <2>6 DEF Kept, t
    <3> HIDE DEF B, S
    <3>2. OurMove => w <= 0
      BY <1>5, <2>2, <2>4, <3>1, PliesFacts
    <3>3. ~OurMove => w >= 0
      BY <1>5, <2>4, <3>1, PliesFacts
    <3> QED BY <1>5, <1>6, <2>4, <2>6, <3>2, <3>3 DEF Enough
  <2>7. CASE Class = -1
    <3>1. /\ OurMove => t >= 0 \/ S(-t + cnt50) \/ (cnt50 = 0 /\ -t > Rule50)
          /\ ~OurMove => t <= 0 \/ S(t + cnt50)
      BY <2>1, <2>7 DEF Kept, t
    <3> HIDE DEF B, S
    <3>2. OurMove => w # 2
      <4>1. SUFFICES ASSUME OurMove, w = 2 PROVE FALSE
        OBVIOUS
      <4>2. d = -1
        BY <1>5, <4>1
      <4>3. t < 0
        BY <1>5, <2>2, <4>1, <4>2
      <4>4. -d + cnt50 > Rule50
        BY <2>2, <3>1, <1>5, <4>1, <4>3
      <4> QED BY <2>3, <4>2, <4>4, PliesFacts
    <3>3. ~OurMove => w # -2
      BY <1>5, <2>3, <2>4, <2>9, <3>1, PliesFacts
    <3>4. OurMove => -w >= -1
      BY <2>4, <3>2
    <3>5. ~OurMove => w >= -1
      BY <2>4, <3>3
    <3> QED BY <1>6, <2>7, <3>4, <3>5 DEF Enough
  <2>8. CASE Class = -2
    BY <1>6, <2>4, <2>8 DEF Enough
  <2> QED BY <1>7, <2>5, <2>6, <2>7, <2>8
<1>9. result' \in -2 .. 2
  <2> HIDE DEF w
  <2> QED BY <1>5, <1>6
<1> QED BY <1>2, <1>8, <1>9, ResultKeeps

LEMMA GameEndsKeeps == ASSUME PlayInv, GameEnds PROVE PlayInv'
<1>1. result = Running /\ UNCHANGED <<game, truth, start, at, cnt50, seen>>
  BY DEF GameEnds
<1>2. /\ Told /\ start \in Positions /\ at \in Positions /\ cnt50 \in 0 .. Rule50
      /\ Complete => Kept
  BY <1>1 DEF PlayInv
<1> DEFINE t == truth[at]
<1>3. /\ t \in Int
      /\ Mated(at) => t = -1
      /\ NoMoves(at) /\ ~Mated(at) => t = 0
  BY <1>2, BestMoves
<1>4. Class \in -2 .. 2
  BY <1>2, WdlOfFacts DEF Class, Told, Sound
<1>5. CASE Mated(at) /\ result' = Result(-2)
  <2>1. result' = IF OurMove THEN -2 ELSE 2
    BY <1>5 DEF Result
  <2>2. ASSUME Complete PROVE Enough(result')
    <3>1. Kept
      BY <1>2, <2>2
    <3>2. OurMove => Class = -2
      <4>1. ASSUME OurMove PROVE Class = -2
        <5>1. t = -1
          BY <1>3, <1>5
        <5>2. Class # 2 /\ Class # 0 /\ Class # 1 /\ Class # -1
          BY <1>5, <3>1, <4>1, <5>1 DEF Kept
        <5> QED BY <1>4, <5>2
      <4> QED BY <4>1
    <3> QED BY <1>4, <2>1, <3>2 DEF Enough
  <2> QED BY <1>1, <2>1, <2>2, ResultKeeps
<1>6. CASE ~Mated(at) /\ (NoMoves(at) \/ cnt50 = Rule50) /\ result' = 0
  <2>1. ASSUME Complete PROVE Enough(result')
    <3>1. Kept
      BY <1>2, <2>1
    <3>2. Class # 2
      <4>1. SUFFICES ASSUME Class = 2 PROVE FALSE
        OBVIOUS
      <4> DEFINE B == Brink(start)
      <4>5. B \in Int /\ B <= Rule50
        BY PliesFacts DEF Brink
      <4>2. /\ OurMove => t > 0 /\ t + cnt50 <= B
            /\ ~OurMove => t < 0 /\ -t + cnt50 <= B
        BY <1>6, <3>1, <4>1 DEF Kept
      <4> HIDE DEF B
      <4>3. t # 0 /\ cnt50 \in Int
        BY <1>2, <1>3, <4>2, PliesFacts
      <4>4. cnt50 = Rule50
        BY <1>3, <1>6, <4>3
      <4> QED BY <1>3, <4>2, <4>3, <4>4, <4>5, PliesFacts
    <3> QED BY <1>4, <1>6, <3>2 DEF Enough
  <2>2. result' \in -2 .. 2
    BY <1>6
  <2> QED BY <1>1, <2>1, <2>2, ResultKeeps
<1> QED BY <1>5, <1>6 DEF GameEnds

LEMMA PlayStepHolds == ASSUME PlayInv, ProbeNext PROVE PlayInv'
BY PlayQuietKeeps, PlayZeroingKeeps, GameEndsKeeps DEF ProbeNext

LEMMA PlayStays == ASSUME PlayInv, UNCHANGED probeVars PROVE PlayInv'
<1>1. UNCHANGED <<game, truth, start, at, cnt50, seen, result>>
  BY DEF probeVars
<1>2. Told' /\ Ranked' /\ (Complete' <=> Complete)
  BY <1>1, GameStays DEF PlayInv
<1>3. (Kept)' <=> Kept
  BY <1>1 DEF Kept, Class, OurMove, Side, WdlOf, Sign, Abs, Mated, NoMoves, Quiet, Zeroing,
              Brink, Saved, Exact, Counts
<1>4. SafeMovesKeepTheResult'
  BY <1>1, <1>2 DEF PlayInv, SafeMovesKeepTheResult, WdlOf, Sign, Abs
<1>5. (OurMove <=> cnt50 % 2 = 0)'
  BY <1>1 DEF PlayInv, OurMove, Side
<1> QED BY <1>1, <1>2, <1>3, <1>4, <1>5 DEF PlayInv

(* The ranks of moves tell wins from draws and losses: no class is as many *)
(* plies from a zeroing move as the ranks leave room for.                  *)
RanksSuffice == part = "probe" => Ranked

PlayIsSound == part = "probe" => PlayInv

LEMMA PlayIsSoundHolds == Spec /\ RanksSuffice => []PlayIsSound
<1>1. Init /\ RanksSuffice => PlayIsSound
  <2>1. ASSUME Init, RanksSuffice, part = "probe" PROVE PlayInv
    <3>1. ProbeInit
      BY <2>1 DEF Init
    <3> QED BY <2>1, <3>1, PlayInitHolds DEF RanksSuffice
  <2> QED BY <2>1 DEF PlayIsSound
<1>2. PlayIsSound /\ [Next]_vars => PlayIsSound'
  <2> SUFFICES ASSUME PlayIsSound, [Next]_vars, part' = "probe" PROVE PlayInv'
    BY DEF PlayIsSound
  <2>1. part = "probe" /\ PlayInv
    BY DEF PlayIsSound, Next, vars
  <2>2. CASE ProbeNext
    BY <2>1, <2>2, PlayStepHolds
  <2>3. CASE UNCHANGED probeVars
    BY <2>1, <2>3, PlayStays
  <2> QED BY <2>1, <2>2, <2>3 DEF Next, vars
<1> QED BY <1>1, <1>2, PTL DEF Spec

(* A probe that does not fail tells the truth, and playing what root_probe *)
(* calls safe keeps the result of the root, for every game and every       *)
(* length of the fifty-move rule (syzygy.cc:1479, 1516).                   *)
THEOREM PlayKeepsTheResultCorrect == Spec /\ RanksSuffice => []PlayKeepsTheResult
<1>1. PlayIsSound => PlayKeepsTheResult
  <2>1. ASSUME PlayInv PROVE ProbesTellTheTruth /\ SafeMovesKeepTheResult
    BY <2>1, ProbesTell DEF PlayInv
  <2> QED BY <2>1 DEF PlayIsSound, PlayKeepsTheResult
<1> QED BY <1>1, PlayIsSoundHolds, PTL
=============================================================================
