---------------------------- MODULE BackendsProofs ----------------------------
(***************************************************************************)
(* Proofs about the parts of Backends: the networks that are made of other *)
(* networks, the fused kernel, and the CUDA and CPU backends, which        *)
(* compute what the network computes and write where there is room; for    *)
(* any number of clients, threads and batches, and for kernels, towers and *)
(* computations of any size.                                               *)
(***************************************************************************)
EXTENDS Backends, SumTheorems

-----------------------------------------------------------------------------
(* The fused kernel. *)

Channels == 0 .. unit.channels - 1

SeTypes ==
  /\ unit \in Units
  /\ warpPc \in [Warps -> {"average", "sync1", "first", "sync2", "second"}]
  /\ at \in [Warps -> Nat]
  /\ sharedData \in [Channels -> {"unset", "average", "hidden"}]
  /\ read \in [Warps -> SUBSET {<<1, "average">>, <<1, "hidden">>, <<2, "hidden">>}]
  /\ \A w \in Warps : <<1, "hidden">> \in read[w] => BothStore(w)

(* What sharedData holds before the first barrier, between the two, and    *)
(* after the second.                                                       *)
Averaging ==
  /\ \A w \in Warps : warpPc[w] \in {"average", "sync1"}
  /\ \A w \in Warps : warpPc[w] = "sync1" =>
       \A c \in Lanes(w) : sharedData[c] = "average"

FirstLayerPhase ==
  /\ \A w \in Warps : warpPc[w] \in {"first", "sync2"}
  /\ \A w \in Warps : \A c \in Lanes(w) :
       sharedData[c] = IF warpPc[w] = "sync2" /\ c < unit.outputs THEN "hidden"
                       ELSE "average"

SecondLayerPhase ==
  /\ \A w \in Warps : warpPc[w] = "second"
  /\ \A c \in Channels : c < unit.outputs => sharedData[c] = "hidden"

SeInv == SeTypes /\ (Averaging \/ FirstLayerPhase \/ SecondLayerPhase)

(* Each channel belongs to a warp. *)
LEMMA LaneFacts ==
  ASSUME SeTypes
  PROVE  /\ unit.channels \in Nat /\ unit.outputs \in Nat
         /\ unit.outputs <= unit.channels
         /\ \A c \in Channels : c \div WarpSize \in Warps
<1>1. /\ unit.channels \in Nat /\ unit.outputs \in Nat
      /\ unit.channels % WarpSize = 0 /\ unit.outputs <= unit.channels
      /\ WarpSize \in Nat \ {0}
  BY UnitAssumption DEF SeTypes
<1>2. ASSUME NEW c \in Nat, NEW W \in Nat \ {0}, NEW n \in Nat, n % W = 0, c < n
      PROVE  c \div W \in 0 .. n \div W - 1
  <2>1. c \div W <= n \div W - 1
    BY <1>2
  <2> QED BY <2>1, <1>2
<1>3. \A c \in Channels : c \in Nat /\ c < unit.channels
  BY <1>1 DEF Channels
<1> QED BY <1>1, <1>2, <1>3 DEF Warps

LEMMA SeInitHolds == SeInit => SeInv
<1> SUFFICES ASSUME SeInit PROVE SeInv
  OBVIOUS
<1>1. SeTypes
  BY DEF SeInit, SeTypes, Channels
<1>2. Averaging
  BY DEF SeInit, Averaging
<1> QED BY <1>1, <1>2 DEF SeInv

LEMMA SeStepHolds ==
  ASSUME SeInv, SeNext
  PROVE  SeInv'
<1>1. /\ unit.channels \in Nat /\ unit.outputs \in Nat
      /\ unit.outputs <= unit.channels
      /\ WarpSize \in Nat
      /\ \A c \in Channels : c \div WarpSize \in Warps
  <2>1. unit \in Units /\ WarpSize \in Nat
    BY UnitAssumption DEF SeInv, SeTypes
  <2> QED BY <2>1, LaneFacts DEF SeInv
<1>2. /\ \A c \in Channels : c \in Nat /\ c \in Lanes(c \div WarpSize)
      /\ \A w \in Warps : \A c \in Lanes(w) : c \in Channels /\ c \div WarpSize = w
  BY <1>1 DEF Lanes, Channels
<1>3. unit' = unit
  BY DEF SeNext, Average, ReadAverage, StoreHidden, ReadHidden, Sync
<1>4. Warps' = Warps /\ Channels' = Channels /\ \A w : BothStore(w)' = BothStore(w)
  BY <1>3 DEF Warps, Channels, BothStore, FirstLayer, Lanes
<1>5. ASSUME NEW w \in Warps, Average(w) PROVE SeInv'
  <2>1. SeTypes' /\ Averaging
    BY <1>4, <1>5 DEF Average, SeInv, SeTypes, Averaging, FirstLayerPhase,
         SecondLayerPhase
  <2>2. Averaging'
    BY <1>2, <1>5, <2>1 DEF Average, SeInv, SeTypes, Averaging, Warps, Lanes,
         Channels
  <2> QED BY <2>1, <2>2 DEF SeInv
<1>6. ASSUME NEW w \in Warps, ReadAverage(w) PROVE SeInv'
  <2>1. FirstLayerPhase
    BY <1>6 DEF ReadAverage, SeInv, SeTypes, Averaging, FirstLayerPhase,
         SecondLayerPhase
  <2>2. at[w] \in Channels
    BY <1>1, <1>6 DEF ReadAverage, SeInv, SeTypes, Channels
  <2>3. \/ sharedData[at[w]] = "average"
        \/ sharedData[at[w]] = "hidden" /\ BothStore(w)
    <3> DEFINE v == at[w] \div WarpSize
    <3>1. v \in Warps /\ at[w] \in Lanes(v)
      BY <1>1, <1>2, <2>2
    <3>2. warpPc[w] = "first"
      BY <1>6 DEF ReadAverage
    <3>3. at[w] < unit.outputs => at[w] \in FirstLayer(v)
      BY <3>1 DEF FirstLayer
    <3> HIDE DEF v
    <3>4. sharedData[at[w]] = IF warpPc[v] = "sync2" /\ at[w] < unit.outputs
                              THEN "hidden" ELSE "average"
      BY <2>1, <3>1 DEF FirstLayerPhase
    <3>5. FirstLayer(w) # {}
      BY <1>6 DEF ReadAverage
    <3> QED BY <3>1, <3>2, <3>3, <3>4, <3>5 DEF BothStore
  <2>4. SeTypes'
    <3>1. /\ UNCHANGED <<unit, warpPc, sharedData>>
          /\ at' = [at EXCEPT ![w] = @ + 1]
          /\ read' = [read EXCEPT ![w] = @ \cup {<<1, sharedData[at[w]]>>}]
      BY <1>6 DEF ReadAverage
    <3>2. at' \in [Warps -> Nat] /\ SeTypes
      BY <3>1 DEF SeInv, SeTypes
    <3>3. read' \in [Warps -> SUBSET {<<1, "average">>, <<1, "hidden">>, <<2, "hidden">>}]
      BY <2>3, <3>1, <3>2 DEF SeTypes
    <3>4. \A x \in Warps : <<1, "hidden">> \in read'[x] => BothStore(x)
      <4> TAKE x \in Warps
      <4>1. CASE x # w
        BY <3>1, <3>2, <4>1 DEF SeTypes
      <4>2. CASE x = w
        <5>1. read'[w] = read[w] \cup {<<1, sharedData[at[w]]>>}
          BY <3>1, <3>2 DEF SeTypes
        <5>2. sharedData[at[w]] # "hidden" => <<1, "hidden">> # <<1, sharedData[at[w]]>>
          OBVIOUS
        <5> QED BY <2>3, <3>2, <4>2, <5>1, <5>2 DEF SeTypes
      <4> QED BY <4>1, <4>2
    <3> QED BY <1>4, <3>1, <3>2, <3>3, <3>4 DEF SeTypes
  <2>5. FirstLayerPhase'
    BY <1>6, <2>1 DEF ReadAverage, FirstLayerPhase, Warps, Lanes
  <2> QED BY <2>4, <2>5 DEF SeInv
<1>7. ASSUME NEW w \in Warps, StoreHidden(w) PROVE SeInv'
  <2>1. FirstLayerPhase
    BY <1>7 DEF StoreHidden, SeInv, SeTypes, Averaging, FirstLayerPhase,
         SecondLayerPhase
  <2>2. SeTypes'
    BY <1>4, <1>7 DEF StoreHidden, SeInv, SeTypes
  <2>3. FirstLayerPhase'
    BY <1>2, <1>7, <2>1 DEF StoreHidden, FirstLayerPhase, SeInv, SeTypes, Warps,
         Lanes, FirstLayer, Channels
  <2> QED BY <2>2, <2>3 DEF SeInv
<1>8. ASSUME NEW w \in Warps, ReadHidden(w) PROVE SeInv'
  <2>1. SecondLayerPhase
    BY <1>8 DEF ReadHidden, SeInv, SeTypes, Averaging, FirstLayerPhase,
         SecondLayerPhase
  <2>2. at[w] \in Channels /\ at[w] < unit.outputs
    BY <1>1, <1>8 DEF ReadHidden, SeInv, SeTypes, Channels
  <2>3. sharedData[at[w]] = "hidden"
    BY <2>1, <2>2 DEF SecondLayerPhase
  <2>4. SeTypes'
    <3>1. /\ UNCHANGED <<unit, warpPc, sharedData>>
          /\ at' = [at EXCEPT ![w] = @ + 1]
          /\ read' = [read EXCEPT ![w] = @ \cup {<<2, "hidden">>}]
      BY <1>8, <2>3 DEF ReadHidden
    <3>2. \A x \in Warps : <<1, "hidden">> \in read'[x] => <<1, "hidden">> \in read[x]
      BY <3>1 DEF SeInv, SeTypes
    <3> QED BY <1>4, <3>1, <3>2 DEF SeInv, SeTypes
  <2>5. SecondLayerPhase'
    BY <1>8, <2>1 DEF ReadHidden, SecondLayerPhase, Warps, Channels
  <2> QED BY <2>4, <2>5 DEF SeInv
<1>9. CASE Sync("sync1", "first")
  <2>1. SeTypes'
    BY <1>4, <1>9 DEF Sync, SeInv, SeTypes
  <2>2. \A w \in Warps : \A c \in Lanes(w) : sharedData[c] = "average"
    BY <1>9 DEF Sync, SeInv, SeTypes, Averaging, FirstLayerPhase, SecondLayerPhase
  <2>3. FirstLayerPhase'
    BY <1>9, <2>2 DEF Sync, FirstLayerPhase, Warps, Lanes
  <2> QED BY <2>1, <2>3 DEF SeInv
<1>10. CASE Sync("sync2", "second")
  <2>1. SeTypes'
    BY <1>4, <1>10 DEF Sync, SeInv, SeTypes
  <2>2. \A c \in Channels : c < unit.outputs => sharedData[c] = "hidden"
    BY <1>1, <1>2, <1>10 DEF Sync, SeInv, SeTypes, Averaging, FirstLayerPhase,
         SecondLayerPhase
  <2>3. SecondLayerPhase'
    BY <1>10, <2>2 DEF Sync, SecondLayerPhase, Warps, Channels
  <2> QED BY <2>1, <2>3 DEF SeInv
<1> QED BY <1>5, <1>6, <1>7, <1>8, <1>9, <1>10 DEF SeNext

-----------------------------------------------------------------------------
(* The multiplexer: what a worker gathers. *)

(* The recursion behind Populated. *)
PopulatesTo(N, g) ==
  g = [k \in 0 .. N |->
         IF k = 0 THEN <<>>
         ELSE g[k - 1] \o [j \in 1 .. size[queue[k]] |-> queue[k]]]

LEMMA PopulationsExist == \A N \in Nat : \E g : PopulatesTo(N, g)
<1> DEFINE T == {N \in Nat : ~ \E g : PopulatesTo(N, g)}
           more(k) == [j \in 1 .. size[queue[k]] |-> queue[k]]
<1>1. SUFFICES ASSUME T # {} PROVE FALSE
  OBVIOUS
<1>2. PICK N \in T : \A m \in T : N <= m
  <2> HIDE DEF T
  <2>1. T \in SUBSET Nat
    BY DEF T
  <2> QED BY <1>1, <2>1, LeastNat
<1>3. N # 0
  <2> DEFINE g == [k \in 0 .. 0 |-> <<>>]
  <2>1. PopulatesTo(0, g)
    BY DEF PopulatesTo
  <2> QED BY <2>1, <1>2
<1>4. PICK g : PopulatesTo(N - 1, g)
  <2>1. N - 1 \in Nat /\ N - 1 \notin T
    BY <1>2, <1>3
  <2> QED BY <2>1
<1> DEFINE h == [k \in 0 .. N |-> IF k < N THEN g[k] ELSE g[N - 1] \o more(N)]
<1>5. PopulatesTo(N, h)
  <2> HIDE DEF more
  <2>1. \A k \in 0 .. N - 1 : g[k] = IF k = 0 THEN <<>> ELSE g[k - 1] \o more(k)
    BY <1>4 DEF PopulatesTo, more
  <2>2. ASSUME NEW k \in 0 .. N
        PROVE  h[k] = IF k = 0 THEN <<>> ELSE h[k - 1] \o more(k)
    <3>1. CASE k = N
      <4>1. N \in 0 .. N /\ N - 1 \in 0 .. N /\ N - 1 < N /\ ~(N < N)
        BY <1>2, <1>3
      <4>2. h[N] = g[N - 1] \o more(N) /\ h[N - 1] = g[N - 1]
        BY <4>1
      <4> HIDE DEF h
      <4> QED BY <3>1, <4>2, <1>3
    <3>2. CASE k < N
      <4>1. k \in 0 .. N - 1 /\ h[k] = g[k]
        BY <3>2, <1>2
      <4>2. k # 0 => k - 1 \in 0 .. N /\ k - 1 < N
        BY <4>1, <1>2
      <4> QED BY <4>1, <4>2, <2>1
    <3> QED BY <3>1, <3>2, <1>2
  <2>3. h = [k \in 0 .. N |-> h[k]]
    OBVIOUS
  <2> HIDE DEF h
  <2> QED BY <2>2, <2>3 DEF PopulatesTo, more
<1> QED BY <1>2, <1>5

(* Each computation finds its inputs where IndexOf says, whatever was      *)
(* added after them.                                                       *)
LEMMA PopulatedFacts ==
  ASSUME TypeOK
  PROVE  /\ \A k \in 0 .. Len(queue) : Populated[k] \in Seq(Clients)
         /\ \A k \in 1 .. Len(queue) : \A i \in 1 .. k :
              /\ IndexOf(i) \in Nat
              /\ \A s \in 1 .. size[queue[i]] :
                   /\ IndexOf(i) + s \in DOMAIN Populated[k]
                   /\ Populated[k][IndexOf(i) + s] = queue[i]
<1> DEFINE N == Len(queue)
           p == Populated
           more(k) == [j \in 1 .. size[queue[k]] |-> queue[k]]
<1>1. /\ N \in Nat
      /\ \A k \in 1 .. N : queue[k] \in Clients /\ size[queue[k]] \in Nat
  BY DEF TypeOK
<1>2. p[0] = <<>> /\ \A k \in 1 .. N : p[k] = p[k - 1] \o more(k)
  <2>1. p = CHOOSE g : PopulatesTo(N, g)
    BY DEF Populated, PopulatesTo
  <2>2. PopulatesTo(N, p)
    <3>1. \E g : PopulatesTo(N, g)
      BY <1>1, PopulationsExist
    <3> HIDE DEF p, N
    <3> QED BY <2>1, <3>1
  <2> HIDE DEF p, N
  <2>3. \A k \in 0 .. N : p[k] = IF k = 0 THEN <<>> ELSE p[k - 1] \o more(k)
    BY <2>2 DEF PopulatesTo
  <2>4. 0 \in 0 .. N /\ \A k \in 1 .. N : k \in 0 .. N /\ k # 0
    BY <1>1
  <2> QED BY <2>3, <2>4
<1>3. \A k \in 1 .. N : /\ more(k) \in Seq(Clients) /\ Len(more(k)) = size[queue[k]]
                        /\ \A s \in 1 .. size[queue[k]] : more(k)[s] = queue[k]
  <2> HIDE DEF N
  <2> TAKE k \in 1 .. N
  <2>1. size[queue[k]] \in Nat /\ queue[k] \in Clients
    BY <1>1
  <2> QED BY <2>1
<1> HIDE DEF p, N, more
<1>4. \A k \in 0 .. N : p[k] \in Seq(Clients)
  <2> DEFINE T == {k \in 0 .. N : p[k] \notin Seq(Clients)}
  <2>1. SUFFICES ASSUME T # {} PROVE FALSE
    OBVIOUS
  <2>2. PICK k \in T : \A m \in T : k <= m
    <3> HIDE DEF T
    <3>1. T \in SUBSET Nat
      BY <1>1 DEF T
    <3> QED BY <2>1, <3>1, LeastNat
  <2>3. k # 0
    BY <1>2, <2>2, EmptySeq
  <2>4. k \in 1 .. N /\ k - 1 \in 0 .. N /\ k - 1 \notin T
    BY <1>1, <2>2, <2>3
  <2>5. p[k - 1] \in Seq(Clients) /\ more(k) \in Seq(Clients)
    BY <2>4, <1>3
  <2>6. p[k] \in Seq(Clients)
    BY <2>4, <2>5, <1>2, ConcatProperties
  <2> QED BY <2>2, <2>6
<1>5. \A k \in 1 .. N :
        /\ p[k] \in Seq(Clients) /\ p[k - 1] \in Seq(Clients)
        /\ Len(p[k]) = Len(p[k - 1]) + size[queue[k]]
        /\ \A s \in 1 .. Len(p[k - 1]) : p[k][s] = p[k - 1][s]
        /\ \A s \in 1 .. size[queue[k]] : p[k][Len(p[k - 1]) + s] = queue[k]
  <2> TAKE k \in 1 .. N
  <2>1. /\ p[k - 1] \in Seq(Clients) /\ p[k] \in Seq(Clients)
        /\ more(k) \in Seq(Clients) /\ p[k] = p[k - 1] \o more(k)
        /\ Len(more(k)) = size[queue[k]] /\ size[queue[k]] \in Nat
        /\ \A s \in 1 .. size[queue[k]] : more(k)[s] = queue[k]
    <3>1. k - 1 \in 0 .. N /\ k \in 0 .. N
      BY <1>1
    <3> QED BY <3>1, <1>1, <1>2, <1>3, <1>4
  <2>2. /\ Len(p[k]) = Len(p[k - 1]) + Len(more(k))
        /\ \A n \in 1 .. Len(p[k - 1]) + Len(more(k)) :
             p[k][n] = IF n <= Len(p[k - 1]) THEN p[k - 1][n]
                       ELSE more(k)[n - Len(p[k - 1])]
    <3> DEFINE a == p[k - 1]
               b == more(k)
    <3>1. a \in Seq(Clients) /\ b \in Seq(Clients) /\ p[k] = a \o b
      BY <2>1
    <3> HIDE DEF a, b
    <3>2. /\ Len(a \o b) = Len(a) + Len(b)
          /\ \A n \in 1 .. Len(a) + Len(b) :
               (a \o b)[n] = IF n <= Len(a) THEN a[n] ELSE b[n - Len(a)]
      BY <3>1, ConcatProperties
    <3> QED BY <3>1, <3>2 DEF a, b
  <2>3. Len(p[k - 1]) \in Nat
    BY <2>1, LenProperties
  <2>4. ASSUME NEW s \in 1 .. size[queue[k]]
        PROVE  p[k][Len(p[k - 1]) + s] = queue[k]
    <3>1. /\ Len(p[k - 1]) + s \in 1 .. Len(p[k - 1]) + Len(more(k))
          /\ ~(Len(p[k - 1]) + s <= Len(p[k - 1]))
          /\ (Len(p[k - 1]) + s) - Len(p[k - 1]) = s
      <4> DEFINE l == Len(p[k - 1])
                 d == Len(more(k))
      <4>1. l \in Nat /\ d \in Nat /\ s \in 1 .. d
        BY <2>1, <2>3
      <4> HIDE DEF l, d
      <4>2. l + s \in 1 .. l + d /\ ~(l + s <= l) /\ (l + s) - l = s
        BY <4>1
      <4> QED BY <4>2 DEF l, d
    <3> QED BY <3>1, <2>1, <2>2
  <2>5. \A s \in 1 .. Len(p[k - 1]) : p[k][s] = p[k - 1][s]
    BY <2>1, <2>2, <2>3
  <2> QED BY <2>1, <2>2, <2>4, <2>5
<1> DEFINE Fits(k) == \A i \in 1 .. k : \A s \in 1 .. size[queue[i]] :
                        /\ Len(p[i - 1]) + s \in 1 .. Len(p[k])
                        /\ p[k][Len(p[i - 1]) + s] = queue[i]
<1>6. \A k \in 1 .. N : Fits(k)
  <2> DEFINE T == {k \in 1 .. N : ~Fits(k)}
  <2>1. SUFFICES ASSUME T # {} PROVE FALSE
    OBVIOUS
  <2>2. PICK k \in T : \A m \in T : k <= m
    <3> HIDE DEF T
    <3>1. T \in SUBSET Nat
      BY <1>1 DEF T
    <3> QED BY <2>1, <3>1, LeastNat
  <2>3. ASSUME NEW i \in 1 .. k, NEW s \in 1 .. size[queue[i]]
        PROVE  /\ Len(p[i - 1]) + s \in 1 .. Len(p[k])
               /\ p[k][Len(p[i - 1]) + s] = queue[i]
    <3>1. /\ k \in 1 .. N /\ i \in 1 .. N /\ size[queue[i]] \in Nat
          /\ Len(p[i - 1]) \in Nat /\ Len(p[k]) \in Nat /\ Len(p[k - 1]) \in Nat
          /\ size[queue[k]] \in Nat
      <4>1. k \in 1 .. N /\ i \in 1 .. N
        BY <1>1, <2>2
      <4> QED BY <4>1, <1>1, <1>5, LenProperties
    <3>2. CASE i = k
      <4>1. /\ p[k][Len(p[k - 1]) + s] = queue[k]
            /\ Len(p[k]) = Len(p[k - 1]) + size[queue[k]]
        BY <3>1, <3>2, <1>5
      <4>2. Len(p[k - 1]) + s \in 1 .. Len(p[k])
        <5> DEFINE l == Len(p[k - 1])
                   m == Len(p[k])
                   z == size[queue[k]]
        <5>1. l \in Nat /\ m \in Nat /\ z \in Nat /\ s \in 1 .. z /\ m = l + z
          BY <4>1, <3>1, <3>2
        <5> HIDE DEF l, m, z
        <5>2. l + s \in 1 .. m
          BY <5>1
        <5> QED BY <5>2 DEF l, m
      <4> QED BY <4>1, <4>2, <3>2
    <3>3. CASE i < k
      <4>1. k - 1 \in 1 .. N /\ k - 1 \notin T /\ i \in 1 .. k - 1
        <5>1. k - 1 \in 1 .. N /\ i \in 1 .. k - 1 /\ k - 1 \in Nat /\ ~(k <= k - 1)
          BY <3>1, <3>3, <1>1
        <5> HIDE DEF T
        <5> QED BY <5>1, <2>2
      <4>2. Fits(k - 1)
        <5> HIDE DEF Fits
        <5> QED BY <4>1
      <4>3. /\ Len(p[i - 1]) + s \in 1 .. Len(p[k - 1])
            /\ p[k - 1][Len(p[i - 1]) + s] = queue[i]
        BY <4>1, <4>2
      <4>4. /\ p[k][Len(p[i - 1]) + s] = p[k - 1][Len(p[i - 1]) + s]
            /\ Len(p[k]) = Len(p[k - 1]) + size[queue[k]]
        BY <4>3, <3>1, <1>5
      <4> DEFINE x == Len(p[i - 1]) + s
                 l == Len(p[k - 1])
                 m == Len(p[k])
                 z == size[queue[k]]
      <4>5. /\ x \in 1 .. l /\ l \in Nat /\ m = l + z /\ z \in Nat
            /\ p[k][x] = p[k - 1][x] /\ p[k - 1][x] = queue[i]
        BY <4>3, <4>4, <3>1
      <4> HIDE DEF x, l, m, z
      <4>6. x \in 1 .. m /\ p[k][x] = queue[i]
        BY <4>5
      <4> QED BY <4>6 DEF x, m
    <3> QED BY <3>1, <3>2, <3>3
  <2> QED BY <2>2, <2>3
<1>7. \A k \in 0 .. N : DOMAIN p[k] = 1 .. Len(p[k]) /\ Len(p[k]) \in Nat
  BY <1>4, LenProperties
<1>8. ASSUME NEW k \in 1 .. N, NEW i \in 1 .. k
      PROVE  k \in 0 .. N /\ i - 1 \in 0 .. N
  BY <1>1
<1> QED BY <1>4, <1>6, <1>7, <1>8 DEF IndexOf, p, N

(* A bounded set of numbers has a greatest one. *)
LEMMA MaxOfBounded ==
  ASSUME NEW S \in SUBSET Nat, S # {}, NEW B \in Nat, \A s \in S : s <= B
  PROVE  Max(S) \in S /\ \A s \in S : s <= Max(S)
<1> DEFINE T == {B - s : s \in S}
<1>1. T \in SUBSET Nat /\ T # {}
  <2>1. \A s \in S : s \in Nat /\ B - s \in Nat
    OBVIOUS
  <2> QED BY <2>1
<1>2. PICK m \in T : \A z \in T : m <= z
  <2> HIDE DEF T
  <2> QED BY <1>1, LeastNat
<1>3. PICK g \in S : m = B - g
  BY <1>2
<1>4. ASSUME NEW s \in S PROVE g >= s
  <2>1. B - s \in T /\ s \in Nat /\ g \in Nat
    BY <1>3
  <2>2. B - g <= B - s
    BY <1>2, <1>3, <2>1
  <2> QED BY <2>1, <2>2
<1> QED BY <1>3, <1>4 DEF Max

(* The computations that are taken are the first ones of the queue. *)
LEMMA MaxInside ==
  ASSUME NEW n \in Nat, NEW S \in SUBSET (1 .. n), S # {}
  PROVE  Max(S) \in S
<1>1. S \in SUBSET Nat /\ \A s \in S : s <= n
  OBVIOUS
<1> QED BY <1>1, MaxOfBounded

LEMMA TakenFacts ==
  ASSUME TypeOK, NEW w \in Workers, queue # <<>>
  PROVE  /\ Max(Taken(w)) \in 1 .. Len(queue)
         /\ Max(Taken(w)) = 1 \/ Len(Populated[Max(Taken(w))]) <= MaxBatch[w]
<1>1. Len(queue) \in Nat /\ 1 \in 1 .. Len(queue)
  BY DEF TypeOK
<1>2. Taken(w) \in SUBSET (1 .. Len(queue)) /\ Taken(w) # {}
  BY <1>1 DEF Taken
<1>3. Max(Taken(w)) \in Taken(w)
  BY <1>1, <1>2, MaxInside
<1> QED BY <1>3 DEF Taken

-----------------------------------------------------------------------------
(* The multiplexer: its invariant. *)

(* A worker has a batch while it computes and notifies, and children only  *)
(* then; nobody sleeps once the network is being destroyed.                *)
WorkerInv ==
  \A w \in Workers :
    /\ abort => workerPc[w] # "asleep"
    /\ batch[w] = NoBatch <=> workerPc[w] \notin {"compute", "notify"}
    /\ workerPc[w] \notin {"compute", "notify"} => children[w] = <<>>
    /\ workerPc[w] = "notify" => computed[batch[w]]

(* The inputs of a computation are in its batch where it looks for them.   *)
Mine(c) ==
  \A s \in 1 .. size[c] : /\ idx[c] + s \in DOMAIN planes[parent[c]]
                          /\ planes[parent[c]][idx[c] + s] = c

(* A computation has a batch from the time it is taken, and what is ready  *)
(* was computed or given up.                                               *)
ClientInv ==
  \A c \in Clients :
    /\ clientPc[c] = "idle" => ~ready[c] /\ parent[c] = NoBatch
    /\ clientPc[c] = "reading" => ready[c]
    /\ ready[c] => IF parent[c] = NoBatch THEN destructor = "done"
                   ELSE computed[parent[c]]
    /\ parent[c] # NoBatch => Mine(c)
    /\ c \in Range(queue) => parent[c] = NoBatch
    /\ \A w \in Workers : c \in Range(children[w]) => parent[c] = batch[w]

MuxInv ==
  /\ TypeOK /\ WorkerInv /\ ClientInv
  /\ EachInOnePlace /\ BatchBounded /\ NoLostWakeup

LEMMA MuxInitHolds == Init => MuxInv
<1> SUFFICES ASSUME Init PROVE MuxInv
  OBVIOUS
<1>1. TypeOK
  <2>1. <<>> \in Seq(Clients)
    OBVIOUS
  <2>2. /\ queue \in Seq(Clients) /\ abort \in BOOLEAN /\ destructor = "none"
        /\ children \in [Workers -> Seq(Clients)]
        /\ planes \in [Batches -> Seq(Clients)]
    BY <2>1 DEF Init
  <2> QED BY <2>2 DEF Init, TypeOK
<1>2. Range(<<>>) = {} /\ IsInjective(<<>>)
  BY DEF Range, IsInjective
<1>3. WorkerInv
  BY DEF Init, WorkerInv
<1>4. ClientInv
  BY <1>2 DEF Init, ClientInv
<1>5. EachInOnePlace
  BY <1>2 DEF Init, EachInOnePlace
<1>6. BatchBounded /\ NoLostWakeup
  BY DEF Init, BatchBounded, NoLostWakeup, Asleep
<1> QED BY <1>1, <1>3, <1>4, <1>5, <1>6 DEF MuxInv

(* Sequences in which each member occurs once. *)
LEMMA AppendOnce ==
  ASSUME NEW S, NEW s \in Seq(S), NEW x \in S, IsInjective(s), x \notin Range(s)
  PROVE  /\ Range(Append(s, x)) = Range(s) \cup {x}
         /\ IsInjective(Append(s, x))
<1> DEFINE r == Append(s, x)
<1>1. /\ Len(s) \in Nat /\ DOMAIN s = 1 .. Len(s)
      /\ DOMAIN r = 1 .. Len(s) + 1
      /\ \A i \in 1 .. Len(s) : r[i] = s[i]
      /\ r[Len(s) + 1] = x
  BY AppendProperties, LenProperties
<1> HIDE DEF r
<1>2. Range(r) = Range(s) \cup {x}
  <2>1. \A i \in 1 .. Len(s) + 1 : i \in 1 .. Len(s) \/ i = Len(s) + 1
    BY <1>1
  <2>2. \A i \in 1 .. Len(s) : i \in 1 .. Len(s) + 1
    BY <1>1
  <2>3. Len(s) + 1 \in 1 .. Len(s) + 1
    BY <1>1
  <2> QED BY <1>1, <2>1, <2>2, <2>3 DEF Range
<1>3. IsInjective(r)
  <2>1. ASSUME NEW i \in DOMAIN r, NEW j \in DOMAIN r, r[i] = r[j] PROVE i = j
    <3>1. \A k \in 1 .. Len(s) : s[k] # x
      BY <1>1 DEF Range
    <3>2. /\ i \in 1 .. Len(s) \/ i = Len(s) + 1
          /\ j \in 1 .. Len(s) \/ j = Len(s) + 1
      BY <1>1, <2>1
    <3> QED BY <1>1, <2>1, <3>1, <3>2 DEF IsInjective
  <2> QED BY <2>1 DEF IsInjective
<1> QED BY <1>2, <1>3 DEF r

(* The first k members of s are a, and the others b. *)
IsSplit(S, s, k, a, b) ==
  /\ a \in Seq(S) /\ Len(a) = k /\ \A i \in 1 .. k : a[i] = s[i]
  /\ b \in Seq(S) /\ Len(b) = Len(s) - k /\ \A i \in 1 .. Len(s) - k : b[i] = s[k + i]

LEMMA SplitFacts ==
  ASSUME NEW S, NEW s \in Seq(S), NEW k \in 1 .. Len(s)
  PROVE  IsSplit(S, s, k, SubSeq(s, 1, k), SubSeq(s, k + 1, Len(s)))
<1> DEFINE n == Len(s)
<1>1. n \in Nat /\ k \in Nat /\ k <= n /\ \A i \in 1 .. n : s[i] \in S
  BY LenProperties
<1> HIDE DEF n
<1>2. /\ \A i \in 1 .. k : s[i] \in S
      /\ \A i \in k + 1 .. n : s[i] \in S
      /\ n - (k + 1) + 1 = n - k /\ (k + 1 <= n \/ n - k = 0)
      /\ \A i \in 1 .. n - k : (k + 1) + i - 1 = k + i
  BY <1>1
<1>3. /\ SubSeq(s, k + 1, n) \in Seq(S)
      /\ Len(SubSeq(s, k + 1, n)) = IF k + 1 <= n THEN n - (k + 1) + 1 ELSE 0
      /\ \A i \in 1 .. n - (k + 1) + 1 : SubSeq(s, k + 1, n)[i] = s[(k + 1) + i - 1]
  BY <1>1, <1>2, SubSeqProperties
<1>4. /\ Len(SubSeq(s, k + 1, n)) = n - k
      /\ \A i \in 1 .. n - k : SubSeq(s, k + 1, n)[i] = s[k + i]
  BY <1>2, <1>3
<1>5. /\ SubSeq(s, 1, k) \in Seq(S) /\ Len(SubSeq(s, 1, k)) = k
      /\ \A i \in 1 .. k : SubSeq(s, 1, k)[i] = s[i]
  BY <1>1, <1>2
<1> QED BY <1>3, <1>4, <1>5 DEF n, IsSplit

LEMMA SplitOnce ==
  ASSUME NEW S, NEW s \in Seq(S), IsInjective(s), NEW k \in 1 .. Len(s),
         NEW a, NEW b, IsSplit(S, s, k, a, b)
  PROVE  /\ IsInjective(a) /\ IsInjective(b)
         /\ Range(a) \cap Range(b) = {}
         /\ Range(a) \cup Range(b) = Range(s)
<1>1. Len(s) \in Nat /\ DOMAIN s = 1 .. Len(s) /\ k \in Nat
  BY LenProperties
<1>2. DOMAIN a = 1 .. k /\ \A i \in 1 .. k : a[i] = s[i]
  BY LenProperties DEF IsSplit
<1>3. DOMAIN b = 1 .. Len(s) - k /\ \A i \in 1 .. Len(s) - k : b[i] = s[k + i]
  BY LenProperties DEF IsSplit
<1>4. \A i, j \in 1 .. Len(s) : s[i] = s[j] => i = j
  BY <1>1 DEF IsInjective
<1>5. IsInjective(a)
  BY <1>1, <1>2, <1>4 DEF IsInjective
<1>6. IsInjective(b)
  <2>1. ASSUME NEW i \in 1 .. Len(s) - k, NEW j \in 1 .. Len(s) - k, b[i] = b[j]
        PROVE  i = j
    <3>1. k + i \in 1 .. Len(s) /\ k + j \in 1 .. Len(s) /\ s[k + i] = s[k + j]
      BY <1>1, <1>3, <2>1
    <3>2. k + i = k + j
      BY <1>4, <3>1
    <3> QED BY <1>1, <3>2
  <2> QED BY <1>3, <2>1 DEF IsInjective
<1>7. \A x : x \in Range(a) <=> \E i \in 1 .. k : x = s[i]
  BY <1>2 DEF Range
<1>8. \A x : x \in Range(b) <=> \E i \in k + 1 .. Len(s) : x = s[i]
  <2>1. ASSUME NEW i \in 1 .. Len(s) - k
        PROVE  k + i \in k + 1 .. Len(s) /\ b[i] = s[k + i]
    BY <1>1, <1>3
  <2>2. ASSUME NEW i \in k + 1 .. Len(s)
        PROVE  i - k \in 1 .. Len(s) - k /\ b[i - k] = s[i]
    <3>1. i - k \in 1 .. Len(s) - k /\ k + (i - k) = i
      BY <1>1
    <3> QED BY <1>3, <3>1
  <2>3. \A x : x \in Range(b) <=> \E i \in 1 .. Len(s) - k : x = b[i]
    BY <1>3 DEF Range
  <2>4. ASSUME NEW x, NEW i \in 1 .. Len(s) - k, x = b[i]
        PROVE  \E j \in k + 1 .. Len(s) : x = s[j]
    BY <2>1, <2>4
  <2>5. ASSUME NEW x, NEW i \in k + 1 .. Len(s), x = s[i]
        PROVE  \E j \in 1 .. Len(s) - k : x = b[j]
    BY <2>2, <2>5
  <2> QED BY <2>3, <2>4, <2>5, Zenon
<1>9. Range(a) \cap Range(b) = {}
  <2>1. ASSUME NEW i \in 1 .. k, NEW j \in k + 1 .. Len(s) PROVE s[i] # s[j]
    BY <1>1, <1>4
  <2> QED BY <1>7, <1>8, <2>1
<1>10. Range(a) \cup Range(b) = Range(s)
  <2>1. \A i \in 1 .. Len(s) : i \in 1 .. k \/ i \in k + 1 .. Len(s)
    BY <1>1
  <2>2. /\ \A i \in 1 .. k : i \in 1 .. Len(s)
        /\ \A i \in k + 1 .. Len(s) : i \in 1 .. Len(s)
    BY <1>1
  <2>3. \A x : x \in Range(s) <=> \E i \in 1 .. Len(s) : x = s[i]
    BY <1>1 DEF Range
  <2> QED BY <1>7, <1>8, <2>1, <2>2, <2>3
<1> QED BY <1>5, <1>6, <1>9, <1>10

LEMMA TailOnce ==
  ASSUME NEW S, NEW s \in Seq(S), IsInjective(s), s # <<>>
  PROVE  /\ Head(s) \in S /\ Tail(s) \in Seq(S)
         /\ Head(s) \in Range(s) /\ Range(Tail(s)) = Range(s) \ {Head(s)}
         /\ IsInjective(Tail(s))
<1> DEFINE r == Tail(s)
<1>1. /\ Len(s) \in Nat \ {0} /\ DOMAIN s = 1 .. Len(s)
      /\ Head(s) = s[1] /\ Head(s) \in S
      /\ r \in Seq(S) /\ Len(r) = Len(s) - 1 /\ DOMAIN r = 1 .. Len(s) - 1
      /\ \A i \in 1 .. Len(s) - 1 : r[i] = s[i + 1]
  <2>1. Len(s) \in Nat /\ Len(s) # 0 /\ DOMAIN s = 1 .. Len(s)
    BY LenProperties, EmptySeq
  <2>2. r \in Seq(S) /\ Len(r) = Len(s) - 1 /\ Head(s) = s[1] /\ Head(s) \in S
    BY HeadTailProperties
  <2>3. \A i \in 1 .. Len(s) - 1 : r[i] = s[i + 1]
    BY <2>1, HeadTailProperties
  <2> HIDE DEF r
  <2>4. DOMAIN r = 1 .. Len(s) - 1
    BY <2>1, <2>2, LenProperties
  <2> QED BY <2>1, <2>2, <2>3, <2>4
<1> HIDE DEF r
<1>2. \A i, j \in 1 .. Len(s) : s[i] = s[j] => i = j
  BY <1>1 DEF IsInjective
<1>3. 1 \in 1 .. Len(s) /\ \A i \in 1 .. Len(s) - 1 : i + 1 \in 1 .. Len(s) /\ i + 1 # 1
  BY <1>1
<1>4. \A i \in 1 .. Len(s) : i = 1 \/ (i - 1 \in 1 .. Len(s) - 1 /\ (i - 1) + 1 = i)
  BY <1>1
<1>5. Range(r) = Range(s) \ {Head(s)}
  <2>1. \A x : x \in Range(s) <=> \E i \in 1 .. Len(s) : x = s[i]
    BY <1>1 DEF Range
  <2>2. \A x : x \in Range(r) <=> \E i \in 1 .. Len(s) - 1 : x = s[i + 1]
    BY <1>1 DEF Range
  <2>3. ASSUME NEW x \in Range(r) PROVE x \in Range(s) /\ x # s[1]
    BY <1>2, <1>3, <2>1, <2>2
  <2>4. ASSUME NEW x \in Range(s), x # s[1] PROVE x \in Range(r)
    <3>1. PICK i \in 1 .. Len(s) : x = s[i]
      BY <2>1
    <3>2. i - 1 \in 1 .. Len(s) - 1 /\ x = s[(i - 1) + 1]
      BY <1>4, <2>4, <3>1
    <3> QED BY <2>2, <3>2
  <2> QED BY <1>1, <2>3, <2>4
<1>6. IsInjective(r)
  <2>1. ASSUME NEW i \in 1 .. Len(s) - 1, NEW j \in 1 .. Len(s) - 1, r[i] = r[j]
        PROVE  i = j
    <3>1. i + 1 = j + 1
      BY <1>1, <1>2, <1>3, <2>1
    <3> QED BY <1>1, <3>1
  <2> QED BY <1>1, <2>1 DEF IsInjective
<1> QED BY <1>1, <1>3, <1>5, <1>6 DEF r, Range

-----------------------------------------------------------------------------
(* The multiplexer: its steps. *)

(* A batch that somebody refers to stays as it is. *)
LEMMA FreeKeeps ==
  ASSUME TypeOK, FreeBatches
  PROVE  /\ planes' \in [Batches -> Seq(Clients)]
         /\ computed' \in [Batches -> BOOLEAN]
         /\ \A b \in Batches : b \in Range(parent') \cup Range(batch') =>
              planes'[b] = planes[b] /\ (computed'[b] <=> computed[b])
<1>1. <<>> \in Seq(Clients)
  OBVIOUS
<1>2. planes \in [Batches -> Seq(Clients)]
  BY DEF TypeOK
<1> QED BY <1>1, <1>2 DEF FreeBatches

(* Wakeups are still enough when no thread fell asleep, none left the      *)
(* lock, and the queue is no longer than before.                           *)
Locked == {w \in Workers : workerPc[w] = "lock"}

LEMMA LockedFacts ==
  /\ IsFiniteSet(Locked) /\ Cardinality(Locked) \in Nat
  /\ IsFiniteSet(Locked') /\ Cardinality(Locked') \in Nat
<1>1. Locked \subseteq Workers /\ Locked' \subseteq Workers
  BY DEF Locked
<1> QED BY <1>1, WorkerAssumption, FS_Subset, FS_CardinalityType

LEMMA StillAwake ==
  ASSUME TypeOK, TypeOK', NoLostWakeup, Asleep' \subseteq Asleep,
         Locked \subseteq Locked', Len(queue') <= Len(queue)
  PROVE  NoLostWakeup'
<1>1. Cardinality(Locked) <= Cardinality(Locked')
  BY LockedFacts, FS_Subset
<1>2. Len(queue) \in Nat /\ Len(queue') \in Nat
  BY DEF TypeOK
<1>3. Asleep' # {} => Len(queue) <= Cardinality(Locked)
  BY DEF NoLostWakeup, Locked
<1>4. Asleep' # {} => Len(queue') <= Cardinality(Locked')
  BY <1>1, <1>2, <1>3, LockedFacts
<1> QED BY <1>4 DEF NoLostWakeup, Locked

LEMMA EnqueueStep ==
  ASSUME MuxInv, NEW c \in Clients, Enqueue(c)
  PROVE  MuxInv'
<1> USE DEF MuxInv
<1>1. PICK s \in Sizes : size' = [size EXCEPT ![c] = s]
  BY DEF Enqueue
<1>2. /\ clientPc[c] = "idle" /\ ~abort /\ queue' = Append(queue, c)
      /\ clientPc' = [clientPc EXCEPT ![c] = "waiting"]
      /\ NotifyOne
      /\ UNCHANGED <<abort, destructor, batch, children, ready, parent, idx,
                     batchVars>>
  BY DEF Enqueue
<1>3. UNCHANGED <<planes, computed>>
  BY <1>2 DEF batchVars
<1>4. \/ Asleep = {} /\ workerPc' = workerPc
      \/ \E w \in Asleep : workerPc' = [workerPc EXCEPT ![w] = "lock"]
  BY <1>2 DEF NotifyOne
<1>5. \A w \in Workers :
        \/ workerPc'[w] = workerPc[w]
        \/ workerPc[w] = "asleep" /\ workerPc'[w] = "lock"
  BY <1>4 DEF TypeOK, Asleep
<1>6. ~ready[c] /\ parent[c] = NoBatch
  BY <1>2 DEF ClientInv
<1>7. /\ c \notin Range(queue)
      /\ \A w \in Workers : c \notin Range(children[w])
  BY <1>2 DEF EachInOnePlace
<1>8. Range(queue') = Range(queue) \cup {c} /\ IsInjective(queue')
  BY <1>2, <1>7, AppendOnce DEF EachInOnePlace, TypeOK
<1>9. TypeOK'
  <2>1. queue' \in Seq(Clients) /\ s \in Nat
    BY <1>2, SizeAssumption DEF TypeOK
  <2>2. workerPc' \in [Workers -> {"lock", "asleep", "compute", "notify", "exited"}]
    BY <1>4 DEF TypeOK, Asleep
  <2> QED BY <1>1, <1>2, <1>3, <2>1, <2>2 DEF TypeOK
<1>10. WorkerInv'
  BY <1>2, <1>3, <1>5 DEF WorkerInv
<1>11. ClientInv'
  <2>1. ASSUME NEW d \in Clients, parent[d] # NoBatch PROVE Mine(d)'
    BY <1>1, <1>2, <1>3, <1>6, <2>1 DEF ClientInv, Mine, TypeOK
  <2> QED BY <1>2, <1>3, <1>6, <1>7, <1>8, <2>1 DEF ClientInv, TypeOK
<1>12. EachInOnePlace'
  BY <1>2, <1>6, <1>7, <1>8 DEF EachInOnePlace, TypeOK
<1>13. BatchBounded'
  BY <1>2, <1>3, <1>5 DEF BatchBounded
<1>14. NoLostWakeup'
  <2>1. CASE Asleep = {} /\ workerPc' = workerPc
    BY <2>1 DEF NoLostWakeup, Asleep
  <2>2. ASSUME NEW w \in Asleep, workerPc' = [workerPc EXCEPT ![w] = "lock"]
        PROVE  NoLostWakeup'
    <3>1. w \in Workers /\ w \notin Locked /\ Locked' = Locked \cup {w}
      BY <2>2 DEF Asleep, Locked, TypeOK
    <3>2. Cardinality(Locked') = Cardinality(Locked) + 1
      BY <3>1, LockedFacts, FS_AddElement
    <3>3. Len(queue') = Len(queue) + 1 /\ Len(queue) \in Nat
      BY <1>2 DEF TypeOK
    <3>4. Len(queue) <= Cardinality(Locked)
      BY DEF NoLostWakeup, Locked
    <3>5. Len(queue') <= Cardinality(Locked')
      BY <3>2, <3>3, <3>4, LockedFacts
    <3> QED BY <3>5 DEF NoLostWakeup, Locked
  <2> QED BY <1>4, <2>1, <2>2
<1> QED BY <1>9, <1>10, <1>11, <1>12, <1>13, <1>14

LEMMA ComputeReturnsStep ==
  ASSUME MuxInv, NEW c \in Clients, ComputeReturns(c)
  PROVE  MuxInv'
<1> USE DEF MuxInv
<1>1. /\ clientPc[c] = "waiting" /\ ready[c]
      /\ clientPc' = [clientPc EXCEPT ![c] = "reading"]
      /\ UNCHANGED <<queue, abort, destructor, workerPc, batch, children, size,
                     ready, parent, idx, planes, computed>>
  BY DEF ComputeReturns, workerVars, batchVars
<1>2. TypeOK'
  BY <1>1 DEF TypeOK
<1>3. WorkerInv' /\ BatchBounded'
  BY <1>1 DEF WorkerInv, BatchBounded
<1>4. ClientInv'
  <2>1. \A d \in Clients : Mine(d) => Mine(d)'
    BY <1>1 DEF Mine
  <2> QED BY <1>1, <2>1 DEF ClientInv, TypeOK
<1>5. EachInOnePlace'
  BY <1>1 DEF EachInOnePlace, TypeOK
<1>6. NoLostWakeup'
  BY <1>1 DEF NoLostWakeup, Asleep
<1> QED BY <1>2, <1>3, <1>4, <1>5, <1>6

LEMMA ReleaseStep ==
  ASSUME MuxInv, NEW c \in Clients, Release(c)
  PROVE  MuxInv'
<1> USE DEF MuxInv
<1>1. /\ clientPc[c] = "reading"
      /\ clientPc' = [clientPc EXCEPT ![c] = "idle"]
      /\ parent' = [parent EXCEPT ![c] = NoBatch]
      /\ size' = [size EXCEPT ![c] = 0]
      /\ ready' = [ready EXCEPT ![c] = FALSE]
      /\ idx' = [idx EXCEPT ![c] = 0]
      /\ UNCHANGED <<queue, abort, destructor, workerPc, batch, children>>
      /\ FreeBatches
  BY DEF Release, workerVars
<1>2. TypeOK'
  BY <1>1, FreeKeeps DEF TypeOK
<1>3. \A d \in Clients : d # c /\ parent[d] # NoBatch =>
        /\ parent[d] \in Batches /\ planes'[parent[d]] = planes[parent[d]]
        /\ computed'[parent[d]] <=> computed[parent[d]]
  <2>1. \A d \in Clients : d # c => parent[d] \in Range(parent')
    BY <1>1 DEF TypeOK, Range
  <2>2. \A d \in Clients : parent[d] # NoBatch => parent[d] \in Batches
    BY DEF TypeOK
  <2> QED BY <1>1, <2>1, <2>2, FreeKeeps
<1>4. \A w \in Workers : batch[w] # NoBatch =>
        /\ batch[w] \in Batches /\ planes'[batch[w]] = planes[batch[w]]
        /\ computed'[batch[w]] <=> computed[batch[w]]
  <2>1. \A w \in Workers : batch[w] \in Range(batch')
    BY <1>1 DEF TypeOK, Range
  <2>2. \A w \in Workers : batch[w] # NoBatch => batch[w] \in Batches
    BY DEF TypeOK
  <2> QED BY <1>1, <2>1, <2>2, FreeKeeps
<1>5. /\ ready[c]
      /\ c \notin Range(queue) /\ \A w \in Workers : c \notin Range(children[w])
  BY <1>1 DEF ClientInv, EachInOnePlace
<1>6. WorkerInv'
  BY <1>1, <1>4 DEF WorkerInv
<1>7. BatchBounded'
  BY <1>1, <1>4 DEF BatchBounded, WorkerInv
<1>8. ClientInv'
  <2>1. ASSUME NEW d \in Clients, d # c, parent[d] # NoBatch PROVE Mine(d)'
    BY <1>1, <1>3, <2>1 DEF ClientInv, Mine, TypeOK
  <2>2. /\ ~ready'[c] /\ parent'[c] = NoBatch /\ clientPc'[c] = "idle"
        /\ \A d \in Clients : d # c => /\ ready'[d] = ready[d]
                                       /\ parent'[d] = parent[d]
                                       /\ clientPc'[d] = clientPc[d]
    BY <1>1 DEF TypeOK
  <2> QED BY <1>1, <1>3, <1>5, <2>1, <2>2 DEF ClientInv
<1>9. EachInOnePlace'
  BY <1>1, <1>5 DEF EachInOnePlace, TypeOK
<1>10. NoLostWakeup'
  BY <1>1 DEF NoLostWakeup, Asleep
<1> QED BY <1>2, <1>6, <1>7, <1>8, <1>9, <1>10

LEMMA GatherStep ==
  ASSUME MuxInv, NEW w \in Workers, Gather(w)
  PROVE  MuxInv'
<1> USE DEF MuxInv
<1> DEFINE k == Max(Taken(w))
           taken == SubSeq(queue, 1, k)
           position(c) == CHOOSE i \in 1 .. k : queue[i] = c
<1>1. PICK b \in Unused :
        /\ children' = [children EXCEPT ![w] = taken]
        /\ queue' = SubSeq(queue, k + 1, Len(queue))
        /\ parent' = [c \in Clients |-> IF c \in Range(taken) THEN b ELSE parent[c]]
        /\ idx' = [c \in Clients |-> IF c \in Range(taken)
                                     THEN IndexOf(position(c)) ELSE idx[c]]
        /\ batch' = [batch EXCEPT ![w] = b]
        /\ planes' = [planes EXCEPT ![b] = Populated[k]]
  BY DEF Gather
<1>2. /\ workerPc[w] = "lock" /\ ~abort /\ queue # <<>>
      /\ workerPc' = [workerPc EXCEPT ![w] = "compute"]
      /\ UNCHANGED <<computed, abort, destructor, clientPc, size, ready>>
  BY DEF Gather
<1>3. /\ k \in 1 .. Len(queue) /\ Len(queue) \in Nat
      /\ k = 1 \/ Len(Populated[k]) <= MaxBatch[w]
  BY <1>2, TakenFacts DEF TypeOK
<1> HIDE DEF k
<1>4. /\ taken \in Seq(Clients) /\ queue' \in Seq(Clients)
      /\ Len(taken) = k /\ Len(queue') = Len(queue) - k
      /\ IsInjective(taken) /\ IsInjective(queue')
      /\ Range(taken) \cap Range(queue') = {}
      /\ Range(taken) \cup Range(queue') = Range(queue)
      /\ \A i \in 1 .. k : taken[i] = queue[i]
  <2>1. queue \in Seq(Clients) /\ IsInjective(queue)
    BY DEF TypeOK, EachInOnePlace
  <2>2. IsSplit(Clients, queue, k, taken, queue')
    BY <1>1, <1>3, <2>1, SplitFacts
  <2> HIDE DEF taken
  <2>3. /\ IsInjective(taken) /\ IsInjective(queue')
        /\ Range(taken) \cap Range(queue') = {}
        /\ Range(taken) \cup Range(queue') = Range(queue)
    BY <1>3, <2>1, <2>2, SplitOnce
  <2> QED BY <2>2, <2>3 DEF IsSplit
<1>5. /\ b \in Batches /\ b # NoBatch
      /\ \A c \in Clients : parent[c] # b
      /\ \A v \in Workers : batch[v] # b
  BY BatchAssumption DEF Unused, Range, TypeOK
<1>6. \A c \in Range(taken) : /\ c \in Clients /\ c \in Range(queue)
                              /\ position(c) \in 1 .. k /\ queue[position(c)] = c
  <2>1. DOMAIN taken = 1 .. k
    BY <1>4, LenProperties
  <2> SUFFICES ASSUME NEW c \in Range(taken)
               PROVE  /\ c \in Clients /\ c \in Range(queue)
                      /\ position(c) \in 1 .. k /\ queue[position(c)] = c
    OBVIOUS
  <2>2. \E i \in 1 .. k : queue[i] = c
    BY <1>4, <2>1 DEF Range
  <2>3. c \in Range(queue)
    BY <1>4
  <2>4. c \in Clients
    BY <2>3 DEF Range, TypeOK
  <2> QED BY <2>2, <2>3, <2>4
<1> HIDE DEF taken, position
<1>7. /\ Populated[k] \in Seq(Clients)
      /\ \A i \in 1 .. k :
           /\ IndexOf(i) \in Nat
           /\ \A s \in 1 .. size[queue[i]] :
                /\ IndexOf(i) + s \in DOMAIN Populated[k]
                /\ Populated[k][IndexOf(i) + s] = queue[i]
  <2>1. k \in 0 .. Len(queue)
    BY <1>3
  <2> QED BY <1>3, <2>1, PopulatedFacts
<1>8. \A c \in Clients :
        IF c \in Range(taken) THEN parent'[c] = b /\ idx'[c] = IndexOf(position(c))
        ELSE parent'[c] = parent[c] /\ idx'[c] = idx[c]
  BY <1>1
<1>9. /\ planes'[b] = Populated[k]
      /\ \A a \in Batches : a # b => planes'[a] = planes[a]
  BY <1>1, <1>5 DEF TypeOK
<1>10. TypeOK'
  <2>1. /\ children' \in [Workers -> Seq(Clients)]
        /\ batch' \in [Workers -> Batches \cup {NoBatch}]
        /\ planes' \in [Batches -> Seq(Clients)]
    BY <1>1, <1>4, <1>5, <1>7 DEF TypeOK
  <2>2. parent' \in [Clients -> Batches \cup {NoBatch}]
    BY <1>1, <1>5 DEF TypeOK
  <2>3. idx' \in [Clients -> Nat]
    <3>1. \A c \in Clients : idx'[c] \in Nat
      <4>1. \A c \in Clients : idx[c] \in Nat
        BY DEF TypeOK
      <4>2. \A c \in Range(taken) : IndexOf(position(c)) \in Nat
        BY <1>6, <1>7
      <4> QED BY <1>8, <4>1, <4>2
    <3> QED BY <1>1, <3>1
  <2> QED BY <1>2, <1>4, <2>1, <2>2, <2>3 DEF TypeOK
<1>11. WorkerInv'
  BY <1>1, <1>2, <1>5 DEF WorkerInv, TypeOK
<1>12. children[w] = <<>> /\ Range(children[w]) = {}
  BY <1>2 DEF WorkerInv, Range
<1>13. /\ Range(children'[w]) = Range(taken)
       /\ \A v \in Workers : v # w => children'[v] = children[v]
       /\ batch'[w] = b /\ \A v \in Workers : v # w => batch'[v] = batch[v]
  BY <1>1 DEF TypeOK
<1>14. ClientInv'
  <2>1. ASSUME NEW c \in Clients, parent'[c] # NoBatch PROVE Mine(c)'
    <3>1. CASE c \in Range(taken)
      <4>1. ASSUME NEW s \in 1 .. size[c]
            PROVE  /\ idx'[c] + s \in DOMAIN Populated[k]
                   /\ Populated[k][idx'[c] + s] = c
        BY <1>6, <1>7, <1>8, <3>1
      <4> QED BY <1>2, <1>8, <1>9, <3>1, <4>1 DEF Mine
    <3>2. CASE c \notin Range(taken)
      <4>1. parent'[c] = parent[c] /\ parent[c] \in Batches /\ parent[c] # b /\ Mine(c)
        BY <1>5, <1>8, <2>1, <3>2 DEF ClientInv, TypeOK
      <4>2. planes'[parent[c]] = planes[parent[c]]
        BY <1>9, <4>1
      <4> QED BY <1>2, <1>8, <3>2, <4>1, <4>2 DEF Mine
    <3> QED BY <3>1, <3>2
  <2>2. ASSUME NEW c \in Clients, c \in Range(taken)
        PROVE  clientPc[c] = "waiting" /\ ~ready[c]
               /\ \A v \in Workers : c \notin Range(children[v])
    BY <1>6, <2>2 DEF EachInOnePlace
  <2>3. ASSUME NEW c \in Clients, NEW v \in Workers, c \in Range(children'[v])
        PROVE  parent'[c] = batch'[v]
    <3>1. CASE v = w
      BY <1>8, <1>13, <2>3, <3>1
    <3>2. CASE v # w
      <4>1. c \in Range(children[v]) /\ c \notin Range(taken)
        BY <1>13, <2>2, <2>3, <3>2
      <4> QED BY <1>8, <1>13, <3>2, <4>1 DEF ClientInv
    <3> QED BY <3>1, <3>2
  <2>4. \A c \in Clients : c \in Range(queue') =>
          c \in Range(queue) /\ c \notin Range(taken)
    BY <1>4
  <2> QED BY <1>2, <1>8, <2>1, <2>2, <2>3, <2>4 DEF ClientInv
<1>15. EachInOnePlace'
  <2>1. \A v \in Workers : v # w => Range(queue) \cap Range(children[v]) = {}
    BY DEF EachInOnePlace
  <2>2. \A v \in Workers : IsInjective(children'[v])
    <3>1. IsInjective(children'[w])
      <4>1. IsInjective(taken)
        BY <1>4
      <4>2. children'[w] = taken
        BY <1>1 DEF TypeOK
      <4> QED BY <4>1, <4>2
    <3>2. \A v \in Workers \ {w} : IsInjective(children[v])
      BY DEF EachInOnePlace
    <3> QED BY <1>13, <3>1, <3>2
  <2>3. \A v \in Workers : Range(queue') \cap Range(children'[v]) = {}
    BY <1>4, <1>13, <2>1
  <2>4. \A u, v \in Workers : u # v => Range(children'[u]) \cap Range(children'[v]) = {}
    BY <1>4, <1>13, <2>1 DEF EachInOnePlace
  <2>5. ASSUME NEW c \in Clients
        PROVE  (c \in Range(queue') \/ \E v \in Workers : c \in Range(children'[v]))
                 <=> (c \in Range(queue) \/ \E v \in Workers : c \in Range(children[v]))
    BY <1>4, <1>12, <1>13
  <2> QED BY <1>2, <1>4, <2>2, <2>3, <2>4, <2>5 DEF EachInOnePlace
<1>16. BatchBounded'
  <2>1. Len(planes'[b]) <= MaxBatch[w] \/ Len(children'[w]) = 1
    BY <1>1, <1>3, <1>4, <1>9 DEF TypeOK
  <2>2. ASSUME NEW v \in Workers, v # w, workerPc'[v] = "compute"
        PROVE  Len(planes'[batch'[v]]) <= MaxBatch[v] \/ Len(children'[v]) = 1
    <3>1. workerPc[v] = "compute" /\ batch[v] \in Batches /\ batch[v] # b
      BY <1>2, <1>5, <2>2 DEF WorkerInv, TypeOK
    <3> QED BY <1>9, <1>13, <2>2, <3>1 DEF BatchBounded
  <2> QED BY <1>13, <2>1, <2>2 DEF BatchBounded
<1>17. NoLostWakeup'
  <2>1. w \in Locked /\ Locked' = Locked \ {w} /\ Asleep' = Asleep
    BY <1>2 DEF Locked, Asleep, TypeOK
  <2>2. Cardinality(Locked') = Cardinality(Locked) - 1
    BY <2>1, LockedFacts, FS_RemoveElement
  <2>3. Len(queue') <= Len(queue) - 1
    BY <1>3, <1>4
  <2>4. Asleep # {} => Len(queue) <= Cardinality(Locked)
    BY DEF NoLostWakeup, Locked
  <2>5. Len(queue') \in Nat
    BY <1>4
  <2>6. Asleep' # {} => Len(queue') <= Cardinality(Locked')
    BY <1>3, <2>1, <2>2, <2>3, <2>4, <2>5, LockedFacts
  <2> QED BY <2>6 DEF NoLostWakeup, Locked
<1> QED BY <1>10, <1>11, <1>14, <1>15, <1>16, <1>17

(* The steps of a worker that change nothing but its own place. *)
LEMMA PlaceStep ==
  ASSUME MuxInv, NEW w \in Workers, FallAsleep(w) \/ SpuriousWake(w) \/ Exit(w)
  PROVE  MuxInv'
<1> USE DEF MuxInv
<1>1. PICK pc \in {"asleep", "lock", "exited"} :
        workerPc' = [workerPc EXCEPT ![w] = pc]
  BY DEF FallAsleep, SpuriousWake, Exit
<1>2. /\ workerPc[w] \notin {"compute", "notify"}
      /\ workerPc'[w] \notin {"compute", "notify"}
      /\ abort => workerPc'[w] # "asleep"
      /\ UNCHANGED <<queue, abort, destructor, batch, children, clientPc, size,
                     ready, parent, idx, planes, computed>>
  BY <1>1 DEF FallAsleep, SpuriousWake, Exit, TypeOK, clientVars, batchVars
<1>3. TypeOK'
  BY <1>1, <1>2 DEF TypeOK
<1>4. \A v \in Workers : v # w => workerPc'[v] = workerPc[v]
  BY <1>1 DEF TypeOK
<1>5. WorkerInv'
  BY <1>2, <1>4 DEF WorkerInv
<1>6. ClientInv'
  BY <1>2 DEF ClientInv, Mine
<1>7. EachInOnePlace'
  BY <1>2 DEF EachInOnePlace
<1>8. BatchBounded'
  BY <1>2, <1>4 DEF BatchBounded
<1>9. NoLostWakeup'
  <2>1. CASE FallAsleep(w)
    <3>1. Len(queue') = 0
      BY <2>1 DEF FallAsleep
    <3> QED BY <3>1, LockedFacts DEF NoLostWakeup, Locked
  <2>2. CASE SpuriousWake(w)
    <3>1. Asleep' \subseteq Asleep /\ Locked \subseteq Locked'
      BY <2>2 DEF SpuriousWake, Asleep, Locked, TypeOK
    <3>2. Len(queue') <= Len(queue)
      BY <1>2 DEF TypeOK
    <3> QED BY <1>3, <3>1, <3>2, StillAwake
  <2>3. CASE Exit(w)
    <3>1. Asleep' = {}
      BY <2>3, <1>2, <1>4 DEF Exit, WorkerInv, Asleep
    <3> QED BY <3>1 DEF NoLostWakeup
  <2> QED BY <2>1, <2>2, <2>3
<1> QED BY <1>3, <1>5, <1>6, <1>7, <1>8, <1>9

LEMMA ComputeStep ==
  ASSUME MuxInv, NEW w \in Workers, Compute(w)
  PROVE  MuxInv'
<1> USE DEF MuxInv
<1>1. /\ workerPc[w] = "compute"
      /\ computed' = [computed EXCEPT ![batch[w]] = TRUE]
      /\ workerPc' = [workerPc EXCEPT ![w] = "notify"]
      /\ UNCHANGED <<queue, abort, destructor, batch, children, clientPc, size,
                     ready, parent, idx, planes>>
  BY DEF Compute, clientVars
<1>2. batch[w] \in Batches
  BY <1>1 DEF WorkerInv, TypeOK
<1>3. TypeOK'
  BY <1>1 DEF TypeOK
<1>4. computed'[batch[w]] /\ \A b \in Batches : computed[b] => computed'[b]
  BY <1>1, <1>2 DEF TypeOK
<1>5. /\ \A v \in Workers : v # w => workerPc'[v] = workerPc[v]
      /\ workerPc'[w] = "notify"
  BY <1>1 DEF TypeOK
<1>6. WorkerInv'
  <2>1. \A v \in Workers : batch[v] # NoBatch => batch[v] \in Batches
    BY DEF TypeOK
  <2> QED BY <1>1, <1>4, <1>5, <2>1 DEF WorkerInv
<1>7. ClientInv'
  <2>1. \A c \in Clients : parent[c] # NoBatch => parent[c] \in Batches
    BY DEF TypeOK
  <2> QED BY <1>1, <1>4, <2>1 DEF ClientInv, Mine
<1>8. EachInOnePlace'
  BY <1>1 DEF EachInOnePlace
<1>9. BatchBounded'
  BY <1>1, <1>5 DEF BatchBounded
<1>10. NoLostWakeup'
  <2>1. Asleep' \subseteq Asleep /\ Locked \subseteq Locked'
    BY <1>1, <1>5 DEF Asleep, Locked
  <2>2. Len(queue') <= Len(queue)
    BY <1>1 DEF TypeOK
  <2> QED BY <1>3, <2>1, <2>2, StillAwake
<1> QED BY <1>3, <1>6, <1>7, <1>8, <1>9, <1>10

LEMMA NotifyReadyStep ==
  ASSUME MuxInv, NEW w \in Workers, NotifyReady(w)
  PROVE  MuxInv'
<1> USE DEF MuxInv
<1> DEFINE c == Head(children[w])
<1>1. /\ workerPc[w] = "notify" /\ children[w] # <<>>
      /\ ready' = [ready EXCEPT ![c] = TRUE]
      /\ children' = [children EXCEPT ![w] = Tail(children[w])]
      /\ UNCHANGED <<queue, abort, destructor, workerPc, batch, clientPc, size,
                     parent, idx, planes, computed>>
  BY DEF NotifyReady, batchVars
<1>2. /\ c \in Clients /\ Tail(children[w]) \in Seq(Clients)
      /\ c \in Range(children[w])
      /\ Range(Tail(children[w])) = Range(children[w]) \ {c}
      /\ IsInjective(Tail(children[w]))
  BY <1>1, TailOnce DEF TypeOK, EachInOnePlace
<1> HIDE DEF c
<1>3. TypeOK'
  BY <1>1, <1>2 DEF TypeOK
<1>4. /\ Range(children'[w]) = Range(children[w]) \ {c}
      /\ IsInjective(children'[w])
      /\ \A v \in Workers : v # w => children'[v] = children[v]
  BY <1>1, <1>2 DEF TypeOK
<1>5. ready'[c] /\ \A d \in Clients : d # c => (ready'[d] <=> ready[d])
  BY <1>1, <1>2 DEF TypeOK
<1>6. /\ clientPc[c] = "waiting" /\ ~ready[c] /\ c \notin Range(queue)
      /\ \A v \in Workers : v # w => c \notin Range(children[v])
  BY <1>2 DEF EachInOnePlace
<1>7. parent[c] # NoBatch /\ computed[parent[c]]
  BY <1>1, <1>2 DEF ClientInv, WorkerInv
<1>8. WorkerInv'
  BY <1>1, <1>4 DEF WorkerInv
<1>9. ClientInv'
  <2>1. \A d \in Clients : Mine(d) => Mine(d)'
    BY <1>1 DEF Mine
  <2>2. \A d \in Clients : \A v \in Workers :
          d \in Range(children'[v]) => d \in Range(children[v])
    BY <1>4
  <2> QED BY <1>1, <1>5, <1>6, <1>7, <2>1, <2>2 DEF ClientInv
<1>10. EachInOnePlace'
  <2>1. \A v \in Workers : /\ IsInjective(children'[v])
                           /\ Range(queue') \cap Range(children'[v]) = {}
    BY <1>1, <1>4 DEF EachInOnePlace
  <2>2. \A u, v \in Workers : u # v => Range(children'[u]) \cap Range(children'[v]) = {}
    BY <1>4 DEF EachInOnePlace
  <2>3. ASSUME NEW d \in Clients
        PROVE  clientPc'[d] = "waiting" /\ ~ready'[d]
                 <=> d \in Range(queue') \/ \E v \in Workers : d \in Range(children'[v])
    <3>1. CASE d = c
      BY <1>1, <1>4, <1>5, <1>6, <3>1
    <3>2. CASE d # c
      <4>1. \A v \in Workers : d \in Range(children'[v]) <=> d \in Range(children[v])
        BY <1>4, <3>2
      <4> QED BY <1>1, <1>5, <3>2, <4>1 DEF EachInOnePlace
    <3> QED BY <3>1, <3>2
  <2> QED BY <1>1, <2>1, <2>2, <2>3 DEF EachInOnePlace
<1>11. BatchBounded'
  BY <1>1, <1>4 DEF BatchBounded
<1>12. NoLostWakeup'
  BY <1>1 DEF NoLostWakeup, Asleep
<1> QED BY <1>3, <1>8, <1>9, <1>10, <1>11, <1>12

LEMMA BatchDoneStep ==
  ASSUME MuxInv, NEW w \in Workers, BatchDone(w)
  PROVE  MuxInv'
<1> USE DEF MuxInv
<1>1. /\ workerPc[w] = "notify" /\ children[w] = <<>>
      /\ batch' = [batch EXCEPT ![w] = NoBatch]
      /\ workerPc' = [workerPc EXCEPT ![w] = "lock"]
      /\ UNCHANGED <<queue, abort, destructor, children, clientPc, size, ready,
                     parent, idx>>
      /\ FreeBatches
  BY DEF BatchDone, clientVars
<1>2. TypeOK'
  BY <1>1, FreeKeeps DEF TypeOK
<1>3. /\ workerPc'[w] = "lock" /\ batch'[w] = NoBatch
      /\ \A v \in Workers : v # w => workerPc'[v] = workerPc[v] /\ batch'[v] = batch[v]
  BY <1>1 DEF TypeOK
<1>4. \A c \in Clients : parent[c] # NoBatch =>
        /\ planes'[parent[c]] = planes[parent[c]]
        /\ computed'[parent[c]] <=> computed[parent[c]]
  <2>1. \A c \in Clients : parent[c] \in Range(parent')
    BY <1>1 DEF TypeOK, Range
  <2>2. \A c \in Clients : parent[c] # NoBatch => parent[c] \in Batches
    BY DEF TypeOK
  <2> QED BY <1>1, <2>1, <2>2, FreeKeeps
<1>5. \A v \in Workers : v # w /\ batch[v] # NoBatch =>
        /\ planes'[batch[v]] = planes[batch[v]]
        /\ computed'[batch[v]] <=> computed[batch[v]]
  <2>1. \A v \in Workers : v # w => batch[v] \in Range(batch')
    BY <1>1 DEF TypeOK, Range
  <2>2. \A v \in Workers : batch[v] # NoBatch => batch[v] \in Batches
    BY DEF TypeOK
  <2> QED BY <1>1, <2>1, <2>2, FreeKeeps
<1>6. WorkerInv'
  BY <1>1, <1>3, <1>5 DEF WorkerInv
<1>7. Range(children[w]) = {}
  BY <1>1 DEF Range
<1>8. ClientInv'
  <2>1. \A c \in Clients : parent[c] # NoBatch /\ Mine(c) => Mine(c)'
    BY <1>1, <1>4 DEF Mine
  <2> QED BY <1>1, <1>3, <1>4, <1>7, <2>1 DEF ClientInv
<1>9. EachInOnePlace'
  BY <1>1 DEF EachInOnePlace
<1>10. BatchBounded'
  BY <1>1, <1>3, <1>5 DEF BatchBounded, WorkerInv
<1>11. NoLostWakeup'
  <2>1. Asleep' \subseteq Asleep /\ Locked \subseteq Locked'
    BY <1>1, <1>3 DEF Asleep, Locked
  <2>2. Len(queue') <= Len(queue)
    BY <1>1 DEF TypeOK
  <2> QED BY <1>2, <2>1, <2>2, StillAwake
<1> QED BY <1>2, <1>6, <1>8, <1>9, <1>10, <1>11

LEMMA AbortStep ==
  ASSUME MuxInv, Abort
  PROVE  MuxInv'
<1> USE DEF MuxInv
<1>1. /\ destructor = "none" /\ destructor' = "joining" /\ abort' = TRUE
      /\ workerPc' = [w \in Workers |-> IF w \in Asleep THEN "lock" ELSE workerPc[w]]
      /\ UNCHANGED <<queue, batch, children, clientPc, size, ready, parent, idx,
                     planes, computed>>
  BY DEF Abort, WokenByAbort, clientVars, batchVars
<1>2. TypeOK'
  BY <1>1 DEF TypeOK
<1>3. \A w \in Workers :
        /\ workerPc'[w] # "asleep"
        /\ \/ workerPc'[w] = workerPc[w]
           \/ workerPc[w] = "asleep" /\ workerPc'[w] = "lock"
  BY <1>1 DEF Asleep
<1>4. WorkerInv' /\ BatchBounded'
  BY <1>1, <1>3 DEF WorkerInv, BatchBounded
<1>5. ClientInv'
  BY <1>1 DEF ClientInv, Mine
<1>6. EachInOnePlace'
  BY <1>1 DEF EachInOnePlace
<1>7. NoLostWakeup'
  BY <1>3 DEF NoLostWakeup, Asleep
<1> QED BY <1>2, <1>4, <1>5, <1>6, <1>7

LEMMA UnstickStep ==
  ASSUME MuxInv, Unstick
  PROVE  MuxInv'
<1> USE DEF MuxInv
<1>1. /\ destructor' = "done" /\ queue' = <<>>
      /\ \A w \in Workers : workerPc[w] = "exited"
      /\ ready' = [c \in Clients |-> ready[c] \/ c \in Range(queue)]
      /\ UNCHANGED <<abort, workerPc, batch, children, clientPc, size, parent, idx,
                     planes, computed>>
  BY DEF Unstick, workerVars, batchVars
<1>2. TypeOK'
  <2>1. queue' \in Seq(Clients) /\ ready' \in [Clients -> BOOLEAN]
    BY <1>1
  <2> QED BY <1>1, <2>1 DEF TypeOK
<1>3. /\ Range(queue') = {} /\ IsInjective(queue')
      /\ \A w \in Workers : Range(children[w]) = {}
  BY <1>1 DEF WorkerInv, Range, IsInjective
<1>4. \A c \in Clients : ready'[c] <=> ready[c] \/ c \in Range(queue)
  BY <1>1
<1>5. WorkerInv' /\ BatchBounded'
  BY <1>1 DEF WorkerInv, BatchBounded
<1>6. ClientInv'
  <2>1. \A c \in Clients : c \in Range(queue) => clientPc[c] = "waiting"
    BY DEF EachInOnePlace
  <2> QED BY <1>1, <1>3, <1>4, <2>1 DEF ClientInv, Mine
<1>7. EachInOnePlace'
  BY <1>1, <1>3, <1>4 DEF EachInOnePlace
<1>8. NoLostWakeup'
  BY <1>1 DEF NoLostWakeup, Asleep
<1> QED BY <1>2, <1>5, <1>6, <1>7, <1>8

LEMMA MuxStays == MuxInv /\ UNCHANGED vars => MuxInv'
<1> SUFFICES ASSUME MuxInv, UNCHANGED vars PROVE MuxInv'
  OBVIOUS
<1>1. UNCHANGED <<queue, abort, destructor, workerPc, batch, children, clientPc,
                  size, ready, parent, idx, planes, computed>>
  BY DEF vars, workerVars, clientVars, batchVars
<1> QED BY <1>1 DEF MuxInv, TypeOK, WorkerInv, ClientInv, Mine, EachInOnePlace,
         BatchBounded, NoLostWakeup, Asleep

LEMMA MuxStep ==
  ASSUME MuxInv, Next
  PROVE  MuxInv'
<1>1. CASE \E c \in Clients : Client(c)
  BY <1>1, EnqueueStep, ComputeReturnsStep, ReleaseStep DEF Client
<1>2. CASE \E w \in Workers : Worker(w) \/ SpuriousWake(w)
  BY <1>2, GatherStep, PlaceStep, ComputeStep, NotifyReadyStep, BatchDoneStep
     DEF Worker
<1>3. CASE Abort \/ Unstick \/ Destroyed
  BY <1>3, AbortStep, UnstickStep, MuxStays DEF Destroyed
<1> QED BY <1>1, <1>2, <1>3 DEF Next

LEMMA MuxResults == MuxInv => ResultsAreMine
BY DEF MuxInv, ClientInv, Mine, ResultsAreMine

-----------------------------------------------------------------------------
(* The demultiplexer: arithmetic of the pieces. *)

LEMMA DivideFacts ==
  ASSUME NEW p \in Nat \ {0}, NEW n \in Nat, NEW s \in Nat, s < n
  PROVE  /\ s \div p \in Nat /\ s % p \in Nat
         /\ s = (s \div p) * p + (s % p) /\ s % p < p
         /\ (s \div p) + 1 <= (n + p - 1) \div p
<1>1. /\ s \div p \in Nat /\ s % p \in 0 .. p - 1
      /\ s = (s \div p) * p + (s % p)
  OBVIOUS
<1>2. (s \div p) + 1 <= (n + p - 1) \div p
  <2> DEFINE m == n + p - 1
             d == m \div p
             q == s \div p
  <2>1. m \in Nat /\ d \in Nat /\ m = d * p + (m % p) /\ m % p \in 0 .. p - 1
    OBVIOUS
  <2>2. ASSUME q >= d PROVE FALSE
    <3>1. q * p >= d * p
      BY <1>1, <2>1, <2>2
    <3> QED BY <1>1, <2>1, <3>1
  <2> QED BY <1>1, <2>1, <2>2
<1> QED BY <1>1, <1>2

LEMMA CeilPositive ==
  ASSUME NEW a \in Nat \ {0}, NEW b \in Nat \ {0}
  PROVE  Demux!Ceil(a, b) \in Nat \ {0}
<1>1. /\ 0 \in Nat /\ 0 < a /\ (0 \div b) + 1 <= (a + b - 1) \div b
      /\ 0 \div b = 0
  <2>1. (0 \div b) + 1 <= (a + b - 1) \div b
    BY DivideFacts
  <2>2. 0 \div b = 0
    OBVIOUS
  <2> QED BY <2>1, <2>2
<1>2. (a + b - 1) \div b \in Int
  <2>1. a + b - 1 \in Nat
    OBVIOUS
  <2> QED BY <2>1
<1> QED BY <1>1, <1>2 DEF Demux!Ceil

LEMMA PartialFacts ==
  ASSUME minimumSplit \in Nat, NEW s \in Nat \ {0}
  PROVE  /\ Demux!PartialSize(s) \in Nat \ {0}
         /\ Demux!Splits(s) \in Nat \ {0}
<1>1. Networks \in Nat \ {0}
  BY NetworksAssumption DEF Demux!SplitAssumption
<1>2. Demux!Ceil(s, Networks) \in Nat \ {0}
  BY <1>1, CeilPositive
<1>3. Demux!PartialSize(s) \in Nat \ {0}
  BY <1>2 DEF Demux!PartialSize, Demux!Least
<1> QED BY <1>3, CeilPositive DEF Demux!Splits

LEMMA SameCardinality == ASSUME NEW S PROVE Demux!Cardinality(S) = Cardinality(S)
BY Zenon DEF Demux!Cardinality, Cardinality

(* How often a client is in a sequence, as one more comes and one leaves.  *)
Times(s, c) == Cardinality({i \in DOMAIN s : s[i] = c})

LEMMA TimesFinite ==
  ASSUME NEW S, NEW s \in Seq(S), NEW c
  PROVE  IsFiniteSet({i \in DOMAIN s : s[i] = c}) /\ Times(s, c) \in Nat
<1>1. DOMAIN s = 1 .. Len(s) /\ Len(s) \in Nat
  BY LenProperties
<1>2. IsFiniteSet(1 .. Len(s))
  BY <1>1, FS_Interval
<1>3. IsFiniteSet({i \in DOMAIN s : s[i] = c})
  BY <1>1, <1>2, FS_Subset
<1> QED BY <1>3, FS_CardinalityType DEF Times

LEMMA TimesAppend ==
  ASSUME NEW S, NEW s \in Seq(S), NEW x \in S, NEW c
  PROVE  Times(Append(s, x), c) = Times(s, c) + (IF c = x THEN 1 ELSE 0)
<1> DEFINE r == Append(s, x)
           A == {i \in DOMAIN s : s[i] = c}
           B == {i \in DOMAIN r : r[i] = c}
<1>1. /\ Len(s) \in Nat /\ DOMAIN s = 1 .. Len(s)
      /\ DOMAIN r = 1 .. Len(s) + 1
      /\ \A i \in 1 .. Len(s) : r[i] = s[i]
      /\ r[Len(s) + 1] = x
  BY AppendProperties, LenProperties
<1>2. IsFiniteSet(A) /\ Cardinality(A) \in Nat
  BY TimesFinite DEF Times
<1> HIDE DEF r
<1>3. Len(s) + 1 \notin A /\ B = IF c = x THEN A \cup {Len(s) + 1} ELSE A
  BY <1>1
<1>4. Cardinality(B) = Cardinality(A) + (IF c = x THEN 1 ELSE 0)
  <2> HIDE DEF A, B
  <2>1. CASE c = x
    BY <1>2, <1>3, <2>1, FS_AddElement
  <2>2. CASE c # x
    BY <1>2, <1>3, <2>2
  <2> QED BY <2>1, <2>2
<1> QED BY <1>4 DEF Times, r

LEMMA TimesTail ==
  ASSUME NEW S, NEW s \in Seq(S), s # <<>>, NEW c
  PROVE  Times(s, c) = Times(Tail(s), c) + (IF c = Head(s) THEN 1 ELSE 0)
<1> DEFINE r == Tail(s)
           A == {i \in DOMAIN s : s[i] = c}
           B == {i \in DOMAIN r : r[i] = c}
           C == A \ {1}
<1>1. /\ Len(s) \in Nat \ {0} /\ DOMAIN s = 1 .. Len(s) /\ Head(s) = s[1]
      /\ r \in Seq(S) /\ DOMAIN r = 1 .. Len(s) - 1
      /\ \A i \in 1 .. Len(s) - 1 : r[i] = s[i + 1]
  <2>1. Len(s) \in Nat /\ Len(s) # 0 /\ DOMAIN s = 1 .. Len(s)
    BY LenProperties, EmptySeq
  <2>2. r \in Seq(S) /\ Len(r) = Len(s) - 1 /\ Head(s) = s[1]
    BY HeadTailProperties
  <2>3. \A i \in 1 .. Len(s) - 1 : r[i] = s[i + 1]
    BY <2>1, HeadTailProperties
  <2> HIDE DEF r
  <2>4. DOMAIN r = 1 .. Len(s) - 1
    BY <2>1, <2>2, LenProperties
  <2> QED BY <2>1, <2>2, <2>3, <2>4
<1> HIDE DEF r
<1>2. IsFiniteSet(A) /\ IsFiniteSet(B) /\ Cardinality(A) \in Nat /\ Cardinality(B) \in Nat
  BY <1>1, TimesFinite DEF Times
<1>3. Cardinality(C) = Cardinality(B)
  <2> DEFINE f == [i \in B |-> i + 1]
  <2>1. \A i \in B : i \in 1 .. Len(s) - 1 /\ f[i] = i + 1 /\ f[i] \in C
    BY <1>1
  <2>2. ASSUME NEW j \in C PROVE \E i \in B : f[i] = j
    <3>1. j - 1 \in 1 .. Len(s) - 1 /\ (j - 1) + 1 = j /\ s[j] = c
      BY <1>1
    <3>2. j - 1 \in B
      BY <1>1, <3>1
    <3> QED BY <3>1, <3>2
  <2>3. \A i, j \in B : f[i] = f[j] => i = j
    BY <1>1
  <2> HIDE DEF B, C
  <2>4. f \in [B -> C]
    BY <2>1
  <2> HIDE DEF f
  <2>5. f \in Bijection(B, C)
    <3>1. f \in Injection(B, C)
      BY <2>3, <2>4 DEF Injection, IsInjective
    <3>2. f \in Surjection(B, C)
      BY <2>2, <2>4 DEF Surjection
    <3> QED BY <3>1, <3>2 DEF Bijection
  <2>6. ExistsBijection(B, C)
    BY <2>5 DEF ExistsBijection
  <2> QED BY <1>2, <2>6, FS_Bijection
<1>4. A = IF c = Head(s) THEN C \cup {1} ELSE C
  BY <1>1
<1>5. IsFiniteSet(C) /\ 1 \notin C
  BY <1>2, FS_Subset
<1>6. Cardinality(A) = Cardinality(C) + (IF c = Head(s) THEN 1 ELSE 0)
  <2> HIDE DEF A, C
  <2>1. CASE c = Head(s)
    BY <1>4, <1>5, <2>1, FS_AddElement
  <2>2. CASE c # Head(s)
    <3>1. Cardinality(C) \in Nat /\ A = C
      BY <1>4, <1>5, <2>2, FS_CardinalityType
    <3> QED BY <2>2, <3>1
  <2> QED BY <2>1, <2>2
<1> QED BY <1>3, <1>6 DEF Times, r

-----------------------------------------------------------------------------
(* The demultiplexer: its invariant. *)

Busy(c) == {w \in Workers : working[w] = c}
Adding(c) == {w \in Busy(c) : workerPc[w] = "add"}
Left(c) == Times(queue, c)
Pieces(c) == IF size[c] = 0 THEN 0 ELSE Demux!Splits(size[c])

DemuxTypes ==
  /\ queue \in Seq(Clients)
  /\ destructor \in {"none", "joining", "done"}
  /\ workerPc \in [Workers -> {"lock", "asleep", "drain", "add", "compute",
                               "notify", "exited"}]
  /\ working \in [Workers -> Clients \cup {NoClient}]
  /\ piece \in [Workers -> Nat]
  /\ clientPc \in [Clients -> {"idle", "enqueuing", "waiting", "reading"}]
  /\ size \in [Clients -> Nat]
  /\ partial \in [Clients -> Nat]
  /\ unqueued \in [Clients -> Nat]
  /\ dataready \in [Clients -> Int]
  /\ parents \in [Clients -> Seq([network : Int, inputs : SUBSET Int,
                                  computed : BOOLEAN])]
  /\ counter \in 0 .. Networks - 1
  /\ minimumSplit \in Nat

WorkersOfDemux ==
  \A w \in Workers :
    /\ working[w] # NoClient <=> workerPc[w] \in {"add", "compute", "notify"}
    /\ workerPc[w] = "compute" => piece[w] \in 1 .. Len(parents[working[w]])

(* dataready_ counts what is not notified, and the pieces that are in      *)
(* parents_, on their way there or not taken yet are all there are.        *)
Tally(c) ==
  /\ dataready[c] = unqueued[c] + Left(c) + Cardinality(Busy(c))
  /\ destructor # "done" =>
       Len(parents[c]) + Cardinality(Adding(c)) + Left(c) + unqueued[c] = Pieces(c)

Computing(c, i) ==
  \E w \in Workers : working[w] = c /\ workerPc[w] = "compute" /\ piece[w] = i

(* The pieces are in the order of their inputs, and each is computed or a  *)
(* worker is about to compute it.                                          *)
InOrder(c) ==
  \A i \in 1 .. Len(parents[c]) :
    /\ parents[c][i].inputs = Demux!PieceInputs(c, i - 1)
    /\ parents[c][i].computed = FALSE => Computing(c, i)

DemuxClient(c) ==
  /\ clientPc[c] = "idle" => size[c] = 0 /\ parents[c] = <<>> /\ dataready[c] = 0
  /\ clientPc[c] = "reading" => dataready[c] = 0
  /\ partial[c] = IF size[c] = 0 THEN 0 ELSE Demux!PartialSize(size[c])
  /\ Tally(c)
  /\ InOrder(c)

DemuxInv == DemuxTypes /\ WorkersOfDemux /\ \A c \in Clients : DemuxClient(c)

LEMMA DemuxInitHolds == Demux!Init => DemuxInv
<1> SUFFICES ASSUME Demux!Init PROVE DemuxInv
  OBVIOUS
<1>1. DemuxTypes
  BY NetworksAssumption DEF Demux!Init, DemuxTypes, Demux!SplitAssumption
<1>2. WorkersOfDemux
  BY NetworksAssumption DEF Demux!Init, WorkersOfDemux, Demux!SplitAssumption
<1>3. ASSUME NEW c \in Clients PROVE DemuxClient(c)
  <2>1. Busy(c) = {} /\ Adding(c) = {}
    BY NetworksAssumption DEF Demux!Init, Busy, Adding, Demux!SplitAssumption
  <2>2. Left(c) = 0
    <3>1. {i \in DOMAIN queue : queue[i] = c} = {}
      BY DEF Demux!Init
    <3> QED BY <3>1, FS_EmptySet DEF Left, Times
  <2>3. Cardinality({}) = 0 /\ Len(<<>>) = 0
    BY FS_EmptySet
  <2>4. parents[c] = <<>> /\ size[c] = 0 /\ dataready[c] = 0 /\ unqueued[c] = 0
        /\ partial[c] = 0
    BY DEF Demux!Init
  <2>5. Tally(c) /\ InOrder(c)
    BY <2>1, <2>2, <2>3, <2>4 DEF Tally, InOrder, Pieces
  <2> QED BY <2>4, <2>5 DEF DemuxClient
<1> QED BY <1>1, <1>2, <1>3 DEF DemuxInv

LEMMA MoveOne ==
  ASSUME NEW S, IsFiniteSet(S), NEW T, NEW x, S \ {x} = T \ {x}
  PROVE  /\ IsFiniteSet(T) /\ Cardinality(S) \in Nat /\ Cardinality(T) \in Nat
         /\ Cardinality(T) = Cardinality(S) + (IF x \in T THEN 1 ELSE 0)
                               - (IF x \in S THEN 1 ELSE 0)
<1> DEFINE R == S \ {x}
<1>1. IsFiniteSet(R) /\ Cardinality(R) \in Nat /\ x \notin R
  BY FS_Subset, FS_CardinalityType
<1>2. /\ S = IF x \in S THEN R \cup {x} ELSE R
      /\ T = IF x \in T THEN R \cup {x} ELSE R
  OBVIOUS
<1> HIDE DEF R
<1>3. IsFiniteSet(R \cup {x}) /\ Cardinality(R \cup {x}) = Cardinality(R) + 1
  BY <1>1, FS_AddElement
<1>4. CASE x \in S /\ x \in T
  <2>1. Cardinality(T) = Cardinality(S) /\ IsFiniteSet(T) /\ S = R \cup {x}
    BY <1>2, <1>3, <1>4
  <2> QED BY <1>1, <1>3, <1>4, <2>1
<1>5. CASE x \in S /\ x \notin T
  <2>1. T = R /\ S = R \cup {x}
    BY <1>2, <1>5
  <2> QED BY <1>1, <1>3, <1>5, <2>1
<1>6. CASE x \notin S /\ x \in T
  <2>1. S = R /\ T = R \cup {x}
    BY <1>2, <1>6
  <2> QED BY <1>1, <1>3, <1>6, <2>1
<1>7. CASE x \notin S /\ x \notin T
  <2>1. S = R /\ T = R
    BY <1>2, <1>7
  <2> QED BY <1>1, <1>7, <2>1
<1> QED BY <1>4, <1>5, <1>6, <1>7

LEMMA BusyFinite ==
  ASSUME NEW c
  PROVE  /\ IsFiniteSet(Busy(c)) /\ Cardinality(Busy(c)) \in Nat
         /\ IsFiniteSet(Adding(c)) /\ Cardinality(Adding(c)) \in Nat
BY WorkerAssumption, FS_Subset, FS_CardinalityType DEF Busy, Adding

LEMMA LeftIsNat == ASSUME DemuxTypes, NEW c PROVE Left(c) \in Nat
BY TimesFinite DEF DemuxTypes, Left

(* Nothing in the queue, and nobody at work, for a computation that is     *)
(* ready.                                                                  *)
LEMMA NothingLeft ==
  ASSUME DemuxInv, NEW c \in Clients, dataready[c] = 0
  PROVE  Busy(c) = {} /\ Adding(c) = {} /\ Left(c) = 0 /\ unqueued[c] = 0
<1>1. Left(c) \in Nat /\ unqueued[c] \in Nat
  BY LeftIsNat DEF DemuxInv, DemuxTypes
<1>2. Tally(c)
  BY DEF DemuxInv, DemuxClient
<1>3. Left(c) = 0 /\ unqueued[c] = 0 /\ Cardinality(Busy(c)) = 0
  BY <1>1, <1>2, BusyFinite DEF Tally
<1>4. Busy(c) = {}
  BY <1>3, BusyFinite, FS_EmptySet
<1> QED BY <1>3, <1>4 DEF Adding

(* A client that a step does not concern. *)
Same(c) ==
  /\ clientPc'[c] = clientPc[c] /\ size'[c] = size[c] /\ partial'[c] = partial[c]
  /\ unqueued'[c] = unqueued[c] /\ dataready'[c] = dataready[c]
  /\ parents'[c] = parents[c] /\ Left(c)' = Left(c)
  /\ Busy(c)' = Busy(c) /\ Adding(c)' = Adding(c)
  /\ \A i : Computing(c, i) => Computing(c, i)'
  /\ destructor' = destructor /\ minimumSplit' = minimumSplit

(* Numbers that the pieces of a client change by. *)
Moved(c, n, a, l, u, b) ==
  /\ Len(parents'[c]) = Len(parents[c]) + n
  /\ Cardinality(Adding(c))' = Cardinality(Adding(c)) + a
  /\ Left(c)' = Left(c) + l
  /\ unqueued'[c] = unqueued[c] + u
  /\ Cardinality(Busy(c))' = Cardinality(Busy(c)) + b
  /\ dataready'[c] = dataready[c] + u + l + b
  /\ n + a + l + u = 0
  /\ destructor' = destructor /\ size'[c] = size[c] /\ minimumSplit' = minimumSplit

LEMMA TallyMoves ==
  ASSUME DemuxTypes, NEW c \in Clients, Tally(c),
         NEW n \in Int, NEW a \in Int, NEW l \in Int, NEW u \in Int, NEW b \in Int,
         Moved(c, n, a, l, u, b)
  PROVE  Tally(c)'
<1> DEFINE N == Len(parents[c])
           A == Cardinality(Adding(c))
           L == Left(c)
           U == unqueued[c]
           B == Cardinality(Busy(c))
           D == dataready[c]
           P == Pieces(c)
<1>1. N \in Nat /\ A \in Nat /\ L \in Nat /\ U \in Nat /\ B \in Nat /\ D \in Int
  BY BusyFinite, LeftIsNat, LenProperties DEF DemuxTypes
<1>2. D = U + L + B /\ (destructor # "done" => N + A + L + U = P)
  BY DEF Tally
<1>3. n + a + l + u = 0
  BY DEF Moved
<1>4. D + u + l + b = (U + u) + (L + l) + (B + b)
  <2> HIDE DEF D, U, L, B
  <2> QED BY <1>1, <1>2
<1>5. destructor # "done" => (N + n) + (A + a) + (L + l) + (U + u) = P
  <2> HIDE DEF N, A, U, L, P
  <2> QED BY <1>1, <1>2, <1>3
<1>6. Pieces(c)' = Pieces(c)
  BY DEF Moved, Pieces, Demux!Splits, Demux!PartialSize
<1>7. dataready'[c] = unqueued'[c] + Left(c)' + Cardinality(Busy(c))'
  BY <1>4, Zenon DEF Moved
<1>8. destructor' # "done" => Len(parents'[c]) + Cardinality(Adding(c))' + Left(c)'
                                + unqueued'[c] = Pieces(c)'
  BY <1>5, <1>6, Zenon DEF Moved
<1> QED BY <1>7, <1>8, Zenon DEF Tally

LEMMA FreshTally ==
  ASSUME NEW c, NEW k \in Nat, parents'[c] = <<>>, Busy(c)' = {}, Adding(c)' = {},
         Left(c)' = 0, unqueued'[c] = k, dataready'[c] = k, Pieces(c)' = k
  PROVE  Tally(c)'
<1>1. Cardinality({}) = 0 /\ Len(<<>>) = 0
  BY FS_EmptySet
<1>2. k = k + 0 + 0 /\ 0 + 0 + 0 + k = k
  OBVIOUS
<1>3. /\ Len(parents'[c]) = 0 /\ Cardinality(Adding(c)') = 0
      /\ Cardinality(Busy(c)') = 0
  BY <1>1
<1>4. dataready'[c] = unqueued'[c] + Left(c)' + Cardinality(Busy(c)')
  BY <1>2, <1>3, Zenon
<1>5. Len(parents'[c]) + Cardinality(Adding(c)') + Left(c)' + unqueued'[c] = Pieces(c)'
  BY <1>2, <1>3, Zenon
<1> QED BY <1>4, <1>5, Zenon DEF Tally

LEMMA SameClient ==
  ASSUME NEW c \in Clients, DemuxClient(c), Same(c)
  PROVE  DemuxClient(c)'
<1>1. Tally(c)'
  BY DEF DemuxClient, Same, Tally, Pieces, Demux!Splits, Demux!PartialSize
<1>2. InOrder(c)'
  BY DEF DemuxClient, Same, InOrder, Demux!PieceInputs
<1> QED BY <1>1, <1>2 DEF DemuxClient, Same, Demux!PartialSize

Resting == {"lock", "asleep", "drain", "exited"}

(* Workers that have no computation move between these places. *)
Rest ==
  /\ workerPc' \in [Workers -> {"lock", "asleep", "drain", "add", "compute",
                                "notify", "exited"}]
  /\ \A w \in Workers : \/ workerPc'[w] = workerPc[w]
                        \/ workerPc'[w] \in Resting /\ workerPc[w] \in Resting
  /\ working' = working /\ piece' = piece

LEMMA RestFacts ==
  ASSUME Rest, NEW c
  PROVE  /\ Busy(c)' = Busy(c) /\ Adding(c)' = Adding(c)
         /\ \A i : Computing(c, i) => Computing(c, i)'
BY DEF Rest, Resting, Busy, Adding, Computing

LEMMA RestWorkers ==
  ASSUME WorkersOfDemux, Rest, parents' = parents
  PROVE  WorkersOfDemux'
BY DEF Rest, Resting, WorkersOfDemux

LEMMA LeftSame == ASSUME queue' = queue, NEW c PROVE Left(c)' = Left(c)
BY DEF Left, Times

LEMMA DemuxRestStep ==
  ASSUME DemuxInv, Rest,
         UNCHANGED <<queue, destructor, clientPc, size, partial, unqueued,
                     dataready, parents, counter, minimumSplit>>
  PROVE  DemuxInv'
<1>1. DemuxTypes'
  BY DEF DemuxInv, DemuxTypes, Rest
<1>2. WorkersOfDemux'
  BY RestWorkers DEF DemuxInv
<1>3. ASSUME NEW c \in Clients PROVE DemuxClient(c)'
  <2>1. Same(c)
    BY RestFacts, LeftSame DEF Same
  <2> QED BY <2>1, SameClient DEF DemuxInv
<1> QED BY <1>1, <1>2, <1>3 DEF DemuxInv

LEMMA DemuxIdleWorker ==
  ASSUME DemuxInv, NEW w \in Workers,
         \/ Demux!FallAsleep(w) \/ Demux!SpuriousWake(w) \/ Demux!Exit(w)
         \/ Demux!FindWork(w) \/ Demux!Drained(w)
  PROVE  DemuxInv'
<1>1. /\ workerPc[w] \in Resting
      /\ \E x \in Resting : workerPc' = [workerPc EXCEPT ![w] = x]
      /\ UNCHANGED <<working, piece, queue, destructor, clientPc, size, partial,
                     unqueued, dataready, parents, counter, minimumSplit>>
  BY DEF Demux!FallAsleep, Demux!SpuriousWake, Demux!Exit, Demux!FindWork,
     Demux!Drained, Demux!Unbothered, Demux!clientVars, Demux!options, Resting
<1>2. Rest
  BY <1>1 DEF Rest, Resting, DemuxInv, DemuxTypes
<1> QED BY <1>1, <1>2, DemuxRestStep

LEMMA DemuxAbort == ASSUME DemuxInv, Demux!Abort PROVE DemuxInv'
<1>1. /\ workerPc' = [w \in Workers |-> IF w \in Demux!Asleep THEN "lock"
                                        ELSE workerPc[w]]
      /\ UNCHANGED <<working, piece, queue, clientPc, size, partial, unqueued,
                     dataready, parents, counter, minimumSplit>>
      /\ destructor = "none" /\ destructor' = "joining"
  BY DEF Demux!Abort, Demux!clientVars, Demux!options
<1>2. Rest
  BY <1>1 DEF Rest, Resting, DemuxInv, DemuxTypes, Demux!Asleep
<1>3. DemuxTypes'
  BY <1>1, <1>2 DEF DemuxInv, DemuxTypes, Rest
<1>4. WorkersOfDemux'
  BY <1>1, <1>2, RestWorkers DEF DemuxInv
<1>5. ASSUME NEW c \in Clients PROVE DemuxClient(c)'
  <2>1. DemuxClient(c)
    BY DEF DemuxInv
  <2>2. /\ Left(c)' = Left(c) /\ Busy(c)' = Busy(c) /\ Adding(c)' = Adding(c)
        /\ \A i : Computing(c, i) => Computing(c, i)'
    BY <1>1, <1>2, RestFacts, LeftSame
  <2>3. Tally(c)'
    BY <1>1, <2>1, <2>2 DEF DemuxClient, Tally, Pieces, Demux!Splits,
         Demux!PartialSize
  <2>4. InOrder(c)'
    BY <1>1, <2>1, <2>2 DEF DemuxClient, InOrder, Demux!PieceInputs
  <2> QED BY <1>1, <2>1, <2>3, <2>4 DEF DemuxClient, Demux!PartialSize
<1> QED BY <1>3, <1>4, <1>5 DEF DemuxInv

LEMMA DemuxStays ==
  ASSUME DemuxInv,
         UNCHANGED <<queue, destructor, workerPc, working, piece, clientPc, size,
                     partial, unqueued, dataready, parents, counter, minimumSplit>>
  PROVE  DemuxInv'
<1>1. Rest
  BY DEF Rest, DemuxInv, DemuxTypes
<1> QED BY <1>1, DemuxRestStep

(* The client's own steps. *)

LEMMA DemuxComputeBlocking ==
  ASSUME DemuxInv, NEW c \in Clients, Demux!ComputeBlocking(c)
  PROVE  DemuxInv'
<1>1. PICK s \in DemuxSizes :
        /\ size' = [size EXCEPT ![c] = s]
        /\ IF s = 0
           THEN /\ clientPc' = [clientPc EXCEPT ![c] = "reading"]
                /\ UNCHANGED <<partial, unqueued, dataready>>
           ELSE /\ clientPc' = [clientPc EXCEPT ![c] = "enqueuing"]
                /\ partial' = [partial EXCEPT ![c] = Demux!PartialSize(s)]
                /\ unqueued' = [unqueued EXCEPT ![c] = Demux!Splits(s)]
                /\ dataready' = [dataready EXCEPT ![c] = Demux!Splits(s)]
  BY DEF Demux!ComputeBlocking
<1>2. /\ clientPc[c] = "idle"
      /\ UNCHANGED <<queue, destructor, workerPc, working, piece, parents,
                     counter, minimumSplit>>
  BY DEF Demux!ComputeBlocking, Demux!workerVars, Demux!options
<1>3. s \in Nat
  BY NetworksAssumption DEF Demux!SplitAssumption
<1>4. DemuxTypes /\ Rest
  BY <1>2 DEF DemuxInv, DemuxTypes, Rest
<1>5. s # 0 => Demux!PartialSize(s) \in Nat /\ Demux!Splits(s) \in Nat
  BY <1>3, <1>4, PartialFacts DEF DemuxTypes
<1>6. DemuxTypes'
  <2>1. /\ partial' \in [Clients -> Nat] /\ unqueued' \in [Clients -> Nat]
        /\ dataready' \in [Clients -> Int]
    <3>1. CASE s = 0
      BY <1>1, <1>4, <3>1 DEF DemuxTypes
    <3>2. CASE s # 0
      <4>1. /\ partial' = [partial EXCEPT ![c] = Demux!PartialSize(s)]
            /\ unqueued' = [unqueued EXCEPT ![c] = Demux!Splits(s)]
            /\ dataready' = [dataready EXCEPT ![c] = Demux!Splits(s)]
        BY <1>1, <3>2
      <4>2. Demux!PartialSize(s) \in Nat /\ Demux!Splits(s) \in Nat
        BY <1>5, <3>2
      <4> QED BY <1>4, <4>1, <4>2 DEF DemuxTypes
    <3> QED BY <3>1, <3>2
  <2>2. clientPc' \in [Clients -> {"idle", "enqueuing", "waiting", "reading"}]
    BY <1>1, <1>4 DEF DemuxTypes
  <2>3. size' \in [Clients -> Nat]
    BY <1>1, <1>3, <1>4 DEF DemuxTypes
  <2> QED BY <1>2, <1>4, <2>1, <2>2, <2>3 DEF DemuxTypes, Rest
<1>7. WorkersOfDemux'
  BY <1>2, <1>4, RestWorkers DEF DemuxInv
<1>8. ASSUME NEW d \in Clients
      PROVE  /\ Left(d)' = Left(d) /\ Busy(d)' = Busy(d) /\ Adding(d)' = Adding(d)
             /\ \A i : Computing(d, i) => Computing(d, i)'
  BY <1>2, <1>4, RestFacts, LeftSame
<1>9. ASSUME NEW d \in Clients, d # c PROVE DemuxClient(d)'
  <2>1. Same(d)
    BY <1>1, <1>2, <1>4, <1>8, <1>9 DEF Same, DemuxTypes
  <2> QED BY <2>1, SameClient DEF DemuxInv
<1>10. DemuxClient(c)'
  <2>1. /\ size[c] = 0 /\ parents[c] = <<>> /\ dataready[c] = 0 /\ partial[c] = 0
    BY <1>2 DEF DemuxInv, DemuxClient
  <2>2. Busy(c) = {} /\ Adding(c) = {} /\ Left(c) = 0 /\ unqueued[c] = 0
    BY <2>1, NothingLeft
  <2>3. Cardinality({}) = 0 /\ Len(<<>>) = 0
    BY FS_EmptySet
  <2>4. parents'[c] = <<>> /\ size'[c] = s
    BY <1>1, <1>2, <1>4, <2>1 DEF DemuxTypes
  <2>5. InOrder(c)'
    BY <2>3, <2>4 DEF InOrder
  <2>6. CASE s = 0
    <3>1. dataready'[c] = 0 /\ unqueued'[c] = 0 /\ partial'[c] = 0
      BY <1>1, <2>1, <2>2, <2>6
    <3>2. Pieces(c)' = 0
      BY <2>4, <2>6 DEF Pieces
    <3>3. Tally(c)'
      BY <1>8, <2>2, <2>4, <3>1, <3>2, FreshTally
    <3> QED BY <2>4, <2>5, <2>6, <3>1, <3>3 DEF DemuxClient
  <2>7. CASE s # 0
    <3>1. /\ dataready'[c] = Demux!Splits(s) /\ unqueued'[c] = Demux!Splits(s)
          /\ partial'[c] = Demux!PartialSize(s) /\ clientPc'[c] = "enqueuing"
      BY <1>1, <1>4, <2>7 DEF DemuxTypes
    <3>2. /\ Demux!Splits(size[c])' = Demux!Splits(s)
          /\ Demux!PartialSize(size[c])' = Demux!PartialSize(s)
      BY <1>2, <2>4 DEF Demux!Splits, Demux!PartialSize
    <3>3. Pieces(c)' = Demux!Splits(s)
      BY <2>4, <2>7, <3>2 DEF Pieces
    <3>4. Tally(c)'
      BY <1>5, <1>8, <2>2, <2>4, <2>7, <3>1, <3>3, FreshTally
    <3> QED BY <2>4, <2>5, <2>7, <3>1, <3>2, <3>4 DEF DemuxClient
  <2> QED BY <2>6, <2>7
<1> QED BY <1>6, <1>7, <1>9, <1>10 DEF DemuxInv

LEMMA DemuxWakeOne ==
  ASSUME DemuxTypes, Demux!WakeOne, UNCHANGED <<working, piece>>
  PROVE  Rest
BY DEF DemuxTypes, Demux!WakeOne, Demux!Asleep, Rest, Resting

LEMMA DemuxEnqueue ==
  ASSUME DemuxInv, NEW c \in Clients, Demux!Enqueue(c)
  PROVE  DemuxInv'
<1>1. /\ clientPc[c] = "enqueuing" /\ unqueued[c] > 0
      /\ queue' = Append(queue, c)
      /\ unqueued' = [unqueued EXCEPT ![c] = @ - 1]
      /\ UNCHANGED <<destructor, working, piece, clientPc, size, partial,
                     dataready, parents, counter, minimumSplit>>
  BY DEF Demux!Enqueue, Demux!options
<1>2. DemuxTypes /\ Rest
  BY <1>1, DemuxWakeOne DEF DemuxInv, Demux!Enqueue
<1>3. queue' \in Seq(Clients)
  BY <1>1, <1>2, AppendProperties DEF DemuxTypes
<1>4. unqueued' \in [Clients -> Nat] /\ unqueued'[c] = unqueued[c] - 1
      /\ \A d \in Clients : d # c => unqueued'[d] = unqueued[d]
  BY <1>1, <1>2 DEF DemuxTypes
<1>5. DemuxTypes'
  BY <1>1, <1>2, <1>3, <1>4 DEF DemuxTypes, Rest
<1>6. WorkersOfDemux'
  BY <1>1, <1>2, RestWorkers DEF DemuxInv
<1>7. ASSUME NEW d \in Clients
      PROVE  /\ Busy(d)' = Busy(d) /\ Adding(d)' = Adding(d)
             /\ \A i : Computing(d, i) => Computing(d, i)'
             /\ Left(d)' = Left(d) + (IF d = c THEN 1 ELSE 0)
             /\ Left(d) \in Nat
  <2>1. Left(d)' = Left(d) + (IF d = c THEN 1 ELSE 0)
    BY <1>1, <1>2, TimesAppend DEF DemuxTypes, Left
  <2> QED BY <1>2, <2>1, RestFacts, LeftIsNat
<1>8. ASSUME NEW d \in Clients, d # c PROVE DemuxClient(d)'
  <2>1. Same(d)
    BY <1>1, <1>4, <1>7, <1>8 DEF Same
  <2> QED BY <2>1, SameClient DEF DemuxInv
<1>9. DemuxClient(c)'
  <2>1. DemuxClient(c) /\ unqueued[c] \in Nat
    BY <1>2 DEF DemuxInv, DemuxTypes
  <2>2. Tally(c)'
    <3>1. Len(parents[c]) \in Nat /\ dataready[c] \in Int /\ unqueued[c] \in Nat
      BY <1>2, LenProperties DEF DemuxTypes
    <3>2. Cardinality(Busy(c)) \in Nat /\ Cardinality(Adding(c)) \in Nat
      BY BusyFinite
    <3>3. Moved(c, 0, 0, 1, -1, 0)
      <4>1. Len(parents'[c]) = Len(parents[c]) + 0
        BY <1>1, <3>1
      <4>2. /\ Cardinality(Busy(c)') = Cardinality(Busy(c)) + 0
            /\ Cardinality(Adding(c)') = Cardinality(Adding(c)) + 0
        BY <1>7, <3>2
      <4>3. Left(c)' = Left(c) + 1
        BY <1>7
      <4>4. /\ unqueued'[c] = unqueued[c] + (-1)
            /\ dataready'[c] = dataready[c] + (-1) + 1 + 0
            /\ 0 + 0 + 1 + (-1) = 0
        BY <1>1, <1>4, <3>1
      <4>5. destructor' = destructor /\ size'[c] = size[c]
              /\ minimumSplit' = minimumSplit
        BY <1>1
      <4> QED BY <4>1, <4>2, <4>3, <4>4, <4>5, Zenon DEF Moved
    <3>4. DemuxTypes /\ Tally(c)
      BY <1>2, <2>1 DEF DemuxClient
    <3> QED BY <3>3, <3>4, TallyMoves
  <2>3. InOrder(c)'
    BY <1>1, <1>7, <2>1 DEF DemuxClient, InOrder, Demux!PieceInputs
  <2> QED BY <1>1, <2>1, <2>2, <2>3 DEF DemuxClient, Demux!PartialSize
<1> QED BY <1>5, <1>6, <1>8, <1>9 DEF DemuxInv

LEMMA DemuxStartOrReturn ==
  ASSUME DemuxInv, NEW c \in Clients, Demux!StartWaiting(c) \/ Demux!ComputeReturns(c)
  PROVE  DemuxInv'
<1>1. /\ \/ clientPc' = [clientPc EXCEPT ![c] = "waiting"]
         \/ clientPc' = [clientPc EXCEPT ![c] = "reading"] /\ dataready[c] = 0
      /\ UNCHANGED <<queue, destructor, workerPc, working, piece, size, partial,
                     unqueued, dataready, parents, counter, minimumSplit>>
  BY DEF Demux!StartWaiting, Demux!ComputeReturns, Demux!workerVars, Demux!options
<1>2. DemuxTypes /\ Rest
  BY <1>1 DEF DemuxInv, DemuxTypes, Rest
<1>3. DemuxTypes'
  BY <1>1, <1>2 DEF DemuxTypes
<1>4. WorkersOfDemux'
  BY <1>1, <1>2, RestWorkers DEF DemuxInv
<1>5. ASSUME NEW d \in Clients PROVE DemuxClient(d)'
  <2>1. DemuxClient(d)
    BY DEF DemuxInv
  <2>2. /\ Left(d)' = Left(d) /\ Busy(d)' = Busy(d) /\ Adding(d)' = Adding(d)
        /\ \A i : Computing(d, i) => Computing(d, i)'
    BY <1>1, <1>2, RestFacts, LeftSame
  <2>3. Tally(d)'
    BY <1>1, <2>1, <2>2 DEF DemuxClient, Tally, Pieces, Demux!Splits,
         Demux!PartialSize
  <2>4. InOrder(d)'
    BY <1>1, <2>1, <2>2 DEF DemuxClient, InOrder, Demux!PieceInputs
  <2>5. /\ clientPc'[d] = "idle" => clientPc[d] = "idle"
        /\ clientPc'[d] = "reading" => clientPc[d] = "reading" \/ dataready[d] = 0
    BY <1>1, <1>2 DEF DemuxTypes
  <2> QED BY <1>1, <2>1, <2>3, <2>4, <2>5 DEF DemuxClient, Demux!PartialSize
<1> QED BY <1>3, <1>4, <1>5 DEF DemuxInv

LEMMA DemuxRelease ==
  ASSUME DemuxInv, NEW c \in Clients, Demux!Release(c)
  PROVE  DemuxInv'
<1>1. /\ clientPc[c] = "reading"
      /\ clientPc' = [clientPc EXCEPT ![c] = "idle"]
      /\ size' = [size EXCEPT ![c] = 0]
      /\ partial' = [partial EXCEPT ![c] = 0]
      /\ parents' = [parents EXCEPT ![c] = <<>>]
      /\ UNCHANGED <<queue, destructor, workerPc, working, piece, unqueued,
                     dataready, counter, minimumSplit>>
  BY DEF Demux!Release, Demux!workerVars, Demux!options
<1>2. DemuxTypes /\ Rest
  BY <1>1 DEF DemuxInv, DemuxTypes, Rest
<1>3. DemuxTypes'
  BY <1>1, <1>2 DEF DemuxTypes
<1>4. dataready[c] = 0
  BY <1>1 DEF DemuxInv, DemuxClient
<1>5. Busy(c) = {} /\ Adding(c) = {} /\ Left(c) = 0 /\ unqueued[c] = 0
  BY <1>4, NothingLeft
<1>6. \A d \in Clients : d # c => parents'[d] = parents[d]
  BY <1>1, <1>2 DEF DemuxTypes
<1>7. WorkersOfDemux'
  <2> SUFFICES ASSUME NEW w \in Workers
               PROVE  /\ working'[w] # NoClient
                           <=> workerPc'[w] \in {"add", "compute", "notify"}
                      /\ workerPc'[w] = "compute" =>
                           piece'[w] \in 1 .. Len(parents'[working'[w]])
    BY DEF WorkersOfDemux
  <2>1. working[w] # c
    BY <1>5 DEF Busy
  <2>2. working[w] = NoClient \/ parents'[working[w]] = parents[working[w]]
    BY <1>2, <1>6, <2>1 DEF DemuxTypes
  <2> QED BY <1>1, <2>2 DEF DemuxInv, WorkersOfDemux
<1>8. ASSUME NEW d \in Clients
      PROVE  /\ Left(d)' = Left(d) /\ Busy(d)' = Busy(d) /\ Adding(d)' = Adding(d)
             /\ \A i : Computing(d, i) => Computing(d, i)'
  BY <1>1, <1>2, RestFacts, LeftSame
<1>9. ASSUME NEW d \in Clients, d # c PROVE DemuxClient(d)'
  <2>1. Same(d)
    BY <1>1, <1>2, <1>8, <1>9 DEF Same, DemuxTypes
  <2> QED BY <2>1, SameClient DEF DemuxInv
<1>10. DemuxClient(c)'
  <2>1. Cardinality({}) = 0 /\ Len(<<>>) = 0
    BY FS_EmptySet
  <2>2. parents'[c] = <<>> /\ size'[c] = 0 /\ partial'[c] = 0
    BY <1>1, <1>2 DEF DemuxTypes
  <2>3. Pieces(c)' = 0 /\ InOrder(c)'
    BY <2>1, <2>2 DEF Pieces, InOrder
  <2>4. Tally(c)'
    BY <1>1, <1>4, <1>5, <1>8, <2>2, <2>3, FreshTally
  <2> QED BY <1>1, <1>4, <2>2, <2>3, <2>4 DEF DemuxClient
<1> QED BY <1>3, <1>7, <1>9, <1>10 DEF DemuxInv

(* The steps of a worker that has a computation. *)

LEMMA DemuxPop ==
  ASSUME DemuxInv, NEW w \in Workers, Demux!Pop(w)
  PROVE  DemuxInv'
<1>0. PICK c \in Clients : c = Head(queue)
  BY HeadTailProperties DEF DemuxInv, DemuxTypes, Demux!Pop
<1>1. /\ workerPc[w] = "drain" /\ queue # <<>>
      /\ working' = [working EXCEPT ![w] = c]
      /\ queue' = Tail(queue)
      /\ workerPc' = [workerPc EXCEPT ![w] = "add"]
      /\ UNCHANGED <<destructor, piece, clientPc, size, partial, unqueued,
                     dataready, parents, counter, minimumSplit>>
  BY <1>0 DEF Demux!Pop, Demux!clientVars, Demux!options
<1>2. DemuxTypes /\ WorkersOfDemux
  BY DEF DemuxInv
<1>3. queue' \in Seq(Clients)
  BY <1>1, <1>2, HeadTailProperties DEF DemuxTypes
<1>4. ASSUME NEW d
      PROVE  Left(d) = Left(d)' + (IF d = c THEN 1 ELSE 0)
  BY <1>0, <1>1, <1>2, TimesTail DEF DemuxTypes, Left
<1>5. DemuxTypes'
  BY <1>1, <1>2, <1>3 DEF DemuxTypes
<1>6. NoClient \notin Clients
  BY NetworksAssumption DEF Demux!SplitAssumption
<1>7. /\ working[w] = NoClient /\ working'[w] = c /\ workerPc'[w] = "add"
      /\ \A v \in Workers : v # w => /\ working'[v] = working[v]
                                     /\ workerPc'[v] = workerPc[v]
  BY <1>1, <1>2 DEF DemuxTypes, WorkersOfDemux
<1>8. WorkersOfDemux'
  BY <1>1, <1>2, <1>3, <1>6, <1>7 DEF WorkersOfDemux
<1>9. ASSUME NEW d \in Clients, NEW i, Computing(d, i) PROVE Computing(d, i)'
  BY <1>1, <1>7, <1>9 DEF Computing
<1>10. ASSUME NEW d \in Clients, d # c PROVE DemuxClient(d)'
  <2>1. Busy(d)' = Busy(d) /\ Adding(d)' = Adding(d)
    BY <1>6, <1>7, <1>10 DEF Busy, Adding
  <2>2. Left(d)' = Left(d)
    <3>1. Left(d)' \in Nat
      BY <1>5, TimesFinite DEF DemuxTypes, Left
    <3> QED BY <1>4, <1>10, <3>1
  <2>3. Same(d)
    BY <1>1, <1>9, <2>1, <2>2 DEF Same
  <2> QED BY <2>3, SameClient DEF DemuxInv
<1>11. DemuxClient(c)'
  <2>1. DemuxClient(c)
    BY <1>3 DEF DemuxInv
  <2>2. /\ w \notin Busy(c) /\ w \in Busy(c)' /\ Busy(c) \ {w} = Busy(c)' \ {w}
        /\ w \notin Adding(c) /\ w \in Adding(c)'
        /\ Adding(c) \ {w} = Adding(c)' \ {w}
    BY <1>1, <1>3, <1>6, <1>7 DEF Busy, Adding
  <2>3. /\ Cardinality(Busy(c)') = Cardinality(Busy(c)) + 1
        /\ Cardinality(Adding(c)') = Cardinality(Adding(c)) + 1
        /\ Cardinality(Busy(c)) \in Nat /\ Cardinality(Adding(c)) \in Nat
    <3>1. IsFiniteSet(Busy(c)) /\ IsFiniteSet(Adding(c))
      BY BusyFinite
    <3>2. /\ Cardinality(Busy(c)') = Cardinality(Busy(c)) + 1 - 0
          /\ Cardinality(Busy(c)) \in Nat
      BY <2>2, <3>1, MoveOne
    <3>3. /\ Cardinality(Adding(c)') = Cardinality(Adding(c)) + 1 - 0
          /\ Cardinality(Adding(c)) \in Nat
      BY <2>2, <3>1, MoveOne
    <3> QED BY <3>2, <3>3
  <2>4. Left(c) = Left(c)' + 1 /\ Left(c)' \in Nat
    BY <1>4, <1>5, TimesFinite DEF DemuxTypes, Left
  <2>5. Tally(c)'
    <3>1. Moved(c, 0, 1, -1, 0, 1)
      <4>1. Len(parents'[c]) = Len(parents[c]) + 0
        BY <1>1, <1>2, LenProperties DEF DemuxTypes
      <4>2. /\ Cardinality(Busy(c)') = Cardinality(Busy(c)) + 1
            /\ Cardinality(Adding(c)') = Cardinality(Adding(c)) + 1
        BY <2>3
      <4>3. Left(c)' = Left(c) + (-1)
        BY <2>4
      <4>4. /\ unqueued'[c] = unqueued[c] + 0
            /\ dataready'[c] = dataready[c] + 0 + (-1) + 1
            /\ 0 + 1 + (-1) + 0 = 0
        <5>1. /\ unqueued[c] \in Int /\ dataready[c] \in Int
              /\ unqueued' = unqueued /\ dataready' = dataready
          BY <1>1, <1>2 DEF DemuxTypes
        <5> QED BY <5>1
      <4>5. destructor' = destructor /\ size'[c] = size[c]
              /\ minimumSplit' = minimumSplit
        BY <1>1
      <4> QED BY <4>1, <4>2, <4>3, <4>4, <4>5, Zenon DEF Moved
    <3> QED BY <1>2, <2>1, <3>1, TallyMoves DEF DemuxClient
  <2>6. InOrder(c)'
    BY <1>1, <1>3, <1>9, <2>1 DEF DemuxClient, InOrder, Demux!PieceInputs
  <2> QED BY <1>1, <2>1, <2>5, <2>6 DEF DemuxClient, Demux!PartialSize
<1> QED BY <1>5, <1>8, <1>10, <1>11 DEF DemuxInv

LEMMA PieceInputsType ==
  ASSUME DemuxTypes, NEW c \in Clients, NEW i \in Nat
  PROVE  Demux!PieceInputs(c, i) \in SUBSET Int
<1>1. size[c] \in Nat /\ partial[c] \in Nat
  BY DEF DemuxTypes
<1> QED BY <1>1 DEF Demux!PieceInputs

LEMMA DemuxAddParent ==
  ASSUME DemuxInv, NEW w \in Workers, Demux!AddParent(w)
  PROVE  DemuxInv'
<1>0. PICK c \in Clients, n \in Nat : c = working[w] /\ n = Len(parents[c])
  <2>1. working[w] \in Clients
    BY DEF DemuxInv, DemuxTypes, WorkersOfDemux, Demux!AddParent
  <2>2. Len(parents[working[w]]) \in Nat
    BY <2>1, LenProperties DEF DemuxInv, DemuxTypes
  <2> QED BY <2>1, <2>2
<1> DEFINE r == [network |-> counter', inputs |-> Demux!PieceInputs(c, n),
                 computed |-> FALSE]
<1>1. /\ workerPc[w] = "add"
      /\ counter' = (counter + 1) % Networks
      /\ parents' = [parents EXCEPT ![c] = Append(parents[c], r)]
      /\ piece' = [piece EXCEPT ![w] = Len(parents'[c])]
      /\ workerPc' = [workerPc EXCEPT ![w] = "compute"]
      /\ UNCHANGED <<queue, destructor, working, clientPc, size, partial,
                     unqueued, dataready, minimumSplit>>
  BY <1>0 DEF Demux!AddParent, Demux!options, Demux!NextPiece
<1>2. DemuxTypes /\ WorkersOfDemux
  BY DEF DemuxInv
<1>3. c # NoClient
  BY NetworksAssumption DEF Demux!SplitAssumption
<1>4. counter' \in 0 .. Networks - 1
  BY <1>1, <1>2, NetworksAssumption DEF DemuxTypes, Demux!SplitAssumption
<1>5. r \in [network : Int, inputs : SUBSET Int, computed : BOOLEAN]
  BY <1>2, <1>3, <1>4, PieceInputsType
<1>6. r.inputs = Demux!PieceInputs(c, n) /\ r.computed = FALSE
  OBVIOUS
<1> HIDE DEF r
<1>7. /\ parents'[c] = Append(parents[c], r)
      /\ \A d \in Clients : d # c => parents'[d] = parents[d]
  BY <1>1, <1>2, <1>3 DEF DemuxTypes
<1>8. /\ Append(parents[c], r) \in Seq([network : Int, inputs : SUBSET Int,
                                        computed : BOOLEAN])
      /\ Len(parents'[c]) = n + 1 /\ parents'[c][n + 1] = r
      /\ \A i \in 1 .. n : parents'[c][i] = parents[c][i]
  BY <1>0, <1>2, <1>3, <1>5, <1>7, AppendProperties DEF DemuxTypes
<1>9. /\ workerPc'[w] = "compute" /\ piece'[w] = n + 1
      /\ \A v \in Workers : v # w => /\ workerPc'[v] = workerPc[v]
                                     /\ piece'[v] = piece[v]
  BY <1>1, <1>2, <1>8 DEF DemuxTypes
<1>10. DemuxTypes'
  <2>1. parents' \in [Clients -> Seq([network : Int, inputs : SUBSET Int,
                                      computed : BOOLEAN])]
    BY <1>1, <1>2, <1>8 DEF DemuxTypes
  <2>2. piece' \in [Workers -> Nat]
    BY <1>1, <1>2, <1>3, <1>8 DEF DemuxTypes
  <2> QED BY <1>1, <1>2, <1>4, <2>1, <2>2 DEF DemuxTypes
<1>11. WorkersOfDemux'
  <2> SUFFICES ASSUME NEW v \in Workers
               PROVE  /\ working'[v] # NoClient
                           <=> workerPc'[v] \in {"add", "compute", "notify"}
                      /\ workerPc'[v] = "compute" =>
                           piece'[v] \in 1 .. Len(parents'[working'[v]])
    BY DEF WorkersOfDemux
  <2>1. CASE v = w
    BY <1>0, <1>1, <1>3, <1>8, <1>9, <2>1
  <2>2. CASE v # w /\ workerPc[v] = "compute"
    <3>1. piece[v] \in 1 .. Len(parents[working[v]]) /\ working[v] \in Clients
      BY <1>2, <2>2 DEF WorkersOfDemux, DemuxTypes
    <3>2. piece[v] \in 1 .. Len(parents'[working[v]])
      <4>1. CASE working[v] = c
        BY <1>0, <1>3, <1>8, <3>1, <4>1
      <4>2. CASE working[v] # c
        BY <1>7, <3>1, <4>2
      <4> QED BY <4>1, <4>2
    <3> QED BY <1>1, <1>2, <1>9, <2>2, <3>2 DEF WorkersOfDemux
  <2>3. CASE v # w /\ workerPc[v] # "compute"
    BY <1>1, <1>2, <1>9, <2>3 DEF WorkersOfDemux
  <2> QED BY <2>1, <2>2, <2>3
<1>12. ASSUME NEW d \in Clients
       PROVE  /\ Left(d)' = Left(d) /\ Busy(d)' = Busy(d)
              /\ \A i : Computing(d, i) => Computing(d, i)'
  <2>1. Left(d)' = Left(d) /\ Busy(d)' = Busy(d)
    BY <1>1, LeftSame DEF Busy
  <2> QED BY <1>1, <1>9, <2>1 DEF Computing
<1>13. ASSUME NEW d \in Clients, d # c PROVE DemuxClient(d)'
  <2>1. Adding(d)' = Adding(d)
    BY <1>0, <1>1, <1>9, <1>13 DEF Adding, Busy
  <2>2. Same(d)
    BY <1>1, <1>7, <1>12, <1>13, <2>1 DEF Same
  <2> QED BY <2>2, SameClient DEF DemuxInv
<1>14. DemuxClient(c)'
  <2>1. DemuxClient(c)
    BY <1>3 DEF DemuxInv
  <2>2. w \in Busy(c)
    BY <1>0 DEF Busy
  <2>3. clientPc[c] \notin {"idle", "reading"}
    BY <1>3, <2>1, <2>2, NothingLeft DEF DemuxClient
  <2>4. /\ Cardinality(Adding(c)') = Cardinality(Adding(c)) - 1
        /\ Cardinality(Adding(c)) \in Nat
    <3>1. /\ w \in Adding(c) /\ w \notin Adding(c)'
          /\ Adding(c) \ {w} = Adding(c)' \ {w}
      BY <1>1, <1>9, <2>2 DEF Adding, Busy
    <3>2. /\ Cardinality(Adding(c)') = Cardinality(Adding(c)) + 0 - 1
          /\ Cardinality(Adding(c)) \in Nat
      BY <3>1, BusyFinite, MoveOne
    <3> QED BY <3>2
  <2>5. Tally(c)'
    <3>1. Moved(c, 1, -1, 0, 0, 0)
      <4>1. Len(parents'[c]) = Len(parents[c]) + 1
        BY <1>0, <1>8
      <4>2. /\ Cardinality(Busy(c)') = Cardinality(Busy(c)) + 0
            /\ Cardinality(Adding(c)') = Cardinality(Adding(c)) + (-1)
        BY <1>12, <2>4, BusyFinite
      <4>3. Left(c)' = Left(c) + 0
        BY <1>2, <1>12, LeftIsNat
      <4>4. /\ unqueued'[c] = unqueued[c] + 0
            /\ dataready'[c] = dataready[c] + 0 + 0 + 0
            /\ 1 + (-1) + 0 + 0 = 0
        BY <1>1, <1>2 DEF DemuxTypes
      <4>5. destructor' = destructor /\ size'[c] = size[c]
              /\ minimumSplit' = minimumSplit
        BY <1>1
      <4> QED BY <4>1, <4>2, <4>3, <4>4, <4>5, Zenon DEF Moved
    <3> QED BY <1>2, <2>1, <3>1, TallyMoves DEF DemuxClient
  <2>6. InOrder(c)'
    <3> SUFFICES ASSUME NEW i \in 1 .. n + 1
                 PROVE  /\ parents'[c][i].inputs = Demux!PieceInputs(c, i - 1)'
                        /\ parents'[c][i].computed = FALSE => Computing(c, i)'
      BY <1>8 DEF InOrder
    <3>1. Demux!PieceInputs(c, i - 1)' = Demux!PieceInputs(c, i - 1)
      BY <1>1 DEF Demux!PieceInputs
    <3>2. CASE i \in 1 .. n
      BY <1>0, <1>8, <1>12, <2>1, <3>1, <3>2 DEF DemuxClient, InOrder
    <3>3. CASE i = n + 1
      <4>1. (n + 1) - 1 = n
        BY <1>3
      <4>2. Computing(c, n + 1)'
        BY <1>0, <1>1, <1>9 DEF Computing
      <4> QED BY <1>6, <1>8, <3>1, <3>3, <4>1, <4>2
    <3>4. i \in 1 .. n \/ i = n + 1
      BY <1>0
    <3> QED BY <3>2, <3>3, <3>4, Zenon
  <2> QED BY <1>1, <2>1, <2>3, <2>5, <2>6 DEF DemuxClient, Demux!PartialSize
<1> QED BY <1>10, <1>11, <1>13, <1>14 DEF DemuxInv

LEMMA DemuxCompute ==
  ASSUME DemuxInv, NEW w \in Workers, Demux!Compute(w)
  PROVE  DemuxInv'
<1>0. PICK c \in Clients, n \in Nat, k \in Nat :
        k \in 1 .. n /\ c = working[w] /\ n = Len(parents[c]) /\ k = piece[w]
  <2>1. working[w] \in Clients /\ piece[w] \in 1 .. Len(parents[working[w]])
    BY DEF DemuxInv, DemuxTypes, WorkersOfDemux, Demux!Compute
  <2>2. Len(parents[working[w]]) \in Nat
    BY <2>1, LenProperties DEF DemuxInv, DemuxTypes
  <2> QED BY <2>1, <2>2
<1> DEFINE old == parents[c][k]
           new == [old EXCEPT !.computed = TRUE]
           q == [parents[c] EXCEPT ![k] = new]
           Parents == [network : Int, inputs : SUBSET Int, computed : BOOLEAN]
<1>1. /\ workerPc[w] = "compute"
      /\ parents' = [parents EXCEPT ![c] = q]
      /\ workerPc' = [workerPc EXCEPT ![w] = "notify"]
      /\ UNCHANGED <<queue, destructor, working, piece, clientPc, size, partial,
                     unqueued, dataready, counter, minimumSplit>>
  BY <1>0 DEF Demux!Compute, Demux!options
<1>2. DemuxTypes /\ WorkersOfDemux
  BY DEF DemuxInv
<1>3. c # NoClient
  BY NetworksAssumption DEF Demux!SplitAssumption
<1>4. parents[c] \in Seq(Parents) /\ old \in Parents
  <2>1. parents[c] \in Seq(Parents)
    BY <1>2 DEF DemuxTypes
  <2> HIDE DEF Parents
  <2> QED BY <1>0, <2>1, ElementOfSeq
<1>5. new \in Parents /\ new.inputs = old.inputs /\ new.computed = TRUE
  BY <1>4
<1> HIDE DEF new
<1>6. q \in Seq(Parents) /\ Len(q) = n /\ q[k] = new
      /\ \A i \in 1 .. n : i # k => q[i] = parents[c][i]
  <2> HIDE DEF Parents
  <2> QED BY <1>0, <1>4, <1>5, ExceptSeq, LenProperties
<1> HIDE DEF q
<1>7. /\ parents'[c] = q
      /\ \A d \in Clients : d # c => parents'[d] = parents[d]
      /\ \A d \in Clients : Len(parents'[d]) = Len(parents[d])
  BY <1>0, <1>1, <1>2, <1>6 DEF DemuxTypes
<1>8. /\ workerPc'[w] = "notify"
      /\ \A v \in Workers : v # w => workerPc'[v] = workerPc[v]
  BY <1>1, <1>2 DEF DemuxTypes
<1> HIDE DEF old
<1>9. DemuxTypes'
  <2>1. parents' \in [Clients -> Seq(Parents)]
    BY <1>1, <1>2, <1>6 DEF DemuxTypes
  <2> QED BY <1>1, <1>2, <2>1 DEF DemuxTypes
<1>10. WorkersOfDemux'
  <2> SUFFICES ASSUME NEW v \in Workers
               PROVE  /\ working'[v] # NoClient
                           <=> workerPc'[v] \in {"add", "compute", "notify"}
                      /\ workerPc'[v] = "compute" =>
                           piece'[v] \in 1 .. Len(parents'[working'[v]])
    BY DEF WorkersOfDemux
  <2>1. working[v] # NoClient => working[v] \in Clients
    BY <1>2 DEF DemuxTypes
  <2> QED BY <1>1, <1>2, <1>7, <1>8, <2>1 DEF WorkersOfDemux
<1>11. ASSUME NEW d \in Clients
       PROVE  /\ Left(d)' = Left(d) /\ Busy(d)' = Busy(d) /\ Adding(d)' = Adding(d)
  <2>1. Left(d)' = Left(d) /\ Busy(d)' = Busy(d)
    BY <1>1, LeftSame DEF Busy
  <2> QED BY <1>1, <1>8, <2>1 DEF Adding
<1>12. ASSUME NEW d \in Clients, NEW i, Computing(d, i), d # c \/ i # k
       PROVE  Computing(d, i)'
  BY <1>0, <1>1, <1>8, <1>12 DEF Computing
<1>13. ASSUME NEW d \in Clients PROVE DemuxClient(d)'
  <2>1. DemuxClient(d)
    BY DEF DemuxInv
  <2>2. Tally(d)'
    BY <1>1, <1>7, <1>11, <2>1 DEF DemuxClient, Tally, Pieces, Demux!Splits,
         Demux!PartialSize
  <2>3. InOrder(d)'
    <3>1. CASE d # c
      BY <1>1, <1>7, <1>12, <2>1, <3>1 DEF DemuxClient, InOrder, Demux!PieceInputs
    <3>2. CASE d = c
      <4> SUFFICES ASSUME NEW i \in 1 .. n
                   PROVE  /\ q[i].inputs = Demux!PieceInputs(c, i - 1)'
                          /\ q[i].computed = FALSE => Computing(c, i)'
        BY <1>6, <1>7, <3>2 DEF InOrder
      <4>1. /\ parents[c][i].inputs = Demux!PieceInputs(c, i - 1)
            /\ parents[c][i].computed = FALSE => Computing(c, i)
        BY <1>0, <2>1, <3>2 DEF DemuxClient, InOrder
      <4>2. Demux!PieceInputs(c, i - 1)' = Demux!PieceInputs(c, i - 1)
        BY <1>1 DEF Demux!PieceInputs
      <4>3. CASE i = k
        BY <1>5, <1>6, <4>1, <4>2, <4>3 DEF old
      <4>4. CASE i # k
        BY <1>3, <1>6, <1>12, <4>1, <4>2, <4>4
      <4> QED BY <4>3, <4>4
    <3> QED BY <3>1, <3>2
  <2>4. clientPc[d] = "idle" => parents'[d] = <<>>
    <3>1. CASE d # c
      BY <1>7, <2>1, <3>1 DEF DemuxClient
    <3>2. CASE d = c
      <4>1. w \in Busy(c)
        BY <1>0 DEF Busy
      <4>2. clientPc[c] # "idle"
        BY <1>3, <2>1, <3>2, <4>1, NothingLeft DEF DemuxClient
      <4> QED BY <3>2, <4>2
    <3> QED BY <3>1, <3>2
  <2> QED BY <1>1, <2>1, <2>2, <2>3, <2>4 DEF DemuxClient, Demux!PartialSize
<1> QED BY <1>9, <1>10, <1>13 DEF DemuxInv

LEMMA DemuxNotifyComplete ==
  ASSUME DemuxInv, NEW w \in Workers, Demux!NotifyComplete(w)
  PROVE  DemuxInv'
<1>0. PICK c \in Clients : c = working[w]
  BY DEF DemuxInv, DemuxTypes, WorkersOfDemux, Demux!NotifyComplete
<1>1. /\ workerPc[w] = "notify"
      /\ dataready' = [dataready EXCEPT ![c] = @ - 1]
      /\ working' = [working EXCEPT ![w] = NoClient]
      /\ piece' = [piece EXCEPT ![w] = 0]
      /\ workerPc' = [workerPc EXCEPT ![w] = "drain"]
      /\ UNCHANGED <<queue, destructor, clientPc, size, partial, unqueued,
                     parents, counter, minimumSplit>>
  BY <1>0 DEF Demux!NotifyComplete, Demux!options
<1>2. DemuxTypes /\ WorkersOfDemux
  BY DEF DemuxInv
<1>3. NoClient \notin Clients
  BY NetworksAssumption DEF Demux!SplitAssumption
<1>4. dataready' \in [Clients -> Int] /\ dataready'[c] = dataready[c] - 1
      /\ \A d \in Clients : d # c => dataready'[d] = dataready[d]
  BY <1>1, <1>2, <1>3 DEF DemuxTypes
<1>5. /\ working'[w] = NoClient /\ workerPc'[w] = "drain"
      /\ \A v \in Workers : v # w => /\ working'[v] = working[v]
                                     /\ workerPc'[v] = workerPc[v]
                                     /\ piece'[v] = piece[v]
  BY <1>1, <1>2 DEF DemuxTypes
<1>6. DemuxTypes'
  BY <1>1, <1>2, <1>4 DEF DemuxTypes
<1>7. WorkersOfDemux'
  BY <1>1, <1>2, <1>5 DEF WorkersOfDemux
<1>8. w \in Busy(c)
  BY <1>0 DEF Busy
<1>9. \A d \in Clients : d # c => w \notin Busy(d)
  BY <1>0 DEF Busy
<1>10. ASSUME NEW d \in Clients
       PROVE  /\ Left(d)' = Left(d) /\ Adding(d)' = Adding(d)
              /\ Busy(d)' = Busy(d) \ {w}
              /\ \A i : Computing(d, i) => Computing(d, i)'
  <2>1. Left(d)' = Left(d)
    BY <1>1, LeftSame
  <2>2. Adding(d)' = Adding(d) /\ Busy(d)' = Busy(d) \ {w}
    BY <1>1, <1>3, <1>5 DEF Adding, Busy
  <2>3. \A i : Computing(d, i) => Computing(d, i)'
    BY <1>1, <1>5 DEF Computing
  <2> QED BY <2>1, <2>2, <2>3
<1>11. ASSUME NEW d \in Clients, d # c PROVE DemuxClient(d)'
  <2>1. Same(d)
    BY <1>1, <1>4, <1>9, <1>10, <1>11 DEF Same
  <2> QED BY <2>1, SameClient DEF DemuxInv
<1>12. DemuxClient(c)'
  <2>1. DemuxClient(c)
    BY <1>3 DEF DemuxInv
  <2>2. clientPc[c] \notin {"idle", "reading"}
    BY <1>3, <1>8, <2>1, NothingLeft DEF DemuxClient
  <2>3. /\ Cardinality(Busy(c)') = Cardinality(Busy(c)) - 1
        /\ Cardinality(Busy(c)) \in Nat
    BY <1>3, <1>8, <1>10, BusyFinite, FS_RemoveElement
  <2>4. Tally(c)'
    <3>1. Moved(c, 0, 0, 0, 0, -1)
      <4>1. Len(parents'[c]) = Len(parents[c]) + 0
        BY <1>1, <1>2, LenProperties DEF DemuxTypes
      <4>2. /\ Cardinality(Busy(c)') = Cardinality(Busy(c)) + (-1)
            /\ Cardinality(Adding(c)') = Cardinality(Adding(c)) + 0
        BY <1>10, <2>3, BusyFinite
      <4>3. Left(c)' = Left(c) + 0
        BY <1>2, <1>10, LeftIsNat
      <4>4. /\ unqueued'[c] = unqueued[c] + 0
            /\ dataready'[c] = dataready[c] + 0 + 0 + (-1)
            /\ 0 + 0 + 0 + 0 = 0
        BY <1>1, <1>2, <1>4 DEF DemuxTypes
      <4>5. destructor' = destructor /\ size'[c] = size[c]
              /\ minimumSplit' = minimumSplit
        BY <1>1
      <4> QED BY <4>1, <4>2, <4>3, <4>4, <4>5, Zenon DEF Moved
    <3> QED BY <1>2, <2>1, <3>1, TallyMoves DEF DemuxClient
  <2>5. InOrder(c)'
    BY <1>1, <1>3, <1>10, <2>1 DEF DemuxClient, InOrder, Demux!PieceInputs
  <2> QED BY <1>1, <2>1, <2>2, <2>4, <2>5 DEF DemuxClient, Demux!PartialSize
<1> QED BY <1>6, <1>7, <1>11, <1>12 DEF DemuxInv

LEMMA DemuxUnstick == ASSUME DemuxInv, Demux!Unstick PROVE DemuxInv'
<1>1. /\ \A w \in Workers : workerPc[w] = "exited"
      /\ destructor' = "done"
      /\ dataready' = [c \in Clients |-> dataready[c] - Left(c)]
      /\ queue' = <<>>
      /\ UNCHANGED <<workerPc, working, piece, clientPc, size, partial, unqueued,
                     parents, counter, minimumSplit>>
  <2>1. ASSUME NEW c PROVE Demux!LeftInQueue(c) = Left(c)
    BY SameCardinality, Zenon DEF Demux!LeftInQueue, Left, Times
  <2> QED BY <2>1 DEF Demux!Unstick, Demux!workerVars, Demux!options
<1>2. DemuxTypes /\ Rest
  BY <1>1 DEF DemuxInv, DemuxTypes, Rest
<1>3. \A c \in Clients : Left(c) \in Nat /\ dataready[c] \in Int
  BY <1>2, LeftIsNat DEF DemuxTypes
<1>4. DemuxTypes'
  <2>1. dataready' \in [Clients -> Int]
    BY <1>1, <1>3
  <2>2. queue' \in Seq(Clients)
    BY <1>1
  <2> QED BY <1>1, <1>2, <2>1, <2>2 DEF DemuxTypes
<1>5. WorkersOfDemux'
  BY <1>1, <1>2, RestWorkers DEF DemuxInv
<1>6. ASSUME NEW c \in Clients PROVE DemuxClient(c)'
  <2>1. DemuxClient(c)
    BY DEF DemuxInv
  <2>2. /\ Busy(c)' = Busy(c) /\ \A i : Computing(c, i) => Computing(c, i)'
    BY <1>2, RestFacts
  <2>3. Busy(c) = {}
    BY <1>1, <1>3, NetworksAssumption
       DEF DemuxInv, WorkersOfDemux, Busy, Demux!SplitAssumption
  <2>4. Left(c)' = 0
    <3>1. {i \in DOMAIN queue' : queue'[i] = c} = {}
      BY <1>1
    <3> QED BY <3>1, FS_EmptySet DEF Left, Times
  <2>5. Cardinality({}) = 0
    BY FS_EmptySet
  <2>6. dataready'[c] = dataready[c] - Left(c) /\ dataready[c] \in Int
        /\ Left(c) \in Nat /\ unqueued[c] \in Nat
    BY <1>1, <1>2, <1>3 DEF DemuxTypes
  <2>7. Tally(c)'
    BY <1>1, <2>1, <2>2, <2>3, <2>4, <2>5, <2>6 DEF DemuxClient, Tally
  <2>8. InOrder(c)'
    BY <1>1, <2>1, <2>2 DEF DemuxClient, InOrder, Demux!PieceInputs
  <2>9. dataready[c] = 0 => Left(c) = 0
    BY NothingLeft
  <2> QED BY <1>1, <2>1, <2>6, <2>7, <2>8, <2>9 DEF DemuxClient, Demux!PartialSize
<1> QED BY <1>4, <1>5, <1>6 DEF DemuxInv

LEMMA DemuxStep ==
  ASSUME DemuxInv, Demux!Next
  PROVE  DemuxInv'
<1>1. CASE \E c \in Clients : Demux!Client(c)
  BY <1>1, DemuxComputeBlocking, DemuxEnqueue, DemuxStartOrReturn, DemuxRelease
     DEF Demux!Client
<1>2. CASE \E w \in Workers : Demux!Worker(w) \/ Demux!SpuriousWake(w)
  BY <1>2, DemuxIdleWorker, DemuxPop, DemuxAddParent, DemuxCompute,
     DemuxNotifyComplete DEF Demux!Worker
<1>3. CASE Demux!Abort \/ Demux!Unstick
  BY <1>3, DemuxAbort, DemuxUnstick
<1>4. CASE Demux!Destroyed
  BY <1>4, DemuxStays DEF Demux!Destroyed, Demux!vars, Demux!workerVars,
     Demux!clientVars, Demux!options
<1> QED BY <1>1, <1>2, <1>3, <1>4 DEF Demux!Next

LEMMA Distribute ==
  ASSUME NEW a \in Nat, NEW b \in Nat
  PROVE  (a + 1) * b = a * b + b /\ a * b \in Nat
OBVIOUS

LEMMA SampleIsFound ==
  ASSUME DemuxInv, NEW c \in Clients, clientPc[c] = "reading", destructor # "done",
         NEW s \in 0 .. size[c] - 1
  PROVE  /\ Demux!Found(c, s).idx \in DOMAIN parents[c]
         /\ parents[c][Demux!Found(c, s).idx].computed
         /\ s \in parents[c][Demux!Found(c, s).idx].inputs
         /\ Demux!Found(c, s).offset =
              Cardinality({t \in parents[c][Demux!Found(c, s).idx].inputs : t < s})
<1> DEFINE p == partial[c]
           n == size[c]
           q == s \div p
           r == s % p
           z == q * p
           i == q + 1
           inputs == parents[c][i].inputs
<1>1. DemuxTypes /\ DemuxClient(c)
  BY DEF DemuxInv
<1>2. dataready[c] = 0
  BY <1>1 DEF DemuxClient
<1>3. Busy(c) = {} /\ Adding(c) = {} /\ Left(c) = 0 /\ unqueued[c] = 0
  BY <1>2, NothingLeft
<1>4. n \in Nat \ {0} /\ s \in Nat /\ s < n
  BY <1>1 DEF DemuxTypes
<1>5. p \in Nat \ {0} /\ p = Demux!PartialSize(n)
  BY <1>1, <1>4, PartialFacts DEF DemuxClient, DemuxTypes
<1>6. Len(parents[c]) = (n + p - 1) \div p
  <2>1. Cardinality({}) = 0 /\ Len(parents[c]) \in Nat
    BY <1>1, FS_EmptySet, LenProperties DEF DemuxTypes
  <2>2. Len(parents[c]) = Demux!Splits(n)
    BY <1>1, <1>3, <1>4, <2>1 DEF DemuxClient, Tally, Pieces
  <2> QED BY <1>5, <2>2 DEF Demux!Splits, Demux!Ceil
<1>7. q \in Nat /\ r \in Nat /\ s = z + r /\ r < p /\ q + 1 <= (n + p - 1) \div p
  BY <1>4, <1>5, DivideFacts
<1>8. Demux!Found(c, s) = [idx |-> i, offset |-> r]
  BY DEF Demux!Found
<1> HIDE DEF q, r, p, n
<1>9. (q + 1) * p = z + p /\ z \in Nat
  BY <1>5, <1>7, Distribute
<1>10. i \in 1 .. Len(parents[c]) /\ i - 1 = q /\ DOMAIN parents[c] = 1 .. Len(parents[c])
  <2>1. DOMAIN parents[c] = 1 .. Len(parents[c]) /\ Len(parents[c]) \in Nat
    BY <1>1, LenProperties DEF DemuxTypes
  <2> QED BY <1>6, <1>7, <2>1
<1>11. inputs = Demux!PieceInputs(c, q)
  BY <1>1, <1>10 DEF DemuxClient, InOrder
<1>12. inputs = z .. Demux!Least(n, z + p) - 1
  BY <1>9, <1>11 DEF Demux!PieceInputs, n, p
<1>13. parents[c][i].computed
  <2> DEFINE R == [network : Int, inputs : SUBSET Int, computed : BOOLEAN]
  <2>1. parents[c] \in Seq(R)
    BY <1>1 DEF DemuxTypes
  <2>2. parents[c][i] \in R
    <3> DEFINE P == parents[c]
    <3>1. P \in Seq(R) /\ i \in 1 .. Len(P)
      BY <1>10, <2>1
    <3> HIDE DEF R, P, i
    <3>2. P[i] \in R
      BY <3>1, ElementOfSeq
    <3> QED BY <3>2 DEF P
  <2>3. ~Computing(c, i)
    BY <1>3 DEF Computing, Busy
  <2>4. parents[c][i].computed # FALSE
    BY <1>1, <1>10, <2>3 DEF DemuxClient, InOrder
  <2> HIDE DEF i
  <2> QED BY <2>2, <2>4
<1> HIDE DEF z, i, inputs
<1>14. s \in inputs
  <2>1. s \in Nat /\ z \in Nat /\ z <= s /\ s < n /\ s < z + p
    BY <1>4, <1>5, <1>7, <1>9
  <2>2. s < Demux!Least(n, z + p) /\ Demux!Least(n, z + p) \in Nat
    BY <2>1, <1>4, <1>5 DEF Demux!Least
  <2> QED BY <2>1, <2>2, <1>12
<1>15. {t \in inputs : t < s} = z .. s - 1
  <2>1. PICK m \in Nat : inputs = z .. m - 1 /\ s < m
    <3>1. Demux!Least(n, z + p) \in Nat /\ s < Demux!Least(n, z + p)
      BY <1>4, <1>5, <1>7, <1>9 DEF Demux!Least
    <3> QED BY <1>12, <3>1
  <2>2. ASSUME NEW t PROVE t \in inputs /\ t < s <=> t \in z .. s - 1
    BY <1>4, <1>9, <2>1
  <2> QED BY <2>2
<1>16. Cardinality(z .. s - 1) = r
  <2>1. z \in Int /\ s - 1 \in Int
    BY <1>4, <1>9
  <2>2. Cardinality(z .. s - 1) = IF z > s - 1 THEN 0 ELSE (s - 1) - z + 1
    BY <2>1, FS_Interval
  <2> QED BY <1>4, <1>7, <1>9, <2>2
<1>17. Demux!Found(c, s).idx = i /\ Demux!Found(c, s).offset = r
  BY <1>8
<1> QED BY <1>10, <1>13, <1>14, <1>15, <1>16, <1>17 DEF inputs

LEMMA DemuxResults == DemuxInv => Demux!PiecesAreMine
BY SampleIsFound, SameCardinality, Zenon DEF Demux!PiecesAreMine

-----------------------------------------------------------------------------
(* The comparison of two backends. *)

Numbers == Int \cup {NaN}

CheckTypes ==
  \E n \in Nat : work \in [1 .. n -> [q : Numbers, p : Numbers]]
                   /\ reference \in [1 .. n -> [q : Numbers, p : Numbers]]

LEMMA IntIsNumber ==
  ASSUME NEW a \in Numbers, NEW b \in Numbers
  PROVE  Check!IsNumber(a, b) <=> a \in Int /\ b \in Int
BY NetworksAssumption DEF Check!OutputAssumption, Numbers, Check!IsNumber

(* The tolerance of the code is that of the property. *)
LEMMA AlmostEqualIsWithin ==
  ASSUME NEW a \in Numbers, NEW b \in Numbers
  PROVE  Check!IsAlmostEqual(a, b) <=> Check!Within(<<a, b>>)
<1>1. CASE ~Check!IsNumber(a, b)
  BY <1>1 DEF Check!IsAlmostEqual, Check!Within
<1>2. CASE Check!IsNumber(a, b)
  <2>1. a \in Int /\ b \in Int
    BY <1>2, IntIsNumber
  <2> DEFINE e == IF a < b THEN b - a ELSE a - b
             A == IF a < 0 THEN -a ELSE a
             B == IF b < 0 THEN -b ELSE b
  <2>2. /\ Check!AbsoluteError(a, b) = e
        /\ Check!AbsoluteError(a, 0) = A /\ Check!AbsoluteError(b, 0) = B
    BY <2>1 DEF Check!AbsoluteError
  <2>3. Check!IsAlmostEqual(a, b) <=> 2 * e <= A \/ 2 * e <= B \/ 2 * e <= 2
    <3> HIDE DEF e, A, B
    <3>1. e \in Int /\ A \in Int /\ B \in Int
      BY <2>1 DEF e, A, B
    <3> QED BY <1>2, <2>2, <3>1
            DEF Check!IsAlmostEqual, Check!Greater, Check!Magnitude
  <2>4. Check!Within(<<a, b>>)
          <=> \/ a - b \in -1 .. 1
              \/ \E y \in {a, b, -a, -b} : 2 * (a - b) <= y /\ 2 * (b - a) <= y
    BY <1>2 DEF Check!Within
  <2>5. a - b \in -1 .. 1 <=> 2 * e <= 2
    BY <2>1
  <2>6. (\E y \in {a, b, -a, -b} : 2 * (a - b) <= y /\ 2 * (b - a) <= y)
          <=> 2 * e <= A \/ 2 * e <= B
    BY <2>1
  <2> QED BY <2>3, <2>4, <2>5, <2>6
<1> QED BY <1>1, <1>2

Sample(f, i) == <<work[i][f], reference[i][f]>>

LEMMA SampleTypes ==
  ASSUME CheckTypes
  PROVE  /\ Len(work) \in Nat /\ Len(reference) = Len(work)
         /\ DOMAIN work = 1 .. Len(work)
         /\ \A f \in {"q", "p"} : \A i \in 1 .. Len(work) :
              work[i][f] \in Numbers /\ reference[i][f] \in Numbers
<1>1. PICK n \in Nat : work \in [1 .. n -> [q : Numbers, p : Numbers]]
                         /\ reference \in [1 .. n -> [q : Numbers, p : Numbers]]
  BY DEF CheckTypes
<1>2. Len(work) = n /\ Len(reference) = n /\ DOMAIN work = 1 .. n
  <2> DEFINE R == [q : Numbers, p : Numbers]
  <2>1. ASSUME NEW s \in [1 .. n -> R] PROVE Len(s) = n /\ DOMAIN s = 1 .. n
    <3> HIDE DEF R
    <3>1. s \in Seq(R)
      BY <2>1, SeqDef
    <3>2. Len(s) \in Nat /\ DOMAIN s = 1 .. Len(s) /\ DOMAIN s = 1 .. n
      BY <2>1, <3>1, LenProperties
    <3> QED BY <3>2
  <2> HIDE DEF R
  <2> QED BY <1>1, <2>1 DEF R
<1>3. ASSUME NEW i \in 1 .. n
      PROVE  work[i] \in [q : Numbers, p : Numbers]
               /\ reference[i] \in [q : Numbers, p : Numbers]
  BY <1>1
<1>4. ASSUME NEW r \in [q : Numbers, p : Numbers], NEW f \in {"q", "p"}
      PROVE  r[f] \in Numbers
  OBVIOUS
<1> QED BY <1>2, <1>3, <1>4

LEMMA CheckOnlyIsTrue ==
  ASSUME CheckTypes, NEW f \in {"q", "p"}
  PROVE  (\A x \in Check!Pairs(f) : Check!IsAlmostEqual(x[1], x[2]))
           <=> \A x \in Check!Pairs(f) : Check!Within(x)
<1>1. ASSUME NEW x \in Check!Pairs(f)
      PROVE  Check!IsAlmostEqual(x[1], x[2]) <=> Check!Within(x)
  <2>1. PICK i \in DOMAIN work : x = <<work[i][f], reference[i][f]>>
    BY DEF Check!Pairs
  <2>2. work[i][f] \in Numbers /\ reference[i][f] \in Numbers
    BY <2>1, SampleTypes
  <2>3. x = <<x[1], x[2]>> /\ x[1] \in Numbers /\ x[2] \in Numbers
    BY <2>1, <2>2
  <2> QED BY <2>3, AlmostEqualIsWithin
<1> QED BY <1>1

(* Fractions are compared by cross-multiplication. *)
LEMMA TimesGrows ==
  ASSUME NEW u \in Nat, NEW v \in Nat, NEW d \in Nat, u <= v
  PROVE  u * d <= v * d
<1> DEFINE e == v - u
<1>1. e \in Nat /\ v = u + e
  OBVIOUS
<1> HIDE DEF e
<1>2. v * d = u * d + e * d /\ e * d \in Nat /\ u * d \in Nat
  BY <1>1
<1> QED BY <1>2

LEMMA TimesCancels ==
  ASSUME NEW u \in Nat, NEW v \in Nat, NEW b \in Nat \ {0}, b * u <= b * v
  PROVE  u <= v
<1>1. ASSUME u >= v + 1 PROVE FALSE
  <2>1. (v + 1) * b <= u * b
    BY <1>1, TimesGrows
  <2>2. (v + 1) * b = b * v + b /\ u * b = b * u /\ b * v \in Nat /\ b * u \in Nat
    OBVIOUS
  <2> QED BY <2>1, <2>2
<1> QED BY <1>1

LEMMA LargerFraction ==
  ASSUME NEW a \in Nat, NEW b \in Nat \ {0}, NEW c \in Nat, NEW d \in Nat,
         NEW x \in Nat, NEW y \in Nat,
         b * x <= a * y, a * d <= c * b
  PROVE  d * x <= c * y
<1>1. (b * x) * d <= (a * y) * d
  BY TimesGrows
<1>2. (a * d) * y <= (c * b) * y
  BY TimesGrows
<1>3. /\ (b * x) * d = b * (d * x) /\ (a * y) * d = (a * d) * y
      /\ (c * b) * y = b * (c * y)
      /\ d * x \in Nat /\ c * y \in Nat /\ b * (d * x) \in Nat
      /\ b * (c * y) \in Nat /\ (a * d) * y \in Nat
  OBVIOUS
<1>4. b * (d * x) <= b * (c * y)
  BY <1>1, <1>2, <1>3
<1> QED BY <1>3, <1>4, TimesCancels

(* What the errors are of the first k samples. *)
ErrorTypes == [absolute : Nat, relative : Nat \X (Nat \ {0})]

Abs(a, b) == Check!AbsoluteError(a, b)
Mag(a, b) == Check!Magnitude(a, b)

Counted(f, k) ==
  {i \in 1 .. k : Check!IsNumber(work[i][f], reference[i][f])}

IsMaximum(max, f, k) ==
  /\ \A i \in Counted(f, k) : Abs(work[i][f], reference[i][f]) <= max.absolute
  /\ \/ max.absolute = 0
     \/ \E i \in Counted(f, k) : Abs(work[i][f], reference[i][f]) = max.absolute
  /\ \A i \in Counted(f, k) :
       max.relative[2] * Abs(work[i][f], reference[i][f])
         <= max.relative[1] * Mag(work[i][f], reference[i][f])

LEMMA AbsFacts ==
  ASSUME NEW a \in Int, NEW b \in Int
  PROVE  /\ Abs(a, b) \in Nat /\ Mag(a, b) \in Nat
         /\ Abs(a, b) = a - b \/ Abs(a, b) = b - a
         /\ Abs(a, b) >= a - b /\ Abs(a, b) >= b - a
         /\ ~(a = 0 /\ b = 0) => Mag(a, b) # 0
         /\ a = 0 /\ b = 0 => Abs(a, b) = 0 /\ Mag(a, b) = 0
BY DEF Abs, Mag, Check!AbsoluteError, Check!Magnitude, Check!Greater

IsAdded(new, max, a, b) ==
  /\ new \in ErrorTypes
  /\ new.absolute = IF max.absolute < Abs(a, b) THEN Abs(a, b) ELSE max.absolute
  /\ \/ /\ new.relative = max.relative
        /\ max.relative[2] * Abs(a, b) <= max.relative[1] * Mag(a, b)
     \/ /\ new.relative = <<Abs(a, b), Mag(a, b)>>
        /\ max.relative[1] * Mag(a, b) <= Abs(a, b) * max.relative[2]

LEMMA AddErrorFacts ==
  ASSUME NEW max \in ErrorTypes, NEW a \in Int, NEW b \in Int
  PROVE  IsAdded(Check!AddError(max, <<a, b>>), max, a, b)
<1> DEFINE abs == Abs(a, b)
           mag == Check!Greater(Mag(a, b), IF <<a, b>> = <<0, 0>> THEN 1 ELSE 0)
           num == max.relative[1]
           den == max.relative[2]
           bigger == Check!Greater(max.absolute, abs)
           rel == IF abs * den > num * mag THEN <<abs, mag>> ELSE max.relative
           new == [absolute |-> bigger, relative |-> rel]
<1>1. Check!AddError(max, <<a, b>>) = new
  <2>1. Check!IsNumber(a, b)
    BY IntIsNumber DEF Numbers
  <2> QED BY <2>1 DEF Check!AddError, Abs, Mag
<1>2. /\ max.absolute \in Nat /\ max.relative \in Nat \X (Nat \ {0})
      /\ num \in Nat /\ den \in Nat \ {0}
  BY DEF ErrorTypes
<1>3. abs \in Nat /\ Mag(a, b) \in Nat
  BY AbsFacts
<1>4. \/ mag = Mag(a, b) /\ Mag(a, b) # 0
      \/ mag = 1 /\ Mag(a, b) = 0 /\ abs = 0
  <2>1. CASE a = 0 /\ b = 0
    BY <2>1, AbsFacts DEF Check!Greater
  <2>2. CASE ~(a = 0 /\ b = 0)
    <3>1. <<a, b>> # <<0, 0>> /\ Mag(a, b) # 0
      BY <2>2, AbsFacts
    <3> QED BY <1>3, <3>1 DEF Check!Greater
  <2> QED BY <2>1, <2>2
<1>5. /\ bigger = IF max.absolute < abs THEN abs ELSE max.absolute
      /\ bigger \in Nat
  BY <1>2, <1>3 DEF Check!Greater
<1> HIDE DEF abs, mag, bigger
<1>6. mag \in Nat \ {0}
  BY <1>3, <1>4
<1>7. rel \in Nat \X (Nat \ {0})
  <2> HIDE DEF num, den
  <2> QED BY <1>2, <1>3, <1>6
<1>8. \/ rel = max.relative /\ den * abs <= num * Mag(a, b)
      \/ rel = <<abs, Mag(a, b)>> /\ num * Mag(a, b) <= abs * den
  <2> HIDE DEF num, den
  <2>0. abs * den \in Nat /\ num * mag \in Nat /\ den * abs = abs * den
    BY <1>2, <1>3, <1>6
  <2>1. CASE abs * den > num * mag
    <3>1. abs # 0
      BY <1>2, <1>6, <2>0, <2>1
    <3>2. mag = Mag(a, b)
      BY <1>4, <3>1
    <3> QED BY <2>0, <2>1, <3>2
  <2>2. CASE ~(abs * den > num * mag)
    <3>1. CASE abs = 0
      BY <1>2, <1>3, <2>0, <2>2, <3>1
    <3>2. CASE abs # 0
      <4>1. mag = Mag(a, b)
        BY <1>4, <3>2
      <4> QED BY <2>0, <2>2, <4>1
    <3> QED BY <3>1, <3>2
  <2> QED BY <2>1, <2>2
<1>9. new \in ErrorTypes /\ new.absolute = bigger /\ new.relative = rel
  <2> HIDE DEF rel
  <2> QED BY <1>5, <1>7 DEF ErrorTypes
<1> HIDE DEF new, rel
<1> QED BY <1>1, <1>5, <1>8, <1>9 DEF abs, num, den, IsAdded

LEMMA MaximumGrows ==
  ASSUME CheckTypes, NEW f \in {"q", "p"}, NEW k \in 1 .. Len(work),
         NEW max \in ErrorTypes, IsMaximum(max, f, k - 1)
  PROVE  /\ Check!AddError(max, Sample(f, k)) \in ErrorTypes
         /\ IsMaximum(Check!AddError(max, Sample(f, k)), f, k)
<1> DEFINE a(i) == work[i][f]
           b(i) == reference[i][f]
           new == Check!AddError(max, Sample(f, k))
<1>1. k \in Nat /\ \A i \in 1 .. k : a(i) \in Numbers /\ b(i) \in Numbers
  BY SampleTypes
<1>2. CASE ~Check!IsNumber(a(k), b(k))
  <2>1. new = max
    BY <1>2 DEF Check!AddError, Sample
  <2>2. Counted(f, k) = Counted(f, k - 1)
    BY <1>1, <1>2 DEF Counted
  <2> QED BY <2>1, <2>2 DEF IsMaximum
<1>3. CASE Check!IsNumber(a(k), b(k))
  <2>1. Counted(f, k) = Counted(f, k - 1) \cup {k}
    BY <1>1, <1>3 DEF Counted
  <2>2. \A i \in Counted(f, k) : a(i) \in Int /\ b(i) \in Int
    BY <1>1, IntIsNumber DEF Counted
  <2> DEFINE abs(i) == Abs(a(i), b(i))
             mag(i) == Mag(a(i), b(i))
             num == max.relative[1]
             den == max.relative[2]
  <2>3. \A i \in Counted(f, k) : abs(i) \in Nat /\ mag(i) \in Nat
    BY <2>2, AbsFacts
  <2>4. /\ new \in ErrorTypes
        /\ new.absolute = IF max.absolute < abs(k) THEN abs(k) ELSE max.absolute
        /\ \/ new.relative = max.relative /\ den * abs(k) <= num * mag(k)
           \/ /\ new.relative = <<abs(k), mag(k)>>
              /\ num * mag(k) <= abs(k) * den
    <3>1. a(k) \in Int /\ b(k) \in Int /\ Sample(f, k) = <<a(k), b(k)>>
      BY <2>1, <2>2 DEF Sample
    <3>2. IsAdded(new, max, a(k), b(k))
      <4> HIDE DEF a, b
      <4> QED BY <3>1, AddErrorFacts
    <3> HIDE DEF a, b, new
    <3> QED BY <3>2 DEF IsAdded
  <2>5. /\ \A i \in Counted(f, k - 1) : abs(i) <= max.absolute
        /\ max.absolute = 0 \/ \E i \in Counted(f, k - 1) : abs(i) = max.absolute
        /\ \A i \in Counted(f, k - 1) : den * abs(i) <= num * mag(i)
    BY DEF IsMaximum
  <2>6. num \in Nat /\ den \in Nat \ {0} /\ max.absolute \in Nat
    BY DEF ErrorTypes
  <2> HIDE DEF abs, mag, num, den, new, a, b
  <2>7. \A i \in Counted(f, k) : abs(i) <= new.absolute
    BY <2>1, <2>3, <2>4, <2>5, <2>6
  <2>8. new.absolute = 0 \/ \E i \in Counted(f, k) : abs(i) = new.absolute
    BY <2>1, <2>3, <2>4, <2>5, <2>6
  <2>9. ASSUME NEW i \in Counted(f, k)
        PROVE  new.relative[2] * abs(i) <= new.relative[1] * mag(i)
    <3>1. CASE new.relative = max.relative /\ den * abs(k) <= num * mag(k)
      BY <2>1, <2>5, <3>1 DEF num, den
    <3>2. CASE new.relative = <<abs(k), mag(k)>> /\ num * mag(k) <= abs(k) * den
      <4>1. new.relative[1] = abs(k) /\ new.relative[2] = mag(k)
        BY <3>2
      <4>2. abs(k) \in Nat /\ mag(k) \in Nat /\ abs(i) \in Nat /\ mag(i) \in Nat
        BY <2>1, <2>3
      <4>3. CASE i = k
        <5>1. mag(k) * abs(k) = abs(k) * mag(k) /\ mag(k) * abs(k) \in Nat
          BY <4>2
        <5> QED BY <4>1, <4>3, <5>1
      <4>4. CASE i # k
        <5>1. den * abs(i) <= num * mag(i)
          BY <2>1, <2>5, <4>4
        <5>2. mag(k) * abs(i) <= abs(k) * mag(i)
          BY <2>6, <3>2, <4>2, <5>1, LargerFraction
        <5> QED BY <4>1, <5>2
      <4> QED BY <4>3, <4>4
    <3> QED BY <2>4, <3>1, <3>2
  <2> QED BY <2>4, <2>7, <2>8, <2>9 DEF IsMaximum, abs, mag, new, a, b
<1> QED BY <1>2, <1>3

(* The recursion behind MaximumError. *)
ErrorsTo(f, N, g) ==
  g = [n \in 0 .. N |-> IF n = 0 THEN [absolute |-> 0, relative |-> <<0, 1>>]
                        ELSE Check!AddError(g[n - 1], Sample(f, n))]

LEMMA ErrorsExist == ASSUME NEW f PROVE \A N \in Nat : \E g : ErrorsTo(f, N, g)
<1> DEFINE T == {N \in Nat : ~ \E g : ErrorsTo(f, N, g)}
           none == [absolute |-> 0, relative |-> <<0, 1>>]
           more(x, k) == Check!AddError(x, Sample(f, k))
<1>1. SUFFICES ASSUME T # {} PROVE FALSE
  OBVIOUS
<1>2. PICK N \in T : \A m \in T : N <= m
  <2> HIDE DEF T
  <2>1. T \in SUBSET Nat
    BY DEF T
  <2> QED BY <1>1, <2>1, LeastNat
<1>3. N # 0
  <2> DEFINE g == [k \in 0 .. 0 |-> none]
  <2>1. ErrorsTo(f, 0, g)
    BY DEF ErrorsTo
  <2> QED BY <2>1, <1>2
<1>4. PICK g : ErrorsTo(f, N - 1, g)
  <2>1. N - 1 \in Nat /\ N - 1 \notin T
    BY <1>2, <1>3
  <2> QED BY <2>1
<1> DEFINE h == [k \in 0 .. N |-> IF k < N THEN g[k] ELSE more(g[N - 1], N)]
<1>5. ErrorsTo(f, N, h)
  <2> HIDE DEF more, none
  <2>1. \A k \in 0 .. N - 1 : g[k] = IF k = 0 THEN none ELSE more(g[k - 1], k)
    BY <1>4 DEF ErrorsTo, more, none
  <2>2. ASSUME NEW k \in 0 .. N
        PROVE  h[k] = IF k = 0 THEN none ELSE more(h[k - 1], k)
    <3>1. CASE k = N
      <4>1. N \in 0 .. N /\ N - 1 \in 0 .. N /\ N - 1 < N /\ ~(N < N)
        BY <1>2, <1>3
      <4>2. h[N] = more(g[N - 1], N) /\ h[N - 1] = g[N - 1]
        BY <4>1
      <4> HIDE DEF h
      <4> QED BY <3>1, <4>2, <1>3
    <3>2. CASE k < N
      <4>1. k \in 0 .. N - 1 /\ h[k] = g[k]
        BY <3>2, <1>2
      <4>2. k # 0 => k - 1 \in 0 .. N /\ k - 1 < N
        BY <4>1, <1>2
      <4> QED BY <4>1, <4>2, <2>1
    <3> QED BY <3>1, <3>2, <1>2
  <2>3. h = [k \in 0 .. N |-> h[k]]
    OBVIOUS
  <2> HIDE DEF h
  <2> QED BY <2>2, <2>3 DEF ErrorsTo, more, none
<1> QED BY <1>2, <1>5

LEMMA MaximumErrorFacts ==
  ASSUME CheckTypes, NEW f \in {"q", "p"}
  PROVE  /\ Check!MaximumError(f) \in ErrorTypes
         /\ IsMaximum(Check!MaximumError(f), f, Len(work))
<1> DEFINE N == Len(work)
           g == CHOOSE h : ErrorsTo(f, N, h)
<1>1. N \in Nat
  BY SampleTypes
<1>2. Check!MaximumError(f) = g[N]
  BY DEF Check!MaximumError, ErrorsTo, Sample
<1>3. ErrorsTo(f, N, g)
  <2>1. \E h : ErrorsTo(f, N, h)
    BY <1>1, ErrorsExist
  <2> HIDE DEF N
  <2> QED BY <2>1
<1> HIDE DEF g
<1>4. /\ g[0] = [absolute |-> 0, relative |-> <<0, 1>>]
      /\ \A k \in 1 .. N : g[k] = Check!AddError(g[k - 1], Sample(f, k))
  <2>1. 0 \in 0 .. N /\ \A k \in 1 .. N : k \in 0 .. N /\ k # 0
    BY <1>1
  <2> HIDE DEF N
  <2> QED BY <1>3, <2>1 DEF ErrorsTo
<1> DEFINE Good(k) == g[k] \in ErrorTypes /\ IsMaximum(g[k], f, k)
<1>5. Good(0)
  <2>1. g[0].absolute = 0 /\ g[0].relative = <<0, 1>> /\ g[0] \in ErrorTypes
    BY <1>4 DEF ErrorTypes
  <2>2. Counted(f, 0) = {}
    BY DEF Counted
  <2> QED BY <2>1, <2>2 DEF IsMaximum
<1>6. ASSUME NEW k \in 1 .. N, Good(k - 1) PROVE Good(k)
  BY <1>4, <1>6, MaximumGrows
<1>7. \A k \in 0 .. N : Good(k)
  <2> HIDE DEF Good, N
  <2> DEFINE T == {k \in 0 .. N : ~Good(k)}
  <2>1. SUFFICES ASSUME T # {} PROVE FALSE
    OBVIOUS
  <2>2. PICK k \in T : \A m \in T : k <= m
    <3> HIDE DEF T
    <3>1. T \in SUBSET Nat
      BY <1>1 DEF T
    <3> QED BY <2>1, <3>1, LeastNat
  <2>3. k \in 1 .. N /\ k - 1 \in 0 .. N /\ k - 1 \notin T
    BY <1>1, <1>5, <2>2
  <2> QED BY <1>6, <2>2, <2>3
<1> QED BY <1>1, <1>2, <1>7

LEMMA DisplayIsTrue ==
  ASSUME CheckTypes, NEW f \in {"q", "p"}
  PROVE  Check!ErrorsAre(Check!MaximumError(f), Check!Pairs(f))
<1> DEFINE max == Check!MaximumError(f)
           numbers == {x \in Check!Pairs(f) : Check!IsNumber(x[1], x[2])}
<1>1. max \in ErrorTypes /\ IsMaximum(max, f, Len(work))
  BY MaximumErrorFacts
<1>2. ASSUME NEW x \in numbers
      PROVE  /\ x[1] \in Int /\ x[2] \in Int
             /\ \E i \in Counted(f, Len(work)) :
                  x[1] = work[i][f] /\ x[2] = reference[i][f]
  <2>1. PICK i \in DOMAIN work : x = <<work[i][f], reference[i][f]>>
    BY DEF Check!Pairs
  <2>2. i \in 1 .. Len(work) /\ x[1] \in Numbers /\ x[2] \in Numbers
    BY <2>1, SampleTypes
  <2>3. x[1] \in Int /\ x[2] \in Int
    BY <2>2, IntIsNumber
  <2> QED BY <2>1, <2>2, <2>3 DEF Counted
<1>3. ASSUME NEW i \in Counted(f, Len(work))
      PROVE  /\ <<work[i][f], reference[i][f]>> \in numbers
             /\ work[i][f] \in Int /\ reference[i][f] \in Int
  <2>1. i \in DOMAIN work /\ work[i][f] \in Numbers /\ reference[i][f] \in Numbers
    BY SampleTypes DEF Counted
  <2> QED BY <2>1, IntIsNumber DEF Counted, Check!Pairs
<1> HIDE DEF max, numbers
<1>4. max.absolute \in Nat
  BY <1>1 DEF ErrorTypes
<1>5. ASSUME NEW x \in numbers
      PROVE  max.absolute >= x[1] - x[2] /\ max.absolute >= x[2] - x[1]
  <2>1. /\ Abs(x[1], x[2]) <= max.absolute /\ Abs(x[1], x[2]) \in Nat
        /\ Abs(x[1], x[2]) >= x[1] - x[2] /\ Abs(x[1], x[2]) >= x[2] - x[1]
    BY <1>1, <1>2, AbsFacts DEF IsMaximum
  <2> QED BY <1>2, <1>4, <2>1
<1>6. max.absolute = 0 \/ \E x \in numbers : x[1] - x[2] \in {max.absolute, -max.absolute}
  <2> SUFFICES ASSUME max.absolute # 0
               PROVE  \E x \in numbers : x[1] - x[2] \in {max.absolute, -max.absolute}
    OBVIOUS
  <2>1. PICK i \in Counted(f, Len(work)) :
          Abs(work[i][f], reference[i][f]) = max.absolute
    BY <1>1 DEF IsMaximum
  <2> DEFINE x == <<work[i][f], reference[i][f]>>
  <2>2. x \in numbers /\ x[1] \in Int /\ x[2] \in Int
        /\ Abs(x[1], x[2]) = max.absolute
    BY <1>3, <2>1
  <2> HIDE DEF x
  <2>3. max.absolute = x[1] - x[2] \/ max.absolute = x[2] - x[1]
    BY <2>2, AbsFacts
  <2>4. x[1] - x[2] \in {max.absolute, -max.absolute}
    BY <1>4, <2>2, <2>3
  <2> QED BY <2>2, <2>4
<1>7. ASSUME NEW x \in numbers
      PROVE  max.relative[2] * Check!AbsoluteError(x[1], x[2])
               <= max.relative[1] * Check!Magnitude(x[1], x[2])
  BY <1>1, <1>2 DEF IsMaximum, Abs, Mag
<1> QED BY <1>5, <1>6, <1>7 DEF Check!ErrorsAre, max, numbers

CheckInv == CheckTypes /\ Check!ReportIsTrue

LEMMA CheckInitHolds == Check!Init => CheckInv
<1> SUFFICES ASSUME Check!Init PROVE CheckInv
  OBVIOUS
<1>1. PICK n \in Lengths : work \in [1 .. n -> Outputs] /\ reference \in [1 .. n -> Outputs]
  BY DEF Check!Init
<1>2. n \in Nat /\ Outputs \subseteq [q : Numbers, p : Numbers]
  BY NetworksAssumption DEF Check!OutputAssumption, Numbers
<1>3. CheckTypes
  BY <1>1, <1>2 DEF CheckTypes
<1> QED BY <1>3 DEF CheckInv, Check!Init, Check!ReportIsTrue

LEMMA CheckStep == ASSUME CheckInv, Check!Next PROVE CheckInv'
<1>1. /\ report' = CASE mode = "display" -> [value |-> Check!MaximumError("q"),
                                             policy |-> Check!MaximumError("p")]
                     [] mode = "histo" -> [total |-> 2 * Len(work)]
                     [] OTHER -> Check!CheckOnly
      /\ mode' = mode /\ work' = work /\ reference' = reference
  BY DEF Check!Next, Check!ComputeBlocking
<1>2. CheckTypes /\ CheckTypes'
  BY <1>1 DEF CheckInv, CheckTypes
<1>3. Check!Pairs("q")' = Check!Pairs("q") /\ Check!Pairs("p")' = Check!Pairs("p")
  BY <1>1 DEF Check!Pairs
<1>4. CASE mode = "display"
  <2>1. report'.value = Check!MaximumError("q") /\ report'.policy = Check!MaximumError("p")
    BY <1>1, <1>4
  <2>2. Check!ErrorsAre(report'.value, Check!Pairs("q"))
          /\ Check!ErrorsAre(report'.policy, Check!Pairs("p"))
    BY <1>2, <2>1, DisplayIsTrue
  <2> QED BY <1>1, <1>2, <1>3, <1>4, <2>2 DEF CheckInv, Check!ReportIsTrue,
             Check!ErrorsAre
<1>5. CASE mode = "histo"
  <2>1. report'.total = Len(work) + Len(reference)
    BY <1>1, <1>2, <1>5, SampleTypes
  <2> QED BY <1>1, <1>2, <1>5, <2>1 DEF CheckInv, Check!ReportIsTrue
<1>6. CASE mode # "display" /\ mode # "histo"
  <2>1. report' = Check!CheckOnly
    BY <1>1, <1>6
  <2>2. /\ report'.value = (\A x \in Check!Pairs("q") : Check!Within(x))
        /\ report'.policy = (\A x \in Check!Pairs("p") : Check!Within(x))
    BY <1>2, <2>1, CheckOnlyIsTrue DEF Check!CheckOnly
  <2> QED BY <1>1, <1>2, <1>3, <1>6, <2>2 DEF CheckInv, Check!ReportIsTrue,
             Check!Within
<1> QED BY <1>4, <1>5, <1>6

-----------------------------------------------------------------------------
(* All of neural/: one part is at work, and the others stand still.        *)

LEMMA SeStays == SeInv /\ UNCHANGED seVars => SeInv'
<1> SUFFICES ASSUME SeInv, UNCHANGED seVars PROVE SeInv'
  OBVIOUS
<1>1. UNCHANGED <<unit, warpPc, at, sharedData, read>>
  BY DEF seVars
<1>2. /\ Warps' = Warps /\ Channels' = Channels
      /\ \A w : BothStore(w)' = BothStore(w) /\ Lanes(w)' = Lanes(w)
  BY <1>1 DEF Warps, Channels, BothStore, FirstLayer, Lanes
<1>3. SeTypes'
  BY <1>1, <1>2 DEF SeInv, SeTypes
<1> QED BY <1>1, <1>2, <1>3 DEF SeInv, Averaging, FirstLayerPhase, SecondLayerPhase

MuxPart == part = "mux" => MuxInv

LEMMA MuxPartHolds == BackendsSpec => []MuxPart
<1>1. BackendsInit => MuxPart
  BY MuxInitHolds DEF BackendsInit, NetworksInit, MuxPart
<1>2. ASSUME MuxPart, [BackendsNext]_neuralVars PROVE MuxPart'
  <2> SUFFICES ASSUME part' = "mux" PROVE MuxInv'
    BY DEF MuxPart
  <2>1. CASE MuxNext
    <3>1. MuxInv /\ Next
      BY <1>2, <2>1 DEF MuxNext, MuxPart
    <3> QED BY <3>1, MuxStep
  <2>2. CASE DemuxNext \/ CheckNext
    BY <2>2 DEF DemuxNext, CheckNext
  <2>3. CASE UNCHANGED allVars
    <3>1. part = "mux" /\ UNCHANGED vars
      BY <2>3 DEF allVars, shared, muxVars, vars, workerVars, clientVars, batchVars
    <3> QED BY <1>2, <3>1, MuxStays DEF MuxPart
  <2>4. MuxNext \/ DemuxNext \/ CheckNext \/ UNCHANGED allVars
    BY <1>2 DEF BackendsNext, WrapperStep, NetworksNext, CudnnStep, BlasStep,
         SeStep, neuralVars
  <2> QED BY <2>1, <2>2, <2>3, <2>4
<1> QED BY <1>1, <1>2, PTL DEF BackendsSpec

(* What a client of the multiplexer reads is the result of its own inputs; *)
(* until then its computation is in one place, and a worker is awake while *)
(* computations are queued (network_mux.cc): for any number of clients,    *)
(* workers, batches and inputs.                                            *)
THEOREM MuxedCorrect == BackendsSpec => []MuxedResultsAreMine
<1>1. MuxPart => MuxedResultsAreMine
  BY MuxResults DEF MuxPart, MuxedResultsAreMine, MuxInv
<1> QED BY <1>1, MuxPartHolds, PTL

DemuxPart == part = "demux" => DemuxInv

LEMMA DemuxPartHolds == BackendsSpec => []DemuxPart
<1>1. BackendsInit => DemuxPart
  BY DemuxInitHolds DEF BackendsInit, NetworksInit, DemuxPart
<1>2. ASSUME DemuxPart, [BackendsNext]_neuralVars PROVE DemuxPart'
  <2> SUFFICES ASSUME part' = "demux" PROVE DemuxInv'
    BY DEF DemuxPart
  <2>1. CASE DemuxNext
    <3>1. DemuxInv /\ Demux!Next
      BY <1>2, <2>1 DEF DemuxNext, DemuxPart
    <3> QED BY <3>1, DemuxStep
  <2>2. CASE MuxNext \/ CheckNext
    BY <2>2 DEF MuxNext, CheckNext
  <2>3. CASE UNCHANGED allVars
    <3>1. DemuxInv
      BY <1>2, <2>3 DEF DemuxPart, allVars
    <3> QED BY <2>3, <3>1, DemuxStays DEF allVars, shared, demuxVars
  <2>4. DemuxNext \/ MuxNext \/ CheckNext \/ UNCHANGED allVars
    BY <1>2 DEF BackendsNext, WrapperStep, NetworksNext, CudnnStep, BlasStep,
         SeStep, neuralVars
  <2> QED BY <2>1, <2>2, <2>3, <2>4
<1> QED BY <1>1, <1>2, PTL DEF BackendsSpec

(* Until the destructor gives up, every sample a client of the             *)
(* demultiplexer reads is in a piece that was computed, at the place of    *)
(* its own input (network_demux.cc): for any number of clients, workers,   *)
(* networks and inputs, and any minimum size of a piece.                   *)
THEOREM DemuxedCorrect == BackendsSpec => []DemuxedPiecesAreMine
<1>1. DemuxPart => DemuxedPiecesAreMine
  BY DemuxResults DEF DemuxPart, DemuxedPiecesAreMine
<1> QED BY <1>1, DemuxPartHolds, PTL

CheckPart == part = "check" => CheckInv

LEMMA CheckPartHolds == BackendsSpec => []CheckPart
<1>1. BackendsInit => CheckPart
  BY CheckInitHolds DEF BackendsInit, NetworksInit, CheckPart
<1>2. ASSUME CheckPart, [BackendsNext]_neuralVars PROVE CheckPart'
  <2> SUFFICES ASSUME part' = "check" PROVE CheckInv'
    BY DEF CheckPart
  <2>1. CASE CheckNext
    <3>1. CheckInv /\ Check!Next
      BY <1>2, <2>1 DEF CheckNext, CheckPart
    <3> QED BY <3>1, CheckStep
  <2>2. CASE MuxNext \/ DemuxNext
    BY <2>2 DEF MuxNext, DemuxNext
  <2>3. CASE UNCHANGED allVars
    <3>1. CheckInv /\ UNCHANGED <<work, reference, mode, report>>
      BY <1>2, <2>3 DEF CheckPart, allVars, checkVars
    <3>2. CheckTypes'
      BY <3>1 DEF CheckInv, CheckTypes
    <3>3. Check!Pairs("q")' = Check!Pairs("q") /\ Check!Pairs("p")' = Check!Pairs("p")
      BY <3>1 DEF Check!Pairs
    <3>4. Check!ReportIsTrue'
      BY <3>1, <3>3 DEF CheckInv, Check!ReportIsTrue, Check!ErrorsAre, Check!Within
    <3> QED BY <3>2, <3>4 DEF CheckInv
  <2>4. CheckNext \/ MuxNext \/ DemuxNext \/ UNCHANGED allVars
    BY <1>2 DEF BackendsNext, WrapperStep, NetworksNext, CudnnStep, BlasStep,
         SeStep, neuralVars
  <2> QED BY <2>1, <2>2, <2>3, <2>4
<1> QED BY <1>1, <1>2, PTL DEF BackendsSpec

(* What the comparison of two backends reports is true of their outputs    *)
(* (network_check.cc): a check passes only if every pair of outputs is     *)
(* within the tolerances, and the errors displayed are the largest; for    *)
(* batches of any size and any integer outputs.                            *)
THEOREM CheckCorrect == BackendsSpec => []CheckReportIsTrue
<1>1. CheckPart => CheckReportIsTrue
  BY DEF CheckPart, CheckInv, CheckReportIsTrue
<1> QED BY <1>1, CheckPartHolds, PTL

SePart == part = "fused" => SeInv

LEMMA SePartHolds == BackendsSpec => []SePart
<1>1. BackendsInit => SePart
  BY SeInitHolds DEF BackendsInit, NetworksInit, SePart
<1>2. ASSUME SePart, [BackendsNext]_neuralVars PROVE SePart'
  <2> SUFFICES ASSUME part' = "fused" PROVE SeInv'
    BY DEF SePart
  <2>1. CASE SeStep
    <3>1. SeInv /\ SeNext
      BY <1>2, <2>1 DEF SeStep, SePart
    <3> QED BY <3>1, SeStepHolds
  <2>2. CASE CudnnStep \/ BlasStep
    BY <2>2 DEF CudnnStep, BlasStep, allVars
  <2>3. CASE UNCHANGED <<part, seVars>>
    BY <1>2, <2>3, SeStays DEF SePart
  <2>4. SeStep \/ CudnnStep \/ BlasStep \/ UNCHANGED <<part, seVars>>
    BY <1>2 DEF BackendsNext, WrapperStep, NetworksNext, MuxNext, DemuxNext,
         CheckNext, neuralVars, allVars, backendVars
  <2> QED BY <2>1, <2>2, <2>3, <2>4
<1> QED BY <1>1, <1>2, PTL DEF BackendsSpec

(* For any number of warps and outputs, no warp of the fused kernel reads  *)
(* a hidden value before it is stored, nor an average that was overwritten *)
(* (fp16_kernels.cu:85), unless two warps store hidden values.             *)
THEOREM FusedCorrect == BackendsSpec => []FusedUnitInOrder
<1>1. SePart => FusedUnitInOrder
  BY DEF SePart, SeInv, SeTypes, FusedUnitInOrder, OnlyStoringWarpsRace
<1> QED BY <1>1, SePartHolds, PTL

(* The order of the layers (layers.h:171) is kept by the kernels whose     *)
(* outputs one warp has, those of 16 and 32 outputs.                       *)
THEOREM NarrowUnitsInOrder ==
  ASSUME \A u \in Units : u.outputs <= WarpSize
  PROVE  BackendsSpec => []FusedLayersInOrder
<1>1. ASSUME SePart, part = "fused" PROVE UnitIsComputedInOrder
  <2>1. SeTypes /\ unit.outputs <= WarpSize /\ WarpSize \in Nat \ {0}
    BY <1>1, UnitAssumption DEF SePart, SeInv, SeTypes
  <2>2. /\ unit.channels \in Nat /\ unit.outputs \in Nat
        /\ \A w \in Warps : w \in Nat
    BY <2>1, LaneFacts DEF Warps
  <2>3. ASSUME NEW c \in Nat, NEW W \in Nat \ {0}, c < W PROVE c \div W = 0
    BY <2>3
  <2>4. \A w \in Warps : FirstLayer(w) # {} => w = 0
    <3> SUFFICES ASSUME NEW w \in Warps, NEW c \in FirstLayer(w) PROVE w = 0
      OBVIOUS
    <3>1. c \in Nat /\ c < WarpSize /\ c \div WarpSize = w
      BY <2>1, <2>2 DEF FirstLayer, Lanes
    <3> QED BY <2>1, <2>3, <3>1
  <2> SUFFICES ASSUME NEW w \in Warps, <<1, "hidden">> \in read[w] PROVE FALSE
    BY <2>1 DEF SeTypes, UnitIsComputedInOrder
  <2> QED BY <2>1, <2>4 DEF SeTypes, BothStore
<1>2. SePart => FusedLayersInOrder
  BY <1>1 DEF FusedLayersInOrder
<1> QED BY <1>2, SePartHolds, PTL

-----------------------------------------------------------------------------
(* The CUDA backend: the layers, and the calls that run them. *)

(* The constructor looks at the first block only to tell whether there are *)
(* units, and forwardEval() goes by that for all blocks.                   *)
BlocksAlike == \A n \in CudnnNets : \A b \in DOMAIN n.se : n.se[b] = n.se[1]

(* The recursion behind FlattenSeq. *)
FlattensTo(f, N, g) ==
  g = [i \in 1 .. N |-> IF i = 1 THEN f[i] ELSE g[i - 1] \o f[i]]

LEMMA FlatteningsExist ==
  ASSUME NEW f PROVE \A N \in Nat : \E g : FlattensTo(f, N, g)
<1> DEFINE T == {N \in Nat : ~ \E g : FlattensTo(f, N, g)}
<1>1. SUFFICES ASSUME T # {} PROVE FALSE
  OBVIOUS
<1>2. PICK N \in T : \A m \in T : N <= m
  <2> HIDE DEF T
  <2>1. T \in SUBSET Nat
    BY DEF T
  <2> QED BY <1>1, <2>1, LeastNat
<1>3. N # 0
  <2> DEFINE g == [i \in 1 .. 0 |-> <<>>]
  <2>1. FlattensTo(f, 0, g)
    BY DEF FlattensTo
  <2> QED BY <2>1, <1>2
<1>4. PICK g : FlattensTo(f, N - 1, g)
  <2>1. N - 1 \in Nat /\ N - 1 \notin T
    BY <1>2, <1>3
  <2> QED BY <2>1
<1> DEFINE last == IF N = 1 THEN f[N] ELSE g[N - 1] \o f[N]
           h == [i \in 1 .. N |-> IF i < N THEN g[i] ELSE last]
<1>5. FlattensTo(f, N, h)
  <2>1. \A i \in 1 .. N - 1 : g[i] = IF i = 1 THEN f[i] ELSE g[i - 1] \o f[i]
    BY <1>4 DEF FlattensTo
  <2>2. ASSUME NEW i \in 1 .. N
        PROVE  h[i] = IF i = 1 THEN f[i] ELSE h[i - 1] \o f[i]
    <3>1. CASE i = N
      <4>1. h[N] = last
        BY <1>2, <1>3
      <4>2. N # 1 => h[N - 1] = g[N - 1]
        BY <1>2, <1>3
      <4> HIDE DEF h
      <4> QED BY <3>1, <4>1, <4>2
    <3>2. CASE i < N
      <4>1. i \in 1 .. N - 1 /\ h[i] = g[i]
        BY <3>2, <1>2
      <4>2. i # 1 => h[i - 1] = g[i - 1]
        BY <4>1, <1>2
      <4> HIDE DEF h
      <4> QED BY <4>1, <4>2, <2>1
    <3> QED BY <3>1, <3>2, <1>2
  <2>3. h = [i \in 1 .. N |-> h[i]]
    OBVIOUS
  <2> HIDE DEF h
  <2> QED BY <2>2, <2>3 DEF FlattensTo
<1> QED BY <1>2, <1>5

(* What lies where in two sequences, one after the other. *)
IsTwoParts(l, s, e, S) ==
  /\ l \in Seq(S)
  /\ Len(l) = Len(s) + Len(e)
  /\ Len(s) \in Nat /\ Len(e) \in Nat
  /\ \A i \in 1 .. Len(s) : l[i] = s[i]
  /\ \A i \in 1 .. Len(e) : l[Len(s) + i] = e[i]

LEMMA TwoParts ==
  ASSUME NEW S, NEW s \in Seq(S), NEW e \in Seq(S)
  PROVE  IsTwoParts(s \o e, s, e, S)
BY DEF IsTwoParts

(* Where the blocks lie when they are put one after the other, each of the *)
(* same length.                                                            *)
IsFlat(l, f, n, p, S) ==
  /\ l \in Seq(S)
  /\ Len(l) = n * p
  /\ \A b \in 1 .. n : \A i \in 1 .. p : l[(b - 1) * p + i] = f[b][i]

LEMMA FlattenFacts ==
  ASSUME NEW S, NEW n \in Nat \ {0}, NEW p \in Nat, p = 2 \/ p = 3,
         NEW f \in [1 .. n -> Seq(S)], \A b \in 1 .. n : Len(f[b]) = p
  PROVE  IsFlat(FlattenSeq(f), f, n, p, S)
<1>1. Len(f) = n
  OBVIOUS
<1> DEFINE g == CHOOSE h : FlattensTo(f, n, h)
<1>2. FlattenSeq(f) = g[n]
  BY <1>1 DEF FlattenSeq, FlattensTo
<1>3. FlattensTo(f, n, g)
  BY FlatteningsExist
<1>4. \A i \in 1 .. n : g[i] = IF i = 1 THEN f[i] ELSE g[i - 1] \o f[i]
  <2> HIDE DEF g
  <2> QED BY <1>3 DEF FlattensTo
<1> HIDE DEF g
<1> DEFINE Good(k) == /\ g[k] \in Seq(S)
                      /\ Len(g[k]) = k * p
                      /\ \A b \in 1 .. k : \A i \in 1 .. p :
                           g[k][(b - 1) * p + i] = f[b][i]
           Bad == {k \in 1 .. n : ~Good(k)}
<1>5. Good(1)
  BY <1>4
<1>6. ASSUME NEW k \in 1 .. n, k + 1 \in 1 .. n, Good(k) PROVE Good(k + 1)
  <2>1. g[k + 1] = g[k] \o f[k + 1]
    <3>1. k + 1 # 1 /\ (k + 1) - 1 = k
      OBVIOUS
    <3> QED BY <3>1, <1>6, <1>4
  <2>2. /\ f[k + 1] \in Seq(S) /\ Len(f[k + 1]) = p
    BY <1>6
  <2>3. /\ g[k + 1] \in Seq(S)
        /\ Len(g[k + 1]) = k * p + p
        /\ \A j \in 1 .. k * p : g[k + 1][j] = g[k][j]
        /\ \A j \in 1 .. p : g[k + 1][k * p + j] = f[k + 1][j]
    <3> DEFINE s == g[k]
               e == f[k + 1]
    <3>1. s \in Seq(S) /\ e \in Seq(S) /\ Len(s) = k * p /\ Len(e) = p
      BY <1>6, <2>2
    <3>2. g[k + 1] = s \o e
      BY <2>1
    <3> HIDE DEF s, e
    <3>3. k * p \in Nat
      OBVIOUS
    <3> DEFINE m == k * p
    <3>4. /\ s \o e \in Seq(S)
          /\ Len(s \o e) = m + p
          /\ \A j \in 1 .. m : (s \o e)[j] = s[j]
          /\ \A j \in 1 .. p : (s \o e)[m + j] = e[j]
      <4>1. Len(s) = m /\ m \in Nat
        BY <3>1, <3>3
      <4> HIDE DEF m
      <4>2. IsTwoParts(s \o e, s, e, S)
        BY <3>1, TwoParts
      <4> QED BY <3>1, <4>1, <4>2 DEF IsTwoParts
    <3> QED BY <3>2, <3>4 DEF s, e
  <2>4. (k + 1) * p = k * p + p
    OBVIOUS
  <2>5. ASSUME NEW b \in 1 .. k + 1, NEW i \in 1 .. p
        PROVE  g[k + 1][(b - 1) * p + i] = f[b][i]
    <3>1. CASE b = k + 1
      BY <3>1, <2>3
    <3>2. CASE b \in 1 .. k
      <4>1. (b - 1) * p + i \in 1 .. k * p
        <5>1. CASE p = 2
          BY <5>1, <3>2
        <5>2. CASE p = 3
          BY <5>2, <3>2
        <5> QED BY <5>1, <5>2
      <4> QED BY <4>1, <3>2, <2>3, <1>6
    <3> QED BY <3>1, <3>2
  <2> QED BY <2>3, <2>4, <2>5
<1>7. Good(n)
  <2> HIDE DEF Good
  <2>1. SUFFICES ASSUME Bad # {} PROVE FALSE
    BY DEF Bad
  <2>2. Bad \in SUBSET Nat
    BY DEF Bad
  <2>3. PICK k \in Bad : \A m \in Bad : k <= m
    <3> HIDE DEF Bad
    <3> QED BY <2>1, <2>2, LeastNat
  <2>4. k \in 1 .. n /\ k # 1
    BY <2>3, <1>5
  <2>5. k - 1 \in 1 .. n /\ k - 1 \notin Bad
    BY <2>3, <2>4
  <2>6. Good(k - 1)
    BY <2>5
  <2>7. (k - 1) + 1 = k
    BY <2>4
  <2> QED BY <2>3, <2>4, <2>5, <2>6, <2>7, <1>6
<1> QED BY <1>2, <1>7 DEF IsFlat

(* The same between a beginning and two ends. *)
IsList(list, first, f, n, p, c, d, S) ==
  /\ list \in Seq(S)
  /\ Len(list) = Len(first) + n * p + Len(c) + Len(d)
  /\ \A i \in 1 .. Len(first) : list[i] = first[i]
  /\ \A b \in 1 .. n : \A i \in 1 .. p :
       list[Len(first) + ((b - 1) * p + i)] = f[b][i]
  /\ \A i \in 1 .. Len(c) : list[Len(first) + n * p + i] = c[i]
  /\ \A i \in 1 .. Len(d) : list[Len(first) + n * p + Len(c) + i] = d[i]

LEMMA ListFacts ==
  ASSUME NEW S, NEW n \in Nat \ {0}, NEW p \in Nat, p = 2 \/ p = 3,
         NEW f \in [1 .. n -> Seq(S)], \A b \in 1 .. n : Len(f[b]) = p,
         NEW first \in Seq(S), NEW c \in Seq(S), NEW d \in Seq(S)
  PROVE  IsList(first \o FlattenSeq(f) \o c \o d, first, f, n, p, c, d, S)
<1> DEFINE list == first \o FlattenSeq(f) \o c \o d
<1>0. /\ FlattenSeq(f) \in Seq(S) /\ Len(FlattenSeq(f)) = n * p
      /\ \A b \in 1 .. n : \A i \in 1 .. p : FlattenSeq(f)[(b - 1) * p + i] = f[b][i]
  <2>1. IsFlat(FlattenSeq(f), f, n, p, S)
    BY FlattenFacts
  <2> QED BY <2>1, Zenon DEF IsFlat
<1> DEFINE e == FlattenSeq(f)
           m == n * p
<1>1. m \in Nat
  OBVIOUS
<1>2. /\ e \in Seq(S) /\ Len(e) = m
      /\ \A b \in 1 .. n : \A i \in 1 .. p : e[(b - 1) * p + i] = f[b][i]
  BY <1>0, Zenon
<1>3. \A b \in 1 .. n : \A i \in 1 .. p : (b - 1) * p + i \in 1 .. m
  <2>1. CASE p = 2
    BY <2>1
  <2>2. CASE p = 3
    BY <2>2
  <2> QED BY <2>1, <2>2
<1> HIDE DEF e, m
<1>4. /\ first \o e \in Seq(S) /\ Len(first \o e) = Len(first) + m
      /\ \A i \in 1 .. Len(first) : (first \o e)[i] = first[i]
      /\ \A j \in 1 .. m : (first \o e)[Len(first) + j] = e[j]
  <2>1. IsTwoParts(first \o e, first, e, S)
    BY <1>2, TwoParts
  <2> QED BY <2>1, <1>2 DEF IsTwoParts
<1>5. /\ first \o e \o c \in Seq(S) /\ Len(first \o e \o c) = Len(first) + m + Len(c)
      /\ \A i \in 1 .. Len(first) : (first \o e \o c)[i] = first[i]
      /\ \A j \in 1 .. m : (first \o e \o c)[Len(first) + j] = e[j]
      /\ \A i \in 1 .. Len(c) : (first \o e \o c)[Len(first) + m + i] = c[i]
  <2> DEFINE u == first \o e
  <2> HIDE DEF u
  <2>1. /\ u \in Seq(S) /\ Len(u) = Len(first) + m /\ Len(first) \in Nat
        /\ \A i \in 1 .. Len(first) : u[i] = first[i]
        /\ \A j \in 1 .. m : u[Len(first) + j] = e[j]
    <3>1. Len(first) \in Nat
      OBVIOUS
    <3> QED BY <1>4, <3>1, Zenon DEF u
  <2>2. /\ u \o c \in Seq(S) /\ Len(u \o c) = Len(u) + Len(c)
        /\ \A i \in 1 .. Len(u) : (u \o c)[i] = u[i]
        /\ \A i \in 1 .. Len(c) : (u \o c)[Len(u) + i] = c[i]
    <3>1. IsTwoParts(u \o c, u, c, S)
      BY <2>1, TwoParts
    <3> QED BY <3>1, Zenon DEF IsTwoParts
  <2>3. \A i \in 1 .. Len(first) : (u \o c)[i] = first[i]
    BY <2>1, <2>2, <1>1
  <2>4. \A j \in 1 .. m : (u \o c)[Len(first) + j] = e[j]
    BY <2>1, <2>2, <1>1
  <2> QED BY <2>1, <2>2, <2>3, <2>4 DEF u
<1>6. /\ list \in Seq(S) /\ Len(list) = Len(first) + m + Len(c) + Len(d)
      /\ \A i \in 1 .. Len(first) : list[i] = first[i]
      /\ \A j \in 1 .. m : list[Len(first) + j] = e[j]
      /\ \A i \in 1 .. Len(c) : list[Len(first) + m + i] = c[i]
      /\ \A i \in 1 .. Len(d) : list[Len(first) + m + Len(c) + i] = d[i]
  <2> DEFINE u == first \o e \o c
  <2>1. list = u \o d
    BY DEF e
  <2> HIDE DEF u, list
  <2>2. /\ u \in Seq(S) /\ Len(u) = Len(first) + m + Len(c)
        /\ Len(first) \in Nat /\ Len(c) \in Nat
        /\ \A i \in 1 .. Len(first) : u[i] = first[i]
        /\ \A j \in 1 .. m : u[Len(first) + j] = e[j]
        /\ \A i \in 1 .. Len(c) : u[Len(first) + m + i] = c[i]
    <3>1. Len(first) \in Nat /\ Len(c) \in Nat
      OBVIOUS
    <3> QED BY <1>5, <3>1, Zenon DEF u
  <2>3. /\ list \in Seq(S) /\ Len(list) = Len(u) + Len(d)
        /\ \A i \in 1 .. Len(u) : list[i] = u[i]
        /\ \A i \in 1 .. Len(d) : list[Len(u) + i] = d[i]
    <3>1. IsTwoParts(u \o d, u, d, S)
      BY <2>2, TwoParts
    <3> QED BY <2>1, <3>1, Zenon DEF IsTwoParts
  <2>4. \A i \in 1 .. Len(first) : list[i] = first[i]
    BY <2>2, <2>3, <1>1
  <2>5. ASSUME NEW j \in 1 .. m PROVE list[Len(first) + j] = e[j]
    <3>1. Len(first) + j \in 1 .. Len(u)
      BY <2>2, <1>1
    <3> QED BY <2>2, <2>3, <3>1
  <2>6. \A i \in 1 .. Len(c) : list[Len(first) + m + i] = c[i]
    BY <2>2, <2>3, <1>1
  <2> QED BY <2>2, <2>3, <2>4, <2>5, <2>6
<1> HIDE DEF list
<1>7. \A b \in 1 .. n : \A i \in 1 .. p :
        list[Len(first) + ((b - 1) * p + i)] = f[b][i]
  <2>1. ASSUME NEW b \in 1 .. n, NEW i \in 1 .. p
        PROVE  list[Len(first) + ((b - 1) * p + i)] = f[b][i]
    <3> DEFINE j == (b - 1) * p + i
    <3>1. j \in 1 .. m /\ e[j] = f[b][i]
      BY <1>2, <1>3, Zenon
    <3> HIDE DEF j
    <3>2. list[Len(first) + j] = f[b][i]
      BY <1>6, <3>1, Zenon
    <3> QED BY <3>2, Zenon DEF j
  <2> QED BY <2>1, Zenon
<1>8. IsList(list, first, f, n, p, c, d, S)
  BY <1>6, <1>7, Zenon DEF m, IsList
<1> QED BY <1>8 DEF list

(* The two lists run side by side. *)
MemoryNames == {"m0", "m1", "m2", "policy", "value"}
CallRecords ==
  [call : {"expand", "eval", "convert"}, out : MemoryNames,
   in : MemoryNames \cup {"input"}, in2 : MemoryNames \cup {Nothing}]
LayerRecords ==
  [kind : {"conv", "fc", "se", "policymap", "softmax"},
   weights : {"", "input", "conv1", "conv2", "policy1", "policy", "ip_pol",
              "value", "ip1_val", "ip2_val"} \X Nat,
   c : Nat, hw : Nat, relu : BOOLEAN, bias : BOOLEAN, tanh : BOOLEAN]

BlockLength == IF HasSe THEN 3 ELSE 2
BlockStart(b) == (b - 1) * BlockLength
PolicyEvals == IF net.convPolicy THEN 3 ELSE 2
ValueEvals == IF net.wdl THEN 4 ELSE 3
Converts == IF opt.half THEN 1 ELSE 0
TowerEnd == Len(net.se) * BlockLength

LEMMA NetFacts ==
  ASSUME net \in CudnnNets
  PROVE  /\ net.se \in Seq(BOOLEAN) /\ Len(net.se) \in Nat \ {0}
         /\ net.filters \in Nat /\ net.policyChannels \in Nat
         /\ net.valueChannels \in Nat /\ net.hidden \in Nat
         /\ BlockLength \in {2, 3} /\ TowerEnd \in Nat
<1>1. /\ net.se \in Seq(BOOLEAN) /\ net.se # <<>>
      /\ net.filters \in Nat /\ net.policyChannels \in Nat
      /\ net.valueChannels \in Nat /\ net.hidden \in Nat
  BY CudnnAssumption, Zenon
<1>2. Len(net.se) \in Nat \ {0}
  BY <1>1
<1>3. BlockLength \in {2, 3}
  BY DEF BlockLength
<1>4. TowerEnd \in Nat
  BY <1>2, <1>3 DEF TowerEnd
<1> QED BY <1>1, <1>2, <1>3, <1>4

LEMMA StartFacts ==
  ASSUME net \in CudnnNets
  PROVE  /\ BlockStart(1) = 0
         /\ BlockStart(Len(net.se) + 1) = TowerEnd
         /\ \A b \in 1 .. Len(net.se) :
              /\ BlockStart(b) \in Nat
              /\ BlockStart(b + 1) = BlockStart(b) + BlockLength
              /\ BlockStart(b) + BlockLength <= TowerEnd
<1>1. CASE BlockLength = 2
  BY <1>1, NetFacts DEF BlockStart, TowerEnd
<1>2. CASE BlockLength = 3
  BY <1>2, NetFacts DEF BlockStart, TowerEnd
<1> QED BY <1>1, <1>2, NetFacts

LEMMA CallsFacts ==
  ASSUME net \in CudnnNets
  PROVE  /\ Calls \in Seq(CallRecords)
         /\ Len(PolicyCalls) = PolicyEvals + Converts
         /\ Len(ValueCalls) = ValueEvals + Converts
         /\ Len(Calls) = 2 + TowerEnd + PolicyEvals + Converts + ValueEvals + Converts
         /\ Calls[1] = [call |-> "expand", out |-> "m0", in |-> "input", in2 |-> Nothing]
         /\ Calls[2] = Eval("m2", "m0", Nothing)
         /\ \A b \in 1 .. Len(net.se) : \A i \in 1 .. BlockLength :
              Calls[2 + (BlockStart(b) + i)] = BlockCalls[i]
         /\ \A i \in 1 .. PolicyEvals + Converts :
              Calls[2 + TowerEnd + i] = PolicyCalls[i]
         /\ \A i \in 1 .. ValueEvals + Converts :
              Calls[2 + TowerEnd + (PolicyEvals + Converts) + i] = ValueCalls[i]
<1> DEFINE first == <<[call |-> "expand", out |-> "m0", in |-> "input", in2 |-> Nothing],
                      Eval("m2", "m0", Nothing)>>
           f == [bk \in DOMAIN net.se |-> BlockCalls]
           S == CallRecords
<1>0. /\ [call |-> "expand", out |-> "m0", in |-> "input", in2 |-> Nothing] \in S
      /\ \A out \in MemoryNames, in \in MemoryNames, in2 \in MemoryNames \cup {Nothing} :
           Eval(out, in, in2) \in S
      /\ \A out \in MemoryNames, in \in MemoryNames : Convert(out, in) \in S
  BY DEF CallRecords, Eval, Convert, MemoryNames
<1>n. /\ "m0" \in MemoryNames /\ "m1" \in MemoryNames /\ "m2" \in MemoryNames
      /\ "policy" \in MemoryNames /\ "value" \in MemoryNames
      /\ "m2" \in MemoryNames \cup {Nothing} /\ Nothing \in MemoryNames \cup {Nothing}
  BY DEF MemoryNames
<1> HIDE DEF S
<1>1. first \in Seq(S) /\ Len(first) = 2
  <2>1. Eval("m2", "m0", Nothing) \in S
    BY <1>0, <1>n
  <2> QED BY <1>0, <2>1
<1>2. BlockCalls \in Seq(S) /\ Len(BlockCalls) = BlockLength
  <2>1. /\ Eval("m0", "m2", Nothing) \in S /\ Eval("m1", "m0", Nothing) \in S
        /\ Eval("m2", "m1", "m2") \in S /\ Eval("m2", "m0", "m2") \in S
    BY <1>0, <1>n
  <2> QED BY <2>1 DEF BlockCalls, BlockLength
<1>3. f \in [1 .. Len(net.se) -> Seq(S)] /\ \A b \in 1 .. Len(net.se) : f[b] = BlockCalls
  BY <1>2, NetFacts
<1>4. PolicyCalls \in Seq(S) /\ Len(PolicyCalls) = PolicyEvals + Converts
  <2>1. /\ Eval("m0", "m2", Nothing) \in S /\ Eval("m1", "m0", Nothing) \in S
    BY <1>0, <1>n
  <2>2. ASSUME NEW buffer \in MemoryNames, NEW in \in MemoryNames
        PROVE  /\ LastCalls("policy", buffer, in) \in Seq(S)
               /\ Len(LastCalls("policy", buffer, in)) = 1 + Converts
    <3>1. /\ Eval(buffer, in, Nothing) \in S /\ Convert("policy", buffer) \in S
          /\ Eval("policy", in, Nothing) \in S
      BY <1>0, <1>n
    <3> QED BY <3>1 DEF LastCalls, Converts
  <2>3. /\ LastCalls("policy", "m0", "m1") \in Seq(S)
        /\ Len(LastCalls("policy", "m0", "m1")) = 1 + Converts
        /\ LastCalls("policy", "m1", "m0") \in Seq(S)
        /\ Len(LastCalls("policy", "m1", "m0")) = 1 + Converts
        /\ Converts \in Nat
    BY <2>2, <1>n DEF Converts
  <2>4. CASE net.convPolicy
    BY <2>1, <2>3, <2>4 DEF PolicyCalls, PolicyEvals
  <2>5. CASE ~net.convPolicy
    BY <2>1, <2>3, <2>5 DEF PolicyCalls, PolicyEvals
  <2> QED BY <2>4, <2>5
<1>5. ValueCalls \in Seq(S) /\ Len(ValueCalls) = ValueEvals + Converts
  <2>1. /\ Eval("m0", "m2", Nothing) \in S /\ Eval("m1", "m0", Nothing) \in S
        /\ Eval("m2", "m1", Nothing) \in S
    BY <1>0, <1>n
  <2>2. ASSUME NEW buffer \in MemoryNames, NEW in \in MemoryNames
        PROVE  /\ LastCalls("value", buffer, in) \in Seq(S)
               /\ Len(LastCalls("value", buffer, in)) = 1 + Converts
    <3>1. /\ Eval(buffer, in, Nothing) \in S /\ Convert("value", buffer) \in S
          /\ Eval("value", in, Nothing) \in S
      BY <1>0, <1>n
    <3> QED BY <3>1 DEF LastCalls, Converts
  <2>3. /\ LastCalls("value", "m0", "m2") \in Seq(S)
        /\ Len(LastCalls("value", "m0", "m2")) = 1 + Converts
        /\ LastCalls("value", "m2", "m1") \in Seq(S)
        /\ Len(LastCalls("value", "m2", "m1")) = 1 + Converts
        /\ Converts \in Nat
    BY <2>2, <1>n DEF Converts
  <2>4. CASE net.wdl
    BY <2>1, <2>3, <2>4 DEF ValueCalls, ValueEvals
  <2>5. CASE ~net.wdl
    BY <2>1, <2>3, <2>5 DEF ValueCalls, ValueEvals
  <2> QED BY <2>4, <2>5
<1>6. Calls = first \o FlattenSeq(f) \o PolicyCalls \o ValueCalls
  BY DEF Calls
<1> DEFINE n == Len(net.se)
           p == BlockLength
           list == Calls
<1>7. n \in Nat \ {0} /\ p \in Nat /\ (p = 2 \/ p = 3)
  BY NetFacts
<1>8. \A b \in 1 .. n : Len(f[b]) = p
  BY <1>2, <1>3
<1> HIDE DEF first, f, S, n, p, list
<1>9. /\ list \in Seq(S)
      /\ Len(list) = Len(first) + n * p + Len(PolicyCalls) + Len(ValueCalls)
      /\ \A i \in 1 .. Len(first) : list[i] = first[i]
      /\ \A b \in 1 .. n : \A i \in 1 .. p :
           list[Len(first) + ((b - 1) * p + i)] = f[b][i]
      /\ \A i \in 1 .. Len(PolicyCalls) : list[Len(first) + n * p + i] = PolicyCalls[i]
      /\ \A i \in 1 .. Len(ValueCalls) :
           list[Len(first) + n * p + Len(PolicyCalls) + i] = ValueCalls[i]
  <2>1. f \in [1 .. n -> Seq(S)]
    BY <1>3 DEF n
  <2>2. list = first \o FlattenSeq(f) \o PolicyCalls \o ValueCalls
    BY <1>6 DEF list
  <2>3. IsList(first \o FlattenSeq(f) \o PolicyCalls \o ValueCalls,
               first, f, n, p, PolicyCalls, ValueCalls, S)
    BY <1>1, <1>4, <1>5, <1>7, <1>8, <2>1, ListFacts
  <2> QED BY <2>2, <2>3, Zenon DEF IsList
<1>10. n * p = TowerEnd /\ TowerEnd \in Nat
  BY NetFacts DEF n, p, TowerEnd
<1>11. Calls[1] = first[1] /\ Calls[2] = first[2]
  BY <1>1, <1>9 DEF list
<1>12. \A b \in 1 .. Len(net.se) : \A i \in 1 .. BlockLength :
         Calls[2 + (BlockStart(b) + i)] = BlockCalls[i]
  BY <1>1, <1>3, <1>9 DEF list, n, p, BlockStart
<1>13. Len(Calls) = 2 + TowerEnd + PolicyEvals + Converts + ValueEvals + Converts
  <2>1. Len(Calls) = 2 + TowerEnd + (PolicyEvals + Converts) + (ValueEvals + Converts)
    BY <1>1, <1>4, <1>5, <1>9, <1>10 DEF list
  <2> QED BY <2>1, <1>10 DEF PolicyEvals, Converts, ValueEvals
<1>14. /\ \A i \in 1 .. PolicyEvals + Converts :
            Calls[2 + TowerEnd + i] = PolicyCalls[i]
       /\ \A i \in 1 .. ValueEvals + Converts :
            Calls[2 + TowerEnd + (PolicyEvals + Converts) + i] = ValueCalls[i]
  BY <1>1, <1>4, <1>5, <1>9, <1>10 DEF list
<1> QED BY <1>4, <1>5, <1>9, <1>11, <1>12, <1>13, <1>14 DEF list, first, S

LEMMA LayersFacts ==
  ASSUME net \in CudnnNets, BlocksAlike
  PROVE  /\ Layers \in Seq(LayerRecords)
         /\ Len(Layers) = 1 + TowerEnd + PolicyEvals + ValueEvals
         /\ Layers[1] = ConvLayer(<<"input", 0>>, net.filters, TRUE, TRUE)
         /\ \A b \in 1 .. Len(net.se) : \A i \in 1 .. BlockLength :
              Layers[1 + (BlockStart(b) + i)] = BlockLayers(b)[i]
         /\ \A i \in 1 .. PolicyEvals : Layers[1 + TowerEnd + i] = PolicyLayers[i]
         /\ \A i \in 1 .. ValueEvals :
              Layers[1 + TowerEnd + PolicyEvals + i] = ValueLayers[i]
<1> DEFINE first == <<ConvLayer(<<"input", 0>>, net.filters, TRUE, TRUE)>>
           f == [bk \in DOMAIN net.se |-> BlockLayers(bk)]
           S == LayerRecords
           W == {"", "input", "conv1", "conv2", "policy1", "policy", "ip_pol",
                 "value", "ip1_val", "ip2_val"} \X Nat
<1>0. /\ \A weights \in W, c \in Nat :
           /\ ConvLayer(weights, c, TRUE, TRUE) \in S
           /\ ConvLayer(weights, c, FALSE, TRUE) \in S
           /\ ConvLayer(weights, c, FALSE, FALSE) \in S
           /\ FCLayer(weights, c, TRUE, FALSE) \in S
           /\ FCLayer(weights, c, FALSE, FALSE) \in S
           /\ FCLayer(weights, c, FALSE, TRUE) \in S
      /\ \A kind \in {"se", "policymap", "softmax"}, weights \in W, c \in Nat, hw \in Nat :
           OtherLayer(kind, weights, c, hw) \in S
  <2>1. S = [kind : {"conv", "fc", "se", "policymap", "softmax"}, weights : W,
             c : Nat, hw : Nat, relu : BOOLEAN, bias : BOOLEAN, tanh : BOOLEAN]
    BY Zenon DEF LayerRecords
  <2> HIDE DEF W, S
  <2>2. ASSUME NEW weights \in W, NEW c \in Nat, NEW relu \in BOOLEAN, NEW bias \in BOOLEAN
        PROVE  ConvLayer(weights, c, relu, bias) \in S /\ FCLayer(weights, c, relu, bias) \in S
    BY <2>1 DEF ConvLayer, FCLayer, Squares
  <2>3. ASSUME NEW kind \in {"se", "policymap", "softmax"}, NEW weights \in W,
               NEW c \in Nat, NEW hw \in Nat
        PROVE  OtherLayer(kind, weights, c, hw) \in S
    BY <2>1 DEF OtherLayer
  <2> QED BY <2>2, <2>3
<1>w. /\ <<"input", 0>> \in W /\ <<"policy1", 0>> \in W /\ <<"policy", 0>> \in W
      /\ <<"", 0>> \in W /\ <<"ip_pol", 0>> \in W /\ <<"value", 0>> \in W
      /\ <<"ip1_val", 0>> \in W /\ <<"ip2_val", 0>> \in W
      /\ \A b \in Nat : <<"conv1", b>> \in W /\ <<"conv2", b>> \in W
  OBVIOUS
<1> HIDE DEF W, S
<1>1. first \in Seq(S) /\ Len(first) = 1
  <2>1. ConvLayer(<<"input", 0>>, net.filters, TRUE, TRUE) \in S
    BY <1>0, <1>w, NetFacts
  <2> DEFINE l == ConvLayer(<<"input", 0>>, net.filters, TRUE, TRUE)
  <2>2. l \in S /\ first = <<l>>
    BY <2>1
  <2> HIDE DEF l, first
  <2> QED BY <2>2
<1>2. ASSUME NEW b \in DOMAIN net.se
      PROVE  BlockLayers(b) \in Seq(S) /\ Len(BlockLayers(b)) = BlockLength
  <2>1. b \in Nat /\ net.se[b] \in BOOLEAN /\ net.se[b] = HasSe
    BY NetFacts DEF BlocksAlike, HasSe
  <2> DEFINE l1 == ConvLayer(<<"conv1", b>>, net.filters, TRUE, TRUE)
             l2 == ConvLayer(<<"conv2", b>>, net.filters, TRUE, TRUE)
             l2Se == ConvLayer(<<"conv2", b>>, net.filters, FALSE, FALSE)
             l3 == OtherLayer("se", <<"conv2", b>>, net.filters, Squares)
  <2>2. l1 \in S /\ l2 \in S /\ l2Se \in S /\ l3 \in S
    <3>1. Squares \in Nat
      BY DEF Squares
    <3> QED BY <1>0, <1>w, <2>1, <3>1, NetFacts
  <2>3. CASE net.se[b]
    <3>1. BlockLayers(b) = <<l1, l2Se>> \o <<l3>>
      BY <2>3 DEF BlockLayers
    <3>2. BlockLength = 3
      BY <2>1, <2>3 DEF BlockLength
    <3> HIDE DEF l1, l2, l2Se, l3
    <3> QED BY <2>2, <3>1, <3>2
  <2>4. CASE ~net.se[b]
    <3>1. BlockLayers(b) = <<l1, l2>> \o <<>>
      BY <2>4 DEF BlockLayers
    <3>2. BlockLength = 2
      BY <2>1, <2>4 DEF BlockLength
    <3> HIDE DEF l1, l2, l2Se, l3
    <3> QED BY <2>2, <3>1, <3>2
  <2> QED BY <2>3, <2>4
<1>3. /\ f \in [1 .. Len(net.se) -> Seq(S)]
      /\ \A b \in 1 .. Len(net.se) : f[b] = BlockLayers(b) /\ Len(f[b]) = BlockLength
  BY <1>2, NetFacts
<1>4. PolicyLayers \in Seq(S) /\ Len(PolicyLayers) = PolicyEvals
  <2> DEFINE l1 == ConvLayer(<<"policy1", 0>>, net.filters, TRUE, TRUE)
             l2 == ConvLayer(<<"policy", 0>>, net.policyChannels, TRUE, TRUE)
             l2Conv == ConvLayer(<<"policy", 0>>, net.policyChannels, FALSE, TRUE)
             l3 == OtherLayer("policymap", <<"", 0>>, kNumOutputPolicy, 1)
             l4 == FCLayer(<<"ip_pol", 0>>, kNumOutputPolicy, FALSE, FALSE)
  <2>1. l1 \in S /\ l2Conv \in S /\ l2 \in S /\ l3 \in S /\ l4 \in S
    <3>1. kNumOutputPolicy \in Nat /\ "policymap" \in {"se", "policymap", "softmax"}
      BY DEF kNumOutputPolicy
    <3> QED BY <1>0, <1>w, <3>1, NetFacts
  <2>2. PolicyLayers = IF net.convPolicy THEN <<l1, l2Conv, l3>> ELSE <<l2, l4>>
    BY DEF PolicyLayers
  <2> HIDE DEF l1, l2, l2Conv, l3, l4
  <2> QED BY <2>1, <2>2 DEF PolicyEvals
<1>5. ValueLayers \in Seq(S) /\ Len(ValueLayers) = ValueEvals
  <2> DEFINE l1 == ConvLayer(<<"value", 0>>, net.valueChannels, TRUE, TRUE)
             l2 == FCLayer(<<"ip1_val", 0>>, net.hidden, TRUE, FALSE)
             l3 == FCLayer(<<"ip2_val", 0>>, 1, FALSE, TRUE)
             l3Wdl == FCLayer(<<"ip2_val", 0>>, 3, FALSE, FALSE)
             l4 == OtherLayer("softmax", <<"", 0>>, 3, 1)
  <2>1. l1 \in S /\ l2 \in S /\ l3 \in S /\ l3Wdl \in S /\ l4 \in S
    BY <1>0, <1>w, NetFacts
  <2>2. CASE net.wdl
    <3>1. ValueLayers = <<l1, l2, l3Wdl>> \o <<l4>>
      BY <2>2 DEF ValueLayers, ValueOutputs
    <3> HIDE DEF l1, l2, l3, l3Wdl, l4
    <3> QED BY <2>1, <2>2, <3>1 DEF ValueEvals
  <2>3. CASE ~net.wdl
    <3>1. ValueLayers = <<l1, l2, l3>> \o <<>>
      BY <2>3 DEF ValueLayers, ValueOutputs
    <3> HIDE DEF l1, l2, l3, l3Wdl, l4
    <3> QED BY <2>1, <2>3, <3>1 DEF ValueEvals
  <2> QED BY <2>2, <2>3
<1>6. Layers = first \o FlattenSeq(f) \o PolicyLayers \o ValueLayers
  BY DEF Layers
<1> DEFINE n == Len(net.se)
           p == BlockLength
           list == Layers
<1>7. n \in Nat \ {0} /\ p \in Nat /\ (p = 2 \/ p = 3)
  BY NetFacts
<1> HIDE DEF first, f, S, n, p, list
<1>9. /\ list \in Seq(S)
      /\ Len(list) = Len(first) + n * p + Len(PolicyLayers) + Len(ValueLayers)
      /\ \A i \in 1 .. Len(first) : list[i] = first[i]
      /\ \A b \in 1 .. n : \A i \in 1 .. p :
           list[Len(first) + ((b - 1) * p + i)] = f[b][i]
      /\ \A i \in 1 .. Len(PolicyLayers) : list[Len(first) + n * p + i] = PolicyLayers[i]
      /\ \A i \in 1 .. Len(ValueLayers) :
           list[Len(first) + n * p + Len(PolicyLayers) + i] = ValueLayers[i]
  <2>1. f \in [1 .. n -> Seq(S)] /\ \A b \in 1 .. n : Len(f[b]) = p
    BY <1>3 DEF n, p
  <2>2. list = first \o FlattenSeq(f) \o PolicyLayers \o ValueLayers
    BY <1>6 DEF list
  <2>3. IsList(first \o FlattenSeq(f) \o PolicyLayers \o ValueLayers,
               first, f, n, p, PolicyLayers, ValueLayers, S)
    BY <1>1, <1>4, <1>5, <1>7, <2>1, ListFacts
  <2> QED BY <2>2, <2>3, Zenon DEF IsList
<1>10. n * p = TowerEnd /\ TowerEnd \in Nat
  BY NetFacts DEF n, p, TowerEnd
<1>11. Layers[1] = first[1]
  BY <1>1, <1>9 DEF list
<1>12. \A b \in 1 .. Len(net.se) : \A i \in 1 .. BlockLength :
         Layers[1 + (BlockStart(b) + i)] = BlockLayers(b)[i]
  <2> SUFFICES ASSUME NEW b \in 1 .. n, NEW i \in 1 .. p
               PROVE  Layers[1 + (BlockStart(b) + i)] = BlockLayers(b)[i]
    BY DEF n, p
  <2>1. list[Len(first) + ((b - 1) * p + i)] = f[b][i]
    BY <1>9, Zenon
  <2>2. Len(first) = 1 /\ BlockStart(b) = (b - 1) * p
    BY <1>1, Zenon DEF p, BlockStart
  <2>3. f[b] = BlockLayers(b)
    BY <1>3 DEF n
  <2> QED BY <2>1, <2>2, <2>3 DEF list
<1>13. Len(Layers) = 1 + TowerEnd + PolicyEvals + ValueEvals
  BY <1>1, <1>4, <1>5, <1>9, <1>10 DEF list
<1>14. /\ \A i \in 1 .. PolicyEvals : Layers[1 + TowerEnd + i] = PolicyLayers[i]
       /\ \A i \in 1 .. ValueEvals :
            Layers[1 + TowerEnd + PolicyEvals + i] = ValueLayers[i]
  BY <1>1, <1>4, <1>5, <1>9, <1>10 DEF list
<1> QED BY <1>9, <1>11, <1>12, <1>13, <1>14 DEF list, first, S

-----------------------------------------------------------------------------
(* What the layers of each kind compute, of whatever lies in memory. *)

ReluConv(w, c) == ConvLayer(w, c, TRUE, TRUE)
BiasConv(w, c) == ConvLayer(w, c, FALSE, TRUE)
BareConv(w, c) == ConvLayer(w, c, FALSE, FALSE)
ReluFC(w, c) == FCLayer(w, c, TRUE, FALSE)
TanhFC(w, c) == FCLayer(w, c, FALSE, TRUE)
PlainFC(w, c) == FCLayer(w, c, FALSE, FALSE)

LEMMA ConvTerms ==
  ASSUME NEW w, NEW c, NEW mem, NEW out, NEW in
  PROVE  /\ LayerEval(ReluConv(w, c), mem, Eval(out, in, Nothing)) =
              Relu(ConvBias(w, mem[in]))
         /\ LayerEval(BiasConv(w, c), mem, Eval(out, in, Nothing)) =
              ConvBias(w, mem[in])
         /\ LayerEval(BareConv(w, c), mem, Eval(out, in, Nothing)) =
              Conv(w, mem[in])
         /\ LayerEval(ReluConv(w, c), mem, Eval(out, in, "m2")) =
              Relu(Sum(ConvBias(w, mem[in]), mem["m2"]))
BY DEF LayerEval, ReluConv, BiasConv, BareConv, ConvLayer, Eval, ConvEval, ConvEval70,
       Activated, ConvBias, Nothing

LEMMA SeTerm ==
  ASSUME NEW b, NEW c, NEW hw, NEW mem, NEW y, y = Bias(<<"conv2", b>>, mem["m1"])
  PROVE  LayerEval(OtherLayer("se", <<"conv2", b>>, c, hw), mem, Eval("m2", "m1", "m2")) =
           Relu(Sum(Scale(y, Excitation(b, y)), mem["m2"]))
BY DEF LayerEval, OtherLayer, Eval, SeEval

LEMMA ReluFCTerm ==
  ASSUME NEW w, NEW c, NEW mem, NEW out, NEW in
  PROVE  LayerEval(ReluFC(w, c), mem, Eval(out, in, Nothing)) = Relu(FCBias(w, mem[in]))
BY DEF LayerEval, ReluFC, TanhFC, PlainFC, OtherLayer, FCLayer, Eval, FCEval, Activated,
       FCBias

LEMMA TanhFCTerm ==
  ASSUME NEW w, NEW c, NEW mem, NEW out, NEW in
  PROVE  LayerEval(TanhFC(w, c), mem, Eval(out, in, Nothing)) = Tanh(FCBias(w, mem[in]))
BY DEF LayerEval, ReluFC, TanhFC, PlainFC, OtherLayer, FCLayer, Eval, FCEval, Activated,
       FCBias

LEMMA PlainFCTerm ==
  ASSUME NEW w, NEW c, NEW mem, NEW out, NEW in
  PROVE  LayerEval(PlainFC(w, c), mem, Eval(out, in, Nothing)) = FCBias(w, mem[in])
BY DEF LayerEval, ReluFC, TanhFC, PlainFC, OtherLayer, FCLayer, Eval, FCEval, Activated,
       FCBias

LEMMA PolicyMapTerm ==
  ASSUME NEW mem, NEW out, NEW in
  PROVE  LayerEval(OtherLayer("policymap", <<"", 0>>, kNumOutputPolicy, 1), mem, Eval(out, in, Nothing)) = PolicyMap(mem[in])
BY DEF LayerEval, ReluFC, TanhFC, PlainFC, OtherLayer, FCLayer, Eval, FCEval, Activated,
       FCBias

LEMMA SoftmaxTerm ==
  ASSUME NEW mem, NEW out, NEW in
  PROVE  LayerEval(OtherLayer("softmax", <<"", 0>>, 3, 1), mem, Eval(out, in, Nothing)) = Softmax(mem[in])
BY DEF LayerEval, ReluFC, TanhFC, PlainFC, OtherLayer, FCLayer, Eval, FCEval, Activated,
       FCBias

(* The layers that the calls come to. *)
LEMMA LayerList ==
  ASSUME net \in CudnnNets, BlocksAlike
  PROVE  /\ 1 \in DOMAIN Layers
         /\ Layers[1] = ReluConv(<<"input", 0>>, net.filters)
         /\ \A b \in 1 .. Len(net.se) :
              /\ \A i \in 1 .. BlockLength : 1 + (BlockStart(b) + i) \in DOMAIN Layers
              /\ Layers[1 + (BlockStart(b) + 1)] = ReluConv(<<"conv1", b>>, net.filters)
              /\ Layers[1 + (BlockStart(b) + 2)] =
                   IF HasSe THEN BareConv(<<"conv2", b>>, net.filters)
                   ELSE ReluConv(<<"conv2", b>>, net.filters)
              /\ HasSe => Layers[1 + (BlockStart(b) + 3)] =
                            OtherLayer("se", <<"conv2", b>>, net.filters, Squares)
         /\ \A i \in 1 .. PolicyEvals : 1 + TowerEnd + i \in DOMAIN Layers
         /\ Layers[1 + TowerEnd + 1] =
              IF net.convPolicy THEN ReluConv(<<"policy1", 0>>, net.filters)
              ELSE ReluConv(<<"policy", 0>>, net.policyChannels)
         /\ Layers[1 + TowerEnd + 2] =
              IF net.convPolicy THEN BiasConv(<<"policy", 0>>, net.policyChannels)
              ELSE PlainFC(<<"ip_pol", 0>>, kNumOutputPolicy)
         /\ net.convPolicy => Layers[1 + TowerEnd + 3] =
              OtherLayer("policymap", <<"", 0>>, kNumOutputPolicy, 1)
         /\ \A i \in 1 .. ValueEvals : 1 + TowerEnd + PolicyEvals + i \in DOMAIN Layers
         /\ Layers[1 + TowerEnd + PolicyEvals + 1] = ReluConv(<<"value", 0>>, net.valueChannels)
         /\ Layers[1 + TowerEnd + PolicyEvals + 2] = ReluFC(<<"ip1_val", 0>>, net.hidden)
         /\ Layers[1 + TowerEnd + PolicyEvals + 3] =
              IF net.wdl THEN PlainFC(<<"ip2_val", 0>>, 3) ELSE TanhFC(<<"ip2_val", 0>>, 1)
         /\ net.wdl => Layers[1 + TowerEnd + PolicyEvals + 4] =
              OtherLayer("softmax", <<"", 0>>, 3, 1)
<1>1. /\ Len(net.se) \in Nat \ {0} /\ BlockLength \in {2, 3} /\ TowerEnd \in Nat
      /\ PolicyEvals \in {2, 3} /\ ValueEvals \in {3, 4}
  BY NetFacts DEF PolicyEvals, ValueEvals
<1>2. Layers \in Seq(LayerRecords) /\ Len(Layers) = 1 + TowerEnd + PolicyEvals + ValueEvals
  BY LayersFacts, Zenon
<1>3. DOMAIN Layers = 1 .. 1 + TowerEnd + PolicyEvals + ValueEvals
  BY <1>2
<1>4. Layers[1] = ReluConv(<<"input", 0>>, net.filters)
  BY LayersFacts, Zenon DEF ReluConv
<1>5. ASSUME NEW b \in 1 .. Len(net.se)
      PROVE  /\ \A i \in 1 .. BlockLength : 1 + (BlockStart(b) + i) \in DOMAIN Layers
             /\ Layers[1 + (BlockStart(b) + 1)] = ReluConv(<<"conv1", b>>, net.filters)
             /\ Layers[1 + (BlockStart(b) + 2)] =
                  IF HasSe THEN BareConv(<<"conv2", b>>, net.filters)
                  ELSE ReluConv(<<"conv2", b>>, net.filters)
             /\ HasSe => Layers[1 + (BlockStart(b) + 3)] =
                           OtherLayer("se", <<"conv2", b>>, net.filters, Squares)
  <2>1. /\ BlockStart(b) \in Nat /\ BlockStart(b) + BlockLength <= TowerEnd
    BY StartFacts
  <2>2. \A i \in 1 .. BlockLength : 1 + (BlockStart(b) + i) \in DOMAIN Layers
    BY <1>1, <1>3, <2>1
  <2>3. \A i \in 1 .. BlockLength : Layers[1 + (BlockStart(b) + i)] = BlockLayers(b)[i]
    BY LayersFacts, Zenon
  <2>4. net.se[b] = HasSe
    <3>1. b \in DOMAIN net.se
      BY NetFacts
    <3> QED BY <3>1, Zenon DEF BlocksAlike, HasSe
  <2> DEFINE l1 == ReluConv(<<"conv1", b>>, net.filters)
             l2 == ReluConv(<<"conv2", b>>, net.filters)
             l2Se == BareConv(<<"conv2", b>>, net.filters)
             l3 == OtherLayer("se", <<"conv2", b>>, net.filters, Squares)
  <2>5. CASE HasSe
    <3>1. BlockLayers(b) = <<l1, l2Se>> \o <<l3>>
      BY <2>4, <2>5 DEF BlockLayers, ReluConv, BareConv
    <3>2. 1 \in 1 .. BlockLength /\ 2 \in 1 .. BlockLength /\ 3 \in 1 .. BlockLength
      BY <2>5 DEF BlockLength
    <3> HIDE DEF l1, l2Se, l3
    <3>3. BlockLayers(b)[1] = l1 /\ BlockLayers(b)[2] = l2Se /\ BlockLayers(b)[3] = l3
      BY <3>1
    <3> QED BY <2>2, <2>3, <2>5, <3>2, <3>3 DEF l1, l2Se, l3
  <2>6. CASE ~HasSe
    <3>1. BlockLayers(b) = <<l1, l2>> \o <<>>
      BY <2>4, <2>6 DEF BlockLayers, ReluConv
    <3>2. 1 \in 1 .. BlockLength /\ 2 \in 1 .. BlockLength
      BY <2>6 DEF BlockLength
    <3> HIDE DEF l1, l2
    <3>3. BlockLayers(b)[1] = l1 /\ BlockLayers(b)[2] = l2
      BY <3>1
    <3> QED BY <2>2, <2>3, <2>6, <3>2, <3>3 DEF l1, l2
  <2> QED BY <2>5, <2>6
<1>6. \A i \in 1 .. PolicyEvals : Layers[1 + TowerEnd + i] = PolicyLayers[i]
  BY LayersFacts, Zenon
<1>7. \A i \in 1 .. ValueEvals : Layers[1 + TowerEnd + PolicyEvals + i] = ValueLayers[i]
  BY LayersFacts, Zenon
<1>8. /\ PolicyLayers[1] = IF net.convPolicy THEN ReluConv(<<"policy1", 0>>, net.filters)
                           ELSE ReluConv(<<"policy", 0>>, net.policyChannels)
      /\ PolicyLayers[2] = IF net.convPolicy THEN BiasConv(<<"policy", 0>>, net.policyChannels)
                           ELSE PlainFC(<<"ip_pol", 0>>, kNumOutputPolicy)
      /\ net.convPolicy => PolicyLayers[3] =
           OtherLayer("policymap", <<"", 0>>, kNumOutputPolicy, 1)
  BY DEF PolicyLayers, ReluConv, BiasConv, PlainFC
<1>9. /\ ValueLayers[1] = ReluConv(<<"value", 0>>, net.valueChannels)
      /\ ValueLayers[2] = ReluFC(<<"ip1_val", 0>>, net.hidden)
      /\ ValueLayers[3] =
           IF net.wdl THEN PlainFC(<<"ip2_val", 0>>, 3) ELSE TanhFC(<<"ip2_val", 0>>, 1)
      /\ net.wdl => ValueLayers[4] = OtherLayer("softmax", <<"", 0>>, 3, 1)
  <2> DEFINE l1 == ReluConv(<<"value", 0>>, net.valueChannels)
             l2 == ReluFC(<<"ip1_val", 0>>, net.hidden)
             l3 == TanhFC(<<"ip2_val", 0>>, 1)
             l3Wdl == PlainFC(<<"ip2_val", 0>>, 3)
             l4 == OtherLayer("softmax", <<"", 0>>, 3, 1)
  <2>1. CASE net.wdl
    <3>1. ValueLayers = <<l1, l2, l3Wdl>> \o <<l4>>
      BY <2>1 DEF ValueLayers, ValueOutputs, ReluConv, ReluFC, PlainFC
    <3> HIDE DEF l1, l2, l3Wdl, l4
    <3>2. ValueLayers[1] = l1 /\ ValueLayers[2] = l2 /\ ValueLayers[3] = l3Wdl
          /\ ValueLayers[4] = l4
      BY <3>1
    <3> QED BY <2>1, <3>2 DEF l1, l2, l3Wdl, l4
  <2>2. CASE ~net.wdl
    <3>1. ValueLayers = <<l1, l2, l3>> \o <<>>
      BY <2>2 DEF ValueLayers, ValueOutputs, ReluConv, ReluFC, TanhFC
    <3> HIDE DEF l1, l2, l3
    <3>2. ValueLayers[1] = l1 /\ ValueLayers[2] = l2 /\ ValueLayers[3] = l3
      BY <3>1
    <3> QED BY <2>2, <3>2 DEF l1, l2, l3
  <2> QED BY <2>1, <2>2
<1>10. /\ 1 \in 1 .. PolicyEvals /\ 2 \in 1 .. PolicyEvals
       /\ net.convPolicy => 3 \in 1 .. PolicyEvals
       /\ 1 \in 1 .. ValueEvals /\ 2 \in 1 .. ValueEvals /\ 3 \in 1 .. ValueEvals
       /\ net.wdl => 4 \in 1 .. ValueEvals
  BY DEF PolicyEvals, ValueEvals
<1>11. /\ 1 \in DOMAIN Layers
       /\ \A i \in 1 .. PolicyEvals : 1 + TowerEnd + i \in DOMAIN Layers
       /\ \A i \in 1 .. ValueEvals : 1 + TowerEnd + PolicyEvals + i \in DOMAIN Layers
  BY <1>1, <1>3
<1> QED BY <1>4, <1>5, <1>6, <1>7, <1>8, <1>9, <1>10, <1>11

LEMMA CallList ==
  ASSUME net \in CudnnNets
  PROVE  /\ \A b \in 1 .. Len(net.se) :
              /\ Calls[2 + (BlockStart(b) + 1)] = Eval("m0", "m2", Nothing)
              /\ Calls[2 + (BlockStart(b) + 2)] =
                   IF HasSe THEN Eval("m1", "m0", Nothing) ELSE Eval("m2", "m0", "m2")
              /\ HasSe => Calls[2 + (BlockStart(b) + 3)] = Eval("m2", "m1", "m2")
         /\ Calls[2 + TowerEnd + 1] = Eval("m0", "m2", Nothing)
         /\ Calls[2 + TowerEnd + 2] =
              IF net.convPolicy \/ opt.half THEN Eval("m1", "m0", Nothing)
              ELSE Eval("policy", "m0", Nothing)
         /\ net.convPolicy => Calls[2 + TowerEnd + 3] =
              IF opt.half THEN Eval("m0", "m1", Nothing) ELSE Eval("policy", "m1", Nothing)
         /\ opt.half => Calls[2 + TowerEnd + (PolicyEvals + 1)] =
              Convert("policy", IF net.convPolicy THEN "m0" ELSE "m1")
         /\ Calls[2 + TowerEnd + (PolicyEvals + Converts) + 1] = Eval("m0", "m2", Nothing)
         /\ Calls[2 + TowerEnd + (PolicyEvals + Converts) + 2] = Eval("m1", "m0", Nothing)
         /\ Calls[2 + TowerEnd + (PolicyEvals + Converts) + 3] =
              IF net.wdl \/ opt.half THEN Eval("m2", "m1", Nothing)
              ELSE Eval("value", "m1", Nothing)
         /\ net.wdl => Calls[2 + TowerEnd + (PolicyEvals + Converts) + 4] =
              IF opt.half THEN Eval("m0", "m2", Nothing) ELSE Eval("value", "m2", Nothing)
         /\ opt.half => Calls[2 + TowerEnd + (PolicyEvals + Converts) + (ValueEvals + 1)] =
              Convert("value", IF net.wdl THEN "m0" ELSE "m2")
<1>1. \A b \in 1 .. Len(net.se) : \A i \in 1 .. BlockLength :
        Calls[2 + (BlockStart(b) + i)] = BlockCalls[i]
  BY CallsFacts, Zenon
<1>2. \A i \in 1 .. PolicyEvals + Converts : Calls[2 + TowerEnd + i] = PolicyCalls[i]
  BY CallsFacts, Zenon
<1>3. \A i \in 1 .. ValueEvals + Converts :
        Calls[2 + TowerEnd + (PolicyEvals + Converts) + i] = ValueCalls[i]
  BY CallsFacts, Zenon
<1> DEFINE e02 == Eval("m0", "m2", Nothing)
           e10 == Eval("m1", "m0", Nothing)
           e21 == Eval("m2", "m1", Nothing)
           e01 == Eval("m0", "m1", Nothing)
<1>4. ASSUME NEW b \in 1 .. Len(net.se)
      PROVE  /\ Calls[2 + (BlockStart(b) + 1)] = e02
             /\ Calls[2 + (BlockStart(b) + 2)] = IF HasSe THEN e10 ELSE Eval("m2", "m0", "m2")
             /\ HasSe => Calls[2 + (BlockStart(b) + 3)] = Eval("m2", "m1", "m2")
  <2>1. /\ BlockCalls[1] = e02
        /\ BlockCalls[2] = IF HasSe THEN e10 ELSE Eval("m2", "m0", "m2")
        /\ HasSe => BlockCalls[3] = Eval("m2", "m1", "m2")
    BY DEF BlockCalls
  <2>2. /\ 1 \in 1 .. BlockLength /\ 2 \in 1 .. BlockLength
        /\ HasSe => 3 \in 1 .. BlockLength
    BY DEF BlockLength
  <2> HIDE DEF e02, e10
  <2> QED BY <1>1, <2>1, <2>2
<1>5. /\ PolicyCalls[1] = e02
      /\ PolicyCalls[2] = IF net.convPolicy \/ opt.half THEN e10
                          ELSE Eval("policy", "m0", Nothing)
      /\ net.convPolicy => PolicyCalls[3] = IF opt.half THEN e01 ELSE Eval("policy", "m1", Nothing)
      /\ opt.half => PolicyCalls[PolicyEvals + 1] =
           Convert("policy", IF net.convPolicy THEN "m0" ELSE "m1")
  <2>1. CASE net.convPolicy
    <3>1. PolicyCalls = <<e02, e10>> \o LastCalls("policy", "m0", "m1")
      BY <2>1 DEF PolicyCalls
    <3>2. LastCalls("policy", "m0", "m1") =
            IF opt.half THEN <<e01, Convert("policy", "m0")>> ELSE <<Eval("policy", "m1", Nothing)>>
      BY DEF LastCalls
    <3>3. PolicyEvals + 1 = 4
      BY <2>1 DEF PolicyEvals
    <3> HIDE DEF e02, e10, e01
    <3> QED BY <2>1, <3>1, <3>2, <3>3
  <2>2. CASE ~net.convPolicy
    <3>1. PolicyCalls = <<e02>> \o LastCalls("policy", "m1", "m0")
      BY <2>2 DEF PolicyCalls
    <3>2. LastCalls("policy", "m1", "m0") =
            IF opt.half THEN <<e10, Convert("policy", "m1")>> ELSE <<Eval("policy", "m0", Nothing)>>
      BY DEF LastCalls
    <3>3. PolicyEvals + 1 = 3
      BY <2>2 DEF PolicyEvals
    <3> HIDE DEF e02, e10, e01
    <3> QED BY <2>2, <3>1, <3>2, <3>3
  <2> QED BY <2>1, <2>2
<1>6. /\ ValueCalls[1] = e02 /\ ValueCalls[2] = e10
      /\ ValueCalls[3] = IF net.wdl \/ opt.half THEN e21 ELSE Eval("value", "m1", Nothing)
      /\ net.wdl => ValueCalls[4] = IF opt.half THEN e02 ELSE Eval("value", "m2", Nothing)
      /\ opt.half => ValueCalls[ValueEvals + 1] =
           Convert("value", IF net.wdl THEN "m0" ELSE "m2")
  <2>1. CASE net.wdl
    <3>1. ValueCalls = <<e02, e10>> \o (<<e21>> \o LastCalls("value", "m0", "m2"))
      BY <2>1 DEF ValueCalls
    <3>2. LastCalls("value", "m0", "m2") =
            IF opt.half THEN <<e02, Convert("value", "m0")>> ELSE <<Eval("value", "m2", Nothing)>>
      BY DEF LastCalls
    <3>3. ValueEvals + 1 = 5
      BY <2>1 DEF ValueEvals
    <3> DEFINE convert == Convert("value", "m0")
               last == Eval("value", "m2", Nothing)
               r == <<e21>> \o LastCalls("value", "m0", "m2")
               S == {e21, e02, convert, last}
    <3>4. /\ r \in Seq(S) /\ Len(r) = IF opt.half THEN 3 ELSE 2
          /\ r[1] = e21 /\ r[2] = IF opt.half THEN e02 ELSE last
          /\ opt.half => r[3] = convert
      <4>1. LastCalls("value", "m0", "m2") =
              IF opt.half THEN <<e02, convert>> ELSE <<last>>
        BY <3>2
      <4> HIDE DEF e02, e10, e21, convert, last
      <4>2. CASE opt.half
        <5>1. r = <<e21>> \o <<e02, convert>>
          BY <4>1, <4>2
        <5> HIDE DEF r
        <5>2. /\ r \in Seq(S) /\ Len(r) = 3
              /\ r[1] = e21 /\ r[2] = e02 /\ r[3] = convert
          BY <5>1
        <5> QED BY <4>2, <5>2
      <4>3. CASE ~opt.half
        <5>1. r = <<e21>> \o <<last>>
          BY <4>1, <4>3
        <5> HIDE DEF r
        <5>2. r \in Seq(S) /\ Len(r) = 2 /\ r[1] = e21 /\ r[2] = last
          BY <5>1
        <5> QED BY <4>3, <5>2
      <4> QED BY <4>2, <4>3
    <3>5. ValueCalls = <<e02, e10>> \o r
      BY <3>1
    <3> HIDE DEF e02, e10, e21, convert, last, r, S
    <3>6. /\ ValueCalls[1] = e02 /\ ValueCalls[2] = e10
          /\ ValueCalls[3] = r[1] /\ ValueCalls[4] = r[2]
          /\ opt.half => ValueCalls[5] = r[3]
      BY <3>4, <3>5
    <3> QED BY <2>1, <3>3, <3>4, <3>6 DEF convert, last
  <2>2. CASE ~net.wdl
    <3>1. ValueCalls = <<e02, e10>> \o LastCalls("value", "m2", "m1")
      BY <2>2 DEF ValueCalls
    <3>2. LastCalls("value", "m2", "m1") =
            IF opt.half THEN <<e21, Convert("value", "m2")>> ELSE <<Eval("value", "m1", Nothing)>>
      BY DEF LastCalls
    <3>3. ValueEvals + 1 = 4
      BY <2>2 DEF ValueEvals
    <3> DEFINE convert == Convert("value", "m2")
               last == Eval("value", "m1", Nothing)
    <3> HIDE DEF e02, e10, e21
    <3>4. CASE opt.half
      <4>1. ValueCalls = <<e02, e10>> \o <<e21, convert>>
        BY <3>1, <3>2, <3>4
      <4> HIDE DEF convert
      <4>2. /\ ValueCalls[1] = e02 /\ ValueCalls[2] = e10
            /\ ValueCalls[3] = e21 /\ ValueCalls[4] = convert
        BY <4>1
      <4> QED BY <2>2, <3>3, <3>4, <4>2 DEF convert
    <3>5. CASE ~opt.half
      <4>1. ValueCalls = <<e02, e10>> \o <<last>>
        BY <3>1, <3>2, <3>5
      <4> HIDE DEF last
      <4>2. ValueCalls[1] = e02 /\ ValueCalls[2] = e10 /\ ValueCalls[3] = last
        BY <4>1
      <4> QED BY <2>2, <3>3, <3>5, <4>2 DEF last
    <3> QED BY <3>4, <3>5
  <2> QED BY <2>1, <2>2
<1>7. /\ 1 \in 1 .. PolicyEvals + Converts /\ 2 \in 1 .. PolicyEvals + Converts
      /\ net.convPolicy => 3 \in 1 .. PolicyEvals + Converts
      /\ opt.half => PolicyEvals + 1 \in 1 .. PolicyEvals + Converts
      /\ 1 \in 1 .. ValueEvals + Converts /\ 2 \in 1 .. ValueEvals + Converts
      /\ 3 \in 1 .. ValueEvals + Converts
      /\ net.wdl => 4 \in 1 .. ValueEvals + Converts
      /\ opt.half => ValueEvals + 1 \in 1 .. ValueEvals + Converts
  BY DEF PolicyEvals, ValueEvals, Converts
<1>8. /\ Calls[2 + TowerEnd + 1] = PolicyCalls[1]
      /\ Calls[2 + TowerEnd + 2] = PolicyCalls[2]
      /\ net.convPolicy => Calls[2 + TowerEnd + 3] = PolicyCalls[3]
      /\ opt.half => Calls[2 + TowerEnd + (PolicyEvals + 1)] = PolicyCalls[PolicyEvals + 1]
  BY <1>2, <1>7, Zenon
<1> DEFINE v == 2 + TowerEnd + (PolicyEvals + Converts)
<1>9. /\ Calls[v + 1] = ValueCalls[1] /\ Calls[v + 2] = ValueCalls[2]
      /\ Calls[v + 3] = ValueCalls[3]
      /\ net.wdl => Calls[v + 4] = ValueCalls[4]
      /\ opt.half => Calls[v + (ValueEvals + 1)] = ValueCalls[ValueEvals + 1]
  BY <1>3, <1>7, Zenon
<1> QED BY <1>4, <1>5, <1>6, <1>8, <1>9, Zenon

-----------------------------------------------------------------------------
(* The tower, block by block. *)

BlocksTo(nn, x, N, g) ==
  g = [b \in 0 .. N |-> IF b = 0 THEN Relu(ConvBias(<<"input", 0>>, Input(x)))
                        ELSE Block(nn, b, g[b - 1])]

LEMMA BlocksExist ==
  ASSUME NEW nn, NEW x PROVE \A N \in Nat : \E g : BlocksTo(nn, x, N, g)
<1> DEFINE T == {N \in Nat : ~ \E g : BlocksTo(nn, x, N, g)}
           t0 == Relu(ConvBias(<<"input", 0>>, Input(x)))
<1>1. SUFFICES ASSUME T # {} PROVE FALSE
  OBVIOUS
<1>2. PICK N \in T : \A m \in T : N <= m
  <2> HIDE DEF T
  <2>1. T \in SUBSET Nat
    BY DEF T
  <2> QED BY <1>1, <2>1, LeastNat
<1>3. N # 0
  <2> DEFINE g == [b \in 0 .. 0 |-> t0]
  <2>1. g = [b \in 0 .. 0 |-> IF b = 0 THEN t0 ELSE Block(nn, b, g[b - 1])]
    <3> HIDE DEF t0
    <3> QED OBVIOUS
  <2>2. BlocksTo(nn, x, 0, g)
    BY <2>1 DEF BlocksTo
  <2> QED BY <2>2, <1>2
<1>4. PICK g : BlocksTo(nn, x, N - 1, g)
  <2>1. N - 1 \in Nat /\ N - 1 \notin T
    BY <1>2, <1>3
  <2> QED BY <2>1
<1> DEFINE h == [b \in 0 .. N |-> IF b < N THEN g[b] ELSE Block(nn, N, g[N - 1])]
<1>5. BlocksTo(nn, x, N, h)
  <2>1. \A b \in 0 .. N - 1 : g[b] = IF b = 0 THEN t0 ELSE Block(nn, b, g[b - 1])
    BY <1>4 DEF BlocksTo
  <2> HIDE DEF t0
  <2>2. ASSUME NEW b \in 0 .. N
        PROVE  h[b] = IF b = 0 THEN t0 ELSE Block(nn, b, h[b - 1])
    <3>1. CASE b = N
      <4>1. N \in 0 .. N /\ N - 1 \in 0 .. N /\ N - 1 < N /\ ~(N < N)
        BY <1>2, <1>3
      <4>2. h[N] = Block(nn, N, g[N - 1]) /\ h[N - 1] = g[N - 1]
        BY <4>1
      <4> HIDE DEF h
      <4> QED BY <3>1, <4>2, <1>3
    <3>2. CASE b < N
      <4>1. b \in 0 .. N - 1 /\ h[b] = g[b]
        BY <3>2, <1>2
      <4>2. b # 0 => h[b - 1] = g[b - 1]
        BY <4>1, <1>2
      <4> HIDE DEF h
      <4> QED BY <4>1, <4>2, <2>1
    <3> QED BY <3>1, <3>2, <1>2
  <2>3. h = [b \in 0 .. N |-> h[b]]
    OBVIOUS
  <2> HIDE DEF h
  <2>4. h = [b \in 0 .. N |-> IF b = 0 THEN t0 ELSE Block(nn, b, h[b - 1])]
    BY <2>2, <2>3
  <2> QED BY <2>4 DEF BlocksTo, t0
<1> QED BY <1>2, <1>5

LEMMA BlocksFacts ==
  ASSUME NEW nn, NEW x, Len(nn.se) \in Nat
  PROVE  /\ Blocks(nn, x)[0] = Relu(ConvBias(<<"input", 0>>, Input(x)))
         /\ \A b \in 1 .. Len(nn.se) :
              Blocks(nn, x)[b] = Block(nn, b, Blocks(nn, x)[b - 1])
         /\ Tower(nn, x) = Blocks(nn, x)[Len(nn.se)]
<1> DEFINE g == CHOOSE h : BlocksTo(nn, x, Len(nn.se), h)
<1>1. Blocks(nn, x) = g
  BY DEF Blocks, BlocksTo
<1>2. BlocksTo(nn, x, Len(nn.se), g)
  BY BlocksExist
<1> HIDE DEF g
<1>3. \A b \in 0 .. Len(nn.se) :
        g[b] = IF b = 0 THEN Relu(ConvBias(<<"input", 0>>, Input(x)))
               ELSE Block(nn, b, g[b - 1])
  BY <1>2 DEF BlocksTo
<1>4. g[0] = Relu(ConvBias(<<"input", 0>>, Input(x)))
  BY <1>3
<1>5. \A b \in 1 .. Len(nn.se) : g[b] = Block(nn, b, g[b - 1])
  BY <1>3
<1> QED BY <1>1, <1>4, <1>5 DEF Tower

-----------------------------------------------------------------------------
(* How far forwardEval() has come after k calls, e of which ran a layer,   *)
(* when the inputs are x and memory holds mem.                             *)

(* What the first convolution of block b computes. *)
FirstHalf(b, x) == Relu(ConvBias(<<"conv1", b>>, Blocks(net, x)[b - 1]))

(* After the inputs, i layers into block b, the policy head or the value   *)
(* head, and after all calls.                                              *)
AtInput(k, e, x, mem) == k = 1 /\ e = 0 /\ mem["m0"] = Input(x)

AtBlock(b, i, k, e, x, mem) ==
  /\ k = 2 + (BlockStart(b) + i) /\ e = 1 + (BlockStart(b) + i)
  /\ mem["m2"] = Blocks(net, x)[b - 1]
  /\ i = 1 => mem["m0"] = FirstHalf(b, x)
  /\ i = 2 => mem["m1"] = Conv(<<"conv2", b>>, FirstHalf(b, x))

PolicyFirst(x) ==
  Relu(ConvBias(<<IF net.convPolicy THEN "policy1" ELSE "policy", 0>>, Tower(net, x)))

AtPolicy(i, k, e, x, mem) ==
  /\ k = 2 + TowerEnd + i /\ e = 1 + TowerEnd + i
  /\ mem["m2"] = Tower(net, x)
  /\ i = 1 => mem["m0"] = PolicyFirst(x)
  /\ i = 2 => IF net.convPolicy THEN mem["m1"] = ConvBias(<<"policy", 0>>, PolicyFirst(x))
              ELSE opt.half /\ mem["m1"] = Policy(net, x)
  /\ i = 3 => opt.half /\ mem["m0"] = Policy(net, x)

ValueFirst(x) == Relu(ConvBias(<<"value", 0>>, Tower(net, x)))
ValueHidden(x) == Relu(FCBias(<<"ip1_val", 0>>, ValueFirst(x)))

AtValue(i, k, e, x, mem) ==
  /\ k = 2 + TowerEnd + (PolicyEvals + Converts) + i
  /\ e = 1 + TowerEnd + PolicyEvals + i
  /\ mem["policy"] = Policy(net, x)
  /\ i = 0 => mem["m2"] = Tower(net, x)
  /\ i = 1 => mem["m0"] = ValueFirst(x)
  /\ i = 2 => mem["m1"] = ValueHidden(x)
  /\ i = 3 => IF net.wdl THEN mem["m2"] = FCBias(<<"ip2_val", 0>>, ValueHidden(x))
              ELSE opt.half /\ mem["m2"] = Value(net, x)
  /\ i = 4 => opt.half /\ mem["m0"] = Value(net, x)

AtEnd(k, x, mem) ==
  /\ k = 2 + TowerEnd + (PolicyEvals + Converts) + ValueEvals + Converts
  /\ mem["policy"] = Policy(net, x)
  /\ mem["value"] = Value(net, x)

(* The places forwardEval() passes. *)
Reached(k, e, x, mem) ==
  \/ k = 0 /\ e = 0
  \/ AtInput(k, e, x, mem)
  \/ \E b \in 1 .. Len(net.se), i \in 0 .. BlockLength - 1 : AtBlock(b, i, k, e, x, mem)
  \/ \E i \in 0 .. PolicyEvals : AtPolicy(i, k, e, x, mem)
  \/ \E i \in 0 .. ValueEvals : AtValue(i, k, e, x, mem)
  \/ AtEnd(k, x, mem)

(* The size of an output that is not one of the shared buffers. *)
FitsOutput(amount, out) ==
  /\ out = "policy" => amount = kNumOutputPolicy
  /\ out = "value" => amount = ValueOutputs(net)

Put(mem, out, t) == [mem EXCEPT ![out] = t]

(* The next call takes memory to where it should be after it. *)
Expands(call, k, e, x, mem) ==
  /\ call.call = "expand" /\ call.out = "m0"
  /\ Reached(k + 1, e, x, Put(mem, "m0", Input(x)))
Converted(call, k, e, x, mem) ==
  /\ call.call = "convert" /\ e \in DOMAIN Layers
  /\ call.out \in {"policy", "value"}
  /\ Reached(k + 1, e, x, Put(mem, call.out, mem[call.in]))
  /\ FitsOutput(Layers[e].c, call.out)
Evaluated(call, k, e, x, mem) ==
  /\ call.call = "eval" /\ e + 1 \in DOMAIN Layers
  /\ call.out \in MemoryNames
  /\ Reached(k + 1, e + 1, x, Put(mem, call.out, LayerEval(Layers[e + 1], mem, call)))
  /\ FitsOutput(Layers[e + 1].c * Layers[e + 1].hw, call.out)
Advances(k, e, x, mem) ==
  \/ Expands(Calls[k + 1], k, e, x, mem)
  \/ Converted(Calls[k + 1], k, e, x, mem)
  \/ Evaluated(Calls[k + 1], k, e, x, mem)

IsMemory(mem) == DOMAIN mem = MemoryNames /\ mem = [b \in MemoryNames |-> mem[b]]

LEMMA PutFacts ==
  ASSUME NEW mem, IsMemory(mem), NEW out \in MemoryNames, NEW t
  PROVE  /\ IsMemory(Put(mem, out, t))
         /\ Put(mem, out, t)[out] = t
         /\ \A b \in MemoryNames : b # out => Put(mem, out, t)[b] = mem[b]
BY DEF IsMemory, Put

LEMMA Names ==
  /\ "m0" \in MemoryNames /\ "m1" \in MemoryNames /\ "m2" \in MemoryNames
  /\ "policy" \in MemoryNames /\ "value" \in MemoryNames
BY DEF MemoryNames

(* A call that runs a layer, with what it computes. *)
LEMMA EvaluatedBy ==
  ASSUME NEW k \in Nat, NEW e \in Nat, NEW x, NEW mem, NEW layer, NEW t, NEW out, NEW in, NEW in2,
         Calls[k + 1] = Eval(out, in, in2),
         e + 1 \in DOMAIN Layers, Layers[e + 1] = layer,
         LayerEval(layer, mem, Eval(out, in, in2)) = t,
         out \in MemoryNames, FitsOutput(layer.c * layer.hw, out),
         Reached(k + 1, e + 1, x, Put(mem, out, t))
  PROVE  Advances(k, e, x, mem)
<1>1. Eval(out, in, in2).call = "eval" /\ Eval(out, in, in2).out = out
  BY DEF Eval
<1>2. Evaluated(Calls[k + 1], k, e, x, mem)
  BY <1>1, Zenon DEF Evaluated
<1> QED BY <1>2 DEF Advances

LEMMA FitsBuffer == \A amount : FitsOutput(amount, "m0") /\ FitsOutput(amount, "m1") /\ FitsOutput(amount, "m2")
BY DEF FitsOutput

LEMMA ExpandStep ==
  ASSUME net \in CudnnNets, NEW x, NEW mem, IsMemory(mem)
  PROVE  Advances(0, 0, x, mem)
<1>1. Put(mem, "m0", Input(x))["m0"] = Input(x)
  BY PutFacts, Names
<1>2. Reached(1, 0, x, Put(mem, "m0", Input(x)))
  BY <1>1 DEF Reached, AtInput
<1>3. Calls[1] = [call |-> "expand", out |-> "m0", in |-> "input", in2 |-> Nothing]
  BY CallsFacts
<1>4. Expands(Calls[0 + 1], 0, 0, x, mem)
  BY <1>2, <1>3 DEF Expands
<1> QED BY <1>4 DEF Advances

(* The end of a block is the beginning of the next, or of the heads. *)
LEMMA BlockEnds ==
  ASSUME net \in CudnnNets, NEW b \in 0 .. Len(net.se), NEW k, NEW e, NEW x, NEW mem,
         k = 2 + BlockStart(b + 1), e = 1 + BlockStart(b + 1),
         mem["m2"] = Blocks(net, x)[b]
  PROVE  Reached(k, e, x, mem)
<1>1. Len(net.se) \in Nat \ {0} /\ BlockLength \in {2, 3} /\ TowerEnd \in Nat
  BY NetFacts
<1>2. CASE b < Len(net.se)
  <2>1. b + 1 \in 1 .. Len(net.se) /\ 0 \in 0 .. BlockLength - 1 /\ (b + 1) - 1 = b
    BY <1>1, <1>2
  <2>2. BlockStart(b + 1) \in Nat
    BY <2>1, StartFacts
  <2>3. AtBlock(b + 1, 0, k, e, x, mem)
    BY <2>1, <2>2 DEF AtBlock
  <2> QED BY <2>1, <2>3 DEF Reached
<1>3. CASE b = Len(net.se)
  <2>1. BlockStart(b + 1) = TowerEnd
    BY <1>3, StartFacts
  <2>2. mem["m2"] = Tower(net, x)
    BY <1>1, <1>3, BlocksFacts
  <2>3. AtPolicy(0, k, e, x, mem)
    BY <1>1, <2>1, <2>2 DEF AtPolicy
  <2>4. 0 \in 0 .. PolicyEvals
    BY DEF PolicyEvals
  <2> QED BY <2>3, <2>4 DEF Reached
<1> QED BY <1>1, <1>2, <1>3

LEMMA InputStep ==
  ASSUME net \in CudnnNets, BlocksAlike, NEW x, NEW mem, IsMemory(mem),
         AtInput(1, 0, x, mem)
  PROVE  Advances(1, 0, x, mem)
<1> DEFINE layer == ReluConv(<<"input", 0>>, net.filters)
           t == Relu(ConvBias(<<"input", 0>>, Input(x)))
<1>1. /\ Calls[1 + 1] = Eval("m2", "m0", Nothing)
      /\ 0 + 1 \in DOMAIN Layers /\ Layers[0 + 1] = layer
  <2>1. Calls[2] = Eval("m2", "m0", Nothing)
    BY CallsFacts, Zenon
  <2>2. 1 \in DOMAIN Layers /\ Layers[1] = layer
    BY LayerList, Zenon
  <2> HIDE DEF layer
  <2> QED BY <2>1, <2>2
<1>2. LayerEval(layer, mem, Eval("m2", "m0", Nothing)) = t
  <2>1. mem["m0"] = Input(x)
    BY DEF AtInput
  <2> QED BY <2>1, ConvTerms
<1>3. Reached(1 + 1, 0 + 1, x, Put(mem, "m2", t))
  <2>1. Put(mem, "m2", t)["m2"] = t
    BY PutFacts, Names
  <2>2. t = Blocks(net, x)[0]
    BY NetFacts, BlocksFacts
  <2>3. 0 \in 0 .. Len(net.se) /\ BlockStart(0 + 1) = 0
    BY NetFacts, StartFacts
  <2> HIDE DEF t
  <2> QED BY <2>1, <2>2, <2>3, BlockEnds
<1> HIDE DEF t, layer
<1> QED BY <1>1, <1>2, <1>3, Names, FitsBuffer, EvaluatedBy

LEMMA BlockStep ==
  ASSUME net \in CudnnNets, BlocksAlike, NEW x, NEW mem, IsMemory(mem),
         NEW b \in 1 .. Len(net.se), NEW i \in 0 .. BlockLength - 1,
         NEW k, NEW e, AtBlock(b, i, k, e, x, mem)
  PROVE  Advances(k, e, x, mem)
<1> DEFINE start == BlockStart(b)
           before == Blocks(net, x)[b - 1]
           y == ConvBias(<<"conv2", b>>, FirstHalf(b, x))
<1>1. /\ Len(net.se) \in Nat \ {0} /\ BlockLength = (IF HasSe THEN 3 ELSE 2)
      /\ start \in Nat /\ BlockStart(b + 1) = start + BlockLength
      /\ net.se[b] = HasSe
  <2>1. b \in DOMAIN net.se
    BY NetFacts
  <2>2. net.se[b] = HasSe
    BY <2>1, Zenon DEF BlocksAlike, HasSe
  <2> QED BY <2>2, NetFacts, StartFacts DEF BlockLength
<1>2. /\ k = 2 + (start + i) /\ e = 1 + (start + i) /\ k \in Nat /\ e \in Nat
      /\ mem["m2"] = before
      /\ i = 1 => mem["m0"] = FirstHalf(b, x)
      /\ i = 2 => mem["m1"] = Conv(<<"conv2", b>>, FirstHalf(b, x))
  BY <1>1 DEF AtBlock
<1>3. Blocks(net, x)[b] = Relu(Sum(IF HasSe THEN Scale(y, Excitation(b, y)) ELSE y, before))
  <2>1. Blocks(net, x)[b] = Block(net, b, before)
    BY <1>1, BlocksFacts
  <2> QED BY <2>1, <1>1 DEF Block, FirstHalf
<1>4. ASSUME NEW t, i + 1 = BlockLength, t = Blocks(net, x)[b]
      PROVE  Reached(k + 1, e + 1, x, Put(mem, "m2", t))
  <2>1. Put(mem, "m2", t)["m2"] = t
    BY PutFacts, Names
  <2>2. b \in 0 .. Len(net.se) /\ k + 1 = 2 + BlockStart(b + 1) /\ e + 1 = 1 + BlockStart(b + 1)
    BY <1>1, <1>2, <1>4
  <2> QED BY <1>4, <2>1, <2>2, BlockEnds
<1>5. /\ e + 1 \in DOMAIN Layers
      /\ i = 0 => /\ Layers[e + 1] = ReluConv(<<"conv1", b>>, net.filters)
                  /\ Calls[k + 1] = Eval("m0", "m2", Nothing)
      /\ i = 1 => /\ Layers[e + 1] = IF HasSe THEN BareConv(<<"conv2", b>>, net.filters)
                                     ELSE ReluConv(<<"conv2", b>>, net.filters)
                  /\ Calls[k + 1] =
                       IF HasSe THEN Eval("m1", "m0", Nothing) ELSE Eval("m2", "m0", "m2")
      /\ i = 2 /\ HasSe =>
           /\ Layers[e + 1] = OtherLayer("se", <<"conv2", b>>, net.filters, Squares)
           /\ Calls[k + 1] = Eval("m2", "m1", "m2")
  <2>1. e + 1 = 1 + (start + (i + 1)) /\ k + 1 = 2 + (start + (i + 1)) /\ i + 1 \in 1 .. BlockLength
    <3>1. start \in Nat /\ i \in Nat /\ i < BlockLength /\ BlockLength \in Nat
      BY <1>1
    <3> HIDE DEF start
    <3> QED BY <1>2, <3>1
  <2>2. /\ \A j \in 1 .. BlockLength : 1 + (start + j) \in DOMAIN Layers
        /\ Layers[1 + (start + 1)] = ReluConv(<<"conv1", b>>, net.filters)
        /\ Layers[1 + (start + 2)] =
             IF HasSe THEN BareConv(<<"conv2", b>>, net.filters)
             ELSE ReluConv(<<"conv2", b>>, net.filters)
        /\ HasSe => Layers[1 + (start + 3)] =
                      OtherLayer("se", <<"conv2", b>>, net.filters, Squares)
    BY LayerList, Zenon
  <2>3. /\ Calls[2 + (start + 1)] = Eval("m0", "m2", Nothing)
        /\ Calls[2 + (start + 2)] =
             IF HasSe THEN Eval("m1", "m0", Nothing) ELSE Eval("m2", "m0", "m2")
        /\ HasSe => Calls[2 + (start + 3)] = Eval("m2", "m1", "m2")
    BY CallList, Zenon
  <2>4. e + 1 \in DOMAIN Layers
    BY <2>1, <2>2, Zenon
  <2>5. CASE i = 0
    <3>1. e + 1 = 1 + (start + 1) /\ k + 1 = 2 + (start + 1)
      BY <2>1, <2>5
    <3> QED BY <2>2, <2>3, <2>4, <2>5, <3>1
  <2>6. CASE i = 1
    <3>1. e + 1 = 1 + (start + 2) /\ k + 1 = 2 + (start + 2)
      BY <2>1, <2>6
    <3> QED BY <2>2, <2>3, <2>4, <2>6, <3>1
  <2>7. CASE i = 2
    <3>1. e + 1 = 1 + (start + 3) /\ k + 1 = 2 + (start + 3)
      BY <2>1, <2>7
    <3> QED BY <2>2, <2>3, <2>4, <2>7, <3>1
  <2> QED BY <2>4, <2>5, <2>6, <2>7, Zenon
<1>6. CASE i = 0
  <2> DEFINE t == FirstHalf(b, x)
             layer == ReluConv(<<"conv1", b>>, net.filters)
  <2>1. LayerEval(layer, mem, Eval("m0", "m2", Nothing)) = t
    BY <1>2, ConvTerms DEF FirstHalf
  <2>2. Reached(k + 1, e + 1, x, Put(mem, "m0", t))
    <3>1. /\ Put(mem, "m0", t)["m0"] = t /\ Put(mem, "m0", t)["m2"] = before
      BY <1>2, PutFacts, Names
    <3>2. 1 \in 0 .. BlockLength - 1 /\ k + 1 = 2 + (start + 1) /\ e + 1 = 1 + (start + 1)
      BY <1>1, <1>2, <1>6
    <3>3. AtBlock(b, 1, k + 1, e + 1, x, Put(mem, "m0", t))
      BY <3>1, <3>2 DEF AtBlock
    <3> QED BY <3>2, <3>3 DEF Reached
  <2> HIDE DEF t, layer
  <2>3. Layers[e + 1] = layer /\ Calls[k + 1] = Eval("m0", "m2", Nothing)
    BY <1>5, <1>6 DEF layer
  <2> QED BY <1>2, <1>5, <2>1, <2>2, <2>3, Names, FitsBuffer, EvaluatedBy
<1>7. CASE i = 1 /\ HasSe
  <2> DEFINE t == Conv(<<"conv2", b>>, FirstHalf(b, x))
             layer == BareConv(<<"conv2", b>>, net.filters)
  <2>1. LayerEval(layer, mem, Eval("m1", "m0", Nothing)) = t
    BY <1>2, <1>7, ConvTerms
  <2>2. Reached(k + 1, e + 1, x, Put(mem, "m1", t))
    <3>1. /\ Put(mem, "m1", t)["m1"] = t /\ Put(mem, "m1", t)["m2"] = before
      BY <1>2, PutFacts, Names
    <3>2. 2 \in 0 .. BlockLength - 1 /\ k + 1 = 2 + (start + 2) /\ e + 1 = 1 + (start + 2)
      BY <1>1, <1>2, <1>7
    <3>3. AtBlock(b, 2, k + 1, e + 1, x, Put(mem, "m1", t))
      BY <3>1, <3>2 DEF AtBlock
    <3> QED BY <3>2, <3>3 DEF Reached
  <2> HIDE DEF t, layer
  <2>3. Layers[e + 1] = layer /\ Calls[k + 1] = Eval("m1", "m0", Nothing)
    BY <1>5, <1>7 DEF layer
  <2> QED BY <1>2, <1>5, <2>1, <2>2, <2>3, Names, FitsBuffer, EvaluatedBy
<1>8. CASE i = 1 /\ ~HasSe
  <2> DEFINE t == Relu(Sum(y, before))
             layer == ReluConv(<<"conv2", b>>, net.filters)
  <2>1. LayerEval(layer, mem, Eval("m2", "m0", "m2")) = t
    BY <1>2, <1>8, ConvTerms
  <2>2. Reached(k + 1, e + 1, x, Put(mem, "m2", t))
    <3>1. t = Blocks(net, x)[b] /\ i + 1 = BlockLength
      BY <1>1, <1>3, <1>8
    <3> HIDE DEF t
    <3> QED BY <3>1, <1>4
  <2> HIDE DEF t, layer
  <2>3. Layers[e + 1] = layer /\ Calls[k + 1] = Eval("m2", "m0", "m2")
    BY <1>5, <1>8 DEF layer
  <2> QED BY <1>2, <1>5, <2>1, <2>2, <2>3, Names, FitsBuffer, EvaluatedBy
<1>9. CASE i = 2
  <2> DEFINE t == Relu(Sum(Scale(y, Excitation(b, y)), before))
             layer == OtherLayer("se", <<"conv2", b>>, net.filters, Squares)
  <2>0. HasSe
    BY <1>1, <1>9
  <2>1. LayerEval(layer, mem, Eval("m2", "m1", "m2")) = t
    <3>1. y = Bias(<<"conv2", b>>, mem["m1"])
      BY <1>2, <1>9 DEF ConvBias
    <3> QED BY <3>1, <1>2, SeTerm
  <2>2. Reached(k + 1, e + 1, x, Put(mem, "m2", t))
    <3>1. t = Blocks(net, x)[b] /\ i + 1 = BlockLength
      BY <1>1, <1>3, <1>9, <2>0
    <3> HIDE DEF t
    <3> QED BY <3>1, <1>4
  <2> HIDE DEF t, layer
  <2>3. Layers[e + 1] = layer /\ Calls[k + 1] = Eval("m2", "m1", "m2")
    BY <1>5, <1>9, <2>0 DEF layer
  <2> QED BY <1>2, <1>5, <2>1, <2>2, <2>3, Names, FitsBuffer, EvaluatedBy
<1>10. i = 0 \/ i = 1 \/ i = 2
  BY <1>1
<1> QED BY <1>6, <1>7, <1>8, <1>9, <1>10

LEMMA ConvertedBy ==
  ASSUME NEW k \in Nat, NEW e \in Nat, NEW x, NEW mem, NEW layer, NEW out \in {"policy", "value"},
         NEW in,
         Calls[k + 1] = Convert(out, in), e \in DOMAIN Layers, Layers[e] = layer,
         FitsOutput(layer.c, out), Reached(k + 1, e, x, Put(mem, out, mem[in]))
  PROVE  Advances(k, e, x, mem)
<1>1. /\ Convert(out, in).call = "convert" /\ Convert(out, in).out = out
      /\ Convert(out, in).in = in
  BY DEF Convert
<1>2. Converted(Calls[k + 1], k, e, x, mem)
  BY <1>1, Zenon DEF Converted
<1> QED BY <1>2 DEF Advances

LEMMA HeadFits ==
  /\ FitsOutput(PlainFC(<<"ip_pol", 0>>, kNumOutputPolicy).c, "policy")
  /\ FitsOutput(PlainFC(<<"ip_pol", 0>>, kNumOutputPolicy).c
                  * PlainFC(<<"ip_pol", 0>>, kNumOutputPolicy).hw, "policy")
  /\ FitsOutput(OtherLayer("policymap", <<"", 0>>, kNumOutputPolicy, 1).c, "policy")
  /\ FitsOutput(OtherLayer("policymap", <<"", 0>>, kNumOutputPolicy, 1).c
                  * OtherLayer("policymap", <<"", 0>>, kNumOutputPolicy, 1).hw, "policy")
  /\ ~net.wdl => /\ FitsOutput(TanhFC(<<"ip2_val", 0>>, 1).c, "value")
                 /\ FitsOutput(TanhFC(<<"ip2_val", 0>>, 1).c
                                 * TanhFC(<<"ip2_val", 0>>, 1).hw, "value")
  /\ net.wdl => /\ FitsOutput(OtherLayer("softmax", <<"", 0>>, 3, 1).c, "value")
                /\ FitsOutput(OtherLayer("softmax", <<"", 0>>, 3, 1).c
                                * OtherLayer("softmax", <<"", 0>>, 3, 1).hw, "value")
BY DEF FitsOutput, PlainFC, TanhFC, FCLayer, OtherLayer, ValueOutputs, kNumOutputPolicy

LEMMA PolicyEnds ==
  ASSUME net \in CudnnNets, NEW k, NEW e, NEW x, NEW mem,
         k = 2 + TowerEnd + (PolicyEvals + Converts), e = 1 + TowerEnd + PolicyEvals,
         mem["policy"] = Policy(net, x), mem["m2"] = Tower(net, x)
  PROVE  Reached(k, e, x, mem)
<1>1. TowerEnd \in Nat /\ PolicyEvals \in Nat /\ ValueEvals \in Nat /\ Converts \in Nat
  BY NetFacts DEF PolicyEvals, ValueEvals, Converts
<1>2. AtValue(0, k, e, x, mem) /\ 0 \in 0 .. ValueEvals
  BY <1>1 DEF AtValue
<1> QED BY <1>2 DEF Reached

LEMMA PolicyStep ==
  ASSUME net \in CudnnNets, BlocksAlike, NEW x, NEW mem, IsMemory(mem),
         NEW i \in 0 .. PolicyEvals,
         NEW k, NEW e, AtPolicy(i, k, e, x, mem)
  PROVE  Advances(k, e, x, mem)
<1> DEFINE n == TowerEnd
           tower == Tower(net, x)
           first == PolicyFirst(x)
           policy == Policy(net, x)
<1>1. /\ n \in Nat /\ PolicyEvals = (IF net.convPolicy THEN 3 ELSE 2)
      /\ Converts = IF opt.half THEN 1 ELSE 0
  BY NetFacts DEF PolicyEvals, Converts
<1>2. /\ k = 2 + n + i /\ e = 1 + n + i /\ k \in Nat /\ e \in Nat
      /\ mem["m2"] = tower
      /\ i = 1 => mem["m0"] = first
      /\ i = 2 => IF net.convPolicy THEN mem["m1"] = ConvBias(<<"policy", 0>>, first)
                  ELSE opt.half /\ mem["m1"] = policy
      /\ i = 3 => opt.half /\ mem["m0"] = policy
  BY <1>1 DEF AtPolicy
<1>3. policy = IF net.convPolicy THEN PolicyMap(ConvBias(<<"policy", 0>>, first))
               ELSE FCBias(<<"ip_pol", 0>>, first)
  BY DEF Policy, PolicyFirst
<1>4. /\ 1 + n + 1 \in DOMAIN Layers /\ 1 + n + 2 \in DOMAIN Layers
      /\ net.convPolicy => 1 + n + 3 \in DOMAIN Layers
  <2>1. \A j \in 1 .. PolicyEvals : 1 + n + j \in DOMAIN Layers
    BY LayerList, Zenon
  <2>2. 1 \in 1 .. PolicyEvals /\ 2 \in 1 .. PolicyEvals
        /\ (net.convPolicy => 3 \in 1 .. PolicyEvals)
    BY <1>1
  <2> QED BY <2>1, <2>2, Zenon
<1>5. /\ Layers[1 + n + 1] =
           IF net.convPolicy THEN ReluConv(<<"policy1", 0>>, net.filters)
           ELSE ReluConv(<<"policy", 0>>, net.policyChannels)
      /\ Layers[1 + n + 2] =
           IF net.convPolicy THEN BiasConv(<<"policy", 0>>, net.policyChannels)
           ELSE PlainFC(<<"ip_pol", 0>>, kNumOutputPolicy)
      /\ net.convPolicy => Layers[1 + n + 3] =
           OtherLayer("policymap", <<"", 0>>, kNumOutputPolicy, 1)
  BY LayerList, Zenon
<1>6. /\ Calls[2 + n + 1] = Eval("m0", "m2", Nothing)
      /\ Calls[2 + n + 2] =
           IF net.convPolicy \/ opt.half THEN Eval("m1", "m0", Nothing)
           ELSE Eval("policy", "m0", Nothing)
      /\ net.convPolicy => Calls[2 + n + 3] =
           IF opt.half THEN Eval("m0", "m1", Nothing) ELSE Eval("policy", "m1", Nothing)
      /\ opt.half => Calls[2 + n + (PolicyEvals + 1)] =
           Convert("policy", IF net.convPolicy THEN "m0" ELSE "m1")
  BY CallList, Zenon
<1>7. ASSUME NEW k2, NEW e2, k2 = 2 + n + (PolicyEvals + Converts), e2 = 1 + n + PolicyEvals
      PROVE  Reached(k2, e2, x, Put(mem, "policy", policy))
  <2>1. /\ Put(mem, "policy", policy)["policy"] = policy
        /\ Put(mem, "policy", policy)["m2"] = tower
    BY <1>2, PutFacts, Names
  <2> QED BY <1>7, <2>1, PolicyEnds
<1> HIDE DEF n
<1>8. CASE i = 0
  <2> DEFINE layer == IF net.convPolicy THEN ReluConv(<<"policy1", 0>>, net.filters)
                      ELSE ReluConv(<<"policy", 0>>, net.policyChannels)
  <2>1. LayerEval(layer, mem, Eval("m0", "m2", Nothing)) = first
    BY <1>2, ConvTerms DEF PolicyFirst
  <2>2. k + 1 = 2 + n + 1 /\ e + 1 = 1 + n + 1
    BY <1>1, <1>2, <1>8
  <2>3. Reached(k + 1, e + 1, x, Put(mem, "m0", first))
    <3>1. /\ Put(mem, "m0", first)["m0"] = first /\ Put(mem, "m0", first)["m2"] = tower
      BY <1>2, PutFacts, Names
    <3>2. AtPolicy(1, k + 1, e + 1, x, Put(mem, "m0", first)) /\ 1 \in 0 .. PolicyEvals
      BY <3>1, <2>2, <1>1 DEF AtPolicy, n
    <3> QED BY <3>2 DEF Reached
  <2> HIDE DEF layer
  <2>4. e + 1 \in DOMAIN Layers /\ Layers[e + 1] = layer /\ Calls[k + 1] = Eval("m0", "m2", Nothing)
    BY <1>4, <1>5, <1>6, <2>2 DEF layer
  <2> QED BY <1>2, <2>1, <2>3, <2>4, Names, FitsBuffer, EvaluatedBy
<1>9. CASE i = 1 /\ net.convPolicy
  <2> DEFINE layer == BiasConv(<<"policy", 0>>, net.policyChannels)
             t == ConvBias(<<"policy", 0>>, first)
  <2>1. LayerEval(layer, mem, Eval("m1", "m0", Nothing)) = t
    BY <1>2, <1>9, ConvTerms
  <2>2. k + 1 = 2 + n + 2 /\ e + 1 = 1 + n + 2
    BY <1>1, <1>2, <1>9
  <2>3. Reached(k + 1, e + 1, x, Put(mem, "m1", t))
    <3>1. /\ Put(mem, "m1", t)["m1"] = t /\ Put(mem, "m1", t)["m2"] = tower
      BY <1>2, PutFacts, Names
    <3>2. AtPolicy(2, k + 1, e + 1, x, Put(mem, "m1", t)) /\ 2 \in 0 .. PolicyEvals
      BY <3>1, <2>2, <1>1, <1>9 DEF AtPolicy, n
    <3> QED BY <3>2 DEF Reached
  <2> HIDE DEF layer, t
  <2>4. e + 1 \in DOMAIN Layers /\ Layers[e + 1] = layer /\ Calls[k + 1] = Eval("m1", "m0", Nothing)
    BY <1>4, <1>5, <1>6, <1>9, <2>2 DEF layer
  <2> QED BY <1>2, <2>1, <2>3, <2>4, Names, FitsBuffer, EvaluatedBy
<1>10. CASE i = 1 /\ ~net.convPolicy /\ opt.half
  <2> DEFINE layer == PlainFC(<<"ip_pol", 0>>, kNumOutputPolicy)
  <2>1. LayerEval(layer, mem, Eval("m1", "m0", Nothing)) = policy
    <3>1. LayerEval(layer, mem, Eval("m1", "m0", Nothing)) = FCBias(<<"ip_pol", 0>>, mem["m0"])
      BY PlainFCTerm
    <3> QED BY <1>2, <1>3, <1>10, <3>1
  <2>2. k + 1 = 2 + n + 2 /\ e + 1 = 1 + n + 2
    BY <1>1, <1>2, <1>10
  <2>3. Reached(k + 1, e + 1, x, Put(mem, "m1", policy))
    <3>1. /\ Put(mem, "m1", policy)["m1"] = policy /\ Put(mem, "m1", policy)["m2"] = tower
      BY <1>2, PutFacts, Names
    <3>2. AtPolicy(2, k + 1, e + 1, x, Put(mem, "m1", policy)) /\ 2 \in 0 .. PolicyEvals
      BY <3>1, <2>2, <1>1, <1>10 DEF AtPolicy, n
    <3> QED BY <3>2 DEF Reached
  <2> HIDE DEF layer
  <2>4. e + 1 \in DOMAIN Layers /\ Layers[e + 1] = layer /\ Calls[k + 1] = Eval("m1", "m0", Nothing)
    BY <1>4, <1>5, <1>6, <1>10, <2>2 DEF layer
  <2> QED BY <1>2, <2>1, <2>3, <2>4, Names, FitsBuffer, EvaluatedBy
<1>11. CASE i = 1 /\ ~net.convPolicy /\ ~opt.half
  <2> DEFINE layer == PlainFC(<<"ip_pol", 0>>, kNumOutputPolicy)
  <2>1. LayerEval(layer, mem, Eval("policy", "m0", Nothing)) = policy
    <3>1. LayerEval(layer, mem, Eval("policy", "m0", Nothing)) =
            FCBias(<<"ip_pol", 0>>, mem["m0"])
      BY PlainFCTerm
    <3> QED BY <1>2, <1>3, <1>11, <3>1
  <2>2. k + 1 = 2 + n + 2 /\ e + 1 = 1 + n + 2 /\ PolicyEvals = 2 /\ Converts = 0
    BY <1>1, <1>2, <1>11
  <2>3. Reached(k + 1, e + 1, x, Put(mem, "policy", policy))
    BY <1>1, <1>7, <2>2
  <2>4. FitsOutput(layer.c * layer.hw, "policy")
    BY HeadFits
  <2> HIDE DEF layer
  <2>5. e + 1 \in DOMAIN Layers /\ Layers[e + 1] = layer /\ Calls[k + 1] = Eval("policy", "m0", Nothing)
    BY <1>4, <1>5, <1>6, <1>11, <2>2 DEF layer
  <2> QED BY <1>2, <2>1, <2>3, <2>4, <2>5, Names, EvaluatedBy
<1>12. CASE i = 2 /\ net.convPolicy
  <2> DEFINE layer == OtherLayer("policymap", <<"", 0>>, kNumOutputPolicy, 1)
  <2>1. \A out : LayerEval(layer, mem, Eval(out, "m1", Nothing)) = policy
    <3>1. \A out : LayerEval(layer, mem, Eval(out, "m1", Nothing)) = PolicyMap(mem["m1"])
      BY PolicyMapTerm, Zenon
    <3>2. policy = PolicyMap(mem["m1"])
      BY <1>2, <1>3, <1>12
    <3> QED BY <3>1, <3>2
  <2>2. k + 1 = 2 + n + 3 /\ e + 1 = 1 + n + 3 /\ PolicyEvals = 3
    BY <1>1, <1>2, <1>12
  <2>3. FitsOutput(layer.c * layer.hw, "policy")
    BY HeadFits
  <2> HIDE DEF layer
  <2>4. e + 1 \in DOMAIN Layers /\ Layers[e + 1] = layer
    BY <1>4, <1>5, <1>12, <2>2 DEF layer
  <2>5. CASE opt.half
    <3>1. Reached(k + 1, e + 1, x, Put(mem, "m0", policy))
      <4>1. /\ Put(mem, "m0", policy)["m0"] = policy /\ Put(mem, "m0", policy)["m2"] = tower
        BY <1>2, PutFacts, Names
      <4>2. AtPolicy(3, k + 1, e + 1, x, Put(mem, "m0", policy)) /\ 3 \in 0 .. PolicyEvals
        BY <4>1, <2>2, <2>5 DEF AtPolicy, n
      <4> QED BY <4>2 DEF Reached
    <3>2. Calls[k + 1] = Eval("m0", "m1", Nothing)
      BY <1>6, <1>12, <2>2, <2>5
    <3> QED BY <1>2, <2>1, <2>4, <3>1, <3>2, Names, FitsBuffer, EvaluatedBy
  <2>6. CASE ~opt.half
    <3>1. Reached(k + 1, e + 1, x, Put(mem, "policy", policy))
      BY <1>1, <1>7, <2>2, <2>6
    <3>2. Calls[k + 1] = Eval("policy", "m1", Nothing)
      BY <1>6, <1>12, <2>2, <2>6
    <3> QED BY <1>2, <2>1, <2>3, <2>4, <3>1, <3>2, Names, EvaluatedBy
  <2> QED BY <2>5, <2>6
<1>13. CASE i = 2 /\ ~net.convPolicy
  <2> DEFINE layer == PlainFC(<<"ip_pol", 0>>, kNumOutputPolicy)
  <2>1. opt.half /\ mem["m1"] = policy
    BY <1>2, <1>13
  <2>2. k + 1 = 2 + n + (PolicyEvals + 1) /\ e = 1 + n + 2 /\ PolicyEvals = 2 /\ Converts = 1
    BY <1>1, <1>2, <1>13, <2>1
  <2>3. Reached(k + 1, e, x, Put(mem, "policy", mem["m1"]))
    BY <1>1, <1>7, <2>1, <2>2
  <2>4. FitsOutput(layer.c, "policy")
    BY HeadFits
  <2> HIDE DEF layer
  <2>5. e \in DOMAIN Layers /\ Layers[e] = layer /\ Calls[k + 1] = Convert("policy", "m1")
    BY <1>4, <1>5, <1>6, <1>13, <2>1, <2>2 DEF layer
  <2> QED BY <1>2, <2>3, <2>4, <2>5, ConvertedBy
<1>14. CASE i = 3
  <2> DEFINE layer == OtherLayer("policymap", <<"", 0>>, kNumOutputPolicy, 1)
  <2>1. opt.half /\ mem["m0"] = policy /\ net.convPolicy
    BY <1>1, <1>2, <1>14
  <2>2. k + 1 = 2 + n + (PolicyEvals + 1) /\ e = 1 + n + 3 /\ PolicyEvals = 3 /\ Converts = 1
    BY <1>1, <1>2, <1>14, <2>1
  <2>3. Reached(k + 1, e, x, Put(mem, "policy", mem["m0"]))
    BY <1>1, <1>7, <2>1, <2>2
  <2>4. FitsOutput(layer.c, "policy")
    BY HeadFits
  <2> HIDE DEF layer
  <2>5. e \in DOMAIN Layers /\ Layers[e] = layer /\ Calls[k + 1] = Convert("policy", "m0")
    BY <1>4, <1>5, <1>6, <2>1, <2>2 DEF layer
  <2> QED BY <1>2, <2>3, <2>4, <2>5, ConvertedBy
<1>15. i = 0 \/ i = 1 \/ i = 2 \/ i = 3
  BY <1>1
<1> QED BY <1>8, <1>9, <1>10, <1>11, <1>12, <1>13, <1>14, <1>15

LEMMA ValueStep ==
  ASSUME net \in CudnnNets, BlocksAlike, NEW x, NEW mem, IsMemory(mem),
         NEW i \in 0 .. ValueEvals,
         NEW k, NEW e, AtValue(i, k, e, x, mem)
  PROVE  Advances(k, e, x, mem)
<1> DEFINE n == 2 + TowerEnd + (PolicyEvals + Converts)
           l == 1 + TowerEnd + PolicyEvals
           first == ValueFirst(x)
           hidden == ValueHidden(x)
           policy == Policy(net, x)
           value == Value(net, x)
           out2 == FCBias(<<"ip2_val", 0>>, hidden)
<1>1. /\ n \in Nat /\ l \in Nat /\ ValueEvals = (IF net.wdl THEN 4 ELSE 3)
      /\ Converts = IF opt.half THEN 1 ELSE 0
  <2>1. TowerEnd \in Nat
    BY NetFacts
  <2>2. PolicyEvals \in Nat /\ Converts \in Nat
    BY DEF PolicyEvals, Converts
  <2>3. n \in Nat /\ l \in Nat
    BY <2>1, <2>2
  <2> QED BY <2>3, Zenon DEF Converts, ValueEvals
<1>2. /\ k = n + i /\ e = l + i /\ k \in Nat /\ e \in Nat
      /\ mem["policy"] = policy
      /\ i = 0 => mem["m2"] = Tower(net, x)
      /\ i = 1 => mem["m0"] = first
      /\ i = 2 => mem["m1"] = hidden
      /\ i = 3 => IF net.wdl THEN mem["m2"] = out2 ELSE opt.half /\ mem["m2"] = value
      /\ i = 4 => opt.half /\ mem["m0"] = value
  BY <1>1 DEF AtValue
<1>3. value = IF net.wdl THEN Softmax(out2) ELSE Tanh(out2)
  BY DEF Value, ValueHidden, ValueFirst
<1>4. /\ l + 1 \in DOMAIN Layers /\ l + 2 \in DOMAIN Layers /\ l + 3 \in DOMAIN Layers
      /\ net.wdl => l + 4 \in DOMAIN Layers
  <2>1. \A j \in 1 .. ValueEvals : l + j \in DOMAIN Layers
    BY LayerList, Zenon
  <2>2. 1 \in 1 .. ValueEvals /\ 2 \in 1 .. ValueEvals /\ 3 \in 1 .. ValueEvals
        /\ (net.wdl => 4 \in 1 .. ValueEvals)
    BY <1>1
  <2> QED BY <2>1, <2>2, Zenon
<1>5. /\ Layers[l + 1] = ReluConv(<<"value", 0>>, net.valueChannels)
      /\ Layers[l + 2] = ReluFC(<<"ip1_val", 0>>, net.hidden)
      /\ Layers[l + 3] =
           IF net.wdl THEN PlainFC(<<"ip2_val", 0>>, 3) ELSE TanhFC(<<"ip2_val", 0>>, 1)
      /\ net.wdl => Layers[l + 4] = OtherLayer("softmax", <<"", 0>>, 3, 1)
  BY LayerList, Zenon
<1>6. /\ Calls[n + 1] = Eval("m0", "m2", Nothing)
      /\ Calls[n + 2] = Eval("m1", "m0", Nothing)
      /\ Calls[n + 3] =
           IF net.wdl \/ opt.half THEN Eval("m2", "m1", Nothing)
           ELSE Eval("value", "m1", Nothing)
      /\ net.wdl => Calls[n + 4] =
           IF opt.half THEN Eval("m0", "m2", Nothing) ELSE Eval("value", "m2", Nothing)
      /\ opt.half => Calls[n + (ValueEvals + 1)] =
           Convert("value", IF net.wdl THEN "m0" ELSE "m2")
  BY CallList, Zenon
<1>7. ASSUME NEW k2, NEW e2, k2 = n + ValueEvals + Converts
      PROVE  Reached(k2, e2, x, Put(mem, "value", value))
  <2>1. /\ Put(mem, "value", value)["policy"] = policy
        /\ Put(mem, "value", value)["value"] = value
    BY <1>2, PutFacts, Names
  <2>2. AtEnd(k2, x, Put(mem, "value", value))
    BY <1>7, <2>1 DEF AtEnd
  <2> QED BY <2>2 DEF Reached
<1>8. ASSUME NEW j \in 0 .. ValueEvals, NEW k2, NEW e2, NEW b \in {"m0", "m1", "m2"}, NEW t,
             k2 = n + j, e2 = l + j, j # 0,
             j = 1 => b = "m0" /\ t = first,
             j = 2 => b = "m1" /\ t = hidden,
             j = 3 => b = "m2" /\ IF net.wdl THEN t = out2 ELSE opt.half /\ t = value,
             j = 4 => b = "m0" /\ opt.half /\ t = value
      PROVE  Reached(k2, e2, x, Put(mem, b, t))
  <2>1. b \in MemoryNames /\ b # "policy"
    BY DEF MemoryNames
  <2>2. Put(mem, b, t)[b] = t /\ Put(mem, b, t)["policy"] = policy
    BY <1>2, <2>1, PutFacts, Names
  <2>3. AtValue(j, k2, e2, x, Put(mem, b, t))
    BY <1>8, <2>2 DEF AtValue
  <2> QED BY <2>3 DEF Reached
<1> HIDE DEF n, l, out2
<1>9. CASE i = 0
  <2> DEFINE layer == ReluConv(<<"value", 0>>, net.valueChannels)
  <2>1. LayerEval(layer, mem, Eval("m0", "m2", Nothing)) = first
    BY <1>2, <1>9, ConvTerms DEF ValueFirst
  <2>2. k + 1 = n + 1 /\ e + 1 = l + 1
    BY <1>1, <1>2, <1>9
  <2>3. Reached(k + 1, e + 1, x, Put(mem, "m0", first))
    BY <1>1, <1>8, <2>2
  <2> HIDE DEF layer
  <2>4. e + 1 \in DOMAIN Layers /\ Layers[e + 1] = layer /\ Calls[k + 1] = Eval("m0", "m2", Nothing)
    BY <1>4, <1>5, <1>6, <2>2 DEF layer
  <2> QED BY <1>2, <2>1, <2>3, <2>4, Names, FitsBuffer, EvaluatedBy
<1>10. CASE i = 1
  <2> DEFINE layer == ReluFC(<<"ip1_val", 0>>, net.hidden)
  <2>1. LayerEval(layer, mem, Eval("m1", "m0", Nothing)) = hidden
    <3>1. LayerEval(layer, mem, Eval("m1", "m0", Nothing)) =
            Relu(FCBias(<<"ip1_val", 0>>, mem["m0"]))
      BY ReluFCTerm
    <3> QED BY <1>2, <1>10, <3>1 DEF ValueHidden
  <2>2. k + 1 = n + 2 /\ e + 1 = l + 2
    BY <1>1, <1>2, <1>10
  <2>3. Reached(k + 1, e + 1, x, Put(mem, "m1", hidden))
    BY <1>1, <1>8, <2>2
  <2> HIDE DEF layer
  <2>4. e + 1 \in DOMAIN Layers /\ Layers[e + 1] = layer /\ Calls[k + 1] = Eval("m1", "m0", Nothing)
    BY <1>4, <1>5, <1>6, <2>2 DEF layer
  <2> QED BY <1>2, <2>1, <2>3, <2>4, Names, FitsBuffer, EvaluatedBy
<1>11. CASE i = 2 /\ net.wdl
  <2> DEFINE layer == PlainFC(<<"ip2_val", 0>>, 3)
  <2>1. LayerEval(layer, mem, Eval("m2", "m1", Nothing)) = out2
    <3>1. LayerEval(layer, mem, Eval("m2", "m1", Nothing)) =
            FCBias(<<"ip2_val", 0>>, mem["m1"])
      BY PlainFCTerm
    <3> QED BY <1>2, <1>11, <3>1 DEF out2
  <2>2. k + 1 = n + 3 /\ e + 1 = l + 3
    BY <1>1, <1>2, <1>11
  <2>3. Reached(k + 1, e + 1, x, Put(mem, "m2", out2))
    BY <1>1, <1>8, <1>11, <2>2
  <2> HIDE DEF layer
  <2>4. e + 1 \in DOMAIN Layers /\ Layers[e + 1] = layer /\ Calls[k + 1] = Eval("m2", "m1", Nothing)
    BY <1>4, <1>5, <1>6, <1>11, <2>2 DEF layer
  <2> QED BY <1>2, <2>1, <2>3, <2>4, Names, FitsBuffer, EvaluatedBy
<1>12. CASE i = 2 /\ ~net.wdl
  <2> DEFINE layer == TanhFC(<<"ip2_val", 0>>, 1)
  <2>0. value = Tanh(FCBias(<<"ip2_val", 0>>, mem["m1"]))
    BY <1>2, <1>3, <1>12 DEF out2
  <2>1. ASSUME NEW out PROVE LayerEval(layer, mem, Eval(out, "m1", Nothing)) = value
    <3>1. LayerEval(layer, mem, Eval(out, "m1", Nothing)) =
            Tanh(FCBias(<<"ip2_val", 0>>, mem["m1"]))
      BY TanhFCTerm
    <3> QED BY <2>0, <3>1
  <2>2. k + 1 = n + 3 /\ e + 1 = l + 3 /\ ValueEvals = 3
    BY <1>1, <1>2, <1>12
  <2>3. FitsOutput(layer.c * layer.hw, "value")
    BY HeadFits, <1>12
  <2> HIDE DEF layer
  <2>4. e + 1 \in DOMAIN Layers /\ Layers[e + 1] = layer
    BY <1>4, <1>5, <1>12, <2>2 DEF layer
  <2>5. CASE opt.half
    <3>1. Reached(k + 1, e + 1, x, Put(mem, "m2", value))
      BY <1>1, <1>8, <1>12, <2>2, <2>5
    <3>2. Calls[k + 1] = Eval("m2", "m1", Nothing)
      BY <1>6, <2>2, <2>5
    <3>3. LayerEval(layer, mem, Eval("m2", "m1", Nothing)) = value
      BY <2>1
    <3> QED BY <1>2, <2>4, <3>1, <3>2, <3>3, Names, FitsBuffer, EvaluatedBy
  <2>6. CASE ~opt.half
    <3>1. Reached(k + 1, e + 1, x, Put(mem, "value", value))
      BY <1>1, <1>7, <2>2, <2>6
    <3>2. Calls[k + 1] = Eval("value", "m1", Nothing)
      BY <1>6, <1>12, <2>2, <2>6
    <3>3. LayerEval(layer, mem, Eval("value", "m1", Nothing)) = value
      BY <2>1
    <3> QED BY <1>2, <2>3, <2>4, <3>1, <3>2, <3>3, Names, EvaluatedBy
  <2> QED BY <2>5, <2>6
<1>13. CASE i = 3 /\ net.wdl
  <2> DEFINE layer == OtherLayer("softmax", <<"", 0>>, 3, 1)
  <2>0. value = Softmax(mem["m2"])
    BY <1>2, <1>3, <1>13
  <2>1. ASSUME NEW out PROVE LayerEval(layer, mem, Eval(out, "m2", Nothing)) = value
    <3>1. LayerEval(layer, mem, Eval(out, "m2", Nothing)) = Softmax(mem["m2"])
      BY SoftmaxTerm, Zenon
    <3> QED BY <2>0, <3>1
  <2>2. k + 1 = n + 4 /\ e + 1 = l + 4 /\ ValueEvals = 4
    BY <1>1, <1>2, <1>13
  <2>3. FitsOutput(layer.c * layer.hw, "value")
    BY HeadFits, <1>13
  <2> HIDE DEF layer
  <2>4. e + 1 \in DOMAIN Layers /\ Layers[e + 1] = layer
    BY <1>4, <1>5, <1>13, <2>2 DEF layer
  <2>5. CASE opt.half
    <3>1. Reached(k + 1, e + 1, x, Put(mem, "m0", value))
      BY <1>1, <1>8, <1>13, <2>2, <2>5
    <3>2. Calls[k + 1] = Eval("m0", "m2", Nothing)
      BY <1>6, <1>13, <2>2, <2>5
    <3>3. LayerEval(layer, mem, Eval("m0", "m2", Nothing)) = value
      BY <2>1
    <3> QED BY <1>2, <2>4, <3>1, <3>2, <3>3, Names, FitsBuffer, EvaluatedBy
  <2>6. CASE ~opt.half
    <3>1. Reached(k + 1, e + 1, x, Put(mem, "value", value))
      BY <1>1, <1>7, <2>2, <2>6
    <3>2. Calls[k + 1] = Eval("value", "m2", Nothing)
      BY <1>6, <1>13, <2>2, <2>6
    <3>3. LayerEval(layer, mem, Eval("value", "m2", Nothing)) = value
      BY <2>1
    <3> QED BY <1>2, <2>3, <2>4, <3>1, <3>2, <3>3, Names, EvaluatedBy
  <2> QED BY <2>5, <2>6
<1>14. CASE i = 3 /\ ~net.wdl
  <2> DEFINE layer == TanhFC(<<"ip2_val", 0>>, 1)
  <2>1. opt.half /\ mem["m2"] = value
    BY <1>2, <1>14
  <2>2. k + 1 = n + (ValueEvals + 1) /\ e = l + 3 /\ ValueEvals = 3 /\ Converts = 1
    BY <1>1, <1>2, <1>14, <2>1
  <2>3. Reached(k + 1, e, x, Put(mem, "value", mem["m2"]))
    BY <1>1, <1>7, <2>1, <2>2
  <2>4. FitsOutput(layer.c, "value")
    BY HeadFits, <1>14
  <2> HIDE DEF layer
  <2>5. e \in DOMAIN Layers /\ Layers[e] = layer /\ Calls[k + 1] = Convert("value", "m2")
    BY <1>4, <1>5, <1>6, <1>14, <2>1, <2>2 DEF layer
  <2> QED BY <1>2, <2>3, <2>4, <2>5, ConvertedBy
<1>15. CASE i = 4
  <2> DEFINE layer == OtherLayer("softmax", <<"", 0>>, 3, 1)
  <2>1. opt.half /\ mem["m0"] = value /\ net.wdl
    BY <1>1, <1>2, <1>15
  <2>2. k + 1 = n + (ValueEvals + 1) /\ e = l + 4 /\ ValueEvals = 4 /\ Converts = 1
    BY <1>1, <1>2, <1>15, <2>1
  <2>3. Reached(k + 1, e, x, Put(mem, "value", mem["m0"]))
    BY <1>1, <1>7, <2>1, <2>2
  <2>4. FitsOutput(layer.c, "value")
    BY HeadFits, <2>1
  <2> HIDE DEF layer
  <2>5. e \in DOMAIN Layers /\ Layers[e] = layer /\ Calls[k + 1] = Convert("value", "m0")
    BY <1>4, <1>5, <1>6, <2>1, <2>2 DEF layer
  <2> QED BY <1>2, <2>3, <2>4, <2>5, ConvertedBy
<1>16. i = 0 \/ i = 1 \/ i = 2 \/ i = 3 \/ i = 4
  BY <1>1
<1> QED BY <1>9, <1>10, <1>11, <1>12, <1>13, <1>14, <1>15, <1>16

LEMMA CallCount ==
  ASSUME net \in CudnnNets
  PROVE  /\ Len(Calls) = 2 + TowerEnd + (PolicyEvals + Converts) + ValueEvals + Converts
         /\ Len(Calls) \in Nat
<1>1. Len(Calls) = 2 + TowerEnd + PolicyEvals + Converts + ValueEvals + Converts
  BY CallsFacts, Zenon
<1>2. /\ TowerEnd \in Nat /\ PolicyEvals \in Nat /\ Converts \in Nat /\ ValueEvals \in Nat
  BY NetFacts DEF PolicyEvals, Converts, ValueEvals
<1> QED BY <1>1, <1>2

(* Whatever call is next, it takes memory where it should be. *)
LEMMA CallAdvances ==
  ASSUME net \in CudnnNets, BlocksAlike, NEW x, NEW mem, IsMemory(mem),
         NEW k \in Nat, k < Len(Calls), NEW e, Reached(k, e, x, mem)
  PROVE  Advances(k, e, x, mem)
<1>1. CASE k = 0 /\ e = 0
  BY <1>1, ExpandStep
<1>2. CASE AtInput(k, e, x, mem)
  <2>1. k = 1 /\ e = 0
    BY <1>2 DEF AtInput
  <2> QED BY <1>2, <2>1, InputStep
<1>3. CASE \E b \in 1 .. Len(net.se), i \in 0 .. BlockLength - 1 : AtBlock(b, i, k, e, x, mem)
  BY <1>3, BlockStep
<1>4. CASE \E i \in 0 .. PolicyEvals : AtPolicy(i, k, e, x, mem)
  BY <1>4, PolicyStep
<1>5. CASE \E i \in 0 .. ValueEvals : AtValue(i, k, e, x, mem)
  BY <1>5, ValueStep
<1>6. ~AtEnd(k, x, mem)
  BY CallCount DEF AtEnd
<1> QED BY <1>1, <1>2, <1>3, <1>4, <1>5, <1>6, Zenon DEF Reached

(* After the last call, both outputs are there. *)
LEMMA AllCalled ==
  ASSUME net \in CudnnNets, NEW e, NEW x, NEW mem, Reached(Len(Calls), e, x, mem)
  PROVE  mem["policy"] = Policy(net, x) /\ mem["value"] = Value(net, x)
<1> DEFINE K == Len(Calls)
<1>1. /\ TowerEnd \in Nat /\ PolicyEvals \in Nat /\ Converts = (IF opt.half THEN 1 ELSE 0)
      /\ ValueEvals = (IF net.wdl THEN 4 ELSE 3)
      /\ Len(net.se) \in Nat /\ BlockLength \in Nat
  BY NetFacts DEF PolicyEvals, Converts, ValueEvals
<1>2. K = 2 + TowerEnd + (PolicyEvals + Converts) + ValueEvals + Converts
  BY CallCount
<1> HIDE DEF K
<1>3. ~AtInput(K, e, x, mem) /\ K # 0
  BY <1>1, <1>2 DEF AtInput
<1>4. ASSUME NEW b \in 1 .. Len(net.se), NEW i \in 0 .. BlockLength - 1 PROVE ~AtBlock(b, i, K, e, x, mem)
  <2>1. BlockStart(b) \in Nat /\ BlockStart(b) + BlockLength <= TowerEnd
    BY StartFacts
  <2> QED BY <1>1, <1>2, <2>1 DEF AtBlock
<1>5. ASSUME NEW i \in 0 .. PolicyEvals PROVE ~AtPolicy(i, K, e, x, mem)
  BY <1>1, <1>2 DEF AtPolicy
<1>6. ASSUME NEW i \in 0 .. ValueEvals PROVE ~AtValue(i, K, e, x, mem)
  <2>1. SUFFICES ASSUME AtValue(i, K, e, x, mem) PROVE FALSE
    OBVIOUS
  <2>2. K = 2 + TowerEnd + (PolicyEvals + Converts) + i
    BY <2>1 DEF AtValue
  <2>3. i = ValueEvals /\ Converts = 0
    BY <1>1, <1>2, <2>2
  <2> QED BY <1>1, <2>1, <2>3 DEF AtValue
<1>7. AtEnd(K, x, mem)
  <2>1. Reached(K, e, x, mem)
    BY DEF K
  <2> QED BY <2>1, <1>3, <1>4, <1>5, <1>6, Zenon DEF Reached
<1> QED BY <1>7 DEF AtEnd

-----------------------------------------------------------------------------
(* Room for every layer. *)

LEMMA BoundsExist ==
  ASSUME NEW f, NEW N \in Nat, \A i \in 1 .. N : f[i] \in Nat
  PROVE  \E B \in Nat : \A i \in 1 .. N : f[i] <= B
<1> DEFINE Bounded(n) == \E B \in Nat : \A i \in 1 .. n : f[i] <= B
           T == {n \in 0 .. N : ~Bounded(n)}
<1>1. SUFFICES ASSUME T # {} PROVE FALSE
  <2>1. N \in 0 .. N
    OBVIOUS
  <2>2. Bounded(N) => \E B \in Nat : \A i \in 1 .. N : f[i] <= B
    OBVIOUS
  <2> HIDE DEF Bounded
  <2> QED BY <2>1, <2>2
<1>2. PICK n \in T : \A m \in T : n <= m
  <2> HIDE DEF T
  <2>1. T \in SUBSET Nat
    BY DEF T
  <2> QED BY <1>1, <2>1, LeastNat
<1>3. n # 0
  <2>1. \A i \in 1 .. 0 : f[i] <= 0
    OBVIOUS
  <2>2. Bounded(0)
    BY <2>1
  <2> QED BY <2>2, <1>2
<1>4. PICK B \in Nat : \A i \in 1 .. n - 1 : f[i] <= B
  <2>1. n \in 0 .. N /\ n - 1 \in 0 .. N /\ n - 1 < n
    BY <1>2, <1>3
  <2> HIDE DEF Bounded
  <2>2. n - 1 \notin T
    <3>1. n - 1 \in T => n <= n - 1
      BY <1>2
    <3> QED BY <2>1, <3>1
  <2>3. Bounded(n - 1)
    BY <2>1, <2>2
  <2> QED BY <2>3 DEF Bounded
<1>5. \A i \in 1 .. n : f[i] <= B + f[n]
  <2>1. \A i \in 1 .. n : f[i] \in Nat /\ (i = n \/ i \in 1 .. n - 1)
    BY <1>2
  <2>2. n \in 1 .. n
    BY <1>2, <1>3
  <2> QED BY <1>4, <2>1, <2>2
<1>6. B + f[n] \in Nat
  <2>1. n \in 1 .. N
    BY <1>2, <1>3
  <2> QED BY <2>1, <1>4
<1>7. Bounded(n)
  BY <1>5, <1>6
<1> QED BY <1>2, <1>7

LayerSize(l) == Layers[l].c * Layers[l].hw

LEMMA SizeFacts ==
  ASSUME net \in CudnnNets, BlocksAlike
  PROVE  /\ MaxSize \in Nat /\ kInputPlanes * Squares <= MaxSize
         /\ \A l \in DOMAIN Layers : LayerSize(l) \in Nat /\ LayerSize(l) <= MaxSize
<1>1. Layers \in Seq(LayerRecords)
  BY LayersFacts, Zenon
<1> DEFINE N == Len(Layers)
           f == [l \in 1 .. N |-> LayerSize(l)]
           S == {kInputPlanes * Squares} \cup {layer.c * layer.hw : layer \in Range(Layers)}
<1>2. N \in Nat /\ DOMAIN Layers = 1 .. N
  BY <1>1
<1>3. \A l \in DOMAIN Layers : LayerSize(l) \in Nat
  <2>1. ASSUME NEW l \in DOMAIN Layers PROVE LayerSize(l) \in Nat
    <3>1. Layers[l] \in LayerRecords
      BY <1>1
    <3>2. Layers[l].c \in Nat /\ Layers[l].hw \in Nat
      BY <3>1 DEF LayerRecords
    <3> QED BY <3>2 DEF LayerSize
  <2> QED BY <2>1
<1>4. PICK B \in Nat : \A l \in 1 .. N : f[l] <= B
  <2>1. \A l \in 1 .. N : f[l] \in Nat
    BY <1>2, <1>3
  <2> HIDE DEF f, N
  <2> QED BY <2>1, <1>2, BoundsExist
<1>5. S = {kInputPlanes * Squares} \cup {LayerSize(l) : l \in DOMAIN Layers}
  BY DEF Range, LayerSize
<1>6. MaxSize = Max(S)
  BY DEF MaxSize
<1>7. kInputPlanes * Squares = 7168
  BY DEF kInputPlanes, Squares
<1>8. S \in SUBSET Nat /\ S # {}
  BY <1>3, <1>5, <1>7
<1>9. \A s \in S : s <= B + 7168
  <2>1. \A l \in DOMAIN Layers : LayerSize(l) <= B
    BY <1>2, <1>4
  <2>2. \A l \in DOMAIN Layers : LayerSize(l) <= B + 7168
    BY <1>3, <1>4, <2>1
  <2>3. 7168 <= B + 7168
    BY <1>4
  <2> HIDE DEF S
  <2> QED BY <1>5, <1>7, <2>2, <2>3
<1> HIDE DEF S
<1>10. Max(S) \in Nat /\ \A s \in S : s <= Max(S)
  <2> DEFINE bound == B + 7168
  <2>1. bound \in Nat
    BY <1>4
  <2>2. \A s \in S : s <= bound
    BY <1>9
  <2> HIDE DEF bound
  <2> QED BY <1>8, <2>1, <2>2, MaxOfBounded
<1>11. kInputPlanes * Squares \in S /\ \A l \in DOMAIN Layers : LayerSize(l) \in S
  BY <1>5
<1> QED BY <1>3, <1>6, <1>10, <1>11

LEMMA ProductsGrow ==
  ASSUME NEW a \in Nat, NEW b \in Nat, NEW c \in Nat, NEW d \in Nat, a <= b, c <= d
  PROVE  a * c <= b * d
<1>1. c * a <= d * a /\ c * a = a * c /\ d * a = a * d
  BY TimesGrows
<1>2. a * d <= b * d
  BY TimesGrows
<1>3. a * c \in Nat /\ a * d \in Nat /\ b * d \in Nat
  OBVIOUS
<1> QED BY <1>1, <1>2, <1>3

-----------------------------------------------------------------------------
(* network_[l++]: how many layers the first k calls have run. *)

Evals(k) == Cardinality({j \in 1 .. k : Calls[j].call = "eval"})

LEMMA EvalsFacts ==
  /\ Evals(0) = 0
  /\ \A k \in Nat : /\ Evals(k) \in Nat
                    /\ Evals(k + 1) = IF Calls[k + 1].call = "eval" THEN Evals(k) + 1 ELSE Evals(k)
<1>1. Evals(0) = 0
  <2>1. {j \in 1 .. 0 : Calls[j].call = "eval"} = {}
    OBVIOUS
  <2> QED BY <2>1, FS_EmptySet DEF Evals
<1>2. ASSUME NEW k \in Nat
      PROVE  /\ Evals(k) \in Nat
             /\ Evals(k + 1) = IF Calls[k + 1].call = "eval" THEN Evals(k) + 1 ELSE Evals(k)
  <2> DEFINE S == {j \in 1 .. k : Calls[j].call = "eval"}
             T == {j \in 1 .. k + 1 : Calls[j].call = "eval"}
  <2>1. IsFiniteSet(S) /\ Cardinality(S) \in Nat
    <3>1. IsFiniteSet(1 .. k)
      BY FS_Interval
    <3>2. S \in SUBSET (1 .. k)
      OBVIOUS
    <3> HIDE DEF S
    <3> QED BY <3>1, <3>2, FS_Subset, FS_CardinalityType
  <2>2. CASE Calls[k + 1].call = "eval"
    <3>1. T = S \cup {k + 1} /\ k + 1 \notin S
      BY <2>2
    <3> HIDE DEF S, T
    <3>2. Cardinality(T) = Cardinality(S) + 1
      BY <2>1, <3>1, FS_AddElement
    <3> QED BY <2>1, <2>2, <3>2 DEF Evals, S, T
  <2>3. CASE Calls[k + 1].call # "eval"
    <3>1. T = S
      BY <2>3
    <3> HIDE DEF S, T
    <3>2. Cardinality(T) = Cardinality(S)
      BY <3>1
    <3> QED BY <2>1, <2>3, <3>2 DEF Evals, S, T
  <2> QED BY <2>2, <2>3
<1> QED BY <1>1, <1>2

LEMMA SameCalls == ASSUME net' = net, opt' = opt PROVE Calls' = Calls
<1>1. BlockCalls' = BlockCalls /\ PolicyCalls' = PolicyCalls /\ ValueCalls' = ValueCalls
  BY DEF BlockCalls, HasSe, PolicyCalls, ValueCalls, LastCalls, Eval, Convert, Nothing
<1>2. [bk \in DOMAIN net.se |-> BlockCalls]' = [bk \in DOMAIN net.se |-> BlockCalls]
  <2> DEFINE c == BlockCalls
             d == DOMAIN net.se
  <2>1. c' = c /\ d' = d
    BY <1>1
  <2> HIDE DEF c, d
  <2>2. [bk \in d |-> c]' = [bk \in d |-> c]
    BY <2>1
  <2> QED BY <2>2 DEF c, d
<1> QED BY <1>1, <1>2 DEF Calls, Eval, Nothing

LEMMA ReachedStays ==
  ASSUME net' = net, opt' = opt, NEW k, NEW e, NEW x, NEW mem, Reached(k, e, x, mem)
  PROVE  Reached(k, e, x, mem)'
<1>1. /\ HasSe' = HasSe /\ BlockLength' = BlockLength /\ TowerEnd' = TowerEnd
      /\ PolicyEvals' = PolicyEvals /\ ValueEvals' = ValueEvals /\ Converts' = Converts
  BY DEF HasSe, BlockLength, TowerEnd, PolicyEvals, ValueEvals, Converts
<1>2. AtInput(k, e, x, mem)' <=> AtInput(k, e, x, mem)
  BY DEF AtInput
<1>3. ASSUME NEW b, NEW i PROVE AtBlock(b, i, k, e, x, mem)' <=> AtBlock(b, i, k, e, x, mem)
  <2>1. BlockStart(b)' = BlockStart(b)
    BY <1>1 DEF BlockStart
  <2>2. FirstHalf(b, x)' = FirstHalf(b, x)
    BY DEF FirstHalf
  <2> QED BY <2>1, <2>2 DEF AtBlock
<1>4. ASSUME NEW i PROVE AtPolicy(i, k, e, x, mem)' <=> AtPolicy(i, k, e, x, mem)
  <2>1. PolicyFirst(x)' = PolicyFirst(x)
    BY DEF PolicyFirst
  <2> QED BY <1>1, <2>1 DEF AtPolicy
<1>5. ASSUME NEW i PROVE AtValue(i, k, e, x, mem)' <=> AtValue(i, k, e, x, mem)
  <2>1. ValueFirst(x)' = ValueFirst(x) /\ ValueHidden(x)' = ValueHidden(x)
    BY DEF ValueFirst, ValueHidden
  <2> QED BY <1>1, <2>1 DEF AtValue
<1>6. AtEnd(k, x, mem)' <=> AtEnd(k, x, mem)
  BY <1>1 DEF AtEnd
<1> QED BY <1>1, <1>2, <1>3, <1>4, <1>5, <1>6 DEF Reached

-----------------------------------------------------------------------------
(* The threads of the CUDA backend.  CudnnInv is the inductive invariant:  *)
(* the thread that holds the lock has come where its calls lead it.        *)

IsSlot(slot) == slot = [input |-> slot.input, policy |-> slot.policy, value |-> slot.value]

CudnnTypes ==
  /\ net \in CudnnNets
  /\ tensorMem = [b \in {"m0", "m1", "m2"} |-> tensorMem[b]]
  /\ phase \in [Searchers -> {"idle", "filling", "filled", "evaluating", "reading", "thrown"}]
  /\ done \in [Searchers -> Nat]
  /\ io \in [Searchers -> Nat]
  /\ batchSize \in [Searchers -> 0 .. MaxBatchSize]
  /\ \E S : slots \in Seq(S)
  /\ \A s \in 1 .. Len(slots) : IsSlot(slots[s])
  /\ freeSlots \in Seq(Nat)

(* An InputsOutputs is in the pool or of one computation. *)
CudnnPool ==
  /\ \A t \in Searchers : IF phase[t] = "idle" THEN io[t] = NoSlot ELSE io[t] \in 1 .. Len(slots)
  /\ \A t, u \in Searchers : t # u /\ io[t] # NoSlot => io[u] # io[t]
  /\ \A i \in 1 .. Len(freeSlots) :
       freeSlots[i] \in 1 .. Len(slots) /\ \A t \in Searchers : io[t] # freeSlots[i]
  /\ \A i, j \in 1 .. Len(freeSlots) : freeSlots[i] = freeSlots[j] => i = j

(* The thread that evaluates is alone (lock_), and one that reads has the  *)
(* results of its own inputs.                                              *)
CudnnThread(t) ==
  /\ phase[t] = "evaluating" =>
       /\ lockedBy = {t}
       /\ done[t] <= Len(Calls)
       /\ Reached(done[t], Evals(done[t]), slots[io[t]].input, Memory(t))
  /\ phase[t] = "reading" =>
       /\ slots[io[t]].policy = Policy(net, slots[io[t]].input)
       /\ slots[io[t]].value = Value(net, slots[io[t]].input)

CudnnInv == CudnnTypes /\ CudnnPool /\ (\A t \in Searchers : CudnnThread(t)) /\ WritesFit

LEMMA CudnnInitHolds == CudnnInit => CudnnInv
<1> SUFFICES ASSUME CudnnInit PROVE CudnnInv
  OBVIOUS
<1>1. MaxBatchSize \in Nat
  BY CudnnAssumption
<1>2. slots \in Seq({}) /\ freeSlots \in Seq(Nat) /\ Len(slots) = 0 /\ Len(freeSlots) = 0
  BY DEF CudnnInit
<1>3. CudnnTypes
  BY <1>1, <1>2 DEF CudnnInit, CudnnTypes, NoSlot
<1>4. CudnnPool
  BY <1>2 DEF CudnnInit, CudnnPool, NoSlot
<1> QED BY <1>3, <1>4 DEF CudnnInit, CudnnInv, CudnnThread, WritesFit

LEMMA MemoryFacts ==
  ASSUME NEW t
  PROVE  /\ IsMemory(Memory(t))
         /\ Memory(t)["policy"] = slots[io[t]].policy
         /\ Memory(t)["value"] = slots[io[t]].value
         /\ \A b \in {"m0", "m1", "m2"} : Memory(t)[b] = tensorMem[b]
BY DEF IsMemory, Memory, MemoryNames

LEMMA EvalsStays ==
  ASSUME net' = net, opt' = opt, NEW k
  PROVE  Evals(k)' = Evals(k) /\ Len(Calls)' = Len(Calls)
<1>1. Calls' = Calls
  BY SameCalls
<1> QED BY <1>1 DEF Evals

(* What other threads do does not concern a thread. *)
LEMMA CudnnThreadStays ==
  ASSUME NEW u \in Searchers, CudnnThread(u), net' = net, opt' = opt,
         phase'[u] = phase[u], done'[u] = done[u], slots'[io'[u]] = slots[io[u]],
         phase[u] = "evaluating" => tensorMem' = tensorMem /\ lockedBy' = lockedBy
  PROVE  CudnnThread(u)'
<1> PICK x : x = slots[io[u]].input
  OBVIOUS
<1> PICK k : k = done[u]
  OBVIOUS
<1> PICK e : e = Evals(k)
  OBVIOUS
<1>1. CASE phase[u] = "evaluating"
  <2> PICK mem : mem = Memory(u)
    OBVIOUS
  <2>1. Memory(u)' = Memory(u)
    BY <1>1 DEF Memory
  <2>2. Reached(k, e, x, mem) /\ k <= Len(Calls)
    BY <1>1 DEF CudnnThread
  <2>3. Reached(k, e, x, mem)'
    BY <2>2, ReachedStays
  <2>4. e = Evals(k)' /\ Len(Calls)' = Len(Calls)
    BY EvalsStays
  <2>5. /\ lockedBy' = {u} /\ done'[u] = k /\ slots'[io'[u]].input = x /\ Memory(u)' = mem
        /\ phase'[u] = "evaluating"
    BY <1>1, <2>1 DEF CudnnThread
  <2> QED BY <2>2, <2>3, <2>4, <2>5 DEF CudnnThread
<1>2. CASE phase[u] # "evaluating"
  BY <1>2 DEF CudnnThread
<1> QED BY <1>1, <1>2

LEMMA NewComputationStep ==
  ASSUME CudnnInv, NEW t \in Searchers, NewComputation(t)
  PROVE  CudnnInv'
<1> DEFINE fresh == [input |-> 0, policy |-> Garbage, value |-> Garbage]
<1>1. /\ CudnnTypes /\ CudnnPool /\ WritesFit /\ \A u \in Searchers : CudnnThread(u)
      /\ phase[t] = "idle" /\ phase' = [phase EXCEPT ![t] = "filling"]
      /\ batchSize' = [batchSize EXCEPT ![t] = 0]
      /\ UNCHANGED <<net, opt, tensorMem, lockedBy, done, serial, written>>
      /\ GetInputsOutputs(t)
  BY DEF CudnnInv, NewComputation
<1>2. PICK S : slots \in Seq(S)
  BY <1>1 DEF CudnnTypes
<1>3. /\ CudnnTypes' /\ CudnnPool'
      /\ \A u \in Searchers : u # t => io'[u] = io[u]
      /\ \A s \in 1 .. Len(slots) : slots'[s] = slots[s]
  <2>1. CASE freeSlots = <<>>
    <3>1. /\ io' = [io EXCEPT ![t] = Len(slots) + 1] /\ slots' = Append(slots, fresh)
          /\ freeSlots' = freeSlots
      BY <1>1, <2>1 DEF GetInputsOutputs
    <3>2. slots \in Seq(S \cup {fresh}) /\ fresh \in S \cup {fresh}
      BY <1>2
    <3> HIDE DEF fresh
    <3>3. /\ slots' \in Seq(S \cup {fresh}) /\ Len(slots') = Len(slots) + 1 /\ Len(slots) \in Nat
          /\ slots'[Len(slots) + 1] = fresh
          /\ \A s \in 1 .. Len(slots) : slots'[s] = slots[s]
      BY <3>1, <3>2
    <3>4. IsSlot(fresh)
      BY DEF IsSlot, fresh
    <3>5. \A s \in 1 .. Len(slots') : s \in 1 .. Len(slots) \/ s = Len(slots) + 1
      BY <3>3
    <3>6. \A s \in 1 .. Len(slots') : IsSlot(slots'[s])
      BY <1>1, <3>3, <3>4, <3>5 DEF CudnnTypes
    <3>7. 0 \in 0 .. MaxBatchSize
      BY CudnnAssumption
    <3>8. CudnnTypes'
      BY <1>1, <3>1, <3>3, <3>6, <3>7 DEF CudnnTypes
    <3>9. CudnnPool'
      BY <1>1, <2>1, <3>1, <3>3 DEF CudnnPool, CudnnTypes, NoSlot
    <3> QED BY <1>1, <3>1, <3>3, <3>8, <3>9 DEF CudnnTypes
  <2>2. CASE freeSlots # <<>>
    <3>1. /\ io' = [io EXCEPT ![t] = Head(freeSlots)] /\ freeSlots' = Tail(freeSlots)
          /\ slots' = slots
      BY <1>1, <2>2 DEF GetInputsOutputs
    <3>2. /\ freeSlots \in Seq(Nat) /\ Len(freeSlots) \in Nat \ {0}
          /\ Head(freeSlots) = freeSlots[1]
      BY <1>1, <2>2 DEF CudnnTypes
    <3>3. /\ freeSlots' \in Seq(Nat) /\ Len(freeSlots') = Len(freeSlots) - 1
          /\ \A i \in 1 .. Len(freeSlots') :
               freeSlots'[i] = freeSlots[i + 1] /\ i + 1 \in 1 .. Len(freeSlots)
      BY <3>1, <3>2
    <3>4. freeSlots[1] \in 1 .. Len(slots) /\ \A u \in Searchers : io[u] # freeSlots[1]
      BY <1>1, <3>2 DEF CudnnPool
    <3>5. \A i \in 1 .. Len(freeSlots') : freeSlots'[i] # freeSlots[1]
      <4>1. 1 \in 1 .. Len(freeSlots)
        BY <3>2
      <4>2. \A i \in 1 .. Len(freeSlots') : i + 1 # 1
        OBVIOUS
      <4> QED BY <1>1, <3>3, <4>1, <4>2 DEF CudnnPool
    <3>6. Len(slots) \in Nat
      BY <1>2
    <3>7. 0 \in 0 .. MaxBatchSize
      BY CudnnAssumption
    <3>8. CudnnTypes'
      BY <1>1, <3>1, <3>2, <3>3, <3>4, <3>7 DEF CudnnTypes
    <3>9. CudnnPool'
      <4>1. \A u \in Searchers : io'[u] = IF u = t THEN freeSlots[1] ELSE io[u]
        BY <1>1, <3>1, <3>2 DEF CudnnTypes
      <4>2. \A u \in Searchers : phase'[u] = IF u = t THEN "filling" ELSE phase[u]
        BY <1>1 DEF CudnnTypes
      <4>3. \A u \in Searchers :
              IF phase'[u] = "idle" THEN io'[u] = NoSlot ELSE io'[u] \in 1 .. Len(slots')
        BY <1>1, <3>1, <3>4, <4>1, <4>2 DEF CudnnPool
      <4>4. \A u, v \in Searchers : u # v /\ io'[u] # NoSlot => io'[v] # io'[u]
        BY <1>1, <3>4, <4>1 DEF CudnnPool
      <4>5. \A i \in 1 .. Len(freeSlots') :
              freeSlots'[i] \in 1 .. Len(slots') /\ \A u \in Searchers : io'[u] # freeSlots'[i]
        BY <1>1, <3>1, <3>3, <3>5, <4>1 DEF CudnnPool
      <4>6. \A i, j \in 1 .. Len(freeSlots') : freeSlots'[i] = freeSlots'[j] => i = j
        <5>1. SUFFICES ASSUME NEW i \in 1 .. Len(freeSlots'), NEW j \in 1 .. Len(freeSlots'),
                              freeSlots'[i] = freeSlots'[j]
                       PROVE  i = j
          OBVIOUS
        <5>2. /\ freeSlots[i + 1] = freeSlots[j + 1]
              /\ i + 1 \in 1 .. Len(freeSlots) /\ j + 1 \in 1 .. Len(freeSlots)
          BY <3>3, <5>1
        <5>3. i + 1 = j + 1
          BY <1>1, <5>2, Zenon DEF CudnnPool
        <5> QED BY <5>3
      <4> QED BY <4>3, <4>4, <4>5, <4>6 DEF CudnnPool
    <3> QED BY <1>1, <3>1, <3>8, <3>9 DEF CudnnTypes
  <2> QED BY <2>1, <2>2
<1>4. ASSUME NEW u \in Searchers PROVE CudnnThread(u)'
  <2>1. CASE u = t
    BY <1>1, <2>1 DEF CudnnThread, CudnnTypes
  <2>2. CASE u # t /\ phase[u] = "idle"
    BY <1>1, <2>2 DEF CudnnThread, CudnnTypes
  <2>3. CASE u # t /\ phase[u] # "idle"
    <3>1. phase'[u] = phase[u] /\ io[u] \in 1 .. Len(slots)
      BY <1>1, <2>3 DEF CudnnTypes, CudnnPool
    <3>2. slots'[io'[u]] = slots[io[u]]
      BY <1>3, <2>3, <3>1
    <3> QED BY <1>1, <3>1, <3>2, CudnnThreadStays
  <2> QED BY <2>1, <2>2, <2>3
<1>5. WritesFit'
  BY <1>1 DEF WritesFit
<1> QED BY <1>3, <1>4, <1>5 DEF CudnnInv

LEMMA AddInputsStep ==
  ASSUME CudnnInv, NEW t \in Searchers, AddInputs(t)
  PROVE  CudnnInv'
<1>1. /\ CudnnTypes /\ CudnnPool /\ WritesFit /\ \A u \in Searchers : CudnnThread(u)
      /\ phase[t] = "filling" /\ phase' = [phase EXCEPT ![t] = "filled"]
      /\ UNCHANGED <<net, opt, tensorMem, lockedBy, done, io, freeSlots, written>>
  BY DEF CudnnInv, AddInputs
<1>2. PICK S : slots \in Seq(S)
  BY <1>1 DEF CudnnTypes
<1> DEFINE own == io[t]
           filled == [slots[own] EXCEPT !.input = serial']
<1>3. own \in 1 .. Len(slots) /\ slots' = [slots EXCEPT ![own] = filled] /\ IsSlot(slots[own])
  BY <1>1 DEF CudnnTypes, CudnnPool, AddInputs
<1>4. IsSlot(filled)
  BY <1>3 DEF IsSlot
<1> HIDE DEF filled
<1>5. /\ slots' \in Seq(S \cup {filled}) /\ Len(slots') = Len(slots)
      /\ slots'[own] = filled
      /\ \A s \in 1 .. Len(slots) : s # own => slots'[s] = slots[s]
  <2>1. slots \in Seq(S \cup {filled}) /\ filled \in S \cup {filled}
    BY <1>2
  <2> QED BY <1>3, <2>1, ExceptSeq
<1>6. batchSize' \in [Searchers -> 0 .. MaxBatchSize]
  BY <1>1, CudnnAssumption DEF CudnnTypes, AddInputs
<1>7. CudnnTypes'
  <2>1. \A s \in 1 .. Len(slots') : IsSlot(slots'[s])
    BY <1>1, <1>4, <1>5 DEF CudnnTypes
  <2>2. \E T : slots' \in Seq(T)
    BY <1>5
  <2>3. phase' \in [Searchers -> {"idle", "filling", "filled", "evaluating", "reading", "thrown"}]
    BY <1>1 DEF CudnnTypes
  <2> QED BY <1>1, <1>6, <2>1, <2>2, <2>3 DEF CudnnTypes
<1>8. \A u \in Searchers : phase'[u] = IF u = t THEN "filled" ELSE phase[u]
  BY <1>1 DEF CudnnTypes
<1>9. CudnnPool'
  BY <1>1, <1>5, <1>8 DEF CudnnPool
<1>10. ASSUME NEW u \in Searchers PROVE CudnnThread(u)'
  <2>1. CASE phase[u] = "idle" \/ u = t
    BY <1>8, <2>1 DEF CudnnThread
  <2>2. CASE phase[u] # "idle" /\ u # t
    <3>1. io[u] \in 1 .. Len(slots) /\ io[u] # NoSlot /\ io[t] # io[u]
      <4>1. io[u] \in 1 .. Len(slots)
        BY <1>1, <2>2 DEF CudnnPool
      <4>2. io[u] # 0
        BY <1>2, <4>1
      <4> QED BY <1>1, <2>2, <4>1, <4>2 DEF CudnnPool, NoSlot
    <3>2. slots'[io'[u]] = slots[io[u]] /\ phase'[u] = phase[u]
      BY <1>1, <1>5, <1>8, <2>2, <3>1
    <3> QED BY <1>1, <3>2, CudnnThreadStays
  <2> QED BY <2>1, <2>2
<1> QED BY <1>1, <1>7, <1>9, <1>10 DEF CudnnInv, WritesFit

(* The pool and the types do not mind a change of phase that keeps the     *)
(* slot.                                                                   *)
LEMMA PhaseMoves ==
  ASSUME CudnnTypes, CudnnPool, NEW t \in Searchers, phase[t] # "idle",
         NEW p \in {"filling", "filled", "evaluating", "reading", "thrown"},
         phase' = [phase EXCEPT ![t] = p], done' \in [Searchers -> Nat],
         UNCHANGED <<net, tensorMem, io, batchSize, slots, freeSlots>>
  PROVE  /\ CudnnTypes' /\ CudnnPool'
         /\ \A u \in Searchers : phase'[u] = IF u = t THEN p ELSE phase[u]
<1>1. \A u \in Searchers : phase'[u] = IF u = t THEN p ELSE phase[u]
  BY DEF CudnnTypes
<1>2. phase' \in [Searchers -> {"idle", "filling", "filled", "evaluating", "reading", "thrown"}]
  BY DEF CudnnTypes
<1>3. CudnnTypes'
  BY <1>2 DEF CudnnTypes
<1>4. CudnnPool'
  BY <1>1 DEF CudnnPool
<1> QED BY <1>1, <1>3, <1>4

LEMMA LockStep == ASSUME CudnnInv, NEW t \in Searchers, Lock(t) PROVE CudnnInv'
<1>1. /\ CudnnTypes /\ CudnnPool /\ WritesFit /\ \A u \in Searchers : CudnnThread(u)
      /\ phase[t] = "filled" /\ lockedBy = {} /\ lockedBy' = {t}
      /\ phase' = [phase EXCEPT ![t] = "evaluating"] /\ done' = [done EXCEPT ![t] = 0]
      /\ UNCHANGED <<net, opt, tensorMem, io, batchSize, slots, freeSlots, serial, written>>
  BY DEF CudnnInv, Lock
<1>2. /\ done' \in [Searchers -> Nat] /\ done'[t] = 0
      /\ \A u \in Searchers : u # t => done'[u] = done[u]
  BY <1>1 DEF CudnnTypes
<1>3. /\ CudnnTypes' /\ CudnnPool'
      /\ \A u \in Searchers : phase'[u] = IF u = t THEN "evaluating" ELSE phase[u]
  BY <1>1, <1>2, PhaseMoves
<1>4. ASSUME NEW u \in Searchers PROVE CudnnThread(u)'
  <2>1. CASE u = t
    <3>1. Evals(0)' = 0
      <4>1. Evals(0)' = Evals(0)
        BY <1>1, EvalsStays
      <4>2. Evals(0) = 0
        BY EvalsFacts, Zenon
      <4> QED BY <4>1, <4>2
    <3>2. 0 <= Len(Calls)' /\ Len(Calls)' = Len(Calls)
      <4>1. Len(Calls)' = Len(Calls)
        BY <1>1, EvalsStays
      <4>2. Len(Calls) \in Nat
        BY <1>1, CallCount DEF CudnnTypes
      <4> QED BY <4>1, <4>2
    <3>3. ASSUME NEW x, NEW mem PROVE Reached(0, 0, x, mem)
      BY DEF Reached
    <3> PICK x : x = slots'[io'[t]].input
      OBVIOUS
    <3> PICK mem : mem = Memory(t)'
      OBVIOUS
    <3>4. Reached(0, 0, x, mem)'
      BY <1>1, <3>3, ReachedStays
    <3> QED BY <1>1, <1>2, <1>3, <2>1, <3>1, <3>2, <3>4 DEF CudnnThread
  <2>2. CASE u # t
    <3>1. phase[u] # "evaluating"
      BY <1>1 DEF CudnnThread
    <3>2. phase'[u] = phase[u] /\ done'[u] = done[u]
      BY <1>2, <1>3, <2>2
    <3> QED BY <1>1, <3>1, <3>2, CudnnThreadStays
  <2> QED BY <2>1, <2>2
<1> QED BY <1>1, <1>3, <1>4 DEF CudnnInv, WritesFit

(* Only one thread evaluates. *)
LEMMA OneEvaluates ==
  ASSUME \A u \in Searchers : CudnnThread(u), NEW t \in Searchers, phase[t] = "evaluating"
  PROVE  lockedBy = {t} /\ \A u \in Searchers : u # t => phase[u] # "evaluating"
BY DEF CudnnThread

LEMMA UnlockStep == ASSUME CudnnInv, NEW t \in Searchers, Unlock(t) PROVE CudnnInv'
<1>1. /\ CudnnTypes /\ CudnnPool /\ WritesFit /\ \A u \in Searchers : CudnnThread(u)
      /\ phase[t] = "evaluating" /\ done[t] = Len(Calls)
      /\ phase' = [phase EXCEPT ![t] = "reading"]
      /\ UNCHANGED <<net, opt, tensorMem, done, io, batchSize, slots, freeSlots, serial, written>>
  BY DEF CudnnInv, Unlock
<1>2. done' \in [Searchers -> Nat]
  BY <1>1 DEF CudnnTypes
<1>3. /\ CudnnTypes' /\ CudnnPool'
      /\ \A u \in Searchers : phase'[u] = IF u = t THEN "reading" ELSE phase[u]
  BY <1>1, <1>2, PhaseMoves
<1>4. ASSUME NEW u \in Searchers PROVE CudnnThread(u)'
  <2>1. CASE u = t
    <3> PICK x : x = slots[io[t]].input
      OBVIOUS
    <3> PICK e : e = Evals(done[t])
      OBVIOUS
    <3>1. Reached(Len(Calls), e, x, Memory(t))
      BY <1>1 DEF CudnnThread
    <3>2. Memory(t)["policy"] = Policy(net, x) /\ Memory(t)["value"] = Value(net, x)
      BY <1>1, <3>1, AllCalled DEF CudnnTypes
    <3>3. slots[io[t]].policy = Policy(net, x) /\ slots[io[t]].value = Value(net, x)
      BY <3>2, MemoryFacts
    <3> QED BY <1>1, <1>3, <2>1, <3>3 DEF CudnnThread
  <2>2. CASE u # t
    <3>1. phase[u] # "evaluating"
      BY <1>1, <2>2, OneEvaluates
    <3>2. phase'[u] = phase[u]
      BY <1>3, <2>2
    <3> QED BY <1>1, <3>1, <3>2, CudnnThreadStays
  <2> QED BY <2>1, <2>2
<1> QED BY <1>1, <1>3, <1>4 DEF CudnnInv, WritesFit

LEMMA ThrowStep == ASSUME CudnnInv, NEW t \in Searchers, Throw(t) PROVE CudnnInv'
<1>1. /\ CudnnTypes /\ CudnnPool /\ WritesFit /\ \A u \in Searchers : CudnnThread(u)
      /\ phase[t] = "evaluating"
      /\ phase' = [phase EXCEPT ![t] = "thrown"]
      /\ UNCHANGED <<net, opt, tensorMem, done, io, batchSize, slots, freeSlots, serial, written>>
  BY DEF CudnnInv, Throw
<1>2. done' \in [Searchers -> Nat]
  BY <1>1 DEF CudnnTypes
<1>3. /\ CudnnTypes' /\ CudnnPool'
      /\ \A u \in Searchers : phase'[u] = IF u = t THEN "thrown" ELSE phase[u]
  BY <1>1, <1>2, PhaseMoves
<1>4. ASSUME NEW u \in Searchers PROVE CudnnThread(u)'
  <2>1. CASE u = t
    BY <1>3, <2>1 DEF CudnnThread
  <2>2. CASE u # t
    <3>1. phase[u] # "evaluating" /\ phase'[u] = phase[u]
      BY <1>1, <1>3, <2>2, OneEvaluates
    <3> QED BY <1>1, <3>1, CudnnThreadStays
  <2> QED BY <2>1, <2>2
<1> QED BY <1>1, <1>3, <1>4 DEF CudnnInv, WritesFit

LEMMA ReleaseInputsOutputsStep ==
  ASSUME CudnnInv, NEW t \in Searchers, ReleaseInputsOutputs(t)
  PROVE  CudnnInv'
<1>1. /\ CudnnTypes /\ CudnnPool /\ WritesFit /\ \A u \in Searchers : CudnnThread(u)
      /\ phase[t] \in {"reading", "thrown"} /\ phase' = [phase EXCEPT ![t] = "idle"]
      /\ io' = [io EXCEPT ![t] = NoSlot] /\ freeSlots' = Append(freeSlots, io[t])
      /\ UNCHANGED <<net, opt, tensorMem, lockedBy, done, batchSize, slots, serial, written>>
  BY DEF CudnnInv, ReleaseInputsOutputs
<1>2. /\ \A u \in Searchers : phase'[u] = IF u = t THEN "idle" ELSE phase[u]
      /\ \A u \in Searchers : io'[u] = IF u = t THEN NoSlot ELSE io[u]
      /\ io[t] \in Nat /\ io[t] \in 1 .. Len(slots) /\ io[t] # NoSlot
  <2>1. io[t] \in 1 .. Len(slots) /\ Len(slots) \in Nat
    BY <1>1 DEF CudnnTypes, CudnnPool
  <2> QED BY <1>1, <2>1 DEF CudnnTypes, NoSlot
<1>3. /\ freeSlots' \in Seq(Nat) /\ Len(freeSlots') = Len(freeSlots) + 1 /\ Len(freeSlots) \in Nat
      /\ freeSlots'[Len(freeSlots) + 1] = io[t]
      /\ \A i \in 1 .. Len(freeSlots) : freeSlots'[i] = freeSlots[i]
  BY <1>1, <1>2 DEF CudnnTypes
<1>4. CudnnTypes'
  BY <1>1, <1>3 DEF CudnnTypes, NoSlot
<1>5. CudnnPool'
  <2>1. \A i \in 1 .. Len(freeSlots') : i \in 1 .. Len(freeSlots) \/ i = Len(freeSlots) + 1
    BY <1>3
  <2>2. \A u \in Searchers : IF phase'[u] = "idle" THEN io'[u] = NoSlot ELSE io'[u] \in 1 .. Len(slots')
    BY <1>1, <1>2 DEF CudnnPool
  <2>3. \A u, v \in Searchers : u # v /\ io'[u] # NoSlot => io'[v] # io'[u]
    BY <1>1, <1>2 DEF CudnnPool
  <2>4. ASSUME NEW i \in 1 .. Len(freeSlots')
        PROVE  freeSlots'[i] \in 1 .. Len(slots') /\ \A u \in Searchers : io'[u] # freeSlots'[i]
    <3>1. CASE i \in 1 .. Len(freeSlots)
      <4>1. freeSlots'[i] \in 1 .. Len(slots) /\ \A u \in Searchers : io[u] # freeSlots'[i]
        BY <1>1, <1>3, <3>1 DEF CudnnPool
      <4>2. freeSlots'[i] # NoSlot
        BY <1>1, <4>1 DEF CudnnTypes, NoSlot
      <4> QED BY <1>1, <1>2, <4>1, <4>2
    <3>2. CASE i = Len(freeSlots) + 1
      BY <1>1, <1>2, <1>3, <3>2 DEF CudnnPool
    <3> QED BY <2>1, <3>1, <3>2
  <2>5. ASSUME NEW i \in 1 .. Len(freeSlots'), NEW j \in 1 .. Len(freeSlots'),
               freeSlots'[i] = freeSlots'[j]
        PROVE  i = j
    <3>1. CASE i \in 1 .. Len(freeSlots) /\ j \in 1 .. Len(freeSlots)
      BY <1>1, <1>3, <2>5, <3>1 DEF CudnnPool
    <3>2. CASE i = Len(freeSlots) + 1 /\ j \in 1 .. Len(freeSlots)
      BY <1>1, <1>3, <2>5, <3>2 DEF CudnnPool
    <3>3. CASE j = Len(freeSlots) + 1 /\ i \in 1 .. Len(freeSlots)
      BY <1>1, <1>3, <2>5, <3>3 DEF CudnnPool
    <3> QED BY <2>1, <3>1, <3>2, <3>3
  <2> QED BY <2>2, <2>3, <2>4, <2>5 DEF CudnnPool
<1>6. ASSUME NEW u \in Searchers PROVE CudnnThread(u)'
  <2>1. CASE u = t
    BY <1>2, <2>1 DEF CudnnThread
  <2>2. CASE u # t
    <3>1. phase'[u] = phase[u] /\ io'[u] = io[u]
      BY <1>2, <2>2
    <3> QED BY <1>1, <3>1, CudnnThreadStays
  <2> QED BY <2>1, <2>2
<1> QED BY <1>1, <1>4, <1>5, <1>6 DEF CudnnInv, WritesFit

(* The layer of a call, when there is one for it. *)
LEMMA LayerFacts ==
  ASSUME NEW k \in Nat, Evals(k) \in DOMAIN Layers
  PROVE  LayerOf(k) = Layers[Evals(k)]
BY DEF LayerOf, Evals

(* What the next call of a thread computes, and that there is room for it. *)
LEMMA NextCall ==
  ASSUME net \in CudnnNets, BlocksAlike, NEW t, batchSize[t] \in 0 .. MaxBatchSize,
         NEW k \in Nat, k < Len(Calls),
         Reached(k, Evals(k), slots[io[t]].input, Memory(t))
  PROVE  /\ Calls[k + 1].out \in MemoryNames
         /\ Reached(k + 1, Evals(k + 1), slots[io[t]].input,
                    Put(Memory(t), Calls[k + 1].out, Result(t, k + 1)))
         /\ ~(batchSize[t] * PerSample(k + 1) > Room(Calls[k + 1].out))
<1> DEFINE call == Calls[k + 1]
           e == Evals(k)
           x == slots[io[t]].input
           mem == Memory(t)
           out == call.out
           y == Result(t, k + 1)
<1> SUFFICES /\ out \in MemoryNames
             /\ Reached(k + 1, Evals(k + 1), x, Put(mem, out, y))
             /\ ~(batchSize[t] * PerSample(k + 1) > Room(out))
  OBVIOUS
<1>1. Advances(k, e, x, mem)
  BY MemoryFacts, CallAdvances
<1>2. e \in Nat /\ Evals(k + 1) = (IF call.call = "eval" THEN e + 1 ELSE e) /\ k + 1 \in Nat
  <2>1. /\ Evals(k) \in Nat
        /\ Evals(k + 1) = IF Calls[k + 1].call = "eval" THEN Evals(k) + 1 ELSE Evals(k)
    BY EvalsFacts, Zenon
  <2> QED BY <2>1
<1>3. MaxBatchSize \in Nat /\ kNumOutputPolicy \in Nat /\ ValueOutputs(net) \in Nat
  BY CudnnAssumption DEF kNumOutputPolicy, ValueOutputs
<1>4. ASSUME NEW n \in Nat, FitsOutput(n, out), n <= MaxSize \/ out \in {"policy", "value"},
             out \in MemoryNames
      PROVE  ~(batchSize[t] * n > Room(out))
  <2>1. MaxSize \in Nat
    BY SizeFacts
  <2>2. PICK a \in Nat : a = batchSize[t] /\ a <= MaxBatchSize
    BY <1>3
  <2>3. CASE out = "policy"
    <3>1. Room(out) = MaxBatchSize * n
      BY <1>4, <2>3 DEF Room, FitsOutput
    <3>2. a * n <= MaxBatchSize * n
      BY <1>3, <2>2, ProductsGrow
    <3>3. a * n \in Nat /\ MaxBatchSize * n \in Nat
      BY <1>3
    <3> QED BY <2>2, <3>1, <3>2, <3>3
  <2>4. CASE out = "value"
    <3>1. Room(out) = MaxBatchSize * n
      BY <1>4, <2>4 DEF Room, FitsOutput
    <3>2. a * n <= MaxBatchSize * n
      BY <1>3, <2>2, ProductsGrow
    <3>3. a * n \in Nat /\ MaxBatchSize * n \in Nat
      BY <1>3
    <3> QED BY <2>2, <3>1, <3>2, <3>3
  <2>5. CASE out \notin {"policy", "value"}
    <3>1. Room(out) = MaxBatchSize * MaxSize
      BY <2>5 DEF Room
    <3>2. a * n <= MaxBatchSize * MaxSize
      BY <1>3, <1>4, <2>1, <2>2, <2>5, ProductsGrow
    <3>3. a * n \in Nat /\ MaxBatchSize * MaxSize \in Nat
      BY <1>3, <2>1
    <3> QED BY <2>2, <3>1, <3>2, <3>3
  <2> QED BY <2>3, <2>4, <2>5
<1>5. CASE Expands(call, k, e, x, mem)
  <2>1. call.call = "expand" /\ out = "m0" /\ Reached(k + 1, e, x, Put(mem, "m0", Input(x)))
    BY <1>5 DEF Expands
  <2>2. y = Input(x) /\ PerSample(k + 1) = kInputPlanes * Squares
    BY <2>1 DEF Result, PerSample
  <2>3. kInputPlanes * Squares \in Nat /\ kInputPlanes * Squares <= MaxSize
    BY SizeFacts DEF kInputPlanes, Squares
  <2>4. FitsOutput(kInputPlanes * Squares, out) /\ out \in MemoryNames
    BY <2>1, FitsBuffer, Names
  <2>5. Evals(k + 1) = e
    BY <1>2, <2>1
  <2> HIDE DEF call, e, x, mem, y
  <2> QED BY <1>4, <2>1, <2>2, <2>3, <2>4, <2>5
<1>6. CASE Converted(call, k, e, x, mem)
  <2>1. /\ call.call = "convert" /\ e \in DOMAIN Layers /\ out \in {"policy", "value"}
        /\ Reached(k + 1, e, x, Put(mem, out, mem[call.in]))
        /\ FitsOutput(Layers[e].c, out)
    BY <1>6 DEF Converted
  <2>2. LayerOf(k) = Layers[e] /\ (k + 1) - 1 = k
    BY <2>1, LayerFacts
  <2>3. y = mem[call.in] /\ PerSample(k + 1) = Layers[e].c
    BY <2>1, <2>2 DEF Result, PerSample
  <2>4. Layers[e].c \in Nat /\ out \in MemoryNames
    <3>1. Layers[e] \in LayerRecords
      BY <2>1, LayersFacts
    <3> QED BY <2>1, <3>1, Names DEF LayerRecords
  <2>5. Evals(k + 1) = e
    BY <1>2, <2>1
  <2> HIDE DEF call, e, x, mem, y
  <2> QED BY <1>4, <2>1, <2>3, <2>4, <2>5
<1>7. CASE Evaluated(call, k, e, x, mem)
  <2>1. /\ call.call = "eval" /\ e + 1 \in DOMAIN Layers /\ out \in MemoryNames
        /\ Reached(k + 1, e + 1, x, Put(mem, out, LayerEval(Layers[e + 1], mem, call)))
        /\ FitsOutput(Layers[e + 1].c * Layers[e + 1].hw, out)
    BY <1>7 DEF Evaluated
  <2>2. Evals(k + 1) = e + 1
    BY <1>2, <2>1
  <2>3. LayerOf(k + 1) = Layers[e + 1]
    BY <1>2, <2>1, <2>2, LayerFacts
  <2>4. /\ y = LayerEval(Layers[e + 1], mem, call)
        /\ PerSample(k + 1) = LayerSize(e + 1)
    BY <2>1, <2>3 DEF Result, PerSample, LayerSize
  <2>5. LayerSize(e + 1) \in Nat /\ LayerSize(e + 1) <= MaxSize
    BY <2>1, SizeFacts
  <2>6. FitsOutput(LayerSize(e + 1), out)
    BY <2>1 DEF LayerSize
  <2> HIDE DEF call, e, x, mem, y
  <2> QED BY <1>4, <2>1, <2>2, <2>4, <2>5, <2>6
<1> QED BY <1>1, <1>5, <1>6, <1>7 DEF Advances

LEMMA CallStep == ASSUME BlocksAlike, CudnnInv, NEW t \in Searchers, Step(t) PROVE CudnnInv'
<1> DEFINE k == done[t]
           call == Calls[k + 1]
           own == io[t]
           x == slots[own].input
<1>1. /\ CudnnTypes /\ CudnnPool /\ WritesFit /\ \A u \in Searchers : CudnnThread(u)
      /\ phase[t] = "evaluating" /\ k < Len(Calls) /\ done' = [done EXCEPT ![t] = k + 1]
      /\ UNCHANGED <<net, opt, lockedBy, phase, io, batchSize, freeSlots, serial>>
  BY DEF CudnnInv, Step
<1>2. PICK out : out = call.out
  OBVIOUS
<1>3. PICK result : result = Result(t, k + 1)
  OBVIOUS
<1>4. /\ net \in CudnnNets /\ k \in Nat /\ batchSize[t] \in 0 .. MaxBatchSize
      /\ Reached(k, Evals(k), x, Memory(t)) /\ lockedBy = {t}
  BY <1>1 DEF CudnnTypes, CudnnThread
<1>5. /\ out \in MemoryNames
      /\ Reached(k + 1, Evals(k + 1), x, Put(Memory(t), out, result))
      /\ ~(batchSize[t] * PerSample(k + 1) > Room(out))
  BY <1>1, <1>2, <1>3, <1>4, NextCall
<1>6. WritesFit'
  <2>1. written' = IF batchSize[t] * PerSample(k + 1) > Room(out)
                   THEN written \cup {<<k + 1, out>>} ELSE written
    BY <1>2 DEF Step
  <2> QED BY <1>1, <1>5, <2>1 DEF WritesFit
<1>7. IF out \in {"policy", "value"}
      THEN slots' = [slots EXCEPT ![own][out] = result] /\ tensorMem' = tensorMem
      ELSE tensorMem' = [tensorMem EXCEPT ![out] = result] /\ slots' = slots
  BY <1>2, <1>3, Zenon DEF Step
<1>8. PICK S : slots \in Seq(S)
  BY <1>1 DEF CudnnTypes
<1>9. own \in 1 .. Len(slots) /\ IsSlot(slots[own]) /\ Len(slots) \in Nat
  BY <1>1, <1>8 DEF CudnnTypes, CudnnPool
<1>10. /\ \E T : slots' \in Seq(T)
       /\ Len(slots') = Len(slots)
       /\ IsSlot(slots'[own]) /\ slots'[own].input = x
       /\ slots'[own].policy = IF out = "policy" THEN result ELSE slots[own].policy
       /\ slots'[own].value = IF out = "value" THEN result ELSE slots[own].value
       /\ \A s \in 1 .. Len(slots) : s # own => slots'[s] = slots[s]
  <2>1. CASE out \in {"policy", "value"}
    <3> DEFINE changed == [slots[own] EXCEPT ![out] = result]
    <3>1. slots' = [slots EXCEPT ![own] = changed]
      BY <1>7, <2>1
    <3>2. /\ IsSlot(changed) /\ changed.input = x
          /\ changed.policy = IF out = "policy" THEN result ELSE slots[own].policy
          /\ changed.value = IF out = "value" THEN result ELSE slots[own].value
      <4>1. CASE out = "policy"
        BY <1>9, <4>1 DEF IsSlot
      <4>2. CASE out = "value"
        BY <1>9, <4>2 DEF IsSlot
      <4> QED BY <2>1, <4>1, <4>2
    <3> HIDE DEF changed
    <3>3. /\ slots' \in Seq(S \cup {changed}) /\ Len(slots') = Len(slots)
          /\ slots'[own] = changed
          /\ \A s \in 1 .. Len(slots) : s # own => slots'[s] = slots[s]
      <4>1. slots \in Seq(S \cup {changed}) /\ changed \in S \cup {changed}
        BY <1>8
      <4> QED BY <1>9, <3>1, <4>1, ExceptSeq
    <3> QED BY <3>2, <3>3
  <2>2. CASE out \notin {"policy", "value"}
    BY <1>7, <1>8, <1>9, <2>2
  <2> QED BY <2>1, <2>2
<1>11. /\ tensorMem' = [b \in {"m0", "m1", "m2"} |-> tensorMem'[b]]
       /\ \A b \in {"m0", "m1", "m2"} :
            tensorMem'[b] = IF out = b THEN result ELSE tensorMem[b]
  <2>1. tensorMem = [b \in {"m0", "m1", "m2"} |-> tensorMem[b]]
    BY <1>1 DEF CudnnTypes
  <2> QED BY <1>5, <1>7, <2>1 DEF MemoryNames
<1>12. CudnnTypes'
  <2>1. \A s \in 1 .. Len(slots') : IsSlot(slots'[s])
    BY <1>1, <1>10 DEF CudnnTypes
  <2> QED BY <1>1, <1>4, <1>10, <1>11, <2>1 DEF CudnnTypes
<1>13. CudnnPool'
  BY <1>1, <1>10 DEF CudnnPool
<1>14. CudnnThread(t)'
  <2>1. Memory(t)' = Put(Memory(t), out, result)
    <3>1. IsMemory(Put(Memory(t), out, result)) /\ IsMemory(Memory(t)')
      <4>1. IsMemory(Memory(t)')
        BY DEF IsMemory, Memory, MemoryNames
      <4> QED BY <1>5, <4>1, MemoryFacts, PutFacts
    <3>2. \A b \in MemoryNames : Memory(t)'[b] = Put(Memory(t), out, result)[b]
      <4>1. \A b \in MemoryNames :
              Put(Memory(t), out, result)[b] = IF b = out THEN result ELSE Memory(t)[b]
        BY <1>5, MemoryFacts, PutFacts
      <4>2. \A b \in MemoryNames :
              Memory(t)[b] = IF b = "policy" THEN slots[own].policy
                             ELSE IF b = "value" THEN slots[own].value ELSE tensorMem[b]
        BY DEF Memory, MemoryNames
      <4>3. \A b \in MemoryNames :
              Memory(t)'[b] = IF b = "policy" THEN slots'[own].policy
                              ELSE IF b = "value" THEN slots'[own].value ELSE tensorMem'[b]
        BY <1>1 DEF Memory, MemoryNames
      <4> QED BY <1>10, <1>11, <4>1, <4>2, <4>3 DEF MemoryNames
    <3> QED BY <3>1, <3>2 DEF IsMemory
  <2>2. PICK mem : mem = Put(Memory(t), out, result)
    OBVIOUS
  <2>3. PICK k1 : k1 = k + 1
    OBVIOUS
  <2>4. PICK e1 : e1 = Evals(k1)
    OBVIOUS
  <2>5. PICK y : y = x
    OBVIOUS
  <2>6. Reached(k1, e1, y, mem)'
    BY <1>1, <1>5, <2>2, <2>3, <2>4, <2>5, ReachedStays
  <2>7. e1 = Evals(k1)' /\ Len(Calls)' = Len(Calls) /\ Len(Calls) \in Nat
    BY <1>1, <1>4, <2>4, EvalsStays, CallCount
  <2>8. done'[t] = k1 /\ k1 <= Len(Calls)
    BY <1>1, <1>4, <2>3, <2>7 DEF CudnnTypes
  <2>9. slots'[io'[t]].input = y /\ Memory(t)' = mem /\ phase'[t] = "evaluating" /\ lockedBy' = {t}
    BY <1>1, <1>4, <1>10, <2>1, <2>2, <2>5
  <2> QED BY <2>6, <2>7, <2>8, <2>9 DEF CudnnThread
<1>15. ASSUME NEW u \in Searchers, u # t PROVE CudnnThread(u)'
  <2>1. phase[u] # "evaluating"
    BY <1>1, <1>15, OneEvaluates
  <2>2. CASE phase[u] = "idle"
    BY <1>1, <2>2 DEF CudnnThread
  <2>3. CASE phase[u] # "idle"
    <3>1. io[u] \in 1 .. Len(slots) /\ io[u] # own
      <4>1. own # NoSlot
        BY <1>9 DEF NoSlot
      <4> QED BY <1>1, <1>15, <2>3, <4>1 DEF CudnnPool
    <3>2. slots'[io'[u]] = slots[io[u]] /\ phase'[u] = phase[u] /\ done'[u] = done[u]
      BY <1>1, <1>10, <1>15, <3>1 DEF CudnnTypes
    <3> QED BY <1>1, <2>1, <3>2, CudnnThreadStays
  <2> QED BY <2>2, <2>3
<1> QED BY <1>6, <1>12, <1>13, <1>14, <1>15 DEF CudnnInv

LEMMA CudnnStepHolds == ASSUME BlocksAlike, CudnnInv, CudnnNext PROVE CudnnInv'
<1>1. PICK t \in Searchers :
        NewComputation(t) \/ AddInputs(t) \/ Lock(t) \/ Step(t) \/ Unlock(t) \/ Throw(t)
          \/ ReleaseInputsOutputs(t)
  BY DEF CudnnNext
<1> QED BY <1>1, NewComputationStep, AddInputsStep, LockStep, CallStep, UnlockStep, ThrowStep,
           ReleaseInputsOutputsStep

LEMMA CudnnResults == CudnnInv => OutputsAreTheNetworks
<1> SUFFICES ASSUME CudnnInv, NEW t \in Searchers, phase[t] = "reading"
             PROVE  /\ slots[io[t]].policy = Policy(net, slots[io[t]].input)
                    /\ slots[io[t]].value = Value(net, slots[io[t]].input)
                    /\ \A u \in Searchers \ {t} : io[u] # io[t]
  BY Zenon DEF OutputsAreTheNetworks
<1>1. io[t] # NoSlot
  <2>1. io[t] \in 1 .. Len(slots)
    BY DEF CudnnInv, CudnnPool
  <2>2. Len(slots) \in Nat
    BY DEF CudnnInv, CudnnTypes
  <2> QED BY <2>1, <2>2 DEF NoSlot
<1> QED BY <1>1 DEF CudnnInv, CudnnPool, CudnnThread

LEMMA CudnnStays == CudnnInv /\ UNCHANGED cudnnVars => CudnnInv'
<1> SUFFICES ASSUME CudnnInv, UNCHANGED cudnnVars PROVE CudnnInv'
  OBVIOUS
<1>1. /\ CudnnTypes /\ CudnnPool /\ WritesFit /\ \A u \in Searchers : CudnnThread(u)
      /\ UNCHANGED <<net, opt, tensorMem, lockedBy, phase, done, io, batchSize, slots,
                     freeSlots, serial, written>>
  BY DEF CudnnInv, cudnnVars
<1>2. \A u \in Searchers : CudnnThread(u)'
  BY <1>1, CudnnThreadStays
<1>3. CudnnTypes'
  BY <1>1 DEF CudnnTypes
<1>4. CudnnPool'
  BY <1>1 DEF CudnnPool
<1> QED BY <1>1, <1>2, <1>3, <1>4 DEF CudnnInv, WritesFit

-----------------------------------------------------------------------------
(* The CPU backend.  BlasInv is the inductive invariant.                   *)

LEMMA OfTwo ==
  ASSUME NEW a \in Nat, NEW b \in Nat
  PROVE  /\ Min({a, b}) = IF a <= b THEN a ELSE b
         /\ Max({a, b}) = IF a <= b THEN b ELSE a
<1>1. Min({a, b}) = IF a <= b THEN a ELSE b
  <2> DEFINE m == IF a <= b THEN a ELSE b
  <2>1. m \in {a, b} /\ \A y \in {a, b} : m <= y
    OBVIOUS
  <2>2. \A x \in {a, b} : (\A y \in {a, b} : x <= y) => x = m
    OBVIOUS
  <2> QED BY <2>1, <2>2 DEF Min
<1>2. Max({a, b}) = IF a <= b THEN b ELSE a
  <2> DEFINE m == IF a <= b THEN b ELSE a
  <2>1. m \in {a, b} /\ \A y \in {a, b} : m >= y
    OBVIOUS
  <2>2. \A x \in {a, b} : (\A y \in {a, b} : x >= y) => x = m
    OBVIOUS
  <2> QED BY <2>1, <2>2 DEF Max
<1> QED BY <1>1, <1>2

(* The results of the first samples. *)
FirstPolicies(n) == [sample \in 1 .. n |-> Policy(bnet, sample)]
FirstValues(n) == [sample \in 1 .. n |-> Value(bnet, sample)]

BufferNames == {"buffer1", "buffer2", "buffer3"}

BlasTypes ==
  /\ bnet \in BlasNets
  /\ maxBatch \in Nat \ {0}
  /\ planeCount \in Nat \ {0}
  /\ chunk \in Nat
  /\ block \in 1 .. Len(bnet.se) + 1
  /\ blasPc \in {"encode", "input", "tower", "value"}
  /\ ptr = [in |-> ptr.in, out |-> ptr.out, res |-> ptr.res]
  /\ ptr.in \in BufferNames /\ ptr.out \in BufferNames /\ ptr.res \in BufferNames
  /\ ptr.in # ptr.out /\ ptr.in # ptr.res /\ ptr.out # ptr.res
  /\ buffers = [b \in BufferNames |-> buffers[b]]

(* The chunks before are done, and the samples of this one are on their    *)
(* way in the buffer that the next layer reads.                            *)
BlasComputes ==
  /\ blasPc = "encode" =>
       /\ policies = FirstPolicies(Min({chunk, planeCount}))
       /\ qValues = FirstValues(Min({chunk, planeCount}))
  /\ blasPc # "encode" => chunk < planeCount /\ qValues = FirstValues(chunk)
  /\ blasPc = "input" =>
       /\ policies = FirstPolicies(chunk)
       /\ buffers[ptr.in] = [j \in 1 .. ChunkSize |-> Input(chunk + j)]
  /\ blasPc = "tower" =>
       /\ policies = FirstPolicies(chunk)
       /\ buffers[ptr.out] = [j \in 1 .. ChunkSize |-> Blocks(bnet, chunk + j)[block - 1]]
  /\ blasPc = "value" =>
       /\ policies = FirstPolicies(chunk + ChunkSize)
       /\ buffers[ptr.out] = [j \in 1 .. ChunkSize |-> Tower(bnet, chunk + j)]

BlasInv == BlasTypes /\ BlasComputes

LEMMA BlasNetFacts ==
  ASSUME bnet \in BlasNets
  PROVE  /\ bnet.se \in Seq(BOOLEAN) /\ Len(bnet.se) \in Nat
         /\ bnet.filters \in Nat /\ bnet.policyChannels \in Nat
<1>1. /\ bnet.se \in Seq(BOOLEAN) /\ bnet.filters \in Nat /\ bnet.policyChannels \in Nat
  BY BlasAssumption
<1> QED BY <1>1

LEMMA ChunkFacts ==
  ASSUME maxBatch \in Nat \ {0}, planeCount \in Nat \ {0}, chunk \in Nat
  PROVE  /\ LargestBatch \in Nat \ {0}
         /\ chunk < planeCount =>
              /\ ChunkSize \in Nat \ {0} /\ ChunkSize <= LargestBatch
              /\ Min({chunk + LargestBatch, planeCount}) = chunk + ChunkSize
              /\ Min({chunk, planeCount}) = chunk
<1>1. LargestBatch = IF maxBatch <= planeCount THEN maxBatch ELSE planeCount
  BY OfTwo DEF LargestBatch
<1>2. LargestBatch \in Nat \ {0}
  BY <1>1
<1>3. ASSUME chunk < planeCount
      PROVE  /\ ChunkSize \in Nat \ {0} /\ ChunkSize <= LargestBatch
             /\ Min({chunk + LargestBatch, planeCount}) = chunk + ChunkSize
             /\ Min({chunk, planeCount}) = chunk
  <2> DEFINE l == LargestBatch
             rest == planeCount - chunk
  <2>1. rest \in Nat \ {0} /\ l \in Nat /\ chunk + l \in Nat
    BY <1>2, <1>3
  <2>2. ChunkSize = IF rest <= l THEN rest ELSE l
    BY <2>1, OfTwo DEF ChunkSize
  <2>3. Min({chunk + l, planeCount}) = IF chunk + l <= planeCount THEN chunk + l ELSE planeCount
    BY <2>1, OfTwo
  <2>4. Min({chunk, planeCount}) = chunk
    BY <1>3, OfTwo
  <2> HIDE DEF l
  <2> QED BY <1>2, <1>3, <2>1, <2>2, <2>3, <2>4 DEF l
<1> QED BY <1>2, <1>3

FirstOf(f, n) == [i \in 1 .. n |-> f[i]]

LEMMA Joined ==
  ASSUME NEW n \in Nat, NEW m \in Nat, NEW f, NEW g,
         \A j \in 1 .. m : g[j] = f[n + j]
  PROVE  FirstOf(f, n) \o FirstOf(g, m) = FirstOf(f, n + m)
<1> DEFINE S == {f[i] : i \in 1 .. n + m}
           s == [i \in 1 .. n |-> f[i]]
           e == [j \in 1 .. m |-> g[j]]
           both == [i \in 1 .. n + m |-> f[i]]
<1>1. \A i \in 1 .. n : f[i] \in S
  OBVIOUS
<1>2. \A j \in 1 .. m : g[j] \in S
  <2>1. \A j \in 1 .. m : n + j \in 1 .. n + m
    OBVIOUS
  <2> QED BY <2>1
<1> HIDE DEF S
<1>3. s \in Seq(S) /\ e \in Seq(S) /\ Len(s) = n /\ Len(e) = m
  BY <1>1, <1>2
<1>4. /\ \A i \in 1 .. n : s[i] = f[i]
      /\ \A j \in 1 .. m : e[j] = f[n + j]
  OBVIOUS
<1> HIDE DEF s, e
<1>5. IsTwoParts(s \o e, s, e, S)
  BY <1>3, TwoParts
<1>6. /\ s \o e \in Seq(S) /\ Len(s \o e) = n + m
      /\ \A i \in 1 .. n : (s \o e)[i] = f[i]
      /\ \A j \in 1 .. m : (s \o e)[n + j] = f[n + j]
  BY <1>3, <1>4, <1>5 DEF IsTwoParts
<1>7. \A i \in 1 .. n + m : (s \o e)[i] = f[i]
  <2> SUFFICES ASSUME NEW i \in 1 .. n + m PROVE (s \o e)[i] = f[i]
    OBVIOUS
  <2>1. CASE i <= n
    BY <1>6, <2>1
  <2>2. CASE i > n
    <3>1. i - n \in 1 .. m /\ n + (i - n) = i
      BY <2>2
    <3> QED BY <1>6, <3>1
  <2>3. i <= n \/ i > n
    OBVIOUS
  <2> QED BY <2>1, <2>2, <2>3
<1>8. s \o e = both
  <2> PICK l : l = s \o e
    OBVIOUS
  <2>1. l \in [1 .. n + m -> S]
    BY <1>6, LenProperties
  <2>2. \A i \in 1 .. n + m : l[i] = f[i]
    BY <1>7
  <2>3. l = both
    BY <2>1, <2>2
  <2> QED BY <2>3
<1> QED BY <1>8 DEF s, e, FirstOf

LEMMA MorePolicies ==
  ASSUME NEW n \in Nat, NEW m \in Nat, NEW g, g = [j \in 1 .. m |-> Policy(bnet, n + j)]
  PROVE  FirstPolicies(n) \o g = FirstPolicies(n + m)
<1> DEFINE f == [sample \in 1 .. n + m |-> Policy(bnet, sample)]
<1>1. \A j \in 1 .. m : g[j] = f[n + j]
  OBVIOUS
<1>2. FirstPolicies(n) = FirstOf(f, n)
  BY DEF FirstPolicies, FirstOf
<1>3. FirstPolicies(n + m) = FirstOf(f, n + m)
  BY DEF FirstPolicies, FirstOf
<1>4. g = FirstOf(g, m)
  BY DEF FirstOf
<1> HIDE DEF f
<1>5. FirstOf(f, n) \o FirstOf(g, m) = FirstOf(f, n + m)
  BY <1>1, Joined
<1> QED BY <1>2, <1>3, <1>4, <1>5

LEMMA MoreValues ==
  ASSUME NEW n \in Nat, NEW m \in Nat, NEW g, g = [j \in 1 .. m |-> Value(bnet, n + j)]
  PROVE  FirstValues(n) \o g = FirstValues(n + m)
<1> DEFINE f == [sample \in 1 .. n + m |-> Value(bnet, sample)]
<1>1. \A j \in 1 .. m : g[j] = f[n + j]
  OBVIOUS
<1>2. FirstValues(n) = FirstOf(f, n)
  BY DEF FirstValues, FirstOf
<1>3. FirstValues(n + m) = FirstOf(f, n + m)
  BY DEF FirstValues, FirstOf
<1>4. g = FirstOf(g, m)
  BY DEF FirstOf
<1> HIDE DEF f
<1>5. FirstOf(f, n) \o FirstOf(g, m) = FirstOf(f, n + m)
  BY <1>1, Joined
<1> QED BY <1>2, <1>3, <1>4, <1>5

LEMMA BlasInitHolds == BlasInit => BlasInv
<1> SUFFICES ASSUME BlasInit PROVE BlasInv
  OBVIOUS
<1>1. bnet \in BlasNets /\ planeCount \in Nat \ {0} /\ chunk = 0 /\ block = 1
  BY BlasAssumption DEF BlasInit
<1>2. maxBatch \in Nat \ {0}
  <2>1. PICK option \in BatchOptions : maxBatch = Min({option, kHardMaxBatchSize})
    BY DEF BlasInit
  <2>2. option \in Nat \ {0} /\ kHardMaxBatchSize = 2048
    BY BlasAssumption DEF kHardMaxBatchSize
  <2> QED BY <2>1, <2>2, OfTwo
<1>3. block \in 1 .. Len(bnet.se) + 1
  BY <1>1, BlasNetFacts
<1>4. BlasTypes
  BY <1>1, <1>2, <1>3 DEF BlasTypes, BlasInit, BufferNames
<1>5. Min({chunk, planeCount}) = 0
  BY <1>1, OfTwo
<1>6. FirstPolicies(0) = <<>> /\ FirstValues(0) = <<>>
  BY DEF FirstPolicies, FirstValues
<1> QED BY <1>4, <1>5, <1>6 DEF BlasInv, BlasComputes, BlasInit

LEMMA EncodeStep == ASSUME BlasInv, Encode PROVE BlasInv'
<1>1. /\ BlasTypes /\ BlasComputes /\ blasPc = "encode" /\ chunk < planeCount /\ blasPc' = "input"
      /\ UNCHANGED <<bnet, maxBatch, planeCount, chunk, block, ptr, policies, qValues>>
  BY DEF BlasInv, Encode
<1>2. buffers' = [buffers EXCEPT ![ptr.in] = [j \in 1 .. ChunkSize |-> Input(chunk + j)]]
  BY DEF Encode, EachSample
<1>3. ChunkSize' = ChunkSize /\ Min({chunk, planeCount}) = chunk
  BY <1>1, ChunkFacts DEF ChunkSize, LargestBatch, BlasTypes
<1>4. BlasTypes'
  BY <1>1, <1>2 DEF BlasTypes
<1>5. buffers'[ptr.in] = [j \in 1 .. ChunkSize |-> Input(chunk + j)]
  BY <1>1, <1>2 DEF BlasTypes
<1>6. policies = FirstPolicies(chunk) /\ qValues = FirstValues(chunk)
  BY <1>1, <1>3 DEF BlasComputes
<1>7. FirstPolicies(chunk)' = FirstPolicies(chunk) /\ FirstValues(chunk)' = FirstValues(chunk)
  BY <1>1 DEF FirstPolicies, FirstValues
<1>8. BlasComputes'
  BY <1>1, <1>3, <1>5, <1>6, <1>7 DEF BlasComputes
<1> QED BY <1>4, <1>8 DEF BlasInv

LEMMA ChunkStays ==
  ASSUME UNCHANGED <<bnet, maxBatch, planeCount, chunk>>
  PROVE  /\ ChunkSize' = ChunkSize /\ LargestBatch' = LargestBatch
         /\ \A n : FirstPolicies(n)' = FirstPolicies(n)
         /\ \A n : FirstValues(n)' = FirstValues(n)
BY DEF ChunkSize, LargestBatch, FirstPolicies, FirstValues

LEMMA InputConvolutionStep == ASSUME BlasInv, InputConvolution PROVE BlasInv'
<1>1. /\ BlasTypes /\ BlasComputes /\ blasPc = "input" /\ blasPc' = "tower" /\ block' = 1
      /\ UNCHANGED <<bnet, maxBatch, planeCount, chunk, ptr, policies, qValues>>
  BY DEF BlasInv, InputConvolution
<1>2. buffers' = [buffers EXCEPT ![ptr.out] =
        [j \in 1 .. ChunkSize |-> Relu(ConvBias(<<"input", 0>>, buffers[ptr.in][j]))]]
  BY DEF InputConvolution, EachSample
<1>3. BlasTypes'
  <2>1. block' \in 1 .. Len(bnet.se) + 1
    BY <1>1, BlasNetFacts DEF BlasTypes
  <2> QED BY <1>1, <1>2, <2>1 DEF BlasTypes
<1>4. buffers'[ptr.out] = [j \in 1 .. ChunkSize |-> Blocks(bnet, chunk + j)[block' - 1]]
  <2>1. \A x : Blocks(bnet, x)[0] = Relu(ConvBias(<<"input", 0>>, Input(x)))
    BY <1>1, BlasNetFacts, BlocksFacts DEF BlasTypes
  <2>2. \A j \in 1 .. ChunkSize : buffers[ptr.in][j] = Input(chunk + j)
    BY <1>1 DEF BlasComputes
  <2>3. buffers'[ptr.out] =
          [j \in 1 .. ChunkSize |-> Relu(ConvBias(<<"input", 0>>, buffers[ptr.in][j]))]
    BY <1>1, <1>2 DEF BlasTypes
  <2>4. block' - 1 = 0
    BY <1>1
  <2>5. \A j \in 1 .. ChunkSize :
          Relu(ConvBias(<<"input", 0>>, buffers[ptr.in][j])) = Blocks(bnet, chunk + j)[0]
    BY <2>1, <2>2
  <2> QED BY <2>3, <2>4, <2>5
<1>5. BlasComputes'
  <2>1. /\ policies' = FirstPolicies(chunk)' /\ qValues' = FirstValues(chunk)'
        /\ ChunkSize' = ChunkSize /\ chunk < planeCount
    BY <1>1, ChunkStays DEF BlasComputes
  <2> QED BY <1>1, <1>4, <2>1 DEF BlasComputes
<1> QED BY <1>3, <1>5 DEF BlasInv

LEMMA ResidualBlockStep == ASSUME BlasInv, ResidualBlock PROVE BlasInv'
<1> DEFINE in(j) == buffers[ptr.out][j]
           first(j) == Relu(ConvBias(<<"conv1", block>>, in(j)))
           second(j) == ConvBias(<<"conv2", block>>, first(j))
           hasUnit == bnet.se[block]
           joined(j) == IF hasUnit THEN ApplySEUnit(second(j), in(j))
                        ELSE Relu(Sum(second(j), in(j)))
<1>1. /\ BlasTypes /\ BlasComputes /\ blasPc = "tower" /\ block <= Len(bnet.se)
      /\ block' = block + 1
      /\ UNCHANGED <<bnet, maxBatch, planeCount, blasPc, chunk, policies, qValues>>
  BY DEF BlasInv, ResidualBlock
<1>2. PICK a : a = ptr.in
  OBVIOUS
<1>3. PICK b : b = ptr.out
  OBVIOUS
<1>4. PICK c : c = ptr.res
  OBVIOUS
<1>5. /\ ptr = [in |-> a, out |-> b, res |-> c]
      /\ a \in BufferNames /\ b \in BufferNames /\ c \in BufferNames
      /\ a # b /\ a # c /\ b # c
  BY <1>1, <1>2, <1>3, <1>4 DEF BlasTypes
<1>6. /\ ptr' = IF hasUnit THEN [in |-> c, out |-> a, res |-> b] ELSE [in |-> a, out |-> c, res |-> b]
      /\ buffers' = [s \in BufferNames |-> buffers'[s]]
      /\ buffers'[ptr'.out] = [j \in 1 .. ChunkSize |-> joined(j)]
  <2> DEFINE p1 == Swapped(ptr)
             p2 == AfterConv1(p1)
             pSe == Swapped(p2)
             conv1 == [j \in 1 .. ChunkSize |-> Relu(ConvBias(<<"conv1", block>>, buffers[p1.in][j]))]
             mem1 == [buffers EXCEPT ![p1.out] = conv1]
             conv2 == [j \in 1 .. ChunkSize |-> ConvBias(<<"conv2", block>>, mem1[p2.in][j])]
             mem2 == [mem1 EXCEPT ![p2.out] = conv2]
             withUnit == [j \in 1 .. ChunkSize |-> ApplySEUnit(mem2[pSe.in][j], mem2[pSe.res][j])]
             without == [j \in 1 .. ChunkSize |-> Relu(Sum(mem2[p2.out][j], mem2[p2.res][j]))]
  <2>1. IF hasUnit THEN ptr' = pSe /\ buffers' = [mem2 EXCEPT ![pSe.out] = withUnit]
        ELSE ptr' = p2 /\ buffers' = [mem2 EXCEPT ![p2.out] = without]
    BY Zenon DEF ResidualBlock, EachSample
  <2>2. p1 = [in |-> b, out |-> a, res |-> c]
    BY <1>5 DEF Swapped
  <2> HIDE DEF p1
  <2>3. p2 = [in |-> a, out |-> c, res |-> b]
    BY <2>2 DEF AfterConv1
  <2> HIDE DEF p2
  <2>4. pSe = [in |-> c, out |-> a, res |-> b]
    BY <2>3 DEF Swapped
  <2> HIDE DEF pSe
  <2>5. /\ p1.in = b /\ p1.out = a /\ p2.in = a /\ p2.out = c /\ p2.res = b
        /\ pSe.in = c /\ pSe.out = a /\ pSe.res = b
    BY <2>2, <2>3, <2>4
  <2>6. \A j \in 1 .. ChunkSize : conv1[j] = first(j)
    BY <1>3, <2>5
  <2> HIDE DEF conv1
  <2>7. /\ mem1 = [s \in BufferNames |-> mem1[s]] /\ mem1[a] = conv1 /\ mem1[b] = buffers[b]
    BY <1>1, <1>5, <2>5 DEF BlasTypes
  <2> HIDE DEF mem1
  <2>8. \A j \in 1 .. ChunkSize : conv2[j] = second(j)
    <3> HIDE DEF first
    <3> QED BY <2>5, <2>6, <2>7
  <2> HIDE DEF conv2
  <2>9. /\ mem2 = [s \in BufferNames |-> mem2[s]] /\ mem2[c] = conv2 /\ mem2[b] = buffers[b]
    BY <1>5, <2>5, <2>7
  <2> HIDE DEF mem2
  <2>10. CASE hasUnit
    <3>1. withUnit = [j \in 1 .. ChunkSize |-> joined(j)]
      <4>1. \A j \in 1 .. ChunkSize : ApplySEUnit(mem2[pSe.in][j], mem2[pSe.res][j]) = joined(j)
        <5> HIDE DEF second
        <5> QED BY <1>3, <2>5, <2>8, <2>9, <2>10
      <4> HIDE DEF joined
      <4> QED BY <4>1
    <3> HIDE DEF withUnit, joined
    <3> QED BY <1>5, <2>1, <2>4, <2>5, <2>9, <2>10, <3>1
  <2>11. CASE ~hasUnit
    <3>1. without = [j \in 1 .. ChunkSize |-> joined(j)]
      <4>1. \A j \in 1 .. ChunkSize : Relu(Sum(mem2[p2.out][j], mem2[p2.res][j])) = joined(j)
        <5> HIDE DEF second
        <5> QED BY <1>3, <2>5, <2>8, <2>9, <2>11
      <4> HIDE DEF joined
      <4> QED BY <4>1
    <3> HIDE DEF without, joined
    <3> QED BY <1>5, <2>1, <2>3, <2>5, <2>9, <2>11, <3>1
  <2> QED BY <2>10, <2>11
<1>7. \A j \in 1 .. ChunkSize : joined(j) = Blocks(bnet, chunk + j)[block]
  <2> SUFFICES ASSUME NEW j \in 1 .. ChunkSize PROVE joined(j) = Blocks(bnet, chunk + j)[block]
    OBVIOUS
  <2>1. in(j) = Blocks(bnet, chunk + j)[block - 1]
    BY <1>1 DEF BlasComputes
  <2>2. block \in 1 .. Len(bnet.se) /\ Len(bnet.se) \in Nat
    BY <1>1, BlasNetFacts DEF BlasTypes
  <2> DEFINE sample == chunk + j
  <2>3. Blocks(bnet, sample)[block] = Block(bnet, block, Blocks(bnet, sample)[block - 1])
    <3> HIDE DEF sample
    <3> QED BY <2>2, BlocksFacts
  <2>4. Blocks(bnet, chunk + j)[block] = Block(bnet, block, in(j))
    BY <2>1, <2>3, Zenon
  <2> QED BY <2>4 DEF Block, ApplySEUnit
<1>8. buffers'[ptr'.out] = [j \in 1 .. ChunkSize |-> Blocks(bnet, chunk + j)[block' - 1]]
  <2>1. block' - 1 = block
    BY <1>1, BlasNetFacts DEF BlasTypes
  <2> HIDE DEF joined
  <2> QED BY <1>6, <1>7, <2>1
<1>9. BlasTypes'
  <2>1. block' \in 1 .. Len(bnet.se) + 1
    BY <1>1, BlasNetFacts DEF BlasTypes
  <2>2. /\ ptr' = [in |-> ptr'.in, out |-> ptr'.out, res |-> ptr'.res]
        /\ ptr'.in \in BufferNames /\ ptr'.out \in BufferNames /\ ptr'.res \in BufferNames
        /\ ptr'.in # ptr'.out /\ ptr'.in # ptr'.res /\ ptr'.out # ptr'.res
    BY <1>5, <1>6
  <2> QED BY <1>1, <1>6, <2>1, <2>2 DEF BlasTypes
<1>10. BlasComputes'
  <2>1. /\ policies' = FirstPolicies(chunk)' /\ qValues' = FirstValues(chunk)'
        /\ ChunkSize' = ChunkSize /\ chunk < planeCount
    BY <1>1, ChunkStays DEF BlasComputes
  <2> QED BY <1>1, <1>8, <2>1 DEF BlasComputes
<1> QED BY <1>9, <1>10 DEF BlasInv

(* In the end of the tower. *)
LEMMA TowerDone ==
  ASSUME BlasInv, blasPc = "tower", block > Len(bnet.se)
  PROVE  \A j \in 1 .. ChunkSize : buffers[ptr.out][j] = Tower(bnet, chunk + j)
<1>1. block - 1 = Len(bnet.se) /\ Len(bnet.se) \in Nat
  BY BlasNetFacts DEF BlasInv, BlasTypes
<1>2. \A j \in 1 .. ChunkSize : buffers[ptr.out][j] = Blocks(bnet, chunk + j)[block - 1]
  BY DEF BlasInv, BlasComputes
<1>3. \A x : Tower(bnet, x) = Blocks(bnet, x)[Len(bnet.se)]
  BY <1>1, BlocksFacts
<1> QED BY <1>1, <1>2, <1>3

LEMMA PolicyHeadStep == ASSUME BlasInv, PolicyHead PROVE BlasInv'
<1> DEFINE t(j) == Tower(bnet, chunk + j)
           policy(j) == Policy(bnet, chunk + j)
           results == [j \in 1 .. ChunkSize |-> policy(j)]
<1>1. /\ BlasTypes /\ BlasComputes /\ blasPc = "tower" /\ block > Len(bnet.se)
      /\ blasPc' = "value"
      /\ UNCHANGED <<bnet, maxBatch, planeCount, chunk, block, ptr, qValues>>
  BY DEF BlasInv, PolicyHead
<1>2. \A j \in 1 .. ChunkSize : buffers[ptr.out][j] = t(j)
  BY <1>1, TowerDone
<1>3. buffers[ptr.out] = [j \in 1 .. ChunkSize |-> t(j)]
  <2>1. buffers[ptr.out] = [j \in 1 .. ChunkSize |-> buffers[ptr.out][j]]
    BY <1>1 DEF BlasComputes
  <2> HIDE DEF t
  <2> QED BY <1>2, <2>1
<1>4. /\ buffers' = [s \in BufferNames |-> buffers'[s]]
      /\ buffers'[ptr.out] = buffers[ptr.out]
      /\ policies' = policies \o results
  <2>1. CASE bnet.convPolicy
    <3> DEFINE policy1 == [j \in 1 .. ChunkSize |->
                             Relu(ConvBias(<<"policy1", 0>>, buffers[ptr.out][j]))]
               mem == [buffers EXCEPT ![ptr.res] = policy1]
    <3>1. /\ buffers' = mem
          /\ policies' = policies \o [j \in 1 .. ChunkSize |->
                           PolicyMap(ConvBias(<<"policy", 0>>, mem[ptr.res][j]))]
      BY <2>1 DEF PolicyHead, EachSample
    <3>2. /\ mem = [s \in BufferNames |-> mem[s]] /\ mem[ptr.res] = policy1
          /\ mem[ptr.out] = buffers[ptr.out]
      BY <1>1 DEF BlasTypes
    <3>3. \A j \in 1 .. ChunkSize :
            PolicyMap(ConvBias(<<"policy", 0>>, mem[ptr.res][j])) = policy(j)
      <4>1. \A j \in 1 .. ChunkSize :
              mem[ptr.res][j] = Relu(ConvBias(<<"policy1", 0>>, t(j)))
        BY <1>2, <3>2
      <4> HIDE DEF mem
      <4> QED BY <2>1, <4>1 DEF Policy
    <3> HIDE DEF mem, policy
    <3> QED BY <3>1, <3>2, <3>3
  <2>2. CASE ~bnet.convPolicy
    <3>1. /\ buffers' = buffers
          /\ policies' = policies \o [j \in 1 .. ChunkSize |->
               FCBias(<<"ip_pol", 0>>, Relu(ConvBias(<<"policy", 0>>, buffers[ptr.out][j])))]
      BY <2>2 DEF PolicyHead, EachSample
    <3>2. \A j \in 1 .. ChunkSize :
            FCBias(<<"ip_pol", 0>>, Relu(ConvBias(<<"policy", 0>>, buffers[ptr.out][j])))
              = policy(j)
      BY <1>2, <2>2 DEF Policy
    <3> HIDE DEF policy
    <3> QED BY <1>1, <3>1, <3>2 DEF BlasTypes
  <2> QED BY <2>1, <2>2
<1>5. policies' = FirstPolicies(chunk + ChunkSize)
  <2>1. chunk \in Nat /\ ChunkSize \in Nat
    BY <1>1, ChunkFacts DEF BlasTypes, BlasComputes
  <2>2. policies = FirstPolicies(chunk)
    BY <1>1 DEF BlasComputes
  <2>3. FirstPolicies(chunk) \o results = FirstPolicies(chunk + ChunkSize)
    BY <2>1, MorePolicies
  <2> QED BY <1>4, <2>2, <2>3
<1>6. BlasTypes'
  BY <1>1, <1>4 DEF BlasTypes
<1>7. BlasComputes'
  <2>1. /\ policies' = FirstPolicies(chunk + ChunkSize)' /\ qValues' = FirstValues(chunk)'
        /\ ChunkSize' = ChunkSize /\ chunk < planeCount
    BY <1>1, <1>5, ChunkStays DEF BlasComputes
  <2>2. buffers'[ptr.out] = [j \in 1 .. ChunkSize |-> t(j)]
    BY <1>3, <1>4
  <2> QED BY <1>1, <2>1, <2>2 DEF BlasComputes
<1> QED BY <1>6, <1>7 DEF BlasInv

LEMMA ValueHeadStep == ASSUME BlasInv, ValueHead PROVE BlasInv'
<1> DEFINE value(j) == Value(bnet, chunk + j)
           results == [j \in 1 .. ChunkSize |-> value(j)]
<1>1. /\ BlasTypes /\ BlasComputes /\ blasPc = "value" /\ chunk' = chunk + LargestBatch
      /\ blasPc' = "encode"
      /\ UNCHANGED <<bnet, maxBatch, planeCount, block, ptr, buffers, policies, overrun>>
  BY DEF BlasInv, ValueHead
<1> DEFINE out(j) == FCBias(<<"ip2_val", 0>>,
                            Relu(FCBias(<<"ip1_val", 0>>,
                                        Relu(ConvBias(<<"value", 0>>, buffers[ptr.out][j])))))
<1>2. qValues' = qValues \o [j \in 1 .. ChunkSize |->
                               IF bnet.wdl THEN Softmax(out(j)) ELSE Tanh(out(j))]
  BY DEF ValueHead, EachSample
<1>3. \A j \in 1 .. ChunkSize : (IF bnet.wdl THEN Softmax(out(j)) ELSE Tanh(out(j))) = value(j)
  <2>1. \A j \in 1 .. ChunkSize : buffers[ptr.out][j] = Tower(bnet, chunk + j)
    BY <1>1 DEF BlasComputes
  <2> QED BY <2>1 DEF Value
<1>4. qValues' = qValues \o results
  <2> HIDE DEF value, out
  <2> QED BY <1>2, <1>3
<1>5. /\ chunk \in Nat /\ ChunkSize \in Nat /\ LargestBatch \in Nat
      /\ Min({chunk + LargestBatch, planeCount}) = chunk + ChunkSize
  BY <1>1, ChunkFacts DEF BlasTypes, BlasComputes
<1>6. qValues' = FirstValues(chunk + ChunkSize)
  <2>1. qValues = FirstValues(chunk)
    BY <1>1 DEF BlasComputes
  <2>2. FirstValues(chunk) \o results = FirstValues(chunk + ChunkSize)
    BY <1>5, MoreValues
  <2> QED BY <1>4, <2>1, <2>2
<1>7. policies' = FirstPolicies(chunk + ChunkSize)
  BY <1>1 DEF BlasComputes
<1>8. BlasTypes'
  BY <1>1, <1>5 DEF BlasTypes
<1>9. Min({chunk, planeCount})' = chunk + ChunkSize
  BY <1>1, <1>5
<1>10. BlasComputes'
  <2> PICK n : n = chunk + ChunkSize
    OBVIOUS
  <2>1. policies' = FirstPolicies(n)' /\ qValues' = FirstValues(n)'
    BY <1>1, <1>6, <1>7 DEF FirstPolicies, FirstValues
  <2> QED BY <1>1, <1>9, <2>1 DEF BlasComputes
<1> QED BY <1>8, <1>10 DEF BlasInv

LEMMA BlasStepHolds == ASSUME BlasInv, BlasNext PROVE BlasInv'
BY EncodeStep, InputConvolutionStep, ResidualBlockStep, PolicyHeadStep, ValueHeadStep DEF BlasNext

LEMMA BlasStays == BlasInv /\ UNCHANGED blasVars => BlasInv'
<1> SUFFICES ASSUME BlasInv, UNCHANGED blasVars PROVE BlasInv'
  OBVIOUS
<1>1. UNCHANGED <<bnet, maxBatch, planeCount, blasPc, chunk, block, ptr, buffers, policies, qValues>>
  BY DEF blasVars
<1>2. BlasTypes'
  BY <1>1 DEF BlasInv, BlasTypes
<1>3. BlasComputes'
  BY <1>1 DEF BlasInv, BlasComputes, ChunkSize, LargestBatch, FirstPolicies, FirstValues
<1> QED BY <1>2, <1>3 DEF BlasInv

LEMMA BlasResults == BlasInv => BlasOutputsAreTheNetworks
<1> SUFFICES ASSUME BlasInv, blasPc = "encode", chunk >= planeCount
             PROVE  /\ policies = FirstPolicies(planeCount)
                    /\ qValues = FirstValues(planeCount)
  BY DEF BlasOutputsAreTheNetworks, Computed, FirstPolicies, FirstValues
<1>1. Min({chunk, planeCount}) = planeCount
  <2>1. chunk \in Nat /\ planeCount \in Nat
    BY DEF BlasInv, BlasTypes
  <2>2. Min({chunk, planeCount}) = IF chunk <= planeCount THEN chunk ELSE planeCount
    BY <2>1, OfTwo
  <2> QED BY <2>1, <2>2
<1> QED BY <1>1 DEF BlasInv, BlasComputes

-----------------------------------------------------------------------------
(* Room in the buffers of the CPU backend.  Only buffer1 is made for the   *)
(* input planes as well; each unit turns the buffers by one.               *)

(* The next chunk is encoded into buffer1 again, or any buffer would do.   *)
RoomForInputs ==
  \A n \in BlasNets :
    \/ n.filters >= kInputPlanes
    \/ \A b \in DOMAIN n.se : ~n.se[b]
    \/ (\A b \in DOMAIN n.se : n.se[b]) /\ (Len(n.se) % 3) = 0

(* The buffers after i units, up to threes. *)
Turned(i) ==
  IF i = 0 THEN [in |-> "buffer1", out |-> "buffer2", res |-> "buffer3"]
  ELSE IF i = 1 THEN [in |-> "buffer3", out |-> "buffer1", res |-> "buffer2"]
  ELSE [in |-> "buffer2", out |-> "buffer3", res |-> "buffer1"]

BlasRoom ==
  /\ overrun = {}
  /\ \/ bnet.filters >= kInputPlanes
     \/ (\A b \in DOMAIN bnet.se : ~bnet.se[b]) /\ ptr.in = "buffer1"
     \/ /\ \A b \in DOMAIN bnet.se : bnet.se[b]
        /\ (Len(bnet.se) % 3) = 0
        /\ ptr = Turned(IF blasPc = "tower" THEN (block - 1) % 3 ELSE 0)

LEMMA NoOverrun ==
  ASSUME BlasInv, blasPc # "encode" \/ chunk < planeCount, NEW b, NEW channels \in Nat,
         channels <= bnet.filters \/ (b = "buffer1" /\ channels <= kInputPlanes)
  PROVE  Overruns(b, channels) = {}
<1>1. /\ LargestBatch \in Nat /\ ChunkSize \in Nat /\ ChunkSize <= LargestBatch
      /\ bnet.filters \in Nat /\ kInputPlanes \in Nat
  BY ChunkFacts, BlasNetFacts DEF BlasInv, BlasTypes, BlasComputes, kInputPlanes
<1> DEFINE cap == IF b = "buffer1" THEN Max({bnet.filters, kInputPlanes}) ELSE bnet.filters
<1>2. cap \in Nat /\ channels <= cap
  <2>1. Max({bnet.filters, kInputPlanes}) =
          IF bnet.filters <= kInputPlanes THEN kInputPlanes ELSE bnet.filters
    BY <1>1, OfTwo
  <2> QED BY <1>1, <2>1
<1> HIDE DEF cap
<1>3. ChunkSize * channels <= LargestBatch * cap
  BY <1>1, <1>2, ProductsGrow
<1> DEFINE p == ChunkSize * channels
           q == LargestBatch * cap
<1>4. p \in Nat /\ q \in Nat /\ p <= q
  BY <1>1, <1>2, <1>3
<1>5. Size(b) = q * 64
  <2>1. Size(b) = (LargestBatch * 64) * cap
    BY DEF Size, cap, Squares
  <2>2. \A x, y \in Nat : (x * 64) * y = (x * y) * 64
    OBVIOUS
  <2> QED BY <1>1, <1>2, <2>1, <2>2
<1>6. ChunkSize * channels * Squares = p * 64
  BY DEF Squares
<1> HIDE DEF p, q
<1>7. ~(p * 64 > q * 64)
  BY <1>4
<1> QED BY <1>5, <1>6, <1>7 DEF Overruns

LEMMA ConvolutionFits ==
  ASSUME bnet \in BlasNets
  PROVE  /\ ConvolutionOverruns(kInputPlanes, bnet.filters) = {}
         /\ bnet.convPolicy => ConvolutionOverruns(bnet.filters, bnet.policyChannels) = {}
<1>1. bnet.filters \in Nat /\ bnet.policyChannels \in Nat /\ kInputPlanes \in Nat
  BY BlasNetFacts DEF kInputPlanes
<1>2. /\ Max({bnet.filters, kInputPlanes}) =
           (IF bnet.filters <= kInputPlanes THEN kInputPlanes ELSE bnet.filters)
      /\ Max({bnet.policyChannels, bnet.filters}) =
           (IF bnet.policyChannels <= bnet.filters THEN bnet.filters ELSE bnet.policyChannels)
  BY <1>1, OfTwo
<1> QED BY <1>1, <1>2 DEF ConvolutionOverruns

LEMMA RoomInitHolds == ASSUME RoomForInputs PROVE BlasInit => BlasRoom
<1> SUFFICES ASSUME BlasInit PROVE BlasRoom
  OBVIOUS
<1>1. /\ overrun = {} /\ bnet \in BlasNets /\ blasPc = "encode"
      /\ ptr = [in |-> "buffer1", out |-> "buffer2", res |-> "buffer3"]
  BY DEF BlasInit
<1>2. ptr.in = "buffer1" /\ ptr = Turned(0)
  BY <1>1 DEF Turned
<1> QED BY <1>1, <1>2 DEF BlasRoom, RoomForInputs

LEMMA EncodeRoom == ASSUME BlasInv, BlasRoom, Encode PROVE BlasRoom'
<1>1. /\ blasPc = "encode" /\ chunk < planeCount /\ blasPc' = "input"
      /\ UNCHANGED <<bnet, block, ptr>>
      /\ overrun' = overrun \cup Overruns(ptr.in, kInputPlanes)
  BY DEF Encode
<1>2. bnet.filters >= kInputPlanes \/ ptr.in = "buffer1"
  <2>1. ptr = Turned(0) => ptr.in = "buffer1"
    BY DEF Turned
  <2>2. blasPc # "tower"
    BY <1>1
  <2> QED BY <2>1, <2>2 DEF BlasRoom
<1>3. Overruns(ptr.in, kInputPlanes) = {}
  <2>1. kInputPlanes \in Nat /\ bnet.filters \in Nat
    BY BlasNetFacts DEF kInputPlanes, BlasInv, BlasTypes
  <2> QED BY <1>1, <1>2, <2>1, NoOverrun
<1> QED BY <1>1, <1>3 DEF BlasRoom

LEMMA InputConvolutionRoom == ASSUME BlasInv, BlasRoom, InputConvolution PROVE BlasRoom'
<1>1. /\ blasPc = "input" /\ blasPc' = "tower" /\ block' = 1
      /\ UNCHANGED <<bnet, ptr>>
      /\ overrun' = overrun \cup Overruns(ptr.out, bnet.filters)
                      \cup ConvolutionOverruns(kInputPlanes, bnet.filters)
  BY DEF InputConvolution
<1>2. Overruns(ptr.out, bnet.filters) = {}
  <2>1. bnet.filters \in Nat
    BY BlasNetFacts DEF BlasInv, BlasTypes
  <2> QED BY <1>1, <2>1, NoOverrun
<1>3. ConvolutionOverruns(kInputPlanes, bnet.filters) = {}
  BY ConvolutionFits DEF BlasInv, BlasTypes
<1>4. ((block' - 1) % 3) = 0
  BY <1>1
<1> QED BY <1>1, <1>2, <1>3, <1>4 DEF BlasRoom

LEMMA ResidualBlockRoom == ASSUME BlasInv, BlasRoom, ResidualBlock PROVE BlasRoom'
<1>1. /\ blasPc = "tower" /\ blasPc' = "tower" /\ block' = block + 1 /\ bnet' = bnet
      /\ block <= Len(bnet.se)
      /\ overrun' = overrun \cup UNION {Overruns(b, bnet.filters) : b \in Range(ptr)}
  BY DEF ResidualBlock
<1>2. UNION {Overruns(b, bnet.filters) : b \in Range(ptr)} = {}
  <2>1. bnet.filters \in Nat
    BY BlasNetFacts DEF BlasInv, BlasTypes
  <2>2. \A b : Overruns(b, bnet.filters) = {}
    BY <1>1, <2>1, NoOverrun
  <2> QED BY <2>2
<1>3. ptr' = IF bnet.se[block] THEN [in |-> ptr.res, out |-> ptr.in, res |-> ptr.out]
             ELSE [in |-> ptr.in, out |-> ptr.res, res |-> ptr.out]
  <2>1. IF bnet.se[block] THEN ptr' = Swapped(AfterConv1(Swapped(ptr)))
        ELSE ptr' = AfterConv1(Swapped(ptr))
    BY Zenon DEF ResidualBlock
  <2>2. AfterConv1(Swapped(ptr)) = [in |-> ptr.in, out |-> ptr.res, res |-> ptr.out]
    BY DEF AfterConv1, Swapped
  <2> QED BY <2>1, <2>2 DEF Swapped
<1>4. block \in DOMAIN bnet.se /\ block \in Nat \ {0}
  BY <1>1, BlasNetFacts DEF BlasInv, BlasTypes
<1>5. CASE bnet.filters >= kInputPlanes
  BY <1>1, <1>2, <1>5 DEF BlasRoom
<1>6. CASE (\A b \in DOMAIN bnet.se : ~bnet.se[b]) /\ ptr.in = "buffer1"
  <2>1. ptr'.in = "buffer1"
    BY <1>3, <1>4, <1>6
  <2> QED BY <1>1, <1>2, <1>6, <2>1 DEF BlasRoom
<1>7. CASE /\ \A b \in DOMAIN bnet.se : bnet.se[b]
           /\ (Len(bnet.se) % 3) = 0
           /\ ptr = Turned((block - 1) % 3)
  <2>1. ptr' = [in |-> ptr.res, out |-> ptr.in, res |-> ptr.out]
    BY <1>3, <1>4, <1>7
  <2> DEFINE m == block - 1
  <2>6. m \in Nat /\ block' - 1 = m + 1
    BY <1>1, <1>4
  <2>7. /\ (m % 3) = 0 => ((m + 1) % 3) = 1
        /\ (m % 3) = 1 => ((m + 1) % 3) = 2
        /\ (m % 3) = 2 => ((m + 1) % 3) = 0
    <3> HIDE DEF m
    <3> QED BY <2>6
  <2>2. CASE ((block - 1) % 3) = 0
    <3>1. ((block' - 1) % 3) = 1
      BY <2>2, <2>6, <2>7
    <3>2. ptr' = Turned(1)
      BY <1>7, <2>1, <2>2 DEF Turned
    <3> QED BY <1>1, <1>2, <1>7, <3>1, <3>2 DEF BlasRoom
  <2>3. CASE ((block - 1) % 3) = 1
    <3>1. ((block' - 1) % 3) = 2
      BY <2>3, <2>6, <2>7
    <3>2. ptr' = Turned(2)
      BY <1>7, <2>1, <2>3 DEF Turned
    <3> QED BY <1>1, <1>2, <1>7, <3>1, <3>2 DEF BlasRoom
  <2>4. CASE ((block - 1) % 3) = 2
    <3>1. ((block' - 1) % 3) = 0
      BY <2>4, <2>6, <2>7
    <3>2. ptr' = Turned(0)
      BY <1>7, <2>1, <2>4 DEF Turned
    <3> QED BY <1>1, <1>2, <1>7, <3>1, <3>2 DEF BlasRoom
  <2>5. ((block - 1) % 3) \in {0, 1, 2}
    BY <1>4
  <2> QED BY <2>2, <2>3, <2>4, <2>5
<1> QED BY <1>1, <1>5, <1>6, <1>7 DEF BlasRoom

LEMMA PolicyHeadRoom == ASSUME BlasInv, BlasRoom, PolicyHead PROVE BlasRoom'
<1>1. /\ blasPc = "tower" /\ blasPc' = "value" /\ block > Len(bnet.se)
      /\ UNCHANGED <<bnet, block, ptr>>
      /\ overrun' = IF bnet.convPolicy
                    THEN overrun \cup Overruns(ptr.res, bnet.filters)
                           \cup ConvolutionOverruns(bnet.filters, bnet.policyChannels)
                    ELSE overrun
  BY DEF PolicyHead
<1>2. block - 1 = Len(bnet.se)
  BY <1>1, BlasNetFacts DEF BlasInv, BlasTypes
<1>3. Overruns(ptr.res, bnet.filters) = {}
  <2>1. bnet.filters \in Nat
    BY BlasNetFacts DEF BlasInv, BlasTypes
  <2> QED BY <1>1, <2>1, NoOverrun
<1>4. bnet.convPolicy => ConvolutionOverruns(bnet.filters, bnet.policyChannels) = {}
  BY ConvolutionFits DEF BlasInv, BlasTypes
<1> QED BY <1>1, <1>2, <1>3, <1>4 DEF BlasRoom

LEMMA ValueHeadRoom == ASSUME BlasInv, BlasRoom, ValueHead PROVE BlasRoom'
<1>1. blasPc = "value" /\ blasPc' = "encode" /\ UNCHANGED <<bnet, block, ptr, overrun>>
  BY DEF ValueHead
<1> QED BY <1>1 DEF BlasRoom

LEMMA RoomStep == ASSUME BlasInv, BlasRoom, BlasNext PROVE BlasRoom'
BY EncodeRoom, InputConvolutionRoom, ResidualBlockRoom, PolicyHeadRoom, ValueHeadRoom DEF BlasNext

-----------------------------------------------------------------------------
(* Both backends, as parts of neural/. *)

CudnnPart == part = "cudnn" => CudnnInv
BlasPart == part = "blas" => BlasInv
RoomPart == part = "blas" => BlasInv /\ BlasRoom

LEMMA CudnnPartHolds == ASSUME BlocksAlike PROVE BackendsSpec => []CudnnPart
<1>1. BackendsInit => CudnnPart
  BY CudnnInitHolds DEF BackendsInit, NetworksInit, CudnnPart
<1>2. ASSUME CudnnPart, [BackendsNext]_neuralVars PROVE CudnnPart'
  <2> SUFFICES ASSUME part' = "cudnn" PROVE CudnnInv'
    BY DEF CudnnPart
  <2>1. CASE CudnnStep
    <3>1. CudnnInv /\ CudnnNext
      BY <1>2, <2>1 DEF CudnnStep, CudnnPart
    <3> QED BY <3>1, CudnnStepHolds
  <2>2. CASE SeStep \/ BlasStep
    BY <2>2 DEF SeStep, BlasStep, allVars
  <2>3. CASE UNCHANGED <<part, cudnnVars>>
    BY <1>2, <2>3, CudnnStays DEF CudnnPart
  <2>4. CudnnStep \/ SeStep \/ BlasStep \/ UNCHANGED <<part, cudnnVars>>
    BY <1>2 DEF BackendsNext, WrapperStep, NetworksNext, MuxNext, DemuxNext,
         CheckNext, neuralVars, allVars, backendVars
  <2> QED BY <2>1, <2>2, <2>3, <2>4
<1> QED BY <1>1, <1>2, PTL DEF BackendsSpec

LEMMA BlasPartHolds == BackendsSpec => []BlasPart
<1>1. BackendsInit => BlasPart
  BY BlasInitHolds DEF BackendsInit, NetworksInit, BlasPart
<1>2. ASSUME BlasPart, [BackendsNext]_neuralVars PROVE BlasPart'
  <2> SUFFICES ASSUME part' = "blas" PROVE BlasInv'
    BY DEF BlasPart
  <2>1. CASE BlasStep
    <3>1. BlasInv /\ BlasNext
      BY <1>2, <2>1 DEF BlasStep, BlasPart
    <3> QED BY <3>1, BlasStepHolds
  <2>2. CASE SeStep \/ CudnnStep
    BY <2>2 DEF SeStep, CudnnStep, allVars
  <2>3. CASE UNCHANGED <<part, blasVars>>
    BY <1>2, <2>3, BlasStays DEF BlasPart
  <2>4. BlasStep \/ SeStep \/ CudnnStep \/ UNCHANGED <<part, blasVars>>
    BY <1>2 DEF BackendsNext, WrapperStep, NetworksNext, MuxNext, DemuxNext,
         CheckNext, neuralVars, allVars, backendVars
  <2> QED BY <2>1, <2>2, <2>3, <2>4
<1> QED BY <1>1, <1>2, PTL DEF BackendsSpec

LEMMA RoomPartHolds == ASSUME RoomForInputs PROVE BackendsSpec => []RoomPart
<1>1. BackendsInit => RoomPart
  BY BlasInitHolds, RoomInitHolds DEF BackendsInit, NetworksInit, RoomPart
<1>2. ASSUME RoomPart, [BackendsNext]_neuralVars PROVE RoomPart'
  <2> SUFFICES ASSUME part' = "blas" PROVE BlasInv' /\ BlasRoom'
    BY DEF RoomPart
  <2>1. CASE BlasStep
    <3>1. BlasInv /\ BlasRoom /\ BlasNext
      BY <1>2, <2>1 DEF BlasStep, RoomPart
    <3> QED BY <3>1, BlasStepHolds, RoomStep
  <2>2. CASE SeStep \/ CudnnStep
    BY <2>2 DEF SeStep, CudnnStep, allVars
  <2>3. CASE UNCHANGED <<part, blasVars>>
    <3>1. BlasInv /\ BlasRoom
      BY <1>2, <2>3 DEF RoomPart
    <3>2. BlasInv'
      BY <2>3, <3>1, BlasStays
    <3>3. BlasRoom'
      BY <2>3, <3>1 DEF BlasRoom, blasVars
    <3> QED BY <3>2, <3>3
  <2>4. BlasStep \/ SeStep \/ CudnnStep \/ UNCHANGED <<part, blasVars>>
    BY <1>2 DEF BackendsNext, WrapperStep, NetworksNext, MuxNext, DemuxNext,
         CheckNext, neuralVars, allVars, backendVars
  <2> QED BY <2>1, <2>2, <2>3, <2>4
<1> QED BY <1>1, <1>2, PTL DEF BackendsSpec

(* Every result a search thread reads from the CUDA backend is what the    *)
(* network computes of that thread's own inputs, although all threads      *)
(* share the buffers of forwardEval() (network_cudnn.cc:456), and every    *)
(* sample of a computation of the CPU backend gets its own policy and      *)
(* value, through all chunks and swaps of the buffers                      *)
(* (network_blas.cc:138): for towers of any length, with or without units, *)
(* any heads, and any number of threads, samples and chunks.               *)
THEOREM BackendsCorrect ==
  ASSUME BlocksAlike PROVE BackendsSpec => []BackendsComputeTheNetwork
<1>1. CudnnPart /\ BlasPart => BackendsComputeTheNetwork
  BY CudnnResults, BlasResults DEF CudnnPart, BlasPart, BackendsComputeTheNetwork
<1> QED BY <1>1, CudnnPartHolds, BlasPartHolds, PTL

(* No layer of the CUDA backend writes more than the buffer it is given    *)
(* has room for (network_cudnn.cc:421), nor does one of the CPU backend    *)
(* (network_blas.cc:170), provided the next chunk's inputs come to a       *)
(* buffer that has room for the input planes.                              *)
THEOREM WritesFitCorrect ==
  ASSUME BlocksAlike, RoomForInputs PROVE BackendsSpec => []WritesFitTheirBuffers
<1>1. CudnnPart /\ RoomPart => WritesFitTheirBuffers
  BY DEF CudnnPart, CudnnInv, RoomPart, BlasRoom, BlasWritesFit, WritesFitTheirBuffers
<1> QED BY <1>1, CudnnPartHolds, RoomPartHolds, PTL
=============================================================================
