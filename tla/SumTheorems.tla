------------------------------ MODULE SumTheorems ------------------------------
(***************************************************************************)
(* Facts about SumFunctionOnSet and SumFunction of module Functions: the   *)
(* sum of the values a function of integers takes on a finite set.         *)
(***************************************************************************)
EXTENDS Functions, FiniteSetTheorems, SequenceTheorems, TLAPS

(* Every nonempty set of naturals has a least element. *)
LEMMA LeastNat ==
  ASSUME NEW T \in SUBSET Nat, T # {}
  PROVE  \E n \in T : \A m \in T : n <= m
<1>1. PICK n \in T : \A m \in T : <<m, n>> \notin OpToRel(<, Nat)
  BY WFMin, NatLessThanWellFounded
<1>2. \A m \in T : ~(m < n)
  BY <1>1 DEF OpToRel
<1> QED BY <1>2

(* The recursion behind SumFunctionOnSet. *)
Pick(s) == CHOOSE x \in s : TRUE
Added(f, g, s) == IF s = {} THEN 0 ELSE f[Pick(s)] + g[s \ {Pick(s)}]
AreSums(f, S, g) == g = [s \in SUBSET S |-> Added(f, g, s)]

LEMMA PickElement == ASSUME NEW s, s # {} PROVE Pick(s) \in s
BY DEF Pick

LEMMA OneElementLess ==
  ASSUME NEW S, IsFiniteSet(S), NEW s \in SUBSET S, NEW x \in s
  PROVE  /\ s \ {x} \in SUBSET S
         /\ Cardinality(s) \in Nat \ {0} /\ Cardinality(s \ {x}) \in Nat
         /\ Cardinality(s \ {x}) = Cardinality(s) - 1
<1>1. IsFiniteSet(s) /\ Cardinality(s) \in Nat
  BY FS_Subset, FS_CardinalityType
<1>2. IsFiniteSet(s \ {x}) /\ Cardinality(s \ {x}) = Cardinality(s) - 1
  BY <1>1, FS_RemoveElement
<1>3. Cardinality(s \ {x}) \in Nat
  BY <1>2, FS_CardinalityType
<1> QED BY <1>1, <1>2, <1>3

(* The recursion is well founded. *)
LEMMA SumsExist ==
  ASSUME NEW f, NEW S, IsFiniteSet(S)
  PROVE  \E g : AreSums(f, S, g)
<1> DEFINE D(n) == {s \in SUBSET S : Cardinality(s) <= n}
           Good(n) == \E g : g = [s \in D(n) |-> Added(f, g, s)]
           Bad == {n \in Nat : ~Good(n)}
<1>0. \A s \in SUBSET S : Cardinality(s) \in Nat
  BY FS_Subset, FS_CardinalityType
<1>1. ASSUME NEW n \in Nat, n = 0 \/ Good(n - 1) PROVE Good(n)
  <2>1. PICK g : n # 0 => g = [s \in D(n - 1) |-> Added(f, g, s)]
    BY <1>1
  <2> DEFINE h == [s \in D(n) |-> Added(f, g, s)]
  <2>2. ASSUME NEW s \in D(n) PROVE Added(f, g, s) = Added(f, h, s)
    <3>1. CASE s = {}
      BY <3>1 DEF Added
    <3>2. CASE s # {}
      <4> DEFINE r == s \ {Pick(s)}
      <4>1. /\ Pick(s) \in s /\ r \in SUBSET S
            /\ Cardinality(s) \in Nat \ {0}
            /\ Cardinality(r) = Cardinality(s) - 1
        BY <3>2, PickElement, OneElementLess
      <4>2. n # 0 /\ r \in D(n - 1) /\ r \in D(n)
        BY <4>1
      <4>3. g[r] = Added(f, g, r) /\ h[r] = Added(f, g, r)
        BY <2>1, <4>2, Zenon
      <4> HIDE DEF h
      <4> QED BY <3>2, <4>3 DEF Added
    <3> QED BY <3>1, <3>2
  <2>3. h = [s \in D(n) |-> Added(f, h, s)]
    BY <2>2, Zenon
  <2> HIDE DEF h
  <2> QED BY <2>3
<1>2. Bad = {}
  <2>1. SUFFICES ASSUME Bad # {} PROVE FALSE
    OBVIOUS
  <2>2. PICK n \in Bad : \A m \in Bad : n <= m
    <3> HIDE DEF Good
    <3> QED BY <2>1, LeastNat
  <2>3. n = 0 \/ Good(n - 1)
    <3> HIDE DEF Good
    <3> QED BY <2>2
  <2> HIDE DEF Good
  <2> QED BY <1>1, <2>2, <2>3
<1>3. Cardinality(S) \in Nat
  BY <1>0
<1>4. Good(Cardinality(S))
  BY <1>2, <1>3
<1>5. D(Cardinality(S)) = SUBSET S
  BY <1>0, FS_Subset
<1>6. PICK g : g = [s \in D(Cardinality(S)) |-> Added(f, g, s)]
  BY <1>4
<1> HIDE DEF D
<1> QED BY <1>5, <1>6 DEF AreSums

LEMMA SumUnfolds ==
  ASSUME NEW f, NEW S, IsFiniteSet(S)
  PROVE  \E g : AreSums(f, S, g) /\ SumFunctionOnSet(f, S) = g[S]
<1> DEFINE g == CHOOSE h : AreSums(f, S, h)
<1>1. AreSums(f, S, g)
  BY SumsExist
<1>2. SumFunctionOnSet(f, S) = g[S]
  BY DEF SumFunctionOnSet, FoldFunctionOnSet, MapThenFoldSet, AreSums, Added, Pick
<1> QED BY <1>1, <1>2

(* The sums depend on nothing but the values in the set. *)
LEMMA SumsAgree ==
  ASSUME NEW f, NEW e, NEW S, IsFiniteSet(S), NEW T, IsFiniteSet(T),
         NEW g, AreSums(f, S, g), NEW h, AreSums(e, T, h),
         \A x \in S \cap T : f[x] = e[x]
  PROVE  \A s \in SUBSET (S \cap T) : g[s] = h[s]
<1> DEFINE Bad == {s \in SUBSET (S \cap T) : g[s] # h[s]}
           Sizes == {Cardinality(s) : s \in Bad}
<1>1. SUFFICES ASSUME Bad # {} PROVE FALSE
  OBVIOUS
<1>2. Sizes \in SUBSET Nat /\ Sizes # {}
  BY <1>1, FS_Subset, FS_CardinalityType
<1>3. PICK n \in Sizes : \A m \in Sizes : n <= m
  <2> HIDE DEF Sizes
  <2> QED BY <1>2, LeastNat
<1>4. PICK s \in Bad : Cardinality(s) = n
  BY <1>3
<1>5. s # {}
  BY <1>4 DEF AreSums, Added
<1> DEFINE x == Pick(s)
<1>6. x \in s
  BY <1>5, PickElement
<1>7. Cardinality(s \ {x}) \in Nat /\ Cardinality(s \ {x}) < n
  BY <1>4, <1>6, OneElementLess
<1>8. g[s \ {x}] = h[s \ {x}]
  <2>1. s \ {x} \in SUBSET (S \cap T)
    BY <1>4
  <2>2. s \ {x} \notin Bad
    BY <1>3, <1>7, <1>2
  <2> QED BY <2>1, <2>2
<1>9. g[s] = Added(f, g, s) /\ h[s] = Added(e, h, s)
  BY <1>4, Zenon DEF AreSums
<1>10. f[x] = e[x]
  BY <1>4, <1>6
<1>11. g[s] = h[s]
  BY <1>5, <1>8, <1>9, <1>10 DEF Added
<1> QED BY <1>4, <1>11

LEMMA SumsAreInt ==
  ASSUME NEW f, NEW S, IsFiniteSet(S), NEW g, AreSums(f, S, g),
         \A x \in S : f[x] \in Int
  PROVE  \A s \in SUBSET S : g[s] \in Int
<1> DEFINE Bad == {s \in SUBSET S : g[s] \notin Int}
           Sizes == {Cardinality(s) : s \in Bad}
<1>1. SUFFICES ASSUME Bad # {} PROVE FALSE
  OBVIOUS
<1>2. Sizes \in SUBSET Nat /\ Sizes # {}
  BY <1>1, FS_Subset, FS_CardinalityType
<1>3. PICK n \in Sizes : \A m \in Sizes : n <= m
  <2> HIDE DEF Sizes
  <2> QED BY <1>2, LeastNat
<1>4. PICK s \in Bad : Cardinality(s) = n
  BY <1>3
<1>5. s # {}
  BY <1>4 DEF AreSums, Added
<1> DEFINE x == Pick(s)
<1>6. x \in s
  BY <1>5, PickElement
<1>7. Cardinality(s \ {x}) \in Nat /\ Cardinality(s \ {x}) < n
  BY <1>4, <1>6, OneElementLess
<1>8. g[s \ {x}] \in Int
  BY <1>2, <1>3, <1>4, <1>7
<1>9. g[s] = Added(f, g, s)
  BY <1>4, Zenon DEF AreSums
<1>10. f[x] \in Int
  BY <1>4, <1>6
<1>11. g[s] \in Int
  BY <1>5, <1>8, <1>9, <1>10 DEF Added
<1> QED BY <1>4, <1>11

(* Any element may be taken out first. *)
LEMMA SumsCommute ==
  ASSUME NEW f, NEW S, IsFiniteSet(S), NEW g, AreSums(f, S, g),
         \A x \in S : f[x] \in Int
  PROVE  \A s \in SUBSET S : \A x \in s : g[s] = f[x] + g[s \ {x}]
<1> DEFINE Bad == {s \in SUBSET S : \E x \in s : g[s] # f[x] + g[s \ {x}]}
           Sizes == {Cardinality(s) : s \in Bad}
<1>1. SUFFICES ASSUME Bad # {} PROVE FALSE
  OBVIOUS
<1>2. Sizes \in SUBSET Nat /\ Sizes # {}
  BY <1>1, FS_Subset, FS_CardinalityType
<1>3. PICK n \in Sizes : \A m \in Sizes : n <= m
  <2> HIDE DEF Sizes
  <2> QED BY <1>2, LeastNat
<1>4. PICK s \in Bad : Cardinality(s) = n
  BY <1>3
<1>5. PICK x \in s : g[s] # f[x] + g[s \ {x}]
  BY <1>4
<1> DEFINE p == Pick(s)
<1>6. p \in s
  BY <1>5, PickElement
<1>7. g[s] = f[p] + g[s \ {p}]
  BY <1>4, <1>6, Zenon DEF AreSums, Added
<1>8. p # x
  BY <1>5, <1>7
<1>9. ASSUME NEW y \in s
      PROVE  s \ {y} \in SUBSET S /\ s \ {y} \notin Bad
  <2>1. Cardinality(s \ {y}) \in Nat /\ Cardinality(s \ {y}) < n
    BY <1>4, OneElementLess
  <2>2. s \in SUBSET S
    BY <1>4
  <2> HIDE DEF Bad
  <2> QED BY <1>2, <1>3, <2>1, <2>2
<1>10. g[s \ {p}] = f[x] + g[(s \ {p}) \ {x}]
  BY <1>6, <1>8, <1>9
<1>11. g[s \ {x}] = f[p] + g[(s \ {x}) \ {p}]
  BY <1>6, <1>8, <1>9
<1>12. (s \ {p}) \ {x} = (s \ {x}) \ {p}
  OBVIOUS
<1> DEFINE r == g[(s \ {x}) \ {p}]
<1>13. f[p] \in Int /\ f[x] \in Int /\ r \in Int
  BY <1>4, <1>6, SumsAreInt
<1>14. f[p] + (f[x] + r) = f[x] + (f[p] + r)
  <2> HIDE DEF r
  <2> QED BY <1>13
<1> QED BY <1>5, <1>7, <1>10, <1>11, <1>12, <1>14, Zenon

-----------------------------------------------------------------------------
(* The sum over no elements is 0. *)
LEMMA SumEmpty == ASSUME NEW f PROVE SumFunctionOnSet(f, {}) = 0
<1>1. PICK g : AreSums(f, {}, g) /\ SumFunctionOnSet(f, {}) = g[{}]
  BY SumUnfolds, FS_EmptySet
<1>2. g[{}] = Added(f, g, {})
  BY <1>1, Zenon DEF AreSums
<1> QED BY <1>1, <1>2 DEF Added

(* Functions that agree on a finite set have the same sum there. *)
LEMMA SumEqual ==
  ASSUME NEW f, NEW g, NEW S, IsFiniteSet(S), \A x \in S : f[x] = g[x]
  PROVE  SumFunctionOnSet(f, S) = SumFunctionOnSet(g, S)
<1>1. PICK a : AreSums(f, S, a) /\ SumFunctionOnSet(f, S) = a[S]
  BY SumUnfolds
<1>2. PICK b : AreSums(g, S, b) /\ SumFunctionOnSet(g, S) = b[S]
  BY SumUnfolds
<1> QED BY <1>1, <1>2, SumsAgree

LEMMA SumInt ==
  ASSUME NEW f, NEW S, IsFiniteSet(S), \A x \in S : f[x] \in Int
  PROVE  SumFunctionOnSet(f, S) \in Int
BY SumUnfolds, SumsAreInt

(* The value at any element can be taken out of the sum. *)
LEMMA SumRemove ==
  ASSUME NEW f, NEW S, IsFiniteSet(S), \A x \in S : f[x] \in Int, NEW x \in S
  PROVE  SumFunctionOnSet(f, S) = f[x] + SumFunctionOnSet(f, S \ {x})
<1>1. PICK a : AreSums(f, S, a) /\ SumFunctionOnSet(f, S) = a[S]
  BY SumUnfolds
<1>2. IsFiniteSet(S \ {x})
  BY FS_RemoveElement
<1>3. PICK b : /\ AreSums(f, S \ {x}, b)
               /\ SumFunctionOnSet(f, S \ {x}) = b[S \ {x}]
  BY <1>2, SumUnfolds
<1>4. a[S] = f[x] + a[S \ {x}]
  BY <1>1, SumsCommute
<1>5. a[S \ {x}] = b[S \ {x}]
  BY <1>1, <1>2, <1>3, SumsAgree
<1> QED BY <1>1, <1>3, <1>4, <1>5

(* The sum of nothing but zeros is 0. *)
LEMMA SumZero ==
  ASSUME NEW f, NEW S, IsFiniteSet(S), \A x \in S : f[x] = 0
  PROVE  SumFunctionOnSet(f, S) = 0
<1>1. PICK g : AreSums(f, S, g) /\ SumFunctionOnSet(f, S) = g[S]
  BY SumUnfolds
<1> DEFINE Bad == {s \in SUBSET S : g[s] # 0}
           Sizes == {Cardinality(s) : s \in Bad}
<1>2. SUFFICES ASSUME Bad # {} PROVE FALSE
  BY <1>1
<1>3. Sizes \in SUBSET Nat /\ Sizes # {}
  BY <1>2, FS_Subset, FS_CardinalityType
<1>4. PICK n \in Sizes : \A m \in Sizes : n <= m
  <2> HIDE DEF Sizes
  <2> QED BY <1>3, LeastNat
<1>5. PICK s \in Bad : Cardinality(s) = n
  BY <1>4
<1>6. s # {}
  BY <1>1, <1>5 DEF AreSums, Added
<1> DEFINE x == Pick(s)
<1>7. x \in s
  BY <1>6, PickElement
<1>8. Cardinality(s \ {x}) \in Nat /\ Cardinality(s \ {x}) < n
  BY <1>5, <1>7, OneElementLess
<1>9. g[s \ {x}] = 0
  BY <1>3, <1>4, <1>5, <1>8
<1>10. g[s] = Added(f, g, s) /\ f[x] = 0
  BY <1>1, <1>5, <1>7, Zenon DEF AreSums
<1>11. g[s] = 0
  BY <1>6, <1>9, <1>10 DEF Added
<1> QED BY <1>5, <1>11

(* The same, for a set that is given without the element. *)
COROLLARY SumSplit ==
  ASSUME NEW f, NEW S, IsFiniteSet(S), \A y \in S : f[y] \in Int,
         NEW x \in S, NEW T, T = S \ {x}
  PROVE  SumFunctionOnSet(f, S) = f[x] + SumFunctionOnSet(f, T)
BY SumRemove

(* What one value changes by, the sum changes by. *)
LEMMA SumChange ==
  ASSUME NEW f, NEW g, NEW S, IsFiniteSet(S), NEW x \in S,
         \A y \in S : f[y] \in Int /\ g[y] \in Int,
         \A y \in S \ {x} : g[y] = f[y]
  PROVE  SumFunctionOnSet(g, S) = SumFunctionOnSet(f, S) + g[x] - f[x]
<1>1. IsFiniteSet(S \ {x})
  BY FS_RemoveElement
<1>2. SumFunctionOnSet(f, S \ {x}) = SumFunctionOnSet(g, S \ {x})
  BY <1>1, SumEqual
<1>3. SumFunctionOnSet(f, S) = f[x] + SumFunctionOnSet(f, S \ {x})
  BY SumRemove
<1>4. SumFunctionOnSet(g, S) = g[x] + SumFunctionOnSet(g, S \ {x})
  BY SumRemove
<1>5. SumFunctionOnSet(f, S \ {x}) \in Int
  BY <1>1, SumInt
<1> QED BY <1>2, <1>3, <1>4, <1>5

LEMMA SumsAreNat ==
  ASSUME NEW f, NEW S, IsFiniteSet(S), NEW g, AreSums(f, S, g),
         \A x \in S : f[x] \in Nat
  PROVE  \A s \in SUBSET S : g[s] \in Nat
<1> DEFINE Bad == {s \in SUBSET S : g[s] \notin Nat}
           Sizes == {Cardinality(s) : s \in Bad}
<1>1. SUFFICES ASSUME Bad # {} PROVE FALSE
  OBVIOUS
<1>2. Sizes \in SUBSET Nat /\ Sizes # {}
  BY <1>1, FS_Subset, FS_CardinalityType
<1>3. PICK n \in Sizes : \A m \in Sizes : n <= m
  <2> HIDE DEF Sizes
  <2> QED BY <1>2, LeastNat
<1>4. PICK s \in Bad : Cardinality(s) = n
  BY <1>3
<1>5. s # {}
  BY <1>4 DEF AreSums, Added
<1> DEFINE x == Pick(s)
<1>6. x \in s
  BY <1>5, PickElement
<1>7. Cardinality(s \ {x}) \in Nat /\ Cardinality(s \ {x}) < n
  BY <1>4, <1>6, OneElementLess
<1>8. g[s \ {x}] \in Nat
  BY <1>2, <1>3, <1>4, <1>7
<1>9. g[s] = Added(f, g, s)
  BY <1>4, Zenon DEF AreSums
<1>10. f[x] \in Nat
  BY <1>4, <1>6
<1>11. g[s] \in Nat
  BY <1>5, <1>8, <1>9, <1>10 DEF Added
<1> QED BY <1>4, <1>11

LEMMA SumNat ==
  ASSUME NEW f, NEW S, IsFiniteSet(S), \A x \in S : f[x] \in Nat
  PROVE  SumFunctionOnSet(f, S) \in Nat
BY SumUnfolds, SumsAreNat

(* A sum of naturals is at least each of them, and any two of them. *)
LEMMA SumAtLeast ==
  ASSUME NEW f, NEW S, IsFiniteSet(S), \A x \in S : f[x] \in Nat, NEW x \in S
  PROVE  /\ f[x] <= SumFunctionOnSet(f, S)
         /\ \A y \in S \ {x} : f[x] + f[y] <= SumFunctionOnSet(f, S)
<1>1. IsFiniteSet(S \ {x})
  BY FS_RemoveElement
<1>2. SumFunctionOnSet(f, S) = f[x] + SumFunctionOnSet(f, S \ {x})
  BY SumRemove
<1>3. SumFunctionOnSet(f, S \ {x}) \in Nat
  BY <1>1, SumNat
<1>4. ASSUME NEW y \in S \ {x}
      PROVE  f[y] <= SumFunctionOnSet(f, S \ {x})
  <2>1. IsFiniteSet((S \ {x}) \ {y})
    BY <1>1, FS_RemoveElement
  <2>2. SumFunctionOnSet(f, S \ {x})
          = f[y] + SumFunctionOnSet(f, (S \ {x}) \ {y})
    BY <1>1, SumRemove
  <2>3. SumFunctionOnSet(f, (S \ {x}) \ {y}) \in Nat
    BY <2>1, SumNat
  <2> QED BY <2>2, <2>3
<1>5. f[x] <= SumFunctionOnSet(f, S)
  BY <1>2, <1>3
<1>6. ASSUME NEW y \in S \ {x}
      PROVE  f[x] + f[y] <= SumFunctionOnSet(f, S)
  BY <1>2, <1>3, <1>4
<1> QED BY <1>5, <1>6

-----------------------------------------------------------------------------
(* Sums over sequences. *)

(* Moving all terms by one place keeps their sum. *)
LEMMA SumShift ==
  ASSUME NEW n \in Nat, NEW f, NEW g,
         \A i \in 1 .. n : f[i] \in Int /\ g[i + 1] = f[i]
  PROVE  SumFunctionOnSet(g, 2 .. n + 1) = SumFunctionOnSet(f, 1 .. n)
<1> DEFINE Bad == {k \in 0 .. n : SumFunctionOnSet(g, 2 .. k + 1)
                                    # SumFunctionOnSet(f, 1 .. k)}
<1>1. SUFFICES ASSUME Bad # {} PROVE FALSE
  OBVIOUS
<1>2. PICK k \in Bad : \A m \in Bad : k <= m
  <2>1. Bad \in SUBSET Nat
    OBVIOUS
  <2> HIDE DEF Bad
  <2> QED BY <1>1, <2>1, LeastNat
<1>3. CASE k = 0
  <2>1. 2 .. k + 1 = {} /\ 1 .. k = {}
    BY <1>3
  <2> QED BY <1>2, <2>1, SumEmpty
<1>4. CASE k # 0
  <2>1. k - 1 \in 0 .. n /\ k - 1 \notin Bad /\ k \in 1 .. n
    BY <1>2, <1>4
  <2>2. SumFunctionOnSet(g, 2 .. k) = SumFunctionOnSet(f, 1 .. k - 1)
    BY <2>1
  <2>3. /\ (2 .. k + 1) \ {k + 1} = 2 .. k
        /\ (1 .. k) \ {k} = 1 .. k - 1
    BY <2>1
  <2>4. IsFiniteSet(2 .. k + 1) /\ IsFiniteSet(1 .. k)
    BY <2>1, FS_Interval
  <2>5. /\ \A i \in 1 .. k : f[i] \in Int
        /\ k \in 1 .. k /\ k + 1 \in 2 .. k + 1
        /\ g[k + 1] = f[k]
    BY <2>1
  <2>6. \A i \in 2 .. k + 1 : g[i] \in Int
    <3> SUFFICES ASSUME NEW i \in 2 .. k + 1 PROVE g[i] \in Int
      OBVIOUS
    <3>1. i - 1 \in 1 .. n /\ (i - 1) + 1 = i
      BY <2>1
    <3> QED BY <3>1
  <2>7. SumFunctionOnSet(g, 2 .. k + 1) = g[k + 1] + SumFunctionOnSet(g, 2 .. k)
    <3> DEFINE S == 2 .. k + 1
               T == 2 .. k
               x == k + 1
    <3>1. /\ IsFiniteSet(S) /\ x \in S /\ T = S \ {x}
          /\ \A y \in S : g[y] \in Int
      BY <2>3, <2>4, <2>5, <2>6
    <3> HIDE DEF S, T, x, Bad
    <3>2. SumFunctionOnSet(g, S) = g[x] + SumFunctionOnSet(g, T)
      BY <3>1, SumSplit
    <3> QED BY <3>2 DEF S, T, x
  <2>8. SumFunctionOnSet(f, 1 .. k) = f[k] + SumFunctionOnSet(f, 1 .. k - 1)
    <3> DEFINE S == 1 .. k
               T == 1 .. k - 1
    <3>1. /\ IsFiniteSet(S) /\ k \in S /\ T = S \ {k}
          /\ \A y \in S : f[y] \in Int
      BY <2>3, <2>4, <2>5
    <3> HIDE DEF S, T, Bad
    <3>2. SumFunctionOnSet(f, S) = f[k] + SumFunctionOnSet(f, T)
      BY <3>1, SumSplit
    <3> QED BY <3>2 DEF S, T
  <2> QED BY <1>2, <2>2, <2>5, <2>7, <2>8
<1> QED BY <1>3, <1>4

(* The sum of a sequence of integers: empty, one item more, one item less. *)
LEMMA SumOfEmpty == SumFunction(<<>>) = 0
<1>1. DOMAIN <<>> = {}
  BY EmptySeq, LenProperties
<1> QED BY <1>1, SumEmpty DEF SumFunction

LEMMA SumOfSeqInt ==
  ASSUME NEW s \in Seq(Int) PROVE SumFunction(s) \in Int
<1>1. DOMAIN s = 1 .. Len(s) /\ Len(s) \in Nat /\ \A i \in 1 .. Len(s) : s[i] \in Int
  BY LenProperties, ElementOfSeq
<1>2. IsFiniteSet(DOMAIN s)
  BY <1>1, FS_Interval
<1> QED BY <1>1, <1>2, SumInt DEF SumFunction

LEMMA SumOfAppend ==
  ASSUME NEW s \in Seq(Int), NEW e \in Int
  PROVE  SumFunction(Append(s, e)) = SumFunction(s) + e
<1> DEFINE t == Append(s, e)
           n == Len(s)
<1>1. /\ n \in Nat /\ DOMAIN s = 1 .. n /\ DOMAIN t = 1 .. n + 1
      /\ \A i \in 1 .. n : s[i] = t[i] /\ s[i] \in Int
      /\ t[n + 1] = e
      /\ t \in Seq(Int)
  BY AppendProperties, LenProperties, ElementOfSeq
<1> HIDE DEF t, n
<1>2. /\ \A i \in 1 .. n + 1 : t[i] \in Int
      /\ n + 1 \in 1 .. n + 1 /\ (1 .. n + 1) \ {n + 1} = 1 .. n
  BY <1>1
<1>3. IsFiniteSet(1 .. n + 1) /\ IsFiniteSet(1 .. n)
  BY <1>1, FS_Interval
<1>4. SumFunctionOnSet(t, 1 .. n + 1) = t[n + 1] + SumFunctionOnSet(t, 1 .. n)
  <2> DEFINE S == 1 .. n + 1
             T == 1 .. n
             x == n + 1
  <2>1. /\ IsFiniteSet(S) /\ x \in S /\ T = S \ {x}
        /\ \A y \in S : t[y] \in Int
    BY <1>2, <1>3
  <2> HIDE DEF S, T, x
  <2>2. SumFunctionOnSet(t, S) = t[x] + SumFunctionOnSet(t, T)
    BY <2>1, SumSplit
  <2> QED BY <2>2 DEF S, T, x
<1>5. SumFunctionOnSet(t, 1 .. n) = SumFunctionOnSet(s, 1 .. n)
  BY <1>1, <1>3, SumEqual
<1>6. SumFunctionOnSet(s, 1 .. n) \in Int
  BY <1>1, <1>3, SumInt
<1>7. SumFunction(t) = SumFunction(s) + e
  BY <1>1, <1>4, <1>5, <1>6 DEF SumFunction
<1> QED BY <1>7 DEF t

LEMMA SumOfTail ==
  ASSUME NEW s \in Seq(Int), s # <<>>
  PROVE  SumFunction(Tail(s)) = SumFunction(s) - Head(s)
<1> DEFINE t == Tail(s)
           n == Len(t)
<1>1. /\ n \in Nat /\ DOMAIN t = 1 .. n /\ DOMAIN s = 1 .. n + 1
      /\ \A i \in 1 .. n : s[i + 1] = t[i] /\ t[i] \in Int
      /\ \A i \in 1 .. n + 1 : s[i] \in Int
      /\ Head(s) = s[1]
  BY HeadTailProperties, LenProperties, ElementOfSeq
<1> HIDE DEF t, n
<1>0. 1 \in 1 .. n + 1 /\ (1 .. n + 1) \ {1} = 2 .. n + 1
  BY <1>1
<1>2. IsFiniteSet(1 .. n + 1) /\ IsFiniteSet(1 .. n)
  BY <1>1, FS_Interval
<1>3. SumFunctionOnSet(s, 1 .. n + 1) = s[1] + SumFunctionOnSet(s, 2 .. n + 1)
  <2> DEFINE S == 1 .. n + 1
             T == 2 .. n + 1
  <2>1. /\ IsFiniteSet(S) /\ 1 \in S /\ T = S \ {1}
        /\ \A y \in S : s[y] \in Int
    BY <1>0, <1>1, <1>2
  <2> HIDE DEF S, T
  <2>2. SumFunctionOnSet(s, S) = s[1] + SumFunctionOnSet(s, T)
    BY <2>1, SumSplit
  <2> QED BY <2>2 DEF S, T
<1>4. SumFunctionOnSet(s, 2 .. n + 1) = SumFunctionOnSet(t, 1 .. n)
  BY <1>1, SumShift
<1>5. SumFunctionOnSet(t, 1 .. n) \in Int /\ s[1] \in Int
  BY <1>1, <1>2, SumInt
<1>6. SumFunction(t) = SumFunction(s) - Head(s)
  BY <1>1, <1>3, <1>4, <1>5 DEF SumFunction
<1> QED BY <1>6 DEF t

(* The sum of a function that is zero everywhere but at x. *)
LEMMA SumSingle ==
  ASSUME NEW f, NEW S, IsFiniteSet(S), NEW x \in S, f[x] \in Int,
         \A y \in S \ {x} : f[y] = 0
  PROVE  SumFunctionOnSet(f, S) = f[x]
<1>1. \A y \in S : f[y] \in Int
  OBVIOUS
<1>2. SumFunctionOnSet(f, S) = f[x] + SumFunctionOnSet(f, S \ {x})
  BY <1>1, SumRemove
<1>3. IsFiniteSet(S \ {x})
  BY FS_Subset
<1>4. SumFunctionOnSet(f, S \ {x}) = 0
  BY <1>3, SumZero
<1> QED BY <1>2, <1>4
=============================================================================
