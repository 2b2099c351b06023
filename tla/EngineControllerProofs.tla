------------------------ MODULE EngineControllerProofs ------------------------
(***************************************************************************)
(* Proofs about EngineController for any number of nodes, moves, networks  *)
(* and commands.  First the forest of NodeTree: what is reachable when     *)
(* edges are cut and nodes are added.  Then the engine: a search keeps the *)
(* position, the network and the tablebases it was started with, and its   *)
(* bestmove is for the position the host set.  Last, the moves that lead   *)
(* to each node: the visits a search finds are of the positions below it.  *)
(***************************************************************************)
EXTENDS EngineController, SumTheorems

KidsOK(m) == \A y \in Addresses : Kids(m, y) \in SUBSET Addresses

-----------------------------------------------------------------------------
(* Reachability. *)

LEMMA SubtreesClosed ==
  ASSUME NEW m, KidsOK(m), NEW S \in SUBSET Addresses
  PROVE  /\ Subtrees(m, S) \in SUBSET Addresses /\ S \subseteq Subtrees(m, S)
         /\ \A y \in Subtrees(m, S) : Kids(m, y) \subseteq Subtrees(m, S)
BY DEF Subtrees, KidsOK

LEMMA SubtreesLeast ==
  ASSUME NEW m, NEW S \in SUBSET Addresses, NEW C \in SUBSET Addresses,
         S \subseteq C, \A y \in C : Kids(m, y) \subseteq C
  PROVE  Subtrees(m, S) \subseteq C
<1>1. C \in {S \cup D : D \in SUBSET (Addresses \ S)}
  <2>1. C = S \cup (C \ S) /\ C \ S \in SUBSET (Addresses \ S)
    OBVIOUS
  <2> QED BY <2>1
<1> QED BY <1>1 DEF Subtrees

LEMMA SubtreesWithin ==
  ASSUME NEW m, KidsOK(m), NEW T \in SUBSET Addresses,
         NEW S \in SUBSET Subtrees(m, T)
  PROVE  Subtrees(m, S) \subseteq Subtrees(m, T)
<1>1. /\ Subtrees(m, T) \in SUBSET Addresses
      /\ \A y \in Subtrees(m, T) : Kids(m, y) \subseteq Subtrees(m, T)
  BY SubtreesClosed
<1>2. S \in SUBSET Addresses
  BY <1>1
<1> QED BY <1>1, <1>2, SubtreesLeast

LEMMA SubtreesSame ==
  ASSUME NEW m, KidsOK(m), NEW m2, KidsOK(m2), NEW S \in SUBSET Addresses,
         \A y \in Subtrees(m, S) : Kids(m2, y) = Kids(m, y)
  PROVE  Subtrees(m2, S) = Subtrees(m, S)
<1>1. /\ Subtrees(m, S) \in SUBSET Addresses /\ S \subseteq Subtrees(m, S)
      /\ \A y \in Subtrees(m, S) : Kids(m2, y) \subseteq Subtrees(m, S)
  BY SubtreesClosed
<1>2. Subtrees(m2, S) \subseteq Subtrees(m, S)
  BY <1>1, SubtreesLeast
<1>3. /\ Subtrees(m2, S) \in SUBSET Addresses /\ S \subseteq Subtrees(m2, S)
      /\ \A y \in Subtrees(m2, S) : Kids(m2, y) \subseteq Subtrees(m2, S)
  BY SubtreesClosed
<1>4. \A y \in Subtrees(m2, S) : Kids(m, y) \subseteq Subtrees(m2, S)
  BY <1>2, <1>3
<1>5. Subtrees(m, S) \subseteq Subtrees(m2, S)
  BY <1>3, <1>4, SubtreesLeast
<1> QED BY <1>2, <1>5

(* Whatever is reached, but not at the start, is a child of something. *)
LEMMA HasParent ==
  ASSUME NEW m, KidsOK(m), NEW S \in SUBSET Addresses,
         NEW z \in Subtrees(m, S), z \notin S
  PROVE  \E u \in Subtrees(m, S) : z \in Kids(m, u)
<1> DEFINE C == Subtrees(m, S) \ {z}
<1>1. SUFFICES ASSUME \A u \in Subtrees(m, S) : z \notin Kids(m, u) PROVE FALSE
  OBVIOUS
<1>2. C \in SUBSET Addresses /\ S \subseteq C /\ \A y \in C : Kids(m, y) \subseteq C
  BY <1>1, SubtreesClosed
<1> HIDE DEF C
<1>3. Subtrees(m, S) \subseteq C
  BY <1>2, SubtreesLeast
<1> QED BY <1>3 DEF C

-----------------------------------------------------------------------------
(* A forest: below r no node has two parents, and r has none. *)

Forest(m, r) ==
  /\ r \in Addresses
  /\ \A y, z \in Subtrees(m, {r}) :
       \A k \in Kids(m, y) : k \in Kids(m, z) => y = z
  /\ \A y \in Subtrees(m, {r}) : r \notin Kids(m, y)

(* The parents of what is below K are below K, but for K itself. *)
LEMMA ParentBelow ==
  ASSUME NEW m, KidsOK(m), NEW r, Forest(m, r),
         NEW K \in SUBSET Subtrees(m, {r}),
         NEW u \in Subtrees(m, {r}), NEW z \in Kids(m, u),
         z \in Subtrees(m, K), z \notin K
  PROVE  u \in Subtrees(m, K)
<1>1. /\ Subtrees(m, {r}) \in SUBSET Addresses /\ K \in SUBSET Addresses
      /\ {r} \in SUBSET Addresses
  BY SubtreesClosed DEF Forest
<1>2. PICK v \in Subtrees(m, K) : z \in Kids(m, v)
  BY <1>1, HasParent
<1>3. v \in Subtrees(m, {r})
  BY <1>1, SubtreesWithin
<1> QED BY <1>2, <1>3 DEF Forest

(* Nothing below the children of p is p or the root. *)
LEMMA Acyclic ==
  ASSUME NEW m, KidsOK(m), NEW r, Forest(m, r),
         NEW p \in Subtrees(m, {r}), NEW K \in SUBSET Kids(m, p)
  PROVE  r \notin Subtrees(m, K) /\ p \notin Subtrees(m, K)
<1> DEFINE T == Subtrees(m, {r})
           D == Subtrees(m, K)
<1>0. r \in Addresses /\ {r} \in SUBSET Addresses
  BY DEF Forest
<1>1. /\ T \in SUBSET Addresses /\ r \in T /\ K \in SUBSET T
      /\ \A y \in T : Kids(m, y) \subseteq T
      /\ {r} \in SUBSET Addresses /\ K \in SUBSET Addresses
  <2>1. /\ T \in SUBSET Addresses /\ {r} \subseteq T
        /\ \A y \in T : Kids(m, y) \subseteq T
    BY <1>0, SubtreesClosed
  <2>2. Kids(m, p) \subseteq T
    BY <2>1
  <2> HIDE DEF T
  <2> QED BY <1>0, <2>1, <2>2
<1>2. D \in SUBSET T /\ K \subseteq D /\ \A y \in D : Kids(m, y) \subseteq D
  BY <1>1, SubtreesClosed, SubtreesWithin
<1>3. \A u \in T : \A z \in Kids(m, u) : z \in D /\ z \notin K => u \in D
  BY <1>1, ParentBelow
<1>4. r \notin D
  <2>1. ASSUME r \in D PROVE FALSE
    <3>1. r \notin K
      BY DEF Forest
    <3>2. PICK u \in D : r \in Kids(m, u)
      BY <1>1, <2>1, <3>1, HasParent
    <3> QED BY <1>2, <3>2 DEF Forest
  <2> QED BY <2>1
<1>5. ASSUME p \in D PROVE FALSE
  <2> DEFINE C == T \ D
  <2>1. \A u \in C : \A z \in Kids(m, u) : z \notin K
    BY <1>5 DEF Forest
  <2>2. /\ C \in SUBSET Addresses /\ {r} \subseteq C
        /\ \A u \in C : Kids(m, u) \subseteq C
    BY <1>1, <1>3, <1>4, <2>1
  <2> HIDE DEF C
  <2>3. T \subseteq C
    BY <1>1, <2>2, SubtreesLeast
  <2> QED BY <1>5, <2>3 DEF C
<1> QED BY <1>4, <1>5

(* In the tree T the children K of p are cut off, and new nodes without    *)
(* children are put below it; the other nodes keep their children.         *)
Rewire(m, m2, T, p, K, N) ==
  /\ p \in T /\ K \in SUBSET Kids(m, p)
  /\ N \in SUBSET Addresses /\ N \cap T = {}
  /\ Kids(m2, p) = (Kids(m, p) \ K) \cup N
  /\ \A y \in T \ {p} : Kids(m2, y) = Kids(m, y)
  /\ \A y \in N : Kids(m2, y) = {}

LEMMA Rewired ==
  ASSUME NEW m, KidsOK(m), NEW m2, KidsOK(m2), NEW r, Forest(m, r),
         NEW p, NEW K, NEW N, Rewire(m, m2, Subtrees(m, {r}), p, K, N)
  PROVE  /\ Subtrees(m2, {r}) = (Subtrees(m, {r}) \ Subtrees(m, K)) \cup N
         /\ p \in Subtrees(m2, {r})
         /\ Forest(m2, r)
<1> USE DEF Rewire
<1> DEFINE T == Subtrees(m, {r})
           D == Subtrees(m, K)
           T2 == Subtrees(m2, {r})
<1>0. r \in Addresses /\ {r} \in SUBSET Addresses
  BY DEF Forest
<1>1. /\ T \in SUBSET Addresses /\ r \in T /\ K \in SUBSET T
      /\ \A y \in T : Kids(m, y) \subseteq T
      /\ {r} \in SUBSET Addresses /\ K \in SUBSET Addresses
  <2>1. /\ T \in SUBSET Addresses /\ {r} \subseteq T
        /\ \A y \in T : Kids(m, y) \subseteq T
    BY <1>0, SubtreesClosed
  <2>2. Kids(m, p) \subseteq T
    BY <2>1
  <2> HIDE DEF T
  <2> QED BY <1>0, <2>1, <2>2
<1>2. /\ D \in SUBSET T /\ K \subseteq D /\ \A y \in D : Kids(m, y) \subseteq D
      /\ p \notin D /\ r \notin D
  BY <1>1, SubtreesClosed, SubtreesWithin, Acyclic
<1>3. \A u \in T : \A z \in Kids(m, u) : z \in D /\ z \notin K => u \in D
  BY <1>1, ParentBelow
<1>4. /\ T2 \in SUBSET Addresses /\ r \in T2
      /\ \A y \in T2 : Kids(m2, y) \subseteq T2
  BY <1>1, SubtreesClosed
<1>5. T2 \subseteq (T \ D) \cup N
  <2> DEFINE C == (T \ D) \cup N
  <2>1. C \in SUBSET Addresses /\ {r} \subseteq C
    BY <1>1, <1>2
  <2>2. ASSUME NEW u \in T \ D, NEW z \in Kids(m2, u) PROVE z \in C
    <3>1. CASE u = p
      <4>1. z \in N \/ z \in Kids(m, p) \ K
        BY <2>2, <3>1
      <4> QED BY <1>1, <1>2, <1>3, <4>1
    <3>2. CASE u # p
      <4>1. z \in Kids(m, u) /\ z \in T
        BY <1>1, <2>2, <3>2
      <4>2. z \notin K
        BY <3>2, <4>1 DEF Forest
      <4> QED BY <1>3, <2>2, <4>1, <4>2
    <3> QED BY <3>1, <3>2
  <2>3. \A u \in C : Kids(m2, u) \subseteq C
    BY <2>2
  <2> HIDE DEF C
  <2>4. T2 \subseteq C
    BY <1>1, <2>1, <2>3, SubtreesLeast
  <2> QED BY <2>4 DEF C
<1>6. T \ D \subseteq T2
  <2> DEFINE C == (T2 \ N) \cup D
  <2>0. r \notin N
    BY <1>1
  <2>1. C \in SUBSET Addresses /\ {r} \subseteq C
    BY <1>1, <1>2, <1>4, <2>0
  <2>2. ASSUME NEW u \in T2 \ N, NEW z \in Kids(m, u) PROVE z \in C
    <3>1. u \in T \ D /\ z \in T /\ z \notin N
      BY <1>1, <1>5, <2>2
    <3>2. CASE u = p
      <4>1. z \in K \/ z \in Kids(m2, p)
        BY <2>2, <3>2
      <4> QED BY <1>2, <1>4, <2>2, <3>1, <3>2, <4>1
    <3>3. CASE u # p
      BY <1>4, <2>2, <3>1, <3>3
    <3> QED BY <3>2, <3>3
  <2>3. \A u \in C : Kids(m, u) \subseteq C
    BY <1>2, <2>2
  <2> HIDE DEF C
  <2>4. T \subseteq C
    BY <1>1, <2>1, <2>3, SubtreesLeast
  <2> QED BY <2>4 DEF C
<1>7. p \in T2 /\ N \subseteq T2
  BY <1>2, <1>4, <1>6
<1>8. ASSUME NEW y \in T2, NEW k \in Kids(m2, y)
      PROVE  /\ y \in T
             /\ k \in T => k \in Kids(m, y)
             /\ k \in N => y = p
             /\ k \in T \/ k \in N
  BY <1>1, <1>5, <1>8
<1>9. Forest(m2, r)
  <2>1. ASSUME NEW y \in T2, NEW z \in T2, NEW k \in Kids(m2, y), k \in Kids(m2, z)
        PROVE  y = z
    BY <1>8, <2>1 DEF Forest
  <2>2. ASSUME NEW y \in T2, r \in Kids(m2, y) PROVE FALSE
    BY <1>1, <1>8, <2>2 DEF Forest
  <2> QED BY <1>1, <2>1, <2>2 DEF Forest
<1> QED BY <1>5, <1>6, <1>7, <1>9

(* What is below a set of nodes is below one of them. *)
LEMMA BelowOne ==
  ASSUME NEW m, KidsOK(m), NEW S \in SUBSET Addresses, NEW z \in Subtrees(m, S)
  PROVE  \E k \in S : z \in Subtrees(m, {k})
<1> DEFINE C == {y \in Addresses : \E k \in S : y \in Subtrees(m, {k})}
<1>1. \A k \in S : /\ Subtrees(m, {k}) \in SUBSET Addresses /\ k \in Subtrees(m, {k})
                   /\ \A y \in Subtrees(m, {k}) : Kids(m, y) \subseteq Subtrees(m, {k})
  <2> SUFFICES ASSUME NEW k \in S
               PROVE  /\ Subtrees(m, {k}) \in SUBSET Addresses /\ k \in Subtrees(m, {k})
                      /\ \A y \in Subtrees(m, {k}) : Kids(m, y) \subseteq Subtrees(m, {k})
    OBVIOUS
  <2>1. {k} \in SUBSET Addresses
    OBVIOUS
  <2>2. {k} \subseteq Subtrees(m, {k})
    BY <2>1, SubtreesClosed
  <2> QED BY <2>1, <2>2, SubtreesClosed
<1>2. C \in SUBSET Addresses /\ S \subseteq C
  BY <1>1
<1>3. ASSUME NEW y \in C PROVE Kids(m, y) \subseteq C
  <2>1. PICK k \in S : y \in Subtrees(m, {k})
    BY <1>3
  <2> QED BY <1>1, <2>1
<1> HIDE DEF C
<1>4. Subtrees(m, S) \subseteq C
  BY <1>2, <1>3, SubtreesLeast
<1> QED BY <1>4 DEF C

(* A node and what is below its children. *)
LEMMA Below ==
  ASSUME NEW m, KidsOK(m), NEW y \in Addresses
  PROVE  /\ Subtrees(m, {y}) \in SUBSET Addresses /\ y \in Subtrees(m, {y})
         /\ \A z \in Subtrees(m, {y}) : Subtrees(m, {z}) \subseteq Subtrees(m, {y})
         /\ \A z \in Subtrees(m, {y}) : Kids(m, z) \subseteq Subtrees(m, {y})
         /\ \A z \in Subtrees(m, {y}) :
              z = y \/ \E k \in Kids(m, y) : z \in Subtrees(m, {k})
<1> DEFINE T == Subtrees(m, {y})
           K == Kids(m, y)
           C == {y} \cup Subtrees(m, K)
<1>1. {y} \in SUBSET Addresses /\ K \in SUBSET Addresses
  BY DEF KidsOK
<1>2. /\ T \in SUBSET Addresses /\ {y} \subseteq T
      /\ \A z \in T : Kids(m, z) \subseteq T
  BY <1>1, SubtreesClosed
<1>3. ASSUME NEW z \in T PROVE Subtrees(m, {z}) \subseteq T
  <2>1. {z} \in SUBSET Subtrees(m, {y})
    BY <1>3
  <2> QED BY <1>1, <2>1, SubtreesWithin
<1>4. /\ C \in SUBSET Addresses /\ {y} \subseteq C
      /\ \A z \in C : Kids(m, z) \subseteq C
  <2>1. /\ Subtrees(m, K) \in SUBSET Addresses /\ K \subseteq Subtrees(m, K)
        /\ \A z \in Subtrees(m, K) : Kids(m, z) \subseteq Subtrees(m, K)
    BY <1>1, SubtreesClosed
  <2> HIDE DEF T
  <2> QED BY <1>1, <2>1
<1> HIDE DEF C
<1>5. T \subseteq C
  BY <1>1, <1>4, SubtreesLeast
<1>6. ASSUME NEW z \in T, z # y PROVE \E k \in K : z \in Subtrees(m, {k})
  <2>1. z \in Subtrees(m, K)
    BY <1>5, <1>6 DEF C
  <2> HIDE DEF K
  <2> QED BY <1>1, <2>1, BelowOne
<1> QED BY <1>2, <1>3, <1>6

(* Every node of a forest is the root of one. *)
LEMMA ForestBelow ==
  ASSUME NEW m, KidsOK(m), NEW r, Forest(m, r), NEW h \in Subtrees(m, {r})
  PROVE  /\ Forest(m, h) /\ h \in Addresses
         /\ Subtrees(m, {h}) \subseteq Subtrees(m, {r})
<1>1. r \in Addresses
  BY DEF Forest
<1>2. /\ h \in Addresses /\ Subtrees(m, {h}) \subseteq Subtrees(m, {r})
  BY <1>1, Below
<1>3. ASSUME NEW y \in Subtrees(m, {h}), h \in Kids(m, y) PROVE FALSE
  <2>1. y = h \/ \E k \in Kids(m, h) : y \in Subtrees(m, {k})
    <3>1. \A w \in Subtrees(m, {h}) :
            w = h \/ \E k \in Kids(m, h) : w \in Subtrees(m, {k})
      BY <1>2, Below
    <3> QED BY <3>1
  <2>2. h \notin Subtrees(m, Kids(m, h))
    BY Acyclic
  <2>3. Kids(m, h) \in SUBSET Addresses
    BY <1>2 DEF KidsOK
  <2>4. /\ Kids(m, h) \subseteq Subtrees(m, Kids(m, h))
        /\ \A z \in Subtrees(m, Kids(m, h)) :
             Kids(m, z) \subseteq Subtrees(m, Kids(m, h))
    BY <2>3, SubtreesClosed
  <2>5. CASE y = h
    BY <1>3, <2>2, <2>4, <2>5
  <2>6. CASE \E k \in Kids(m, h) : y \in Subtrees(m, {k})
    <3>1. PICK k \in Kids(m, h) : y \in Subtrees(m, {k})
      BY <2>6
    <3>2. {k} \in SUBSET Subtrees(m, Kids(m, h))
      BY <2>4, <3>1
    <3>3. y \in Subtrees(m, Kids(m, h))
      BY <2>3, <3>1, <3>2, SubtreesWithin
    <3> QED BY <1>3, <2>2, <2>4, <3>3
  <2> QED BY <2>1, <2>5, <2>6
<1> QED BY <1>2, <1>3 DEF Forest

(* There is one way down to a node. *)
LEMMA OneWayDown ==
  ASSUME NEW m, KidsOK(m), NEW r, Forest(m, r), NEW y \in Subtrees(m, {r}),
         NEW k \in Kids(m, y), NEW l \in Kids(m, y),
         NEW z \in Subtrees(m, {k}), z \in Subtrees(m, {l})
  PROVE  k = l
<1> DEFINE A == Subtrees(m, {k})
           B == Subtrees(m, {l})
           C == A \ B
<1>1. SUFFICES ASSUME k # l PROVE FALSE
  OBVIOUS
<1>2. r \in Addresses
  BY DEF Forest
<1>3. y \in Addresses /\ Kids(m, y) \subseteq Subtrees(m, {r})
  BY <1>2, Below
<1>4. k \in Addresses /\ l \in Addresses
  BY <1>3 DEF KidsOK
<1>5. /\ A \in SUBSET Addresses /\ k \in A
      /\ \A w \in A : Kids(m, w) \subseteq A
  BY <1>4, Below
<1>6. A \subseteq Subtrees(m, {r})
  BY <1>2, <1>3, Below
<1>7. y \notin A /\ y \notin B
  <2>1. {k} \in SUBSET Kids(m, y) /\ {l} \in SUBSET Kids(m, y)
    OBVIOUS
  <2> QED BY <2>1, Acyclic
<1>8. \A u \in Subtrees(m, {r}) : \A w \in Kids(m, u) : w \in B /\ w # l => u \in B
  <2>1. {l} \in SUBSET Subtrees(m, {r})
    BY <1>3
  <2> QED BY <2>1, ParentBelow
<1>9. k \notin B
  BY <1>1, <1>7, <1>8
<1>10. ASSUME NEW u \in C, NEW w \in Kids(m, u) PROVE w \in C
  <2>1. w \in A /\ u \in Subtrees(m, {r}) /\ u # y
    BY <1>5, <1>6, <1>7, <1>10
  <2>2. w # l
    BY <2>1, <1>10 DEF Forest
  <2> QED BY <1>8, <1>10, <2>1, <2>2
<1>11. C \in SUBSET Addresses /\ {k} \subseteq C /\ {k} \in SUBSET Addresses
  BY <1>4, <1>5, <1>9
<1> HIDE DEF C
<1>12. A \subseteq C
  BY <1>10, <1>11, SubtreesLeast
<1> QED BY <1>12 DEF C

-----------------------------------------------------------------------------
(* Nodes and their visits. *)

Node(of) ==
  [edges : SUBSET Moves, kids : UNION {[D -> Addresses] : D \in SUBSET Moves},
   n : Nat, terminal : BOOLEAN, of : {of}]

Memory(m) ==
  /\ m = [y \in Addresses |-> m[y]]
  /\ \A y \in Addresses : /\ m[y] \in Node(m[y].of)
                          /\ DOMAIN m[y].kids \subseteq m[y].edges

CountOK(m, x) ==
  IF m[x].terminal THEN m[x].n >= 1 + ChildVisits(m, x)
  ELSE m[x].n = IF m[x].n = 0 THEN ChildVisits(m, x) ELSE 1 + ChildVisits(m, x)

VisitsOK(m, h) == \A x \in Subtrees(m, {h}) : CountOK(m, x)

LEMMA MemoryFacts ==
  ASSUME NEW m, Memory(m)
  PROVE  /\ KidsOK(m)
         /\ \A y \in Addresses :
              /\ m[y].n \in Nat /\ m[y].terminal \in BOOLEAN
              /\ m[y].edges = {} => Kids(m, y) = {}
<1> SUFFICES ASSUME NEW y \in Addresses
             PROVE  /\ Kids(m, y) \in SUBSET Addresses
                    /\ m[y].n \in Nat /\ m[y].terminal \in BOOLEAN
                    /\ m[y].edges = {} => Kids(m, y) = {}
  BY DEF KidsOK
<1>1. /\ m[y].kids \in UNION {[D -> Addresses] : D \in SUBSET Moves}
      /\ m[y].n \in Nat /\ m[y].terminal \in BOOLEAN
      /\ DOMAIN m[y].kids \subseteq m[y].edges
  BY DEF Memory, Node
<1>2. PICK D \in SUBSET Moves : m[y].kids \in [D -> Addresses]
  BY <1>1
<1> QED BY <1>1, <1>2 DEF Kids, Range

LEMMA ChildVisitsFacts ==
  ASSUME NEW m, Memory(m), NEW x \in Addresses
  PROVE  /\ ChildVisits(m, x) \in Nat
         /\ \A k \in Kids(m, x) : m[k].n <= ChildVisits(m, x)
         /\ Kids(m, x) = {} => ChildVisits(m, x) = 0
<1> DEFINE f == [k \in Addresses |-> m[k].n]
           S == Kids(m, x)
<1>1. S \in SUBSET Addresses /\ IsFiniteSet(S)
  <2>1. S \in SUBSET Addresses
    BY MemoryFacts DEF KidsOK
  <2> QED BY <2>1, FS_Subset, MemoryAssumption
<1>2. \A k \in S : f[k] \in Nat /\ f[k] = m[k].n
  BY <1>1, MemoryFacts
<1>3. ChildVisits(m, x) = SumFunctionOnSet(f, S)
  BY DEF ChildVisits
<1> HIDE DEF f, S
<1>4. SumFunctionOnSet(f, S) \in Nat
  BY <1>1, <1>2, SumNat
<1>5. \A k \in S : f[k] <= SumFunctionOnSet(f, S)
  BY <1>1, <1>2, SumAtLeast
<1>6. S = {} => SumFunctionOnSet(f, S) = 0
  BY SumEmpty
<1> QED BY <1>2, <1>3, <1>4, <1>5, <1>6 DEF S

LEMMA ChildVisitsSame ==
  ASSUME NEW m, Memory(m), NEW m2, Memory(m2), NEW x \in Addresses,
         Kids(m2, x) = Kids(m, x),
         \A k \in Kids(m, x) : m2[k].n = m[k].n
  PROVE  ChildVisits(m2, x) = ChildVisits(m, x)
<1> DEFINE f == [k \in Addresses |-> m[k].n]
           g == [k \in Addresses |-> m2[k].n]
           S == Kids(m, x)
<1>1. S \in SUBSET Addresses /\ IsFiniteSet(S)
  <2>1. S \in SUBSET Addresses
    BY MemoryFacts DEF KidsOK
  <2> QED BY <2>1, FS_Subset, MemoryAssumption
<1>2. \A k \in S : f[k] = g[k]
  BY <1>1
<1>3. /\ ChildVisits(m, x) = SumFunctionOnSet(f, S)
      /\ ChildVisits(m2, x) = SumFunctionOnSet(g, S)
  BY DEF ChildVisits
<1> HIDE DEF f, g, S
<1> QED BY <1>1, <1>2, <1>3, SumEqual

(* One child is visited once more. *)
LEMMA ChildVisitsMore ==
  ASSUME NEW m, Memory(m), NEW m2, Memory(m2), NEW x \in Addresses,
         Kids(m2, x) = Kids(m, x), NEW c \in Kids(m, x),
         m2[c].n = m[c].n + 1,
         \A k \in Kids(m, x) \ {c} : m2[k].n = m[k].n
  PROVE  ChildVisits(m2, x) = ChildVisits(m, x) + 1
<1> DEFINE f == [k \in Addresses |-> m[k].n]
           g == [k \in Addresses |-> m2[k].n]
           S == Kids(m, x)
<1>1. S \in SUBSET Addresses /\ IsFiniteSet(S)
  <2>1. S \in SUBSET Addresses
    BY MemoryFacts DEF KidsOK
  <2> QED BY <2>1, FS_Subset, MemoryAssumption
<1>2. /\ \A k \in S : f[k] \in Int /\ g[k] \in Int
      /\ \A k \in S \ {c} : g[k] = f[k]
      /\ c \in S /\ g[c] = f[c] + 1
  BY <1>1, MemoryFacts
<1>3. /\ ChildVisits(m, x) = SumFunctionOnSet(f, S)
      /\ ChildVisits(m2, x) = SumFunctionOnSet(g, S)
  BY DEF ChildVisits
<1> HIDE DEF f, g, S
<1>4. SumFunctionOnSet(g, S) = SumFunctionOnSet(f, S) + g[c] - f[c]
  BY <1>1, <1>2, SumChange
<1>5. SumFunctionOnSet(f, S) \in Int
  BY <1>1, <1>2, SumInt
<1> QED BY <1>2, <1>3, <1>4, <1>5

(* A child with one visit is added. *)
LEMMA ChildVisitsNew ==
  ASSUME NEW m, Memory(m), NEW m2, Memory(m2), NEW x \in Addresses,
         NEW c \in Addresses, c \notin Kids(m, x),
         Kids(m2, x) = Kids(m, x) \cup {c}, m2[c].n = 1,
         \A k \in Kids(m, x) : m2[k].n = m[k].n
  PROVE  ChildVisits(m2, x) = ChildVisits(m, x) + 1
<1> DEFINE f == [k \in Addresses |-> m[k].n]
           g == [k \in Addresses |-> m2[k].n]
           S == Kids(m, x)
           S2 == S \cup {c}
<1>1. S \in SUBSET Addresses /\ IsFiniteSet(S) /\ IsFiniteSet(S2)
  <2>1. S \in SUBSET Addresses /\ S2 \in SUBSET Addresses
    BY MemoryFacts DEF KidsOK
  <2> QED BY <2>1, FS_Subset, MemoryAssumption
<1>2. /\ \A k \in S2 : f[k] \in Int /\ g[k] \in Int
      /\ \A k \in S : g[k] = f[k]
      /\ c \in S2 /\ S2 \ {c} = S /\ g[c] = 1
  BY <1>1, MemoryFacts
<1>3. /\ ChildVisits(m, x) = SumFunctionOnSet(f, S)
      /\ ChildVisits(m2, x) = SumFunctionOnSet(g, S2)
  BY DEF ChildVisits
<1> HIDE DEF f, g, S, S2
<1>4. SumFunctionOnSet(g, S2) = g[c] + SumFunctionOnSet(g, S)
  BY <1>1, <1>2, SumRemove
<1>5. SumFunctionOnSet(g, S) = SumFunctionOnSet(f, S)
  BY <1>1, <1>2, SumEqual
<1>6. SumFunctionOnSet(f, S) \in Int
  BY <1>1, <1>2, SumInt
<1> QED BY <1>2, <1>3, <1>4, <1>5, <1>6

(* Below an unvisited node nothing is visited. *)
LEMMA VisitedAbove ==
  ASSUME NEW m, Memory(m), NEW h \in Addresses, VisitsOK(m, h),
         NEW y \in Subtrees(m, {h}), NEW z \in Subtrees(m, {y}), m[z].n > 0
  PROVE  m[y].n > 0
<1> DEFINE C == {u \in Subtrees(m, {h}) : m[u].n = 0}
<1>1. SUFFICES ASSUME ~(m[y].n > 0) PROVE FALSE
  OBVIOUS
<1>2. KidsOK(m) /\ \A u \in Addresses : m[u].n \in Nat
  BY MemoryFacts
<1>3. /\ Subtrees(m, {h}) \in SUBSET Addresses
      /\ \A u \in Subtrees(m, {h}) : Kids(m, u) \subseteq Subtrees(m, {h})
  BY <1>2, Below
<1>4. y \in C
  <2>1. m[y].n \in Nat
    BY <1>2, <1>3
  <2> QED BY <1>1, <2>1
<1>5. ASSUME NEW u \in C PROVE Kids(m, u) \subseteq C
  <2>1. u \in Addresses /\ CountOK(m, u) /\ m[u].n = 0
    BY <1>3, <1>5 DEF VisitsOK
  <2>2. /\ ChildVisits(m, u) \in Nat
        /\ \A k \in Kids(m, u) : m[k].n <= ChildVisits(m, u)
    BY <2>1, ChildVisitsFacts
  <2>3. ChildVisits(m, u) = 0
    BY <2>1, <2>2 DEF CountOK
  <2>4. \A k \in Kids(m, u) : k \in Subtrees(m, {h}) /\ m[k].n = 0
    <3> SUFFICES ASSUME NEW k \in Kids(m, u)
                 PROVE  k \in Subtrees(m, {h}) /\ m[k].n = 0
      OBVIOUS
    <3>1. k \in Subtrees(m, {h}) /\ k \in Addresses
      BY <1>3, <1>5
    <3>2. m[k].n \in Nat /\ m[k].n <= 0
      BY <1>2, <2>2, <2>3, <3>1
    <3> QED BY <3>1, <3>2
  <2> QED BY <2>4
<1>6. C \in SUBSET Addresses /\ {y} \subseteq C /\ {y} \in SUBSET Addresses
  BY <1>3, <1>4
<1>7. z \in C
  <2> HIDE DEF C
  <2> QED BY <1>5, <1>6, SubtreesLeast
<1> QED BY <1>7

(* In the tree T the nodes P above p are counted once more. *)
CountedAt(m, m2, T, p, P) ==
  /\ P \subseteq T
  /\ \A y \in T :
       /\ y \in P <=> p \in Subtrees(m, {y})
       /\ Kids(m2, y) = Kids(m, y)
       /\ m2[y].terminal = m[y].terminal
       /\ m2[y].n = IF y \in P THEN m[y].n + 1 ELSE m[y].n

(* A playout counts along the way to a visited node p: the visits add up   *)
(* everywhere but at p, which has one more than before.                    *)
LEMMA Counting ==
  ASSUME NEW m, Memory(m), NEW m2, Memory(m2),
         NEW h, Forest(m, h), VisitsOK(m, h),
         NEW p \in Subtrees(m, {h}), m[p].n > 0,
         NEW P, CountedAt(m, m2, Subtrees(m, {h}), p, P)
  PROVE  /\ \A y \in Subtrees(m, {h}) \ {p} : CountOK(m2, y)
         /\ p \in P /\ ChildVisits(m2, p) = ChildVisits(m, p)
<1> USE DEF CountedAt
<1> DEFINE T == Subtrees(m, {h})
<1>1. /\ h \in Addresses /\ KidsOK(m) /\ \A u \in Addresses : m[u].n \in Nat
      /\ \A u \in Addresses : m[u].terminal \in BOOLEAN
  BY MemoryFacts DEF Forest
<1>2. /\ T \in SUBSET Addresses /\ h \in T
      /\ \A u \in T : Kids(m, u) \subseteq T
  BY <1>1, Below
<1>3. p \in P
  BY <1>1, <1>2, Below
<1>4. ASSUME NEW y \in T, NEW k \in Kids(m, y), k \in P
      PROVE  y \in P /\ y # p
  <2>1. y \in Addresses /\ k \in Addresses /\ p \in Subtrees(m, {k})
    BY <1>2, <1>4
  <2>2. Subtrees(m, {k}) \subseteq Subtrees(m, {y})
    BY <1>1, <2>1, Below
  <2>3. y \notin Subtrees(m, {k})
    <3>1. {k} \in SUBSET Kids(m, y)
      OBVIOUS
    <3> QED BY <1>1, <3>1, Acyclic
  <2> QED BY <1>4, <2>1, <2>2, <2>3
<1>5. ASSUME NEW y \in T, y \notin P \/ y = p
      PROVE  ChildVisits(m2, y) = ChildVisits(m, y)
  <2>1. y \in Addresses /\ Kids(m2, y) = Kids(m, y)
    BY <1>2
  <2>2. \A k \in Kids(m, y) : k \in T /\ k \notin P
    BY <1>2, <1>4, <1>5
  <2>3. \A k \in Kids(m, y) : m2[k].n = m[k].n
    BY <2>2
  <2> QED BY <2>1, <2>3, ChildVisitsSame
<1>6. ASSUME NEW y \in T, y \notin P PROVE CountOK(m2, y)
  <2>1. ChildVisits(m2, y) = ChildVisits(m, y) /\ CountOK(m, y)
    BY <1>5, <1>6 DEF VisitsOK
  <2>2. m2[y].n = m[y].n /\ m2[y].terminal = m[y].terminal
    BY <1>6
  <2> QED BY <2>1, <2>2 DEF CountOK
<1>7. ASSUME NEW y \in P, y # p PROVE CountOK(m2, y)
  <2>1. /\ y \in T /\ y \in Addresses /\ p \in Subtrees(m, {y})
        /\ CountOK(m, y) /\ Kids(m2, y) = Kids(m, y)
        /\ m2[y].n = m[y].n + 1 /\ m2[y].terminal = m[y].terminal
    BY <1>2, <1>7 DEF VisitsOK
  <2>2. PICK c \in Kids(m, y) : p \in Subtrees(m, {c})
    <3>1. \A z \in Subtrees(m, {y}) :
            z = y \/ \E k \in Kids(m, y) : z \in Subtrees(m, {k})
      BY <1>1, <2>1, Below
    <3> QED BY <1>7, <2>1, <3>1
  <2>3. c \in T /\ c \in P
    BY <1>2, <2>1, <2>2
  <2>4. ASSUME NEW k \in Kids(m, y) \ {c} PROVE m2[k].n = m[k].n
    <3>1. k \in T /\ p \notin Subtrees(m, {k})
      BY <1>1, <1>2, <2>1, <2>2, OneWayDown
    <3> QED BY <3>1
  <2>5. ChildVisits(m2, y) = ChildVisits(m, y) + 1
    <3>1. m2[c].n = m[c].n + 1
      BY <2>3
    <3> QED BY <2>1, <2>4, <3>1, ChildVisitsMore
  <2>6. m[y].n > 0
    BY <1>1, <2>1, VisitedAbove
  <2>7. ChildVisits(m, y) \in Nat /\ m[y].n \in Nat
    BY <1>1, <2>1, ChildVisitsFacts
  <2> QED BY <2>1, <2>5, <2>6, <2>7 DEF CountOK
<1> QED BY <1>3, <1>5, <1>6, <1>7

-----------------------------------------------------------------------------
(* Changes of one node. *)

LEMMA KidsChanged ==
  ASSUME NEW r, r \in Node(r.of), NEW D \in SUBSET Moves, NEW f \in [D -> Addresses]
  PROVE  LET s == [r EXCEPT !.kids = f]
         IN /\ s \in Node(s.of) /\ s.kids = f /\ s.edges = r.edges
            /\ s.n = r.n /\ s.terminal = r.terminal
<1>1. f \in UNION {[E -> Addresses] : E \in SUBSET Moves}
  OBVIOUS
<1> DEFINE s == [r EXCEPT !.kids = f]
<1>2. /\ s \in Node(r.of) /\ s.kids = f /\ s.edges = r.edges
      /\ s.n = r.n /\ s.terminal = r.terminal /\ s.of = r.of
  BY <1>1 DEF Node
<1> QED BY <1>2

(* A node at its first visit. *)
Visited(es, of) == [BareNode EXCEPT !.edges = es, !.n = 1, !.of = of]
ExtendedBy(es, of) ==
  [BareNode EXCEPT !.edges = es, !.terminal = (es = {}), !.n = 1, !.of = of]

LEMMA BareFacts ==
  /\ BareNode \in Node(BareNode.of) /\ BareNode.kids = <<>>
  /\ BareNode.edges = {} /\ BareNode.n = 0 /\ ~BareNode.terminal
  /\ <<>> \in UNION {[D -> Addresses] : D \in SUBSET Moves}
  /\ DOMAIN <<>> = {} /\ Range(<<>>) = {}
<1>1. DOMAIN <<>> = {} /\ Range(<<>>) = {}
  BY DEF Range
<1>2. <<>> \in UNION {[D -> Addresses] : D \in SUBSET Moves}
  <2>1. <<>> \in [{} -> Addresses] /\ {} \in SUBSET Moves
    OBVIOUS
  <2> QED BY <2>1
<1>3. /\ BareNode.kids = <<>> /\ BareNode.edges = {} /\ BareNode.n = 0
      /\ BareNode.terminal = FALSE /\ BareNode.of = NoPosition
  BY DEF BareNode
<1>4. BareNode \in Node(NoPosition)
  BY <1>2, Zenon DEF BareNode, Node
<1> QED BY <1>1, <1>2, <1>3, <1>4

LEMMA VisitedFacts ==
  ASSUME NEW es \in SUBSET Moves, NEW of
  PROVE  /\ Visited(es, of) \in Node(Visited(es, of).of)
         /\ Visited(es, of).kids = <<>> /\ Visited(es, of).edges = es
         /\ Visited(es, of).n = 1 /\ ~Visited(es, of).terminal
         /\ ExtendedBy(es, of) \in Node(ExtendedBy(es, of).of)
         /\ ExtendedBy(es, of).kids = <<>> /\ ExtendedBy(es, of).edges = es
         /\ ExtendedBy(es, of).n = 1
<1> DEFINE b == (es = {})
           s == [BareNode EXCEPT !.edges = es, !.terminal = b, !.n = 1, !.of = of]
           t == [BareNode EXCEPT !.edges = es, !.n = 1, !.of = of]
<1>1. b \in BOOLEAN /\ BareNode \in Node(BareNode.of) /\ BareNode.kids = <<>>
      /\ ~BareNode.terminal
  BY BareFacts
<1>2. t = Visited(es, of) /\ s = ExtendedBy(es, of)
  BY DEF Visited, ExtendedBy
<1> HIDE DEF b
<1>3. /\ s \in Node(of) /\ s.kids = <<>> /\ s.edges = es
      /\ s.n = 1 /\ s.terminal = b /\ s.of = of
  BY <1>1 DEF Node
<1>4. /\ t \in Node(of) /\ t.kids = <<>> /\ t.edges = es
      /\ t.n = 1 /\ ~t.terminal /\ t.of = of
  BY <1>1 DEF Node
<1> HIDE DEF s, t
<1> QED BY <1>2, <1>3, <1>4

LEMMA MemoryChanged ==
  ASSUME NEW m, Memory(m), NEW m2, m2 = [y \in Addresses |-> m2[y]],
         \A y \in Addresses :
           \/ m2[y] = m[y]
           \/ m2[y] \in Node(m2[y].of) /\ DOMAIN m2[y].kids \subseteq m2[y].edges
  PROVE  Memory(m2)
BY DEF Memory

-----------------------------------------------------------------------------
(* What the garbage collector holds. *)

QueueOK(q, T) ==
  /\ q \in Seq(SUBSET Addresses)
  /\ \A i, j \in DOMAIN q : i # j => q[i] \cap q[j] = {}
  /\ \A i \in DOMAIN q : q[i] \cap T = {}

LEMMA QueuedOK ==
  ASSUME NEW m, KidsOK(m), NEW T, NEW q, QueueOK(q, T), NEW K \in SUBSET Addresses,
         Subtrees(m, K) \subseteq T, NEW T2, T2 \cap Subtrees(m, K) = {},
         \A i \in DOMAIN q : q[i] \cap T2 = {}
  PROVE  QueueOK(Queued(q, m, K), T2)
<1> DEFINE D == Subtrees(m, K)
<1>1. CASE K = {}
  BY <1>1 DEF Queued, QueueOK
<1>2. CASE K # {}
  <2>1. Queued(q, m, K) = Append(q, D) /\ D \in SUBSET Addresses
    BY <1>2, SubtreesClosed DEF Queued
  <2> HIDE DEF D
  <2>2. q \in Seq(SUBSET Addresses) /\ Len(q) \in Nat /\ DOMAIN q = 1 .. Len(q)
    BY DEF QueueOK
  <2>3. /\ Append(q, D) \in Seq(SUBSET Addresses)
        /\ DOMAIN Append(q, D) = 1 .. Len(q) + 1
        /\ \A i \in 1 .. Len(q) : Append(q, D)[i] = q[i]
        /\ Append(q, D)[Len(q) + 1] = D
    BY <2>1, <2>2, AppendProperties
  <2>4. \A i \in DOMAIN q : q[i] \cap D = {}
    BY DEF QueueOK, D
  <2>5. \A i \in 1 .. Len(q) + 1 : i \in DOMAIN q \/ i = Len(q) + 1
    BY <2>2
  <2> DEFINE a == Append(q, D)
  <2>6. /\ \A i \in DOMAIN a : a[i] = IF i \in DOMAIN q THEN q[i] ELSE D
        /\ \A i \in DOMAIN a : i \notin DOMAIN q => i = Len(q) + 1
    BY <2>2, <2>3, <2>5
  <2> HIDE DEF a
  <2>7. \A i, j \in DOMAIN a : i # j => a[i] \cap a[j] = {}
    BY <2>4, <2>6 DEF QueueOK
  <2>8. \A i \in DOMAIN a : a[i] \cap T2 = {}
    BY <2>6 DEF D
  <2> QED BY <2>1, <2>3, <2>7, <2>8 DEF QueueOK, a
<1> QED BY <1>1, <1>2

-----------------------------------------------------------------------------
(* The tree is a forest with one root, and the collector holds the rest.   *)

Whole ==
  /\ Memory(mem) /\ QueueOK(gc, InTree)
  /\ root = NoNode => head = NoNode
  /\ root # NoNode => Forest(mem, root) /\ head \in Subtrees(mem, {root})

LEMMA WholePrimed ==
  ASSUME Memory(mem)', QueueOK(gc', InTree'), root' = NoNode => head' = NoNode,
         root' # NoNode => Forest(mem', root') /\ head' \in Subtrees(mem', {root'})
  PROVE  Whole'
BY DEF Whole

LEMMA HeadFacts ==
  ASSUME Whole, root # NoNode
  PROVE  /\ Memory(mem) /\ KidsOK(mem) /\ QueueOK(gc, InTree)
         /\ Forest(mem, root) /\ root \in Addresses
         /\ InTree = Subtrees(mem, {root}) /\ InTree \in SUBSET Addresses
         /\ head \in InTree /\ head \in Addresses /\ Forest(mem, head)
         /\ Subtrees(mem, {head}) \subseteq InTree
         /\ \A y \in InTree : Kids(mem, y) \subseteq InTree
         /\ \A x \in Free : /\ x \in Addresses /\ x \notin InTree
                            /\ \A i \in DOMAIN gc : x \notin gc[i]
<1>1. /\ Memory(mem) /\ KidsOK(mem) /\ QueueOK(gc, InTree)
      /\ Forest(mem, root) /\ root \in Addresses
      /\ InTree = Subtrees(mem, {root}) /\ head \in InTree
  BY MemoryFacts DEF Whole, Forest, InTree
<1>2. /\ InTree \in SUBSET Addresses
      /\ \A y \in InTree : Kids(mem, y) \subseteq InTree
  BY <1>1, Below
<1>3. Forest(mem, head) /\ Subtrees(mem, {head}) \subseteq InTree
  BY <1>1, ForestBelow
<1>4. ASSUME NEW x \in Free
      PROVE  /\ x \in Addresses /\ x \notin InTree
             /\ \A i \in DOMAIN gc : x \notin gc[i]
  BY DEF Free, Range
<1> QED BY <1>1, <1>2, <1>3, <1>4

(* The children K of p are queued, new nodes N are put below it. *)
LEMMA Grafted ==
  ASSUME Whole, root # NoNode, root' = root, Memory(mem'),
         NEW p \in InTree, NEW K \in SUBSET Kids(mem, p), NEW N \in SUBSET Free,
         Kids(mem', p) = (Kids(mem, p) \ K) \cup N,
         \A y \in InTree \ {p} : Kids(mem', y) = Kids(mem, y),
         \A y \in N : Kids(mem', y) = {},
         gc' = Queued(gc, mem, K),
         head' \in (InTree \ Subtrees(mem, K)) \cup N
  PROVE  /\ Whole'
         /\ Subtrees(mem', {root}) = (InTree \ Subtrees(mem, K)) \cup N
<1> DEFINE m == mem
           m2 == mem'
           T == InTree
           D == Subtrees(mem, K)
           T2 == (T \ D) \cup N
<1>1. /\ KidsOK(m) /\ QueueOK(gc, T) /\ Forest(m, root) /\ T = Subtrees(m, {root})
      /\ T \in SUBSET Addresses
      /\ \A y \in T : Kids(m, y) \subseteq T
  BY HeadFacts
<1>2. /\ N \in SUBSET Addresses /\ N \cap T = {}
      /\ \A i \in DOMAIN gc : gc[i] \cap N = {}
  BY HeadFacts
<1>3. KidsOK(m2)
  BY MemoryFacts
<1>4. K \in SUBSET T /\ K \in SUBSET Addresses
  BY <1>1
<1>5. D \subseteq T
  <2>1. {root} \in SUBSET Addresses /\ K \in SUBSET Subtrees(m, {root})
    BY <1>1, <1>4 DEF Forest
  <2> QED BY <1>1, <2>1, SubtreesWithin
<1>6. Subtrees(m2, {root}) = T2 /\ Forest(m2, root)
  <2> DEFINE r == root
  <2>1. /\ Forest(m, r) /\ p \in Subtrees(m, {r}) /\ N \cap Subtrees(m, {r}) = {}
        /\ \A y \in Subtrees(m, {r}) \ {p} : Kids(m2, y) = Kids(m, y)
        /\ T2 = (Subtrees(m, {r}) \ D) \cup N
    BY <1>1, <1>2
  <2>2. Kids(m2, p) = (Kids(m, p) \ K) \cup N /\ \A y \in N : Kids(m2, y) = {}
    OBVIOUS
  <2>3. KidsOK(m) /\ KidsOK(m2) /\ N \in SUBSET Addresses /\ K \in SUBSET Kids(m, p)
    BY <1>1, <1>2, <1>3
  <2> HIDE DEF m, m2, r, T2, D, T
  <2>4. Subtrees(m2, {r}) = (Subtrees(m, {r}) \ Subtrees(m, K)) \cup N
        /\ Forest(m2, r)
    <3>1. Rewire(m, m2, Subtrees(m, {r}), p, K, N)
      BY <2>1, <2>2, <2>3 DEF Rewire
    <3> QED BY <2>1, <2>3, <3>1, Rewired
  <2> QED BY <2>1, <2>4 DEF D, r, m
<1>7. QueueOK(gc', T2)
  <2>1. /\ T2 \cap D = {}
        /\ \A i \in DOMAIN gc : gc[i] \cap T2 = {}
    <3>1. \A i \in DOMAIN gc : gc[i] \cap T = {}
      BY <1>1 DEF QueueOK
    <3>2. D \cap N = {}
      BY <1>2, <1>5
    <3> HIDE DEF T, D
    <3> QED BY <1>2, <3>1, <3>2
  <2> HIDE DEF T2, T
  <2> QED BY <1>1, <1>4, <1>5, <2>1, QueuedOK
<1>8. InTree' = T2 /\ head' \in Subtrees(mem', {root'})
  BY <1>6 DEF InTree
<1>9. Whole'
  <2>1. root' # NoNode /\ Forest(mem', root')
    BY <1>6
  <2>2. QueueOK(gc', InTree')
    BY <1>7, <1>8
  <2> QED BY <1>8, <2>1, <2>2, WholePrimed
<1> QED BY <1>6, <1>9

LEMMA CollectStep == ASSUME Whole, Collect PROVE Whole'
<1> DEFINE f == Front(gc)
<1>1. /\ gc # <<>> /\ gc' = f /\ UNCHANGED <<mem, root, head>>
      /\ gc \in Seq(SUBSET Addresses)
  BY DEF Collect, Whole, QueueOK
<1>2. f \in Seq(SUBSET Addresses) /\ DOMAIN f \subseteq DOMAIN gc
      /\ \A i \in DOMAIN f : f[i] = gc[i]
  <2> DEFINE s == gc
  <2>1. s \in Seq(SUBSET Addresses) /\ Len(s) \in Nat \ {0} /\ DOMAIN s = 1 .. Len(s)
    BY <1>1, EmptySeq
  <2>2. \A i \in 1 .. Len(s) - 1 : s[i] \in SUBSET Addresses
    BY <2>1, ElementOfSeq
  <2> HIDE DEF s
  <2>3. /\ SubSeq(s, 1, Len(s) - 1) \in Seq(SUBSET Addresses)
        /\ Len(SubSeq(s, 1, Len(s) - 1)) = Len(s) - 1
        /\ \A i \in 1 .. Len(s) - 1 : SubSeq(s, 1, Len(s) - 1)[i] = s[i]
    BY <2>1, <2>2, SubSeqProperties
  <2>4. DOMAIN SubSeq(s, 1, Len(s) - 1) = 1 .. Len(s) - 1
    BY <2>1, <2>3
  <2> QED BY <2>1, <2>3, <2>4 DEF Front, s
<1> HIDE DEF f
<1>3. QueueOK(gc', InTree)
  BY <1>1, <1>2 DEF Whole, QueueOK
<1>4. InTree' = InTree
  BY <1>1 DEF InTree
<1> QED BY <1>1, <1>3, <1>4 DEF Whole

-----------------------------------------------------------------------------
(* The moves of ResetToPosition(). *)

LEMMA VisitsBelow ==
  ASSUME NEW m, KidsOK(m), NEW h \in Addresses, VisitsOK(m, h),
         NEW z \in Subtrees(m, {h})
  PROVE  VisitsOK(m, z)
BY Below DEF VisitsOK

LEMMA BareVisits ==
  ASSUME NEW m, Memory(m), NEW x \in Addresses, m[x] = BareNode
  PROVE  /\ Kids(m, x) = {} /\ Subtrees(m, {x}) = {x} /\ VisitsOK(m, x)
<1>1. Kids(m, x) = {} /\ m[x].n = 0 /\ ~m[x].terminal
  BY BareFacts DEF Kids
<1>2. Subtrees(m, {x}) = {x}
  <2>1. {x} \in SUBSET Addresses /\ \A y \in {x} : Kids(m, y) \subseteq {x}
    BY <1>1
  <2>2. Subtrees(m, {x}) \subseteq {x}
    BY <2>1, SubtreesLeast
  <2>3. x \in Subtrees(m, {x})
    BY Below, MemoryFacts
  <2> QED BY <2>2, <2>3
<1>3. ChildVisits(m, x) = 0
  BY <1>1, ChildVisitsFacts
<1>4. CountOK(m, x)
  BY <1>1, <1>3 DEF CountOK
<1> QED BY <1>1, <1>2, <1>4 DEF VisitsOK

(* One node is replaced; h keeps the child x only, which becomes s. *)
Put(m, x, s) == [m EXCEPT ![x] = s]
OnlyChild(m, h, move, x, s) ==
  [m EXCEPT ![h].kids = [k \in {move} |-> x], ![x] = s]

LEMMA OneChildLeft ==
  ASSUME NEW m, Memory(m), NEW h \in Addresses, NEW x \in Addresses, h # x,
         NEW move \in m[h].edges, NEW s, s \in Node(s.of), DOMAIN s.kids \subseteq s.edges,
         NEW m2, m2 = OnlyChild(m, h, move, x, s)
  PROVE  /\ Memory(m2) /\ Kids(m2, h) = {x} /\ m2[x] = s
         /\ \A y \in Addresses \ {h, x} : m2[y] = m[y]
<1> DEFINE f == [k \in {move} |-> x]
           t == [m[h] EXCEPT !.kids = f]
<1>1. m = [y \in Addresses |-> m[y]] /\ m[h] \in Node(m[h].of)
  BY DEF Memory
<1>2. move \in Moves
  BY <1>1 DEF Node
<1>3. f \in [{move} -> Addresses] /\ {move} \in SUBSET Moves
  BY <1>2
<1>4. DOMAIN f = {move} /\ Range(f) = {x}
  BY DEF Range
<1>5. m2 = [y \in Addresses |-> m2[y]] /\ m2[h] = t /\ m2[x] = s
      /\ \A y \in Addresses \ {h, x} : m2[y] = m[y]
  BY <1>1 DEF OnlyChild
<1>6. t \in Node(t.of) /\ t.kids = f /\ t.edges = m[h].edges
  <2> HIDE DEF f
  <2> QED BY <1>1, <1>3, KidsChanged
<1> HIDE DEF f, t
<1>7. DOMAIN t.kids \subseteq t.edges
  BY <1>4, <1>6
<1>8. Memory(m2)
  BY <1>5, <1>6, <1>7, MemoryChanged
<1> QED BY <1>4, <1>5, <1>6, <1>8 DEF Kids

LEMMA NodeAdded ==
  ASSUME NEW m, Memory(m), NEW x \in Addresses, NEW s, s \in Node(s.of),
         DOMAIN s.kids \subseteq s.edges, NEW m2, m2 = Put(m, x, s)
  PROVE  /\ Memory(m2) /\ m2[x] = s
         /\ \A y \in Addresses \ {x} : m2[y] = m[y]
<1>1. m2 = [y \in Addresses |-> m2[y]] /\ m2[x] = s
      /\ \A y \in Addresses \ {x} : m2[y] = m[y]
  BY DEF Memory, Put
<1> QED BY <1>1, MemoryChanged

LEMMA NotTerminalAgain ==
  ASSUME NEW m, Memory(m), NEW x \in Addresses
  PROVE  LET s == IF m[x].terminal THEN MadeNotTerminal(m, x) ELSE m[x]
         IN /\ s \in Node(s.of) /\ DOMAIN s.kids \subseteq s.edges
            /\ s.kids = m[x].kids /\ s.edges = m[x].edges
            /\ ~m[x].terminal => s = m[x]
            /\ m[x].terminal =>
                 /\ ~s.terminal
                 /\ s.n = IF m[x].edges = {} THEN 0 ELSE 1 + ChildVisits(m, x)
<1>1. m[x] \in Node(m[x].of) /\ DOMAIN m[x].kids \subseteq m[x].edges
  BY DEF Memory
<1> DEFINE v == IF m[x].edges = {} THEN 0 ELSE 1 + ChildVisits(m, x)
           r == m[x]
           s == [r EXCEPT !.terminal = FALSE, !.n = v]
<1>2. v \in Nat
  BY ChildVisitsFacts
<1>3. MadeNotTerminal(m, x) = s
  BY DEF MadeNotTerminal
<1>4. /\ s \in Node(s.of) /\ s.kids = r.kids /\ s.edges = r.edges
      /\ s.n = v /\ s.terminal = FALSE
  <2>1. r \in Node(r.of) /\ FALSE \in BOOLEAN
    BY <1>1
  <2> HIDE DEF v, r
  <2>2. /\ s \in Node(r.of) /\ s.kids = r.kids /\ s.edges = r.edges
        /\ s.n = v /\ s.terminal = FALSE /\ s.of = r.of
    BY <1>2, <2>1 DEF Node
  <2> QED BY <2>2
<1> HIDE DEF s
<1> QED BY <1>1, <1>3, <1>4

(* The head goes down an edge: what was right below stays right. *)
LEMMA FollowEdgeStep ==
  ASSUME Whole, root # NoNode, NEW move, FollowEdge(move)
  PROVE  /\ Whole' /\ root' = root
         /\ head' \in Free \/ head' \in Kids(mem, head)
         /\ head' \in Free => Subtrees(mem', {head'}) = {head'}
         /\ head' \in Kids(mem, head) =>
              Subtrees(mem', {head'}) = Subtrees(mem, {head'})
         /\ \A z \in Subtrees(mem', {head'}) :
              (z \in Subtrees(mem, {head}) => VisitsOK(mem, z)) => VisitsOK(mem', z)
<1> DEFINE x == head'
           there == move \in DOMAIN mem[head].kids
           m1 == IF there THEN mem ELSE [mem EXCEPT ![x] = BareNode]
           s == IF m1[x].terminal THEN MadeNotTerminal(m1, x) ELSE m1[x]
           K == Kids(mem, head) \ {x}
           T == InTree
<1>1. /\ move \in mem[head].edges /\ root' = root
      /\ x \in (IF there THEN {mem[head].kids[move]} ELSE Free)
      /\ mem' = [m1 EXCEPT ![head].kids = [k \in {move} |-> x], ![x] = s]
      /\ gc' = Queued(gc, mem, K)
  BY DEF FollowEdge, Released
<1>2. /\ Memory(mem) /\ KidsOK(mem) /\ Forest(mem, root) /\ root \in Addresses
      /\ T = Subtrees(mem, {root}) /\ head \in T /\ head \in Addresses
      /\ T \in SUBSET Addresses
      /\ Forest(mem, head) /\ Subtrees(mem, {head}) \subseteq T
      /\ \A y \in T : Kids(mem, y) \subseteq T
      /\ \A y \in Free : y \in Addresses /\ y \notin T
  BY HeadFacts
<1>3. CASE there
  <2>1. x \in Kids(mem, head) /\ m1 = mem
    BY <1>1, <1>3 DEF Kids, Range
  <2>2. x \in Addresses /\ x \in T
    BY <1>2, <2>1
  <2>3. x # head /\ head \notin Subtrees(mem, {x})
    <3>1. {x} \in SUBSET Kids(mem, head)
      BY <2>1
    <3>2. head \notin Subtrees(mem, {x})
      BY <1>2, <3>1, Acyclic
    <3> QED BY <1>2, <2>2, <3>2, Below
  <2>4. /\ s \in Node(s.of) /\ DOMAIN s.kids \subseteq s.edges
        /\ s.kids = mem[x].kids /\ s.edges = mem[x].edges
        /\ ~mem[x].terminal => s = mem[x]
        /\ mem[x].terminal =>
             /\ ~s.terminal
             /\ s.n = IF mem[x].edges = {} THEN 0 ELSE 1 + ChildVisits(mem, x)
    BY <1>2, <2>1, <2>2, NotTerminalAgain
  <2>5. /\ Memory(mem') /\ Kids(mem', head) = {x} /\ mem'[x] = s
        /\ \A y \in Addresses \ {head, x} : mem'[y] = mem[y]
    <3> DEFINE m == mem
               h == head
    <3>1. mem' = OnlyChild(m, h, move, x, s)
          /\ Memory(m) /\ h \in Addresses /\ h # x /\ move \in m[h].edges
      BY <1>1, <1>2, <2>1, <2>3 DEF OnlyChild
    <3> HIDE DEF m, h, s, x
    <3>2. Memory(mem') /\ Kids(mem', h) = {x} /\ mem'[x] = s
          /\ \A y \in Addresses \ {h, x} : mem'[y] = m[y]
      BY <2>2, <2>4, <3>1, OneChildLeft
    <3> QED BY <3>2 DEF m, h
  <2> HIDE DEF s
  <2>6. \A y \in Addresses \ {head} : Kids(mem', y) = Kids(mem, y)
    BY <2>4, <2>5 DEF Kids
  <2>7. x \notin Subtrees(mem, K)
    <3>1. ASSUME x \in Subtrees(mem, K) PROVE FALSE
      <4>1. K \in SUBSET Addresses
        BY <1>2
      <4>2. PICK k \in K : x \in Subtrees(mem, {k})
        BY <1>2, <3>1, <4>1, BelowOne
      <4>3. x \in Subtrees(mem, {x})
        BY <1>2, <2>2, Below
      <4>4. k \in Kids(mem, head) /\ k # x
        BY <4>2
      <4> QED BY <1>2, <2>1, <4>2, <4>3, <4>4, OneWayDown
    <3> QED BY <3>1
  <2>8. Whole'
    <3> DEFINE N == {}
    <3>1. /\ K \in SUBSET Kids(mem, head) /\ N \in SUBSET Free
          /\ Kids(mem', head) = (Kids(mem, head) \ K) \cup N
          /\ \A y \in T \ {head} : Kids(mem', y) = Kids(mem, y)
          /\ \A y \in N : Kids(mem', y) = {}
          /\ x \in (T \ Subtrees(mem, K)) \cup N
      BY <1>2, <2>1, <2>2, <2>5, <2>6, <2>7
    <3> HIDE DEF N, K
    <3> QED BY <1>1, <1>2, <2>5, <3>1, Grafted
  <2>9. \A z \in Subtrees(mem, {x}) :
          /\ z \in Addresses /\ z # head /\ Subtrees(mem, {z}) \subseteq Subtrees(mem, {x})
          /\ Subtrees(mem', {z}) = Subtrees(mem, {z})
    <3> SUFFICES ASSUME NEW z \in Subtrees(mem, {x})
                 PROVE  /\ z \in Addresses /\ z # head
                        /\ Subtrees(mem, {z}) \subseteq Subtrees(mem, {x})
                        /\ Subtrees(mem', {z}) = Subtrees(mem, {z})
      OBVIOUS
    <3>1. z \in Addresses /\ Subtrees(mem, {z}) \subseteq Subtrees(mem, {x})
          /\ Subtrees(mem, {z}) \in SUBSET Addresses
      BY <1>2, <2>2, Below
    <3>2. \A y \in Subtrees(mem, {z}) : Kids(mem', y) = Kids(mem, y)
      BY <2>3, <2>6, <3>1
    <3>3. KidsOK(mem') /\ {z} \in SUBSET Addresses
      BY <2>5, <3>1, MemoryFacts
    <3> QED BY <1>2, <2>3, <3>1, <3>2, <3>3, SubtreesSame
  <2>10. ASSUME NEW y \in Subtrees(mem, {x}), CountOK(mem, y) PROVE CountOK(mem', y)
    <3>1. y \in Addresses /\ y # head /\ Kids(mem, y) \subseteq Subtrees(mem, {x})
      BY <1>2, <2>2, <2>9, Below
    <3>2. x \notin Kids(mem, y)
      <4>1. y \in Subtrees(mem, {head}) /\ head \in Subtrees(mem, {head})
        <5>1. head \in Subtrees(mem, {head}) /\ x \in Subtrees(mem, {head})
          BY <1>2, <2>1, Below
        <5> QED BY <1>2, <5>1, Below
      <4> QED BY <1>2, <2>1, <3>1, <4>1 DEF Forest
    <3>3. \A k \in Kids(mem, y) : k \in Addresses \ {head, x}
      BY <2>9, <3>1, <3>2
    <3>4. ChildVisits(mem', y) = ChildVisits(mem, y)
      <4>1. \A k \in Kids(mem, y) : mem'[k].n = mem[k].n
        BY <2>5, <3>3
      <4> QED BY <1>2, <2>5, <2>6, <3>1, <4>1, ChildVisitsSame
    <3>5. CASE y # x
      <4>1. mem'[y] = mem[y]
        BY <2>5, <3>1, <3>5
      <4> QED BY <2>10, <3>4, <4>1 DEF CountOK
    <3>6. CASE y = x /\ ~mem[x].terminal
      <4>1. mem'[y] = mem[y]
        BY <2>4, <2>5, <3>6
      <4> QED BY <2>10, <3>4, <4>1 DEF CountOK
    <3>7. CASE y = x /\ mem[x].terminal
      <4>1. /\ ~mem'[y].terminal
            /\ mem'[y].n = IF mem[y].edges = {} THEN 0 ELSE 1 + ChildVisits(mem, y)
        BY <2>4, <2>5, <3>7
      <4>2. ChildVisits(mem, y) \in Nat
        BY <1>2, <3>1, ChildVisitsFacts
      <4>3. mem[y].edges = {} => ChildVisits(mem, y) = 0
        BY <1>2, <3>1, ChildVisitsFacts, MemoryFacts
      <4> QED BY <3>4, <4>1, <4>2, <4>3 DEF CountOK
    <3> QED BY <3>5, <3>6, <3>7
  <2>11. x \in Subtrees(mem, {x}) /\ Subtrees(mem, {x}) \subseteq Subtrees(mem, {head})
         /\ x \notin Free
    <3>1. x \in Subtrees(mem, {head})
      BY <1>2, <2>1, Below
    <3> QED BY <1>2, <2>2, <3>1, Below
  <2>12. ASSUME NEW z \in Subtrees(mem, {x}), VisitsOK(mem, z)
         PROVE  VisitsOK(mem', z)
    BY <2>9, <2>10, <2>12 DEF VisitsOK
  <2> HIDE DEF x
  <2> QED BY <1>1, <2>1, <2>8, <2>9, <2>11, <2>12 DEF x
<1>4. CASE ~there
  <2>1. x \in Free /\ m1 = [mem EXCEPT ![x] = BareNode]
    BY <1>1, <1>4
  <2>2. x \in Addresses /\ x \notin T /\ x # head
    BY <1>2, <2>1
  <2>3. /\ Memory(m1) /\ m1[x] = BareNode
        /\ \A y \in Addresses \ {x} : m1[y] = mem[y]
    <3> DEFINE m == mem
               b == BareNode
    <3>1. Memory(m) /\ b \in Node(b.of) /\ DOMAIN b.kids \subseteq b.edges
          /\ m1 = Put(m, x, b)
      BY <1>2, <2>1, BareFacts DEF Put
    <3> HIDE DEF m, b, x, m1
    <3>2. Memory(m1) /\ m1[x] = b /\ \A y \in Addresses \ {x} : m1[y] = m[y]
      BY <2>2, <3>1, NodeAdded
    <3> QED BY <3>2 DEF m, b
  <2>4. s = BareNode
    <3>1. ~BareNode.terminal
      BY BareFacts
    <3> HIDE DEF m1
    <3> QED BY <2>3, <3>1
  <2>5. /\ Memory(mem') /\ Kids(mem', head) = {x} /\ mem'[x] = BareNode
        /\ \A y \in Addresses \ {head, x} : mem'[y] = m1[y]
    <3> DEFINE h == head
               b == BareNode
    <3>1. mem' = OnlyChild(m1, h, move, x, b)
      BY <1>1, <2>4 DEF OnlyChild
    <3>0. h \in Addresses /\ h # x /\ move \in m1[h].edges
      BY <1>1, <1>2, <2>2, <2>3
    <3>2. b \in Node(b.of) /\ DOMAIN b.kids \subseteq b.edges
      BY BareFacts
    <3> HIDE DEF h, b, x, m1
    <3>3. Memory(mem') /\ Kids(mem', h) = {x} /\ mem'[x] = b
          /\ \A y \in Addresses \ {h, x} : mem'[y] = m1[y]
      BY <2>2, <2>3, <3>0, <3>1, <3>2, OneChildLeft
    <3> QED BY <3>3 DEF h, b
  <2> HIDE DEF s, m1
  <2>6. \A y \in Addresses \ {head, x} : mem'[y] = mem[y]
    BY <2>3, <2>5
  <2>7. \A y \in Addresses \ {head, x} : Kids(mem', y) = Kids(mem, y)
    BY <2>6 DEF Kids
  <2>8. Kids(mem', x) = {} /\ Subtrees(mem', {x}) = {x} /\ VisitsOK(mem', x)
    BY <2>2, <2>5, BareVisits
  <2>9. x \notin Kids(mem, head)
    BY <1>2, <2>2
  <2>10. Whole'
    <3> DEFINE N == {x}
               p == head
    <3>1. /\ K \in SUBSET Kids(mem, p) /\ N \in SUBSET Free /\ p \in T
          /\ Kids(mem', p) = (Kids(mem, p) \ K) \cup N
          /\ \A y \in T \ {p} : Kids(mem', y) = Kids(mem, y)
          /\ \A y \in N : Kids(mem', y) = {}
          /\ x \in (T \ Subtrees(mem, K)) \cup N
      BY <1>2, <2>1, <2>2, <2>5, <2>7, <2>8, <2>9
    <3> HIDE DEF N, K, p
    <3> QED BY <1>1, <2>5, <3>1, Grafted
  <2> HIDE DEF x
  <2> QED BY <1>1, <2>1, <2>8, <2>9, <2>10 DEF x
<1> QED BY <1>3, <1>4

(* A new game on the old tree, or on a new one. *)
LEMMA BeginGameStep ==
  ASSUME Whole, NEW fen, BeginGame(fen)
  PROVE  /\ Whole' /\ root' # NoNode
         /\ SameStart(fen) => root # NoNode /\ head' = root /\ mem' = mem
         /\ ~SameStart(fen) => /\ Subtrees(mem', {head'}) = {head'}
                               /\ VisitsOK(mem', head')
<1>1. CASE SameStart(fen)
  <2>1. root # NoNode /\ UNCHANGED <<mem, root, gc>> /\ head' = root
    BY <1>1 DEF BeginGame, SameStart
  <2>2. Memory(mem) /\ QueueOK(gc, InTree) /\ Forest(mem, root) /\ root \in Addresses
        /\ KidsOK(mem)
    BY <2>1, HeadFacts
  <2>3. root \in Subtrees(mem, {root})
    BY <2>2, Below
  <2>4. InTree' = InTree
    BY <2>1 DEF InTree
  <2>5. Whole'
    BY <2>1, <2>2, <2>3, <2>4, WholePrimed
  <2> QED BY <1>1, <2>1, <2>5
<1>2. CASE ~SameStart(fen)
  <2>1. PICK x \in Free : root' = x /\ head' = x /\ mem' = Put(mem, x, BareNode)
    BY <1>2 DEF BeginGame, Put
  <2>2. gc' = Deallocated(gc) /\ Memory(mem) /\ KidsOK(mem) /\ QueueOK(gc, InTree)
    BY <1>2, MemoryFacts DEF BeginGame, Whole
  <2>3. x \in Addresses /\ x \notin InTree /\ \A i \in DOMAIN gc : x \notin gc[i]
    BY DEF Free, Range
  <2>4. Memory(mem') /\ mem'[x] = BareNode
    <3> DEFINE b == BareNode
    <3>1. b \in Node(b.of) /\ DOMAIN b.kids \subseteq b.edges
      BY BareFacts
    <3> HIDE DEF b
    <3>2. mem' = Put(mem, x, b)
      BY <2>1 DEF b
    <3>3. Memory(mem') /\ mem'[x] = b
      BY <2>2, <2>3, <3>1, <3>2, NodeAdded
    <3> QED BY <3>3 DEF b
  <2>5. Kids(mem', x) = {} /\ Subtrees(mem', {x}) = {x} /\ VisitsOK(mem', x)
    BY <2>3, <2>4, BareVisits
  <2>6. QueueOK(gc', {x})
    <3>1. CASE root = NoNode
      BY <2>2, <2>3, <3>1 DEF Deallocated, QueueOK
    <3>2. CASE root # NoNode
      <4>1. root \in Addresses /\ InTree = Subtrees(mem, {root})
        BY <3>2, HeadFacts
      <4>2. gc' = Queued(gc, mem, {root})
        BY <2>2, <3>2 DEF Deallocated
      <4> DEFINE K == {root}
                 T2 == {x}
      <4>3. /\ K \in SUBSET Addresses /\ Subtrees(mem, K) \subseteq InTree
            /\ T2 \cap Subtrees(mem, K) = {}
            /\ \A i \in DOMAIN gc : gc[i] \cap T2 = {}
        BY <2>3, <4>1
      <4> HIDE DEF K, T2
      <4>4. QueueOK(Queued(gc, mem, K), T2)
        BY <2>2, <4>3, QueuedOK
      <4> QED BY <4>2, <4>4 DEF K, T2
    <3> QED BY <3>1, <3>2
  <2>7. root' # NoNode
    BY <2>1, <2>3, MemoryAssumption
  <2>8. InTree' = {x}
    BY <2>1, <2>5, <2>7 DEF InTree
  <2>9. Forest(mem', x)
    BY <2>3, <2>5 DEF Forest
  <2>10. Whole'
    BY <2>1, <2>4, <2>5, <2>6, <2>7, <2>8, <2>9, WholePrimed
  <2> QED BY <1>2, <2>1, <2>5, <2>7, <2>10
<1> QED BY <1>1, <1>2

LEMMA DeallocateTreeStep ==
  ASSUME Whole, DeallocateTree
  PROVE  Whole' /\ root' = NoNode
<1>1. /\ root' = NoNode /\ head' = NoNode /\ mem' = mem /\ gc' = Deallocated(gc)
      /\ Memory(mem) /\ KidsOK(mem) /\ QueueOK(gc, InTree)
  BY MemoryFacts DEF DeallocateTree, Whole
<1>2. QueueOK(gc', {})
  <2>1. CASE root = NoNode
    BY <1>1, <2>1 DEF Deallocated, QueueOK
  <2>2. CASE root # NoNode
    <3>1. root \in Addresses /\ InTree = Subtrees(mem, {root})
      BY <2>2, HeadFacts
    <3>2. gc' = Queued(gc, mem, {root})
      BY <1>1, <2>2 DEF Deallocated
    <3> DEFINE K == {root}
               T2 == {}
    <3>3. /\ K \in SUBSET Addresses /\ Subtrees(mem, K) \subseteq InTree
          /\ T2 \cap Subtrees(mem, K) = {}
          /\ \A i \in DOMAIN gc : gc[i] \cap T2 = {}
      BY <3>1
    <3> HIDE DEF K, T2
    <3>4. QueueOK(Queued(gc, mem, K), T2)
      BY <1>1, <3>3, QueuedOK
    <3> QED BY <3>2, <3>4 DEF K, T2
  <2> QED BY <2>1, <2>2
<1>3. InTree' = {}
  BY <1>1 DEF InTree
<1> QED BY <1>1, <1>2, <1>3, WholePrimed

LEMMA ReleaseChildrenStep ==
  ASSUME Whole, root # NoNode, NEW move, ReleaseChildren(move)
  PROVE  Whole' /\ root' = root /\ Kids(mem', head') = {}
<1> DEFINE s == [mem[head] EXCEPT !.kids = <<>>]
           K == Kids(mem, head)
           N == {}
           p == head
<1>1. /\ mem' = Put(mem, head, s) /\ gc' = Queued(gc, mem, K)
      /\ root' = root /\ head' = head
  BY DEF ReleaseChildren, Put
<1>2. /\ Memory(mem) /\ KidsOK(mem) /\ head \in Addresses /\ head \in InTree
      /\ InTree \in SUBSET Addresses /\ Forest(mem, root)
      /\ InTree = Subtrees(mem, {root})
  BY HeadFacts
<1>3. s \in Node(s.of) /\ s.kids = <<>>
  <2> DEFINE r == mem[head]
             f == <<>>
             D == {}
  <2>1. r \in Node(r.of) /\ f \in [D -> Addresses] /\ D \in SUBSET Moves
    BY <1>2 DEF Memory
  <2> HIDE DEF r, f, D
  <2>2. LET t == [r EXCEPT !.kids = f] IN t \in Node(t.of) /\ t.kids = f
    BY <2>1, KidsChanged
  <2> QED BY <2>2 DEF r, f
<1> HIDE DEF s
<1>4. DOMAIN s.kids \subseteq s.edges
  BY <1>3, BareFacts
<1>5. Memory(mem') /\ mem'[head] = s
      /\ \A y \in Addresses \ {head} : mem'[y] = mem[y]
  BY <1>1, <1>2, <1>3, <1>4, NodeAdded
<1>6. /\ Kids(mem', head) = {}
      /\ \A y \in Addresses \ {head} : Kids(mem', y) = Kids(mem, y)
  BY <1>3, <1>5, BareFacts DEF Kids
<1>7. head \notin Subtrees(mem, K)
  BY <1>2, Acyclic
<1>8. /\ K \in SUBSET Kids(mem, p) /\ N \in SUBSET Free /\ p \in InTree
      /\ Kids(mem', p) = (Kids(mem, p) \ K) \cup N
      /\ \A y \in InTree \ {p} : Kids(mem', y) = Kids(mem, y)
      /\ \A y \in N : Kids(mem', y) = {}
      /\ head' \in (InTree \ Subtrees(mem, K)) \cup N
  BY <1>1, <1>2, <1>6, <1>7
<1> HIDE DEF N, K, p
<1>9. Whole'
  BY <1>1, <1>5, <1>8, Grafted
<1> QED BY <1>1, <1>6, <1>9

LEMMA CreateSingleChildNodeStep ==
  ASSUME Whole, root # NoNode, NEW move \in Moves, CreateSingleChildNode(move),
         Kids(mem, head) = {}
  PROVE  /\ Whole' /\ root' = root
         /\ Subtrees(mem', {head'}) = {head'} /\ VisitsOK(mem', head')
<1> DEFINE x == head'
           f == [k \in {move} |-> x]
           r == mem[head]
           s == [r EXCEPT !.edges = {move}, !.kids = f]
           K == {}
           N == {x}
           p == head
<1>1. /\ x \in Free /\ root' = root /\ gc' = gc
      /\ mem' = [mem EXCEPT ![x] = BareNode, ![head].edges = {move}, ![head].kids = f]
  BY DEF CreateSingleChildNode
<1>2. /\ Memory(mem) /\ KidsOK(mem) /\ head \in Addresses /\ head \in InTree
      /\ x \in Addresses /\ x \notin InTree /\ x # head
      /\ InTree \in SUBSET Addresses
  BY <1>1, HeadFacts
<1>3. s \in Node(s.of) /\ s.kids = f /\ s.edges = {move}
  <2>1. r \in Node(r.of) /\ f \in [{move} -> Addresses] /\ {move} \in SUBSET Moves
    BY <1>2 DEF Memory
  <2>2. f \in UNION {[D -> Addresses] : D \in SUBSET Moves}
    BY <2>1
  <2> HIDE DEF r, f
  <2>3. s \in Node(r.of) /\ s.kids = f /\ s.edges = {move} /\ s.of = r.of
    BY <2>1, <2>2 DEF Node
  <2> QED BY <2>3
<1>4. /\ mem' = [y \in Addresses |-> mem'[y]] /\ mem'[x] = BareNode /\ mem'[head] = s
      /\ \A y \in Addresses \ {head, x} : mem'[y] = mem[y]
  <2>1. mem = [y \in Addresses |-> mem[y]]
    BY <1>2 DEF Memory
  <2> HIDE DEF f, x
  <2> QED BY <1>1, <1>2, <2>1
<1>5. DOMAIN f = {move} /\ Range(f) = {x}
  BY DEF Range
<1> HIDE DEF s, f
<1>6. Memory(mem')
  <2>1. DOMAIN s.kids \subseteq s.edges
    BY <1>3, <1>5
  <2>2. /\ BareNode \in Node(BareNode.of)
        /\ DOMAIN BareNode.kids \subseteq BareNode.edges
    BY BareFacts
  <2> QED BY <1>2, <1>3, <1>4, <2>1, <2>2, MemoryChanged
<1>7. Kids(mem', x) = {} /\ Subtrees(mem', {x}) = {x} /\ VisitsOK(mem', x)
  BY <1>2, <1>4, <1>6, BareVisits
<1>8. /\ Kids(mem', head) = {x}
      /\ \A y \in Addresses \ {head, x} : Kids(mem', y) = Kids(mem, y)
  BY <1>3, <1>4, <1>5 DEF Kids
<1>9. /\ K \in SUBSET Kids(mem, p) /\ N \in SUBSET Free /\ p \in InTree
      /\ Kids(mem', p) = (Kids(mem, p) \ K) \cup N
      /\ \A y \in InTree \ {p} : Kids(mem', y) = Kids(mem, y)
      /\ \A y \in N : Kids(mem', y) = {}
      /\ x \in (InTree \ Subtrees(mem, K)) \cup N
      /\ gc' = Queued(gc, mem, K)
  BY <1>1, <1>2, <1>7, <1>8 DEF Queued
<1> HIDE DEF N, K, p
<1>10. Whole'
  BY <1>1, <1>6, <1>9, Grafted
<1> QED BY <1>1, <1>7, <1>10

LEMMA TrimTreeAtHeadStep ==
  ASSUME Whole, root # NoNode, TrimTreeAtHead
  PROVE  /\ Whole' /\ root' = root /\ head' = head /\ VisitsOK(mem', head')
<1> DEFINE s == BareNode
           K == Kids(mem, head)
           N == {}
           p == head
<1>1. /\ mem' = Put(mem, head, s) /\ gc' = Queued(gc, mem, K)
      /\ root' = root /\ head' = head
  BY DEF TrimTreeAtHead, Put
<1>2. /\ Memory(mem) /\ KidsOK(mem) /\ head \in Addresses /\ head \in InTree
      /\ InTree \in SUBSET Addresses /\ Forest(mem, root)
      /\ InTree = Subtrees(mem, {root})
  BY HeadFacts
<1>3. s \in Node(s.of) /\ DOMAIN s.kids \subseteq s.edges
  BY BareFacts
<1> HIDE DEF s
<1>4. Memory(mem') /\ mem'[head] = s
      /\ \A y \in Addresses \ {head} : mem'[y] = mem[y]
  BY <1>1, <1>2, <1>3, NodeAdded
<1>5. Kids(mem', head) = {} /\ VisitsOK(mem', head)
  BY <1>2, <1>4, BareVisits DEF s
<1>6. \A y \in Addresses \ {head} : Kids(mem', y) = Kids(mem, y)
  BY <1>4 DEF Kids
<1>7. head \notin Subtrees(mem, K)
  BY <1>2, Acyclic
<1>8. /\ K \in SUBSET Kids(mem, p) /\ N \in SUBSET Free /\ p \in InTree
      /\ Kids(mem', p) = (Kids(mem, p) \ K) \cup N
      /\ \A y \in InTree \ {p} : Kids(mem', y) = Kids(mem, y)
      /\ \A y \in N : Kids(mem', y) = {}
      /\ head' \in (InTree \ Subtrees(mem, K)) \cup N
  BY <1>1, <1>2, <1>5, <1>6, <1>7
<1> HIDE DEF N, K, p
<1>9. Whole'
  BY <1>1, <1>4, <1>8, Grafted
<1> QED BY <1>1, <1>5, <1>9

-----------------------------------------------------------------------------
(* The playouts of a search. *)

LEMMA NothingBelow == ASSUME NEW m PROVE Subtrees(m, {}) = {}
<1> DEFINE C == {}
<1>1. C \in SUBSET Addresses /\ \A y \in C : Kids(m, y) \subseteq C
  OBVIOUS
<1> HIDE DEF C
<1>2. Subtrees(m, C) \subseteq C
  BY <1>1, SubtreesLeast
<1> QED BY <1>2 DEF C

LEMMA CountedFacts ==
  ASSUME NEW m, Memory(m), NEW xs, NEW m2, m2 = Counted(m, xs)
  PROVE  /\ Memory(m2)
         /\ \A y \in Addresses :
              /\ Kids(m2, y) = Kids(m, y) /\ m2[y].kids = m[y].kids
              /\ m2[y].edges = m[y].edges
              /\ m2[y].terminal = m[y].terminal
              /\ m2[y].n = IF y \in xs THEN m[y].n + 1 ELSE m[y].n
              /\ m2[y] \in Node(m2[y].of)
<1>1. m2 = [y \in Addresses |-> m2[y]]
      /\ \A y \in Addresses :
           m2[y] = IF y \in xs THEN [m[y] EXCEPT !.n = m[y].n + 1] ELSE m[y]
  BY DEF Counted
<1>2. ASSUME NEW y \in Addresses
      PROVE  /\ m2[y] \in Node(m2[y].of) /\ m2[y].kids = m[y].kids
             /\ m2[y].edges = m[y].edges /\ m2[y].terminal = m[y].terminal
             /\ m2[y].n = IF y \in xs THEN m[y].n + 1 ELSE m[y].n
  <2>1. m[y] \in Node(m[y].of)
    BY DEF Memory
  <2>2. CASE y \in xs
    <3> DEFINE r == m[y]
               v == r.n + 1
    <3>1. r \in Node(r.of) /\ v \in Nat
      BY <2>1, MemoryFacts
    <3>2. m2[y] = [r EXCEPT !.n = v]
      BY <1>1, <2>2
    <3> HIDE DEF r, v
    <3>3. /\ m2[y] \in Node(r.of) /\ m2[y].of = r.of /\ m2[y].kids = r.kids
          /\ m2[y].edges = r.edges /\ m2[y].n = v /\ m2[y].terminal = r.terminal
      BY <3>1, <3>2 DEF Node
    <3> QED BY <2>2, <3>3 DEF r, v
  <2>3. CASE y \notin xs
    <3>1. m2[y] = m[y]
      BY <1>1, <2>3
    <3> QED BY <2>1, <2>3, <3>1
  <2> QED BY <2>2, <2>3
<1>3. \A y \in Addresses : DOMAIN m2[y].kids \subseteq m2[y].edges
  BY <1>2 DEF Memory
<1>4. Memory(m2)
  BY <1>1, <1>2, <1>3 DEF Memory
<1>5. \A y \in Addresses : Kids(m2, y) = Kids(m, y)
  BY <1>2 DEF Kids
<1> QED BY <1>2, <1>4, <1>5

LEMMA SameShape ==
  ASSUME Whole, root # NoNode, Memory(mem'), UNCHANGED <<root, head, gc>>,
         \A y \in InTree : Kids(mem', y) = Kids(mem, y)
  PROVE  /\ Whole' /\ Subtrees(mem', {head}) = Subtrees(mem, {head})
         /\ Subtrees(mem, {head}) \in SUBSET Addresses
<1> DEFINE K == {}
           N == {}
           p == head
<1>1. /\ KidsOK(mem) /\ head \in Addresses /\ head \in InTree
      /\ Subtrees(mem, {head}) \subseteq InTree /\ InTree \in SUBSET Addresses
  BY HeadFacts
<1>2. Subtrees(mem, K) = {}
  BY NothingBelow
<1>3. /\ K \in SUBSET Kids(mem, p) /\ N \in SUBSET Free /\ p \in InTree
      /\ Kids(mem', p) = (Kids(mem, p) \ K) \cup N
      /\ \A y \in InTree \ {p} : Kids(mem', y) = Kids(mem, y)
      /\ \A y \in N : Kids(mem', y) = {}
      /\ head' \in (InTree \ Subtrees(mem, K)) \cup N
      /\ gc' = Queued(gc, mem, K)
  BY <1>1, <1>2 DEF Queued
<1>4. Subtrees(mem', {p}) = Subtrees(mem, {p})
  <2> DEFINE S == {p}
             m2 == mem'
  <2>1. /\ S \in SUBSET Addresses /\ KidsOK(m2)
        /\ \A y \in Subtrees(mem, S) : Kids(m2, y) = Kids(mem, y)
    BY <1>1, MemoryFacts
  <2> HIDE DEF S, m2
  <2>2. Subtrees(m2, S) = Subtrees(mem, S)
    BY <1>1, <2>1, SubtreesSame
  <2> QED BY <2>2 DEF S, m2
<1> HIDE DEF N, K, p
<1>5. Whole'
  BY <1>3, Grafted
<1> QED BY <1>1, <1>4, <1>5 DEF p

LEMMA VisitHeadStep ==
  ASSUME Whole, root # NoNode, VisitHead
  PROVE  Whole' /\ VisitsOK(mem', head)
<1>1. /\ mem[head].edges = {} /\ UNCHANGED <<root, head, gc>>
  BY DEF VisitHead
<1>2. PICK es \in SUBSET Moves :
        mem' = [mem EXCEPT ![head] = [BareNode EXCEPT !.edges = es, !.n = 1,
                                                      !.of = history]]
  BY DEF VisitHead
<1> DEFINE s == [BareNode EXCEPT !.edges = es, !.n = 1, !.of = history]
<1>3. /\ s \in Node(s.of) /\ s.kids = <<>> /\ s.edges = es
      /\ s.n = 1 /\ ~s.terminal
  <2>1. s = Visited(es, history)
    BY DEF Visited
  <2> HIDE DEF s
  <2> QED BY <2>1, VisitedFacts
<1>4. mem' = Put(mem, head, s)
  BY <1>2 DEF Put
<1> HIDE DEF s
<1>5. /\ Memory(mem) /\ KidsOK(mem) /\ head \in Addresses /\ head \in InTree
      /\ InTree \in SUBSET Addresses
  BY HeadFacts
<1>6. Kids(mem, head) = {}
  BY <1>1, <1>5, MemoryFacts
<1>7. DOMAIN s.kids \subseteq s.edges
  BY <1>3, BareFacts
<1>8. /\ Memory(mem') /\ mem'[head] = s
      /\ \A y \in Addresses \ {head} : mem'[y] = mem[y]
  BY <1>3, <1>4, <1>5, <1>7, NodeAdded
<1>9. /\ Kids(mem', head) = {}
      /\ \A y \in Addresses \ {head} : Kids(mem', y) = Kids(mem, y)
  BY <1>3, <1>8, BareFacts DEF Kids
<1>10. Whole'
  BY <1>1, <1>5, <1>6, <1>8, <1>9, SameShape
<1>11. Subtrees(mem', {head}) \subseteq {head}
  <2> DEFINE C == {head}
             m2 == mem'
  <2>1. C \in SUBSET Addresses /\ \A y \in C : Kids(m2, y) \subseteq C
    BY <1>5, <1>9
  <2> HIDE DEF C, m2
  <2>2. Subtrees(m2, C) \subseteq C
    BY <2>1, SubtreesLeast
  <2> QED BY <2>2 DEF C, m2
<1>12. ChildVisits(mem', head) = 0
  BY <1>5, <1>8, <1>9, ChildVisitsFacts
<1>13. CountOK(mem', head)
  BY <1>3, <1>8, <1>12 DEF CountOK
<1> QED BY <1>10, <1>11, <1>13 DEF VisitsOK

LEMMA VisitTerminalStep ==
  ASSUME Whole, root # NoNode, VisitsOK(mem, head), VisitTerminal
  PROVE  Whole' /\ VisitsOK(mem', head)
<1>1. PICK x \in Subtrees(mem, {head}) :
        /\ mem[x].terminal /\ mem' = Counted(mem, Path(x))
        /\ UNCHANGED <<root, head, gc>>
  BY DEF VisitTerminal
<1>2. /\ Memory(mem) /\ KidsOK(mem) /\ head \in Addresses /\ Forest(mem, head)
      /\ InTree \in SUBSET Addresses /\ Subtrees(mem, {head}) \subseteq InTree
  BY HeadFacts
<1> DEFINE P == Path(x)
<1>3. /\ Memory(mem')
      /\ \A y \in Addresses :
           /\ Kids(mem', y) = Kids(mem, y)
           /\ mem'[y].terminal = mem[y].terminal
           /\ mem'[y].n = IF y \in P THEN mem[y].n + 1 ELSE mem[y].n
  BY <1>1, <1>2, CountedFacts
<1>4. Whole' /\ Subtrees(mem', {head}) = Subtrees(mem, {head})
  BY <1>1, <1>2, <1>3, SameShape
<1>5. x \in Addresses /\ CountOK(mem, x)
  BY <1>2 DEF VisitsOK
<1>6. ChildVisits(mem, x) \in Nat /\ mem[x].n \in Nat
  BY <1>2, <1>5, ChildVisitsFacts, MemoryFacts
<1>7. mem[x].n > 0 /\ mem[x].n >= 1 + ChildVisits(mem, x)
  BY <1>1, <1>5, <1>6 DEF CountOK
<1>8. CountedAt(mem, mem', Subtrees(mem, {head}), x, P)
  <2>1. /\ P \subseteq Subtrees(mem, {head})
        /\ \A y \in Subtrees(mem, {head}) : y \in P <=> x \in Subtrees(mem, {y})
    BY DEF Path
  <2> HIDE DEF P
  <2> QED BY <1>2, <1>3, <2>1 DEF CountedAt
<1> HIDE DEF P
<1>9. /\ \A y \in Subtrees(mem, {head}) \ {x} : CountOK(mem', y)
      /\ x \in P /\ ChildVisits(mem', x) = ChildVisits(mem, x)
  <2> DEFINE m == mem
             m2 == mem'
             h == head
  <2>1. CountedAt(m, m2, Subtrees(m, {h}), x, P)
    BY <1>8
  <2>2. /\ Memory(m) /\ Memory(m2) /\ Forest(m, h) /\ VisitsOK(m, h)
        /\ x \in Subtrees(m, {h}) /\ m[x].n > 0
    BY <1>2, <1>3, <1>7
  <2> HIDE DEF m, m2, h
  <2>3. /\ \A y \in Subtrees(m, {h}) \ {x} : CountOK(m2, y)
        /\ x \in P /\ ChildVisits(m2, x) = ChildVisits(m, x)
    BY <2>1, <2>2, Counting
  <2> QED BY <2>3 DEF m, m2, h
<1>10. CountOK(mem', x)
  <2>1. mem'[x].terminal /\ mem'[x].n = mem[x].n + 1
    BY <1>1, <1>3, <1>5, <1>9
  <2> QED BY <1>6, <1>7, <1>9, <2>1 DEF CountOK
<1> QED BY <1>4, <1>9, <1>10 DEF VisitsOK

LEMMA ConvertToTerminalStep ==
  ASSUME Whole, root # NoNode, VisitsOK(mem, head), ConvertToTerminal
  PROVE  Whole' /\ VisitsOK(mem', head)
<1>1. PICK x \in Subtrees(mem, {head}) :
        /\ mem[x].n > 1 /\ ~mem[x].terminal
        /\ mem' = [mem EXCEPT ![x].terminal = TRUE]
        /\ UNCHANGED <<root, head, gc>>
  BY DEF ConvertToTerminal
<1>2. /\ Memory(mem) /\ KidsOK(mem) /\ head \in Addresses /\ Forest(mem, head)
      /\ InTree \in SUBSET Addresses /\ Subtrees(mem, {head}) \subseteq InTree
  BY HeadFacts
<1> DEFINE r == mem[x]
           s == [r EXCEPT !.terminal = TRUE]
<1>3. x \in Addresses /\ mem' = Put(mem, x, s)
  BY <1>1, <1>2 DEF Put
<1>4. /\ s \in Node(s.of) /\ s.kids = r.kids /\ s.edges = r.edges
      /\ s.n = r.n /\ s.terminal
  <2>1. r \in Node(r.of) /\ r.n \in Nat
    BY <1>2, <1>3, MemoryFacts DEF Memory
  <2> HIDE DEF r
  <2>2. /\ s \in Node(r.of) /\ s.kids = r.kids /\ s.edges = r.edges
        /\ s.n = r.n /\ s.terminal = TRUE /\ s.of = r.of
    BY <2>1 DEF Node
  <2> QED BY <2>2
<1> HIDE DEF s
<1>5. DOMAIN s.kids \subseteq s.edges
  BY <1>2, <1>3, <1>4 DEF Memory
<1>6. /\ Memory(mem') /\ mem'[x] = s
      /\ \A y \in Addresses \ {x} : mem'[y] = mem[y]
  BY <1>2, <1>3, <1>4, <1>5, NodeAdded
<1>7. \A y \in Addresses :
         /\ mem'[y].n = mem[y].n /\ mem'[y].kids = mem[y].kids
         /\ Kids(mem', y) = Kids(mem, y)
  BY <1>4, <1>6 DEF Kids
<1>8. Whole' /\ Subtrees(mem', {head}) = Subtrees(mem, {head})
  BY <1>1, <1>2, <1>6, <1>7, SameShape
<1>9. \A y \in Addresses : ChildVisits(mem', y) = ChildVisits(mem, y)
  <2> SUFFICES ASSUME NEW y \in Addresses
               PROVE  ChildVisits(mem', y) = ChildVisits(mem, y)
    OBVIOUS
  <2>1. \A k \in Kids(mem, y) : mem'[k].n = mem[k].n
    BY <1>2, <1>7 DEF KidsOK
  <2> QED BY <1>2, <1>6, <1>7, <2>1, ChildVisitsSame
<1>10. ASSUME NEW y \in Subtrees(mem, {head}) PROVE CountOK(mem', y)
  <2>1. y \in Addresses /\ CountOK(mem, y)
    BY <1>2 DEF VisitsOK
  <2>2. CASE y # x
    <3>1. mem'[y] = mem[y]
      BY <1>6, <2>1, <2>2
    <3> QED BY <1>9, <2>1, <3>1 DEF CountOK
  <2>3. CASE y = x
    <3>1. mem'[y].terminal /\ mem'[y].n = mem[y].n /\ mem[y].n > 1 /\ ~mem[y].terminal
      BY <1>1, <1>4, <1>6, <2>3
    <3>2. ChildVisits(mem, y) \in Nat /\ mem[y].n \in Nat
      BY <1>2, <2>1, ChildVisitsFacts, MemoryFacts
    <3> QED BY <1>9, <2>1, <3>1, <3>2 DEF CountOK
  <2> QED BY <2>2, <2>3
<1> QED BY <1>8, <1>10 DEF VisitsOK

LEMMA VisitChildStep ==
  ASSUME Whole, root # NoNode, VisitsOK(mem, head), VisitChild
  PROVE  Whole' /\ VisitsOK(mem', head) /\ UNCHANGED <<root, head>>
<1> DEFINE B == Subtrees(mem, {head})
           m == mem
<1>1. PICK p \in B :
        /\ mem[p].n > 0 /\ ~mem[p].terminal
        /\ UNCHANGED <<root, head, gc>>
        /\ \E k \in mem[p].edges \ DOMAIN mem[p].kids :
             LET counted == Counted(mem, Path(p))
                 pos == [history EXCEPT !.moves = @ \o Append(MovesTo(p), k)]
             IN \E x \in Free, es \in SUBSET Moves :
                  mem' = [counted EXCEPT
                     ![p].kids = [j \in DOMAIN @ \cup {k} |-> IF j = k THEN x ELSE @[j]],
                     ![x] = [BareNode EXCEPT !.edges = es, !.terminal = (es = {}), !.n = 1,
                                             !.of = pos]]
  BY DEF VisitChild
<1> DEFINE P == Path(p)
           counted == Counted(mem, P)
<1>0. PICK k \in mem[p].edges \ DOMAIN mem[p].kids :
        LET pos == [history EXCEPT !.moves = @ \o Append(MovesTo(p), k)]
        IN \E x \in Free, es \in SUBSET Moves :
             mem' = [counted EXCEPT
                ![p].kids = [j \in DOMAIN @ \cup {k} |-> IF j = k THEN x ELSE @[j]],
                ![x] = [BareNode EXCEPT !.edges = es, !.terminal = (es = {}), !.n = 1,
                                        !.of = pos]]
  BY <1>1
<1> DEFINE of == [history EXCEPT !.moves = @ \o Append(MovesTo(p), k)]
<1>2. PICK x \in Free, es \in SUBSET Moves :
        mem' = [counted EXCEPT
                  ![p].kids = [j \in DOMAIN @ \cup {k} |-> IF j = k THEN x ELSE @[j]],
                  ![x] = [BareNode EXCEPT !.edges = es, !.terminal = (es = {}), !.n = 1,
                                          !.of = of]]
  BY <1>0
<1> HIDE DEF of
<1> DEFINE s == ExtendedBy(es, of)
           f == [j \in DOMAIN counted[p].kids \cup {k} |->
                   IF j = k THEN x ELSE counted[p].kids[j]]
           t == [counted[p] EXCEPT !.kids = f]
<1>3. /\ Memory(mem) /\ KidsOK(mem) /\ head \in Addresses /\ Forest(mem, head)
      /\ InTree \in SUBSET Addresses /\ B \subseteq InTree
      /\ \A y \in InTree : Kids(mem, y) \subseteq InTree
      /\ x \in Addresses /\ x \notin InTree
  BY HeadFacts
<1>4. p \in Addresses /\ p \in InTree /\ x # p
  BY <1>3
<1>5. /\ Memory(counted)
      /\ \A y \in Addresses :
           /\ Kids(counted, y) = Kids(mem, y) /\ counted[y].kids = mem[y].kids
           /\ counted[y].edges = mem[y].edges
           /\ counted[y].terminal = mem[y].terminal
           /\ counted[y].n = IF y \in P THEN mem[y].n + 1 ELSE mem[y].n
           /\ counted[y] \in Node(counted[y].of)
  <2> HIDE DEF P
  <2> QED BY <1>3, CountedFacts
<1>6. s \in Node(s.of) /\ s.kids = <<>> /\ s.n = 1
      /\ DOMAIN s.kids \subseteq s.edges
  BY VisitedFacts, BareFacts
<1>7. /\ mem' = [y \in Addresses |-> mem'[y]] /\ mem'[x] = s /\ mem'[p] = t
      /\ \A y \in Addresses \ {p, x} : mem'[y] = counted[y]
  <2>1. counted = [y \in Addresses |-> counted[y]]
    BY <1>5 DEF Memory
  <2>2. mem' = [counted EXCEPT ![p].kids = f, ![x] = s]
    <3> HIDE DEF counted
    <3> QED BY <1>2 DEF ExtendedBy
  <2> HIDE DEF counted, f, s
  <2> QED BY <1>3, <1>4, <2>1, <2>2
<1>8. /\ f \in UNION {[D -> Addresses] : D \in SUBSET Moves}
      /\ DOMAIN f = DOMAIN mem[p].kids \cup {k} /\ Range(f) = Kids(mem, p) \cup {x}
  <2>1. /\ mem[p].kids \in UNION {[D -> Addresses] : D \in SUBSET Moves}
        /\ k \in Moves /\ k \notin DOMAIN mem[p].kids
    BY <1>3, <1>4 DEF Memory, Node
  <2> DEFINE g == mem[p].kids
  <2>2. f = [j \in DOMAIN g \cup {k} |-> IF j = k THEN x ELSE g[j]]
    <3>1. counted[p].kids = g
      BY <1>4, <1>5
    <3> HIDE DEF counted, g
    <3> QED BY <3>1
  <2>3. PICK D \in SUBSET Moves : g \in [D -> Addresses]
    BY <2>1
  <2>4. Kids(mem, p) = Range(g)
    BY DEF Kids
  <2>5. k \notin DOMAIN g /\ k \in Moves
    BY <2>1
  <2> HIDE DEF f, g
  <2>6. DOMAIN f = D \cup {k} /\ D \cup {k} \in SUBSET Moves /\ DOMAIN g = D
        /\ f \in [D \cup {k} -> Addresses]
    BY <1>3, <2>2, <2>3, <2>5
  <2>7. Range(f) = Range(g) \cup {x}
    <3>1. /\ \A j \in D : f[j] = g[j]
          /\ f[k] = x
      BY <2>2, <2>3, <2>5
    <3> QED BY <2>6, <3>1 DEF Range
  <2>8. f \in UNION {[E -> Addresses] : E \in SUBSET Moves}
    BY <2>6
  <2> QED BY <2>4, <2>6, <2>7, <2>8 DEF g
<1>9. /\ t \in Node(t.of) /\ t.kids = f /\ t.edges = mem[p].edges
      /\ t.n = counted[p].n /\ t.terminal = mem[p].terminal
  <2> DEFINE r == counted[p]
  <2>1. r \in Node(r.of) /\ r.edges = mem[p].edges /\ r.terminal = mem[p].terminal
    BY <1>4, <1>5
  <2> HIDE DEF r, f
  <2>2. /\ t \in Node(r.of) /\ t.of = r.of /\ t.kids = f /\ t.edges = r.edges
        /\ t.n = r.n /\ t.terminal = r.terminal
    <3> USE DEF r
    <3>1. t = [r EXCEPT !.kids = f]
      OBVIOUS
    <3> HIDE DEF r, t
    <3> QED BY <1>8, <2>1, <3>1 DEF Node
  <2> QED BY <2>1, <2>2 DEF r
<1> HIDE DEF s, t, f, counted, P
<1>10. Memory(mem')
  <2>1. DOMAIN t.kids \subseteq t.edges
    BY <1>3, <1>4, <1>8, <1>9 DEF Memory
  <2>2. \A y \in Addresses :
          counted[y] \in Node(counted[y].of)
            /\ DOMAIN counted[y].kids \subseteq counted[y].edges
    BY <1>5 DEF Memory
  <2>3. \A y \in Addresses :
          mem'[y] \in Node(mem'[y].of) /\ DOMAIN mem'[y].kids \subseteq mem'[y].edges
    BY <1>6, <1>7, <1>9, <2>1, <2>2
  <2> QED BY <1>3, <1>7, <2>3, MemoryChanged
<1>11. /\ Kids(mem', x) = {} /\ Kids(mem', p) = Kids(mem, p) \cup {x}
       /\ \A y \in Addresses \ {p, x} : Kids(mem', y) = Kids(mem, y)
       /\ \A y \in Addresses \ {x} : /\ mem'[y].n = counted[y].n
                                    /\ mem'[y].terminal = mem[y].terminal
       /\ mem'[x].n = 1
  <2>1. Kids(mem', x) = {} /\ mem'[x].n = 1
    BY <1>6, <1>7, BareFacts DEF Kids
  <2>2. Kids(mem', p) = Kids(mem, p) \cup {x}
    BY <1>7, <1>8, <1>9 DEF Kids
  <2>3. \A y \in Addresses \ {p, x} : Kids(mem', y) = Kids(counted, y)
    BY <1>7 DEF Kids
  <2>4. \A y \in Addresses \ {x} : /\ mem'[y].n = counted[y].n
                                   /\ mem'[y].terminal = mem[y].terminal
    BY <1>4, <1>5, <1>7, <1>9
  <2> QED BY <1>5, <2>1, <2>2, <2>3, <2>4
<1>12. Whole'
  <2> DEFINE K == {}
             N == {x}
  <2>1. Subtrees(mem, K) = {}
    BY NothingBelow
  <2>2. /\ K \in SUBSET Kids(mem, p) /\ N \in SUBSET Free
        /\ Kids(mem', p) = (Kids(mem, p) \ K) \cup N
        /\ \A y \in InTree \ {p} : Kids(mem', y) = Kids(mem, y)
        /\ \A y \in N : Kids(mem', y) = {}
        /\ head' \in (InTree \ Subtrees(mem, K)) \cup N
        /\ gc' = Queued(gc, mem, K)
    BY <1>1, <1>3, <1>11, <2>1, HeadFacts DEF Queued
  <2> HIDE DEF N, K
  <2> QED BY <1>1, <1>4, <1>10, <2>2, Grafted
<1>13. Subtrees(mem', {head}) = B \cup {x}
  <2> DEFINE K == {}
             N == {x}
             m2 == mem'
             r == head
  <2>1. Subtrees(m, K) = {}
    BY NothingBelow
  <2>2. Rewire(m, m2, Subtrees(m, {r}), p, K, N)
    BY <1>3, <1>11 DEF Rewire
  <2>3. KidsOK(m) /\ KidsOK(m2) /\ Forest(m, r)
    BY <1>3, <1>10, MemoryFacts
  <2> HIDE DEF K, N, m2, r, m
  <2>4. Subtrees(m2, {r}) = (Subtrees(m, {r}) \ Subtrees(m, K)) \cup N
    BY <2>2, <2>3, Rewired
  <2> QED BY <2>1, <2>4 DEF N, m2, r, m
<1>14. CountedAt(mem, counted, B, p, P)
  <2>1. /\ P \subseteq B
        /\ \A y \in B : y \in P <=> p \in Subtrees(mem, {y})
    BY DEF Path, P
  <2> QED BY <1>3, <1>5, <2>1 DEF CountedAt
<1>15. /\ \A y \in B \ {p} : CountOK(counted, y)
       /\ p \in P /\ ChildVisits(counted, p) = ChildVisits(mem, p)
  <2> DEFINE h == head
  <2>1. /\ Memory(m) /\ Forest(m, h) /\ VisitsOK(m, h) /\ p \in Subtrees(m, {h})
        /\ m[p].n > 0 /\ CountedAt(m, counted, Subtrees(m, {h}), p, P)
    BY <1>1, <1>3, <1>14
  <2> HIDE DEF m, h
  <2>2. /\ \A y \in Subtrees(m, {h}) \ {p} : CountOK(counted, y)
        /\ p \in P /\ ChildVisits(counted, p) = ChildVisits(m, p)
    BY <1>5, <2>1, Counting
  <2> QED BY <2>2 DEF m, h
<1>16. ASSUME NEW y \in B \ {p} PROVE CountOK(mem', y)
  <2>1. /\ y \in Addresses /\ y # x /\ CountOK(counted, y)
        /\ Kids(counted, y) \subseteq Addresses \ {x}
        /\ Kids(mem', y) = Kids(counted, y)
    <3>1. y \in InTree /\ y \in Addresses /\ y # x
      BY <1>3
    <3>2. Kids(mem, y) \subseteq Addresses \ {x}
      BY <1>3, <3>1
    <3> QED BY <1>5, <1>11, <1>15, <1>16, <3>1, <3>2
  <2>2. ChildVisits(mem', y) = ChildVisits(counted, y)
    <3>1. \A c \in Kids(counted, y) : mem'[c].n = counted[c].n
      BY <1>11, <2>1
    <3> QED BY <1>5, <1>10, <2>1, <3>1, ChildVisitsSame
  <2>3. mem'[y].n = counted[y].n /\ mem'[y].terminal = counted[y].terminal
    BY <1>5, <1>11, <2>1
  <2> QED BY <2>1, <2>2, <2>3 DEF CountOK
<1>17. CountOK(mem', p)
  <2>1. /\ x \notin Kids(counted, p) /\ Kids(mem', p) = Kids(counted, p) \cup {x}
        /\ \A c \in Kids(counted, p) : c \in Addresses \ {x}
    BY <1>3, <1>4, <1>5, <1>11
  <2>2. \A c \in Kids(counted, p) : mem'[c].n = counted[c].n
    BY <1>11, <2>1
  <2>3. ChildVisits(mem', p) = ChildVisits(counted, p) + 1
    BY <1>3, <1>4, <1>5, <1>10, <1>11, <2>1, <2>2, ChildVisitsNew
  <2>4. mem'[p].n = mem[p].n + 1 /\ ~mem'[p].terminal
    BY <1>1, <1>4, <1>5, <1>11, <1>15
  <2>5. CountOK(mem, p) /\ mem[p].n \in Nat /\ ChildVisits(mem, p) \in Nat
    BY <1>3, <1>4, ChildVisitsFacts, MemoryFacts DEF VisitsOK
  <2> QED BY <1>1, <1>15, <2>3, <2>4, <2>5 DEF CountOK
<1>18. CountOK(mem', x)
  <2>1. ChildVisits(mem', x) = 0
    BY <1>3, <1>10, <1>11, ChildVisitsFacts
  <2> QED BY <1>11, <2>1 DEF CountOK
<1>19. VisitsOK(mem', head)
  BY <1>13, <1>16, <1>17, <1>18 DEF VisitsOK
<1> QED BY <1>1, <1>12, <1>19

(* Whatever a search does to the tree at its head, the tree stays whole    *)
(* and the visits below the head add up.                                   *)
LEMMA PlayoutStep ==
  ASSUME Whole, root # NoNode, VisitsOK(mem, head), Playout
  PROVE  Whole' /\ VisitsOK(mem', head') /\ UNCHANGED <<root, head>>
<1>1. UNCHANGED <<root, head>>
  BY DEF Playout, VisitHead, VisitChild, VisitTerminal, ConvertToTerminal
<1>2. Whole' /\ VisitsOK(mem', head)
  BY VisitHeadStep, VisitChildStep, VisitTerminalStep, ConvertToTerminalStep
  DEF Playout
<1> QED BY <1>1, <1>2

-----------------------------------------------------------------------------
(* The engine. *)

Position == [fen : Fens \cup {NoFen}, moves : Seq(Moves)]
NodeOrNone == Addresses \cup {NoNode}

Engine ==
  [tb_paths : Paths \cup {NoPath}, tb : Paths \cup {NoPath},
   configuration : Networks \cup {NoNetwork}, network : Networks \cup {NoNetwork},
   current : Positions \cup {NoPosition},
   ponder : BOOLEAN, spared : BOOLEAN, hasTree : BOOLEAN]

Search ==
  [state : {"running", "answered", "silenced"}, of : Position, root : NodeOrNone,
   ponder : BOOLEAN, permitted : BOOLEAN, stopped : BOOLEAN,
   network : Networks \cup {NoNetwork}, tb : Paths \cup {NoPath}]

Resetting ==
  [at : {"loop", "create"}, todo : Seq(Moves), old : NodeOrNone,
   seen : BOOLEAN, ponder : BOOLEAN]
Starting == [at : {"start"}, ponder : BOOLEAN]
Ends == {"position", "newgame", "setup", "start"}
Destruction ==
  [at : {"abort", "wait"}, then : Ends, was : Positions \cup {NoPosition}, ponder : BOOLEAN]

TypeOK ==
  /\ history \in Position
  /\ head \in NodeOrNone /\ root \in NodeOrNone
  /\ engine \in Engine
  /\ options \in [tb : Paths \cup {NoPath}, network : Networks]
  /\ search \in Search \cup {NoSearch}
  /\ uci \in Resetting \cup Starting \cup Destruction \cup {Idle}

(* While ResetToPosition() runs, no search exists, and the moves made and  *)
(* those still to be made are the moves of the position to be searched.    *)
ResetInv ==
  uci.at \in {"loop", "create"} =>
    /\ search = NoSearch /\ engine.hasTree
    /\ history.fen = Target(uci.ponder).fen
    /\ history.moves \o uci.todo = Target(uci.ponder).moves
    /\ uci.at = "create" => uci.todo # <<>>

(* When it is over, the tree is at the position to be searched, and stays  *)
(* there if no position was ever set.                                      *)
StartInv ==
  /\ uci.at = "start" \/ (Beginning /\ uci.then = "start") =>
       engine.hasTree /\ history = Target(uci.ponder)
  /\ uci.at = "idle" \/ Beginning =>
       (engine.hasTree /\ engine.current = NoPosition => history = Target(FALSE))
  /\ engine.hasTree => engine.network \in Networks
  /\ Beginning /\ uci.then # "position" => uci.was = engine.current

(* A search, also one that has answered or is silenced but is not yet      *)
(* destroyed, has the tree, the network and the tablebases of the engine,  *)
(* and looks at the position set before a command that destroys it.        *)
SearchInv ==
  search.state # "none" =>
    /\ search.of = history /\ search.root = head
    /\ search.network = engine.network /\ search.tb = engine.tb
    /\ engine.hasTree
    /\ search.of = TargetOf(PositionSet, search.ponder)

GoInv == TypeOK /\ ResetInv /\ StartInv /\ SearchInv

(* The tree, which is there as long as the engine says so.  Outside of     *)
(* ResetToPosition() the visits below the head add up.  Inside, they do    *)
(* once the old head was seen, and below the old head if it is still to    *)
(* come; the head whose children were released has none.                   *)
AtRest == {"idle", "start", "abort", "wait"}
TreeInv ==
  /\ Whole
  /\ engine.hasTree => root # NoNode
  /\ uci.at \in AtRest /\ root # NoNode => VisitsOK(mem, head)
  /\ uci.at = "loop" =>
       /\ uci.seen => VisitsOK(mem, head)
       /\ uci.old \in Subtrees(mem, {head}) => VisitsOK(mem, uci.old)
  /\ uci.at = "create" => Kids(mem, head) = {}

IInv == GoInv /\ TreeInv

-----------------------------------------------------------------------------
(* Positions and options. *)

LEMMA PositionTypes ==
  ASSUME TypeOK, NEW ponder
  PROVE  /\ NoPosition \in Position /\ Positions \subseteq Position
         /\ Target(ponder) \in Position
         /\ engine.current = NoPosition =>
              Target(ponder) = [fen |-> StartFen, moves |-> <<>>]
<1>1. <<>> \in Seq(Moves)
  BY EmptySeq
<1>2. NoPosition \in Position /\ Positions \subseteq Position
  BY <1>1, EngineAssumption DEF NoPosition, Position
<1>3. engine.current \in Position
  BY <1>2 DEF TypeOK, Engine
<1>4. [fen |-> StartFen, moves |-> <<>>] \in Position
  BY <1>1, EngineAssumption DEF Position
<1>5. ASSUME engine.current.moves # <<>>
      PROVE  [engine.current EXCEPT !.moves = Front(@)] \in Position
  <2>1. /\ engine.current.moves \in Seq(Moves)
        /\ engine.current.fen \in Fens \cup {NoFen}
    BY <1>3 DEF Position
  <2>2. Front(engine.current.moves) \in Seq(Moves)
    <3> DEFINE s == engine.current.moves
    <3>1. s \in Seq(Moves) /\ Len(s) \in Nat \ {0}
      BY <1>5, <2>1, EmptySeq
    <3>2. \A i \in 1 .. Len(s) - 1 : s[i] \in Moves
      BY <3>1, ElementOfSeq
    <3> HIDE DEF s
    <3>3. SubSeq(s, 1, Len(s) - 1) \in Seq(Moves)
      BY <3>1, <3>2, SubSeqProperties
    <3> QED BY <3>3 DEF Front, s
  <2> QED BY <1>3, <2>2 DEF Position
<1> QED BY <1>2, <1>3, <1>4, <1>5 DEF Target, TargetOf

LEMMA UpdatedFacts ==
  ASSUME options \in [tb : Paths \cup {NoPath}, network : Networks],
         NEW e \in Engine
  PROVE  /\ Updated(e) \in Engine
         /\ Updated(e).current = e.current /\ Updated(e).hasTree = e.hasTree
         /\ Updated(e).ponder = e.ponder
         /\ e.network \in Networks => Updated(e).network \in Networks
         /\ ~UpdateThrows(e) => Updated(e).network \in Networks
<1> DEFINE e1 == TablebasesUpdated(e)
<1>1. /\ e1 \in Engine
      /\ e1.current = e.current /\ e1.hasTree = e.hasTree
      /\ e1.ponder = e.ponder /\ e1.network = e.network
  BY DEF TablebasesUpdated, Engine
<1> HIDE DEF e1
<1>2. options.network \in Networks
  OBVIOUS
<1>3. Updated(e) = IF UpdateThrows(e) THEN e1
                   ELSE [e1 EXCEPT !.network = options.network,
                                   !.configuration = options.network]
  BY DEF Updated, e1
<1>4. CASE UpdateThrows(e)
  BY <1>1, <1>3, <1>4
<1>5. CASE ~UpdateThrows(e)
  BY <1>1, <1>2, <1>3, <1>5 DEF Engine
<1> QED BY <1>4, <1>5

(* Where there is a search. *)
LEMMA SearchThere ==
  ASSUME TypeOK
  PROVE  /\ NoSearch.state = "none" /\ NoSearch.state # "running"
         /\ search # NoSearch => search \in Search /\ search.state # "none"
         /\ search.state = "running" => search # NoSearch /\ search \in Search
<1>1. NoSearch.state = "none"
  BY DEF NoSearch
<1>2. search \in Search => search.state \in {"running", "answered", "silenced"}
  BY DEF Search
<1> QED BY <1>1, <1>2 DEF TypeOK

(* Where the UCI thread is. *)
LEMMA UciThere ==
  ASSUME TypeOK
  PROVE  /\ Idle.at = "idle"
         /\ uci.at = "idle" => uci = Idle
         /\ uci.at \in {"loop", "create"} => uci \in Resetting
         /\ uci.at = "start" => uci \in Starting
         /\ uci.at \in {"abort", "wait"} => uci \in Destruction
         /\ uci.at \in {"loop", "create"} \cup AtRest
<1>1. Idle.at = "idle"
  BY DEF Idle
<1>2. /\ uci \in Resetting => uci.at \in {"loop", "create"}
      /\ uci \in Starting => uci.at = "start"
      /\ uci \in Destruction => uci.at \in {"abort", "wait"}
  BY DEF Resetting, Starting, Destruction
<1> QED BY <1>1, <1>2 DEF TypeOK, AtRest

LEMMA InitHolds == Init => GoInv
<1> SUFFICES ASSUME Init PROVE GoInv
  OBVIOUS
<1>1. <<>> \in Seq(Moves)
  BY EmptySeq
<1>2. engine \in Engine
  BY Zenon DEF Init, Engine
<1>3. TypeOK
  BY <1>1, <1>2
  DEF Init, TreeInit, TypeOK, NoPosition, Position, NodeOrNone
<1>4. /\ uci.at = "idle" /\ ~engine.hasTree /\ search.state = "none"
  BY DEF Init, Idle, NoSearch
<1> QED BY <1>3, <1>4 DEF GoInv, ResetInv, StartInv, SearchInv, Beginning

(* Steps that leave alone what the invariant speaks of. *)
LEMMA Aside ==
  ASSUME GoInv, UNCHANGED <<root, head, history, engine, search, uci>>,
         options' \in [tb : Paths \cup {NoPath}, network : Networks]
  PROVE  GoInv'
BY DEF GoInv, TypeOK, ResetInv, StartInv, SearchInv, Target, TargetOf, Beginning,
       PositionSet

(* A command that destroys the search before anything else. *)
LEMMA DestroyingStep ==
  ASSUME GoInv, uci = Idle, NEW then \in Ends, NEW ponder \in BOOLEAN,
         uci' = Destroying(then, ponder),
         UNCHANGED <<root, head, history, options, search>>,
         engine' \in Engine, engine'.hasTree = engine.hasTree,
         engine'.network = engine.network, engine'.tb = engine.tb,
         IF then = "position" THEN engine'.current # NoPosition
         ELSE engine'.current = engine.current,
         then = "start" => engine.hasTree /\ engine.current = NoPosition
  PROVE  GoInv'
<1>1. TypeOK /\ uci.at = "idle"
  BY UciThere DEF GoInv
<1>2. /\ uci' \in Destruction /\ uci'.at \in {"abort", "wait"} /\ uci'.then = then
      /\ uci'.was = engine.current /\ uci'.ponder = ponder
  <2>1. engine.current \in Positions \cup {NoPosition}
    BY <1>1 DEF TypeOK, Engine
  <2> QED BY <2>1 DEF Destroying, Destruction
<1>3. TypeOK'
  BY <1>1, <1>2 DEF TypeOK
<1>4. Beginning' /\ PositionSet' = PositionSet
  BY <1>1, <1>2 DEF Beginning, PositionSet
<1>5. engine.hasTree /\ engine.current = NoPosition => history = Target(FALSE)
  BY <1>1 DEF GoInv, StartInv
<1>6. engine.current = NoPosition =>
        \A p : Target(p) = [fen |-> StartFen, moves |-> <<>>]
  BY DEF Target, TargetOf
<1>7. then # "position" => \A p : Target(p)' = Target(p)
  BY DEF Target, TargetOf
<1>8. StartInv'
  BY <1>2, <1>4, <1>5, <1>6, <1>7 DEF GoInv, StartInv
<1>9. SearchInv'
  BY <1>4 DEF GoInv, SearchInv, TargetOf
<1> QED BY <1>2, <1>3, <1>8, <1>9 DEF GoInv, ResetInv

(* The commands of the host begin, and ~Search aborts. *)
LEMMA CommandSteps ==
  ASSUME GoInv,
         \/ NewGame
         \/ \E pos \in Positions : SetPosition(pos)
         \/ PonderHit
         \/ \E ponder \in BOOLEAN : CmdGo(ponder)
  PROVE  GoInv' /\ uci'.at \in AtRest /\ engine'.hasTree = engine.hasTree
<1>0. TypeOK /\ engine \in Engine
  BY DEF GoInv, TypeOK
<1>1. CASE NewGame
  <2>1. /\ uci = Idle /\ uci' = Destroying("newgame", FALSE)
        /\ UNCHANGED <<root, head, history, options, search, engine>>
    BY <1>1 DEF NewGame, Command, treeVars
  <2>2. GoInv'
    BY <1>0, <2>1, DestroyingStep DEF Ends
  <2> QED BY <2>1, <2>2 DEF Destroying, AtRest
<1>2. ASSUME NEW pos \in Positions, SetPosition(pos)
      PROVE  GoInv' /\ uci'.at \in AtRest /\ engine'.hasTree = engine.hasTree
  <2>1. /\ uci = Idle /\ uci' = Destroying("position", FALSE)
        /\ engine' = [engine EXCEPT !.current = pos]
        /\ UNCHANGED <<root, head, history, options, search>>
    BY <1>2 DEF SetPosition, SearchResetByPosition, Command, treeVars
  <2>2. /\ engine' \in Engine /\ engine'.hasTree = engine.hasTree
        /\ engine'.network = engine.network /\ engine'.tb = engine.tb
        /\ engine'.current = pos
    BY <1>0, <2>1 DEF Engine
  <2>3. pos # NoPosition
    BY EngineAssumption DEF NoPosition
  <2>4. GoInv'
    BY <2>1, <2>2, <2>3, DestroyingStep DEF Ends
  <2> QED BY <2>1, <2>2, <2>4 DEF Destroying, AtRest
<1>3. ASSUME NEW ponder \in BOOLEAN, uci = Idle, Go(ponder)
      PROVE  GoInv' /\ uci'.at \in AtRest /\ engine'.hasTree = engine.hasTree
  <2> DEFINE then == IF NeedsSetup THEN "setup" ELSE "start"
  <2>1. /\ uci' = Destroying(then, ponder)
        /\ engine' = [engine EXCEPT !.ponder = ponder]
        /\ UNCHANGED <<root, head, history, options, search>>
    BY <1>3 DEF Go, treeVars
  <2>2. /\ engine' \in Engine /\ engine'.hasTree = engine.hasTree
        /\ engine'.network = engine.network /\ engine'.tb = engine.tb
        /\ engine'.current = engine.current
    BY <1>0, <2>1 DEF Engine
  <2>3. /\ then \in Ends /\ then # "position"
        /\ then = "start" => engine.hasTree /\ engine.current = NoPosition
    BY <1>0 DEF Ends, NeedsSetup, Engine
  <2> HIDE DEF then
  <2>4. GoInv'
    BY <1>3, <2>1, <2>2, <2>3, DestroyingStep
  <2> QED BY <2>1, <2>2, <2>4 DEF Destroying, AtRest
<1> QED BY <1>1, <1>2, <1>3 DEF PonderHit, CmdGo, Command

LEMMA AbortStep == ASSUME GoInv, Abort PROVE GoInv'
<1>1. /\ TypeOK /\ uci \in Destruction /\ uci' = [uci EXCEPT !.at = "wait"]
      /\ UNCHANGED <<root, head, history, engine, options>>
  BY UciThere DEF GoInv, Abort, treeVars
<1>2. /\ uci' \in Destruction /\ uci'.at = "wait" /\ uci'.then = uci.then
      /\ uci'.was = uci.was /\ uci'.ponder = uci.ponder
  BY <1>1 DEF Destruction
<1>3. search' \in Search \cup {NoSearch} /\ (search'.state # "none" =>
        /\ search.state # "none" /\ search'.of = search.of
        /\ search'.root = search.root /\ search'.ponder = search.ponder
        /\ search'.network = search.network /\ search'.tb = search.tb)
  <2>1. CASE search.state = "running" /\ ~search.stopped
    <3>1. search \in Search /\ search' = [search EXCEPT !.state = "silenced"]
      BY <1>1, <2>1, SearchThere DEF Abort
    <3> QED BY <2>1, <3>1 DEF Search
  <2>2. CASE search' = search
    BY <1>1, <2>2 DEF TypeOK
  <2> QED BY <2>1, <2>2 DEF Abort
<1>4. TypeOK'
  BY <1>1, <1>2, <1>3 DEF TypeOK
<1>5. Beginning /\ Beginning' /\ PositionSet' = PositionSet
  BY <1>1, <1>2 DEF Beginning, PositionSet, Abort
<1>6. \A p : Target(p)' = Target(p)
  BY <1>1 DEF Target, TargetOf
<1>7. StartInv'
  BY <1>1, <1>2, <1>5, <1>6 DEF GoInv, StartInv
<1>8. SearchInv'
  BY <1>1, <1>3, <1>5 DEF GoInv, SearchInv, TargetOf
<1> QED BY <1>2, <1>4, <1>7, <1>8 DEF GoInv, ResetInv

(* The commands go on when the search is gone. *)
LEMMA NewGameEndsStep ==
  ASSUME GoInv, NewGameEnds PROVE GoInv' /\ ~engine'.hasTree
<1> DEFINE e == [engine EXCEPT !.spared = FALSE, !.current = NoPosition,
                               !.hasTree = FALSE]
<1>1. e \in Engine /\ ~e.hasTree /\ options' = options
  BY DEF GoInv, TypeOK, Engine, NewGameEnds
<1>2. /\ engine' = Updated(e) /\ search' = NoSearch /\ uci' = Idle
      /\ root' = NoNode /\ head' = NoNode /\ history' = NoPosition
  BY DEF NewGameEnds, DeallocateTree
<1> HIDE DEF e
<1>3. engine' \in Engine /\ ~engine'.hasTree
  BY <1>1, <1>2, UpdatedFacts DEF GoInv, TypeOK
<1>4. TypeOK'
  BY <1>1, <1>2, <1>3, PositionTypes DEF GoInv, TypeOK, NodeOrNone
<1>5. uci'.at = "idle" /\ search'.state = "none"
  BY <1>2 DEF Idle, NoSearch
<1> QED BY <1>3, <1>4, <1>5 DEF GoInv, ResetInv, StartInv, SearchInv, Beginning

LEMMA SetPositionEndsStep == ASSUME GoInv, SetPositionEnds PROVE GoInv'
<1>1. /\ uci.at = "wait" /\ search' = NoSearch /\ uci' = Idle
      /\ UNCHANGED <<root, head, history, engine, options>>
  BY DEF SetPositionEnds, Destroyed, treeVars
<1>2. TypeOK'
  BY <1>1 DEF GoInv, TypeOK
<1>3. uci'.at = "idle" /\ search'.state = "none"
  BY <1>1 DEF Idle, NoSearch
<1>4. \A p : Target(p)' = Target(p)
  BY <1>1 DEF Target, TargetOf
<1> QED BY <1>1, <1>2, <1>3, <1>4
        DEF GoInv, ResetInv, StartInv, SearchInv, Beginning

LEMMA SetupPositionStep == ASSUME GoInv, SetupPosition PROVE GoInv'
<1> DEFINE ponder == uci.ponder
           T == Target(ponder)
           e == Updated(engine)
<1>0. /\ TypeOK /\ options' = options /\ uci.at = "wait" /\ ponder \in BOOLEAN
      /\ T \in Position
  <2>1. uci \in Destruction /\ TypeOK
    BY UciThere DEF GoInv, SetupPosition, Destroyed
  <2>2. T \in Position
    BY <2>1, PositionTypes
  <2> QED BY <2>1, <2>2 DEF SetupPosition, Destroyed, Destruction
<1>1. /\ e \in Engine /\ e.current = engine.current
      /\ e.hasTree = engine.hasTree
      /\ engine.network \in Networks => e.network \in Networks
      /\ ~UpdateThrows(engine) => e.network \in Networks
  BY <1>0, UpdatedFacts DEF TypeOK
<1>2. search' = NoSearch /\ search'.state = "none"
  BY DEF SetupPosition, SearchAfterSetup, NoSearch
<1>3. CASE UpdateThrows(engine)
  <2>1. engine' = e /\ uci' = Idle /\ UNCHANGED <<root, head, history>>
    BY <1>3 DEF SetupPosition, treeVars
  <2>2. TypeOK'
    BY <1>0, <1>1, <1>2, <2>1 DEF TypeOK
  <2>3. \A p : Target(p)' = Target(p)
    BY <1>1, <2>1 DEF Target, TargetOf
  <2>4. uci'.at = "idle"
    BY <2>1 DEF Idle
  <2> HIDE DEF e
  <2> QED BY <1>0, <1>1, <1>2, <2>1, <2>2, <2>3, <2>4
          DEF GoInv, ResetInv, StartInv, SearchInv, Beginning
<1>4. CASE ~UpdateThrows(engine)
  <2>1. /\ engine' = [e EXCEPT !.hasTree = TRUE]
        /\ history' = [fen |-> T.fen, moves |-> <<>>]
        /\ root' \in NodeOrNone /\ head' \in NodeOrNone
        /\ \E old \in NodeOrNone, seen \in BOOLEAN :
             uci' = [at |-> "loop", todo |-> T.moves, old |-> old,
                     seen |-> seen, ponder |-> ponder]
    <3>1. /\ engine' = [e EXCEPT !.hasTree = TRUE]
          /\ BeginGame(T.fen)
          /\ \E old \in {head, NoNode} :
               uci' = [at |-> "loop", todo |-> T.moves, old |-> old,
                       seen |-> root' = old, ponder |-> ponder]
      BY <1>4 DEF SetupPosition
    <3>2. /\ history' = [fen |-> T.fen, moves |-> <<>>]
          /\ root' \in NodeOrNone /\ head' \in NodeOrNone
      BY <1>0, <3>1 DEF BeginGame, Free, NodeOrNone, TypeOK
    <3>3. {head, NoNode} \subseteq NodeOrNone /\ \A x, y : (x = y) \in BOOLEAN
      BY <1>0 DEF TypeOK, NodeOrNone
    <3> QED BY <3>1, <3>2, <3>3, Zenon
  <2> HIDE DEF e
  <2>2. /\ T.fen \in Fens \cup {NoFen} /\ T.moves \in Seq(Moves)
        /\ <<>> \in Seq(Moves)
    BY <1>0, EmptySeq DEF Position
  <2>3. /\ engine' \in Engine /\ engine'.hasTree
        /\ engine'.current = engine.current /\ engine'.network \in Networks
    BY <1>1, <1>4, <2>1 DEF Engine
  <2>4. /\ uci' \in Resetting /\ uci'.at = "loop" /\ uci'.todo = T.moves
        /\ uci'.ponder = ponder
    <3>1. PICK old \in NodeOrNone, seen \in BOOLEAN :
            uci' = [at |-> "loop", todo |-> T.moves, old |-> old,
                    seen |-> seen, ponder |-> ponder]
      BY <2>1
    <3>2. uci' \in Resetting
      <4> HIDE DEF T, ponder
      <4> QED BY <1>0, <2>2, <3>1, Zenon DEF Resetting
    <3> QED BY <3>1, <3>2
  <2>5. /\ history' \in Position /\ history'.fen = T.fen
        /\ history'.moves = <<>>
    BY <2>1, <2>2 DEF Position
  <2>6. TypeOK'
    BY <1>0, <1>2, <2>1, <2>3, <2>4, <2>5 DEF TypeOK
  <2>7. history'.moves \o uci'.todo = T.moves
    BY <2>2, <2>4, <2>5, ConcatEmptySeq
  <2>8. ResetInv'
    <3>1. Target(uci.ponder)' = T
      BY <2>3, <2>4 DEF Target, TargetOf
    <3> QED BY <1>2, <2>3, <2>4, <2>5, <2>7, <3>1 DEF ResetInv
  <2> QED BY <1>2, <2>3, <2>4, <2>6, <2>8 DEF GoInv, StartInv, SearchInv, Beginning
<1> QED BY <1>3, <1>4

(* ResetToPosition(), one move after the other. *)
LEMMA MoveMade ==
  ASSUME GoInv, uci.at \in {"loop", "create"}, uci.todo # <<>>,
         UNCHANGED <<engine, options, search>>,
         history' = Extended(history, Head(uci.todo)),
         root' \in NodeOrNone, head' \in NodeOrNone, Moved
  PROVE  GoInv'
<1>1. /\ uci \in Resetting /\ history \in Position /\ TypeOK
      /\ uci' = [uci EXCEPT !.at = "loop", !.todo = Tail(@),
                            !.seen = @ \/ head' = uci.old]
  BY UciThere DEF GoInv, TypeOK, Moved
<1>2. /\ uci.todo \in Seq(Moves) /\ uci.todo # <<>>
      /\ Head(uci.todo) \in Moves /\ Tail(uci.todo) \in Seq(Moves)
      /\ history.moves \in Seq(Moves) /\ history.fen \in Fens \cup {NoFen}
  BY <1>1, HeadTailProperties DEF Resetting, Position
<1>3. /\ history' \in Position /\ history'.fen = history.fen
      /\ history'.moves = Append(history.moves, Head(uci.todo))
  BY <1>1, <1>2, AppendProperties DEF Extended, Position
<1>4. /\ uci'.at = "loop" /\ uci'.todo = Tail(uci.todo) /\ uci'.ponder = uci.ponder
  BY <1>1 DEF Resetting
<1>5. uci' \in Resetting
  <2>1. (uci.seen \/ head' = uci.old) \in BOOLEAN
    OBVIOUS
  <2> QED BY <1>1, <1>2, <2>1, Zenon DEF Resetting
<1>6. history'.moves \o uci'.todo = history.moves \o uci.todo
  <2> DEFINE s == history.moves
             t == uci.todo
             h == Head(t)
  <2>1. s \in Seq(Moves) /\ t \in Seq(Moves) /\ t # <<>> /\ h \in Moves
        /\ Tail(t) \in Seq(Moves)
    BY <1>2
  <2> HIDE DEF s, t
  <2>2. Append(s, h) = s \o <<h>>
    BY <2>1, AppendIsConcat
  <2>3. <<h>> \o Tail(t) = t
    BY <2>1, HeadTailProperties
  <2>4. <<h>> \in Seq(Moves)
    BY <2>1
  <2>5. (s \o <<h>>) \o Tail(t) = s \o (<<h>> \o Tail(t))
    BY <2>1, <2>4, ConcatAssociative
  <2> QED BY <1>3, <1>4, <2>2, <2>3, <2>5 DEF s, t
<1>7. TypeOK'
  BY <1>1, <1>3, <1>5 DEF TypeOK
<1>8. Target(uci.ponder)' = Target(uci.ponder)
  BY <1>4 DEF Target, TargetOf
<1>9. ResetInv'
  BY <1>3, <1>4, <1>6, <1>8 DEF GoInv, ResetInv
<1>10. search' = NoSearch /\ search'.state = "none" /\ engine'.network \in Networks
  <2>1. NoSearch.state = "none"
    BY DEF NoSearch
  <2> QED BY <2>1 DEF GoInv, ResetInv, StartInv
<1> QED BY <1>4, <1>7, <1>9, <1>10 DEF GoInv, StartInv, SearchInv, Beginning

LEMMA ResetSteps ==
  ASSUME GoInv, Whole, root # NoNode,
         ResetFollows \/ ResetReleases \/ ResetCreates \/ ResetEnds
  PROVE  GoInv'
<1>0. TypeOK
  BY DEF GoInv
<1>1. CASE ResetFollows
  <2>1. /\ uci.at = "loop" /\ uci.todo # <<>> /\ Moved
        /\ FollowEdge(Head(uci.todo)) /\ UNCHANGED <<engine, options, search>>
    BY <1>1 DEF ResetFollows
  <2>2. head' \in NodeOrNone /\ root' \in NodeOrNone
        /\ history' = Extended(history, Head(uci.todo))
    <3>1. root' = root /\ history' = Extended(history, Head(uci.todo))
      BY <2>1 DEF FollowEdge
    <3>2. head' \in Free \/ head' \in Kids(mem, head)
      BY <2>1, FollowEdgeStep
    <3>3. Free \subseteq Addresses /\ Kids(mem, head) \subseteq Addresses
      BY HeadFacts DEF KidsOK, Free
    <3> QED BY <1>0, <3>1, <3>2, <3>3 DEF TypeOK, NodeOrNone
  <2> QED BY <2>1, <2>2, MoveMade
<1>2. CASE ResetCreates
  <2>1. /\ uci.at = "create" /\ uci.todo # <<>> /\ Moved
        /\ CreateSingleChildNode(Head(uci.todo))
        /\ UNCHANGED <<engine, options, search>>
    BY <1>2 DEF ResetCreates, GoInv, ResetInv
  <2>2. /\ head' \in NodeOrNone /\ root' \in NodeOrNone
        /\ history' = Extended(history, Head(uci.todo))
    BY <1>0, <2>1 DEF CreateSingleChildNode, TypeOK, NodeOrNone, Free
  <2> QED BY <2>1, <2>2, MoveMade
<1>3. CASE ResetReleases
  <2>1. /\ uci.at = "loop" /\ uci.todo # <<>> /\ uci \in Resetting
        /\ uci' = [uci EXCEPT !.at = "create"]
        /\ UNCHANGED <<root, head, history, engine, options, search>>
    BY <1>0, <1>3, UciThere DEF ResetReleases, ReleaseChildren
  <2>2. /\ uci' \in Resetting /\ uci'.at = "create" /\ uci'.todo = uci.todo
        /\ uci'.ponder = uci.ponder
    BY <2>1 DEF Resetting
  <2>3. TypeOK'
    BY <1>0, <2>1, <2>2 DEF TypeOK
  <2>4. Target(uci.ponder)' = Target(uci.ponder)
    BY <2>1, <2>2 DEF Target, TargetOf
  <2>5. ResetInv'
    BY <2>1, <2>2, <2>4 DEF GoInv, ResetInv
  <2>6. search' = NoSearch /\ search'.state = "none" /\ engine'.network \in Networks
    <3>1. NoSearch.state = "none"
      BY DEF NoSearch
    <3> QED BY <2>1, <3>1 DEF GoInv, ResetInv, StartInv
  <2> QED BY <2>2, <2>3, <2>5, <2>6 DEF GoInv, StartInv, SearchInv, Beginning
<1>4. CASE ResetEnds
  <2>1. /\ uci.at = "loop" /\ uci.todo = <<>> /\ uci \in Resetting
        /\ uci' = [at |-> "start", ponder |-> uci.ponder]
        /\ engine' = IF uci.seen THEN engine ELSE [engine EXCEPT !.spared = FALSE]
        /\ UNCHANGED <<root, head, history, options, search>>
    BY <1>0, <1>4, UciThere DEF ResetEnds, TrimTreeAtHead, treeVars
  <2>2. /\ engine' \in Engine /\ engine'.current = engine.current
        /\ engine'.hasTree = engine.hasTree /\ engine'.network = engine.network
    BY <1>0, <2>1 DEF TypeOK, Engine
  <2>3. uci' \in Starting /\ uci'.at = "start" /\ uci'.ponder = uci.ponder
    BY <2>1 DEF Starting, Resetting
  <2>4. TypeOK'
    BY <1>0, <2>1, <2>2, <2>3 DEF TypeOK
  <2>5. Target(uci.ponder)' = Target(uci.ponder)
    BY <2>2, <2>3 DEF Target, TargetOf
  <2>6. history = Target(uci.ponder)
    <3>1. history \in Position /\ Target(uci.ponder) \in Position
      BY <1>0, PositionTypes DEF TypeOK
    <3>2. /\ history.fen = Target(uci.ponder).fen
          /\ history.moves \o <<>> = Target(uci.ponder).moves
      BY <2>1 DEF GoInv, ResetInv
    <3>3. history.moves = Target(uci.ponder).moves
      BY <3>1, <3>2, ConcatEmptySeq DEF Position
    <3> QED BY <3>1, <3>2, <3>3 DEF Position
  <2>7. engine.hasTree /\ engine.network \in Networks /\ search' = NoSearch
        /\ search'.state = "none"
    <3>1. NoSearch.state = "none"
      BY DEF NoSearch
    <3> QED BY <2>1, <3>1 DEF GoInv, ResetInv, StartInv
  <2> QED BY <2>1, <2>2, <2>3, <2>4, <2>5, <2>6, <2>7
        DEF GoInv, ResetInv, StartInv, SearchInv, Beginning
<1> QED BY <1>1, <1>2, <1>3, <1>4

(* The search begins, plays and answers. *)
LEMMA SearchSteps ==
  ASSUME GoInv, StartSearch \/ SearchPlayout \/ SearchAnswers \/ Stop
  PROVE  GoInv'
<1>0. TypeOK
  BY DEF GoInv
<1>1. CASE StartSearch
  <2>1. /\ uci' = Idle /\ uci'.at = "idle"
        /\ search' = [state |-> "running", of |-> history, root |-> head,
                      ponder |-> uci.ponder, permitted |-> ~uci.ponder,
                      stopped |-> FALSE,
                      network |-> engine.network, tb |-> engine.tb]
        /\ UNCHANGED <<root, head, history, engine, options>>
    BY <1>1 DEF StartSearch, treeVars, Idle
  <2>2. /\ uci.ponder \in BOOLEAN
        /\ uci.at = "start" \/ (Beginning /\ uci.then = "start")
    <3>1. CASE uci.at = "start"
      BY <1>0, <3>1, UciThere DEF Starting
    <3>2. CASE Destroyed("start")
      BY <1>0, <3>2, UciThere DEF Destroyed, Destruction, Beginning
    <3> QED BY <1>1, <3>1, <3>2 DEF StartSearch
  <2>3. /\ engine.network \in Networks \cup {NoNetwork}
        /\ engine.tb \in Paths \cup {NoPath}
        /\ head \in NodeOrNone /\ history \in Position
    BY <1>0 DEF TypeOK, Engine
  <2>4. search' \in Search
    BY <2>1, <2>2, <2>3, Zenon DEF Search
  <2>5. TypeOK'
    BY <1>0, <2>1, <2>4 DEF TypeOK
  <2>6. engine.hasTree /\ history = Target(uci.ponder) /\ engine.network \in Networks
    BY <2>2 DEF GoInv, StartInv
  <2>7. \A p : Target(p)' = Target(p)
    BY <2>1 DEF Target, TargetOf
  <2>8. engine.current = NoPosition => Target(FALSE) = Target(uci.ponder)
    BY DEF Target, TargetOf
  <2>9. ~Beginning' /\ PositionSet' = engine.current
    BY <2>1 DEF Beginning, PositionSet
  <2>10. StartInv'
    BY <2>1, <2>6, <2>7, <2>8, <2>9 DEF StartInv
  <2>11. SearchInv'
    BY <2>1, <2>6, <2>9 DEF SearchInv, Target, TargetOf
  <2> QED BY <2>1, <2>5, <2>10, <2>11 DEF GoInv, ResetInv
<1>2. CASE SearchPlayout
  <2>1. UNCHANGED <<root, head, history, engine, options, search, uci>>
    BY <1>2
    DEF SearchPlayout, Playout, VisitHead, VisitChild, VisitTerminal,
        ConvertToTerminal
  <2> QED BY <1>0, <2>1, Aside DEF TypeOK
<1>3. CASE SearchAnswers \/ Stop
  <2>1. /\ search.state = "running"
        /\ \/ search' = [search EXCEPT !.state = "answered"]
           \/ search' = [search EXCEPT !.permitted = TRUE, !.stopped = TRUE]
        /\ engine' \in {engine, [engine EXCEPT !.spared = TRUE]}
        /\ UNCHANGED <<root, head, history, options, uci>>
    BY <1>3 DEF SearchAnswers, Stop, treeVars
  <2>2. search \in Search
    BY <1>0, <2>1, SearchThere
  <2>3. /\ search' \in Search /\ search'.of = search.of
        /\ search'.root = search.root /\ search'.ponder = search.ponder
        /\ search'.network = search.network /\ search'.tb = search.tb
    BY <2>1, <2>2 DEF Search
  <2>4. /\ engine' \in Engine /\ engine'.current = engine.current
        /\ engine'.hasTree = engine.hasTree /\ engine'.network = engine.network
        /\ engine'.tb = engine.tb
    BY <1>0, <2>1 DEF TypeOK, Engine
  <2>5. TypeOK'
    BY <1>0, <2>1, <2>3, <2>4 DEF TypeOK
  <2>6. \A p : Target(p)' = Target(p)
    BY <2>4 DEF Target, TargetOf
  <2>7. uci.at \notin {"loop", "create"}
    BY <1>0, <2>1, SearchThere DEF GoInv, ResetInv
  <2>8. (Beginning' <=> Beginning) /\ PositionSet' = PositionSet
    BY <2>1, <2>4 DEF Beginning, PositionSet
  <2>9. StartInv'
    BY <2>1, <2>4, <2>6, <2>8 DEF GoInv, StartInv
  <2>10. SearchInv'
    BY <2>1, <2>3, <2>4, <2>8 DEF GoInv, SearchInv, TargetOf
  <2> QED BY <2>1, <2>5, <2>7, <2>9, <2>10 DEF GoInv, ResetInv
<1> QED BY <1>1, <1>2, <1>3
-----------------------------------------------------------------------------
(* The tree, step by step. *)

LEMMA TreeInitHolds == Init => TreeInv
<1> SUFFICES ASSUME Init PROVE TreeInv
  OBVIOUS
<1>1. /\ mem = [x \in Addresses |-> BareNode] /\ root = NoNode /\ head = NoNode
      /\ gc = <<>> /\ uci.at = "idle" /\ ~engine.hasTree
  BY DEF Init, TreeInit, Idle
<1>2. Memory(mem)
  <2>1. /\ BareNode \in Node(BareNode.of)
        /\ DOMAIN BareNode.kids \subseteq BareNode.edges
    BY BareFacts
  <2>2. /\ mem = [y \in Addresses |-> mem[y]]
        /\ \A y \in Addresses : mem[y] = BareNode
    BY <1>1
  <2> QED BY <2>1, <2>2 DEF Memory
<1>3. QueueOK(gc, InTree)
  <2>1. <<>> \in Seq(SUBSET Addresses) /\ DOMAIN <<>> = {}
    BY EmptySeq
  <2> QED BY <1>1, <2>1 DEF QueueOK
<1> QED BY <1>1, <1>2, <1>3 DEF TreeInv, Whole

(* Steps that touch neither the tree nor the UCI thread. *)
LEMMA TreeAside ==
  ASSUME TreeInv, UNCHANGED <<mem, root, head, gc, uci>>,
         engine'.hasTree = engine.hasTree
  PROVE  TreeInv'
<1>1. InTree' = InTree
  BY DEF InTree
<1>2. Whole'
  BY <1>1 DEF TreeInv, Whole
<1> QED BY <1>2 DEF TreeInv

(* Steps of the UCI thread outside of ResetToPosition(). *)
LEMMA TreeAtRest ==
  ASSUME TreeInv, UNCHANGED <<mem, root, head, gc>>, uci.at \in AtRest,
         uci'.at \in AtRest, engine'.hasTree = engine.hasTree
  PROVE  TreeInv'
<1>1. InTree' = InTree
  BY DEF InTree
<1>2. Whole'
  BY <1>1 DEF TreeInv, Whole
<1> QED BY <1>2 DEF TreeInv, AtRest

(* GarbageCollect() leaves the tree alone. *)
LEMMA CollectKeepsTree ==
  ASSUME TreeInv, Collect, UNCHANGED <<engine, uci>>
  PROVE  TreeInv'
<1>1. Whole' /\ UNCHANGED <<mem, root, head>>
  BY CollectStep DEF TreeInv, Collect
<1> QED BY <1>1 DEF TreeInv

LEMMA NewGameKeepsTree == ASSUME IInv, NewGameEnds PROVE TreeInv'
<1>1. /\ Whole' /\ root' = NoNode /\ uci' = Idle
  BY DeallocateTreeStep DEF NewGameEnds, IInv, TreeInv
<1>2. ~engine'.hasTree
  BY NewGameEndsStep DEF IInv
<1> QED BY <1>1, <1>2 DEF TreeInv, AtRest, Idle

(* What the old head is, while the moves of the position are made. *)
LEMMA SetupKeepsTree == ASSUME IInv, SetupPosition PROVE TreeInv'
<1> DEFINE ponder == uci.ponder
<1>0. /\ TypeOK /\ Whole /\ uci.at = "wait"
      /\ engine.hasTree => root # NoNode
      /\ root # NoNode => VisitsOK(mem, head)
  BY DEF IInv, GoInv, TreeInv, AtRest, SetupPosition, Destroyed
<1>1. CASE UpdateThrows(engine)
  <2>1. UNCHANGED <<mem, root, head, gc>> /\ uci' = Idle
    BY <1>1 DEF SetupPosition, treeVars
  <2>2. engine'.hasTree = engine.hasTree
    <3>1. Updated(engine).hasTree = engine.hasTree
      BY <1>0, UpdatedFacts DEF TypeOK
    <3>2. engine' = Updated(engine)
      BY <1>1 DEF SetupPosition
    <3> QED BY <3>1, <3>2
  <2>3. uci.at \in AtRest /\ uci'.at \in AtRest
    BY <1>0, <2>1 DEF AtRest, Idle
  <2> QED BY <2>1, <2>2, <2>3, TreeAtRest DEF IInv
<1>2. CASE ~UpdateThrows(engine)
  <2> DEFINE fen == Target(ponder).fen
             old == IF SameStart(fen) THEN head ELSE NoNode
  <2>1. /\ BeginGame(fen)
        /\ uci' = [at |-> "loop", todo |-> Target(ponder).moves, old |-> old,
                   seen |-> root' = old, ponder |-> ponder]
    BY <1>2 DEF SetupPosition
  <2>2. uci'.at = "loop" /\ uci'.old = old /\ uci'.seen = (root' = old)
    BY <2>1
  <2>3. /\ Whole' /\ root' # NoNode
        /\ SameStart(fen) => root # NoNode /\ head' = root /\ mem' = mem
        /\ ~SameStart(fen) => /\ Subtrees(mem', {head'}) = {head'}
                              /\ VisitsOK(mem', head')
    BY <1>0, <2>1, BeginGameStep
  <2>4. root' = head'
    BY <2>1 DEF BeginGame
  <2> HIDE DEF fen
  <2>5. CASE SameStart(fen)
    <3>1. old = head /\ VisitsOK(mem', head) /\ uci'.old = head
      BY <1>0, <2>2, <2>3, <2>5
    <3>2. uci'.seen => VisitsOK(mem', head')
      BY <2>2, <2>4, <3>1
    <3> QED BY <2>2, <2>3, <3>1, <3>2 DEF TreeInv, AtRest
  <2>6. CASE ~SameStart(fen)
    <3>1. Subtrees(mem', {head'}) = {head'} /\ VisitsOK(mem', head')
      BY <2>3, <2>6
    <3> QED BY <2>2, <2>3, <3>1 DEF TreeInv, AtRest
  <2> QED BY <2>5, <2>6
<1> QED BY <1>1, <1>2

(* ResetToPosition(): the old head may be met at any move, or be a node    *)
(* that was freed and allocated again.                                     *)
LEMMA ResetKeepsTree ==
  ASSUME IInv, ResetFollows \/ ResetReleases \/ ResetCreates \/ ResetEnds
  PROVE  TreeInv'
<1>0. /\ Whole /\ root # NoNode /\ engine.hasTree /\ uci \in Resetting
      /\ Memory(mem) /\ KidsOK(mem) /\ head \in Addresses
  <2>1. uci.at \in {"loop", "create"}
    BY DEF ResetFollows, ResetReleases, ResetCreates, ResetEnds
  <2>2. Whole /\ root # NoNode /\ engine.hasTree
    BY <2>1 DEF IInv, GoInv, ResetInv, TreeInv
  <2>3. uci \in Resetting
    BY <2>1, UciThere DEF IInv, GoInv
  <2> QED BY <2>2, <2>3, HeadFacts
<1>1. CASE ResetFollows
  <2>1. /\ uci.at = "loop" /\ FollowEdge(Head(uci.todo)) /\ Moved
        /\ engine' = engine
    BY <1>1 DEF ResetFollows
  <2>2. /\ uci'.at = "loop" /\ uci'.old = uci.old
        /\ uci'.seen => uci.seen \/ head' = uci.old
    BY <1>0, <2>1 DEF Moved, Resetting
  <2>3. /\ Whole' /\ root' = root
        /\ head' \in Free \/ head' \in Kids(mem, head)
        /\ head' \in Free => Subtrees(mem', {head'}) = {head'}
        /\ head' \in Kids(mem, head) =>
             Subtrees(mem', {head'}) = Subtrees(mem, {head'})
        /\ \A z \in Subtrees(mem', {head'}) :
             (z \in Subtrees(mem, {head}) => VisitsOK(mem, z)) => VisitsOK(mem', z)
    BY <1>0, <2>1, FollowEdgeStep
  <2>4. /\ uci.seen => VisitsOK(mem, head)
        /\ uci.old \in Subtrees(mem, {head}) => VisitsOK(mem, uci.old)
    BY <2>1 DEF IInv, TreeInv
  <2>5. uci.old \in Subtrees(mem', {head'}) => VisitsOK(mem', uci.old)
    BY <2>3, <2>4
  <2>6. head' \in Subtrees(mem', {head'})
    <3>1. /\ KidsOK(mem)' /\ head' \in Addresses
      <4>1. Memory(mem)'
        BY <2>3 DEF Whole
      <4>2. head' \in Addresses
        BY <1>0, <2>3 DEF KidsOK, Free
      <4> QED BY <4>1, <4>2, MemoryFacts
    <3> QED BY <3>1, Below
  <2>7. uci.seen => VisitsOK(mem', head')
    <3>1. ASSUME uci.seen PROVE VisitsOK(mem', head')
      <4>1. \A z \in Subtrees(mem, {head}) : VisitsOK(mem, z)
        BY <1>0, <2>4, <3>1, VisitsBelow
      <4> QED BY <2>3, <2>6, <4>1
    <3> QED BY <3>1
  <2>8. uci'.seen => VisitsOK(mem', head')
    BY <2>2, <2>5, <2>6, <2>7
  <2> QED BY <1>0, <2>1, <2>2, <2>3, <2>5, <2>8 DEF TreeInv, AtRest
<1>2. CASE ResetCreates
  <2>1. /\ uci.at = "create" /\ CreateSingleChildNode(Head(uci.todo)) /\ Moved
        /\ engine' = engine
    BY <1>2 DEF ResetCreates
  <2>2. Head(uci.todo) \in Moves /\ Kids(mem, head) = {}
    <3>1. uci.todo \in Seq(Moves) /\ uci.todo # <<>> /\ Kids(mem, head) = {}
      BY <1>0, <2>1 DEF IInv, GoInv, ResetInv, TreeInv, Resetting
    <3> QED BY <3>1, HeadTailProperties
  <2>3. uci'.at = "loop" /\ uci'.old = uci.old
    BY <1>0, <2>1 DEF Moved, Resetting
  <2>4. /\ Whole' /\ root' = root
        /\ Subtrees(mem', {head'}) = {head'} /\ VisitsOK(mem', head')
    BY <1>0, <2>1, <2>2, CreateSingleChildNodeStep
  <2> QED BY <1>0, <2>1, <2>3, <2>4 DEF TreeInv, AtRest
<1>3. CASE ResetReleases
  <2>1. /\ ReleaseChildren(Head(uci.todo)) /\ uci'.at = "create" /\ engine' = engine
    BY <1>0, <1>3 DEF ResetReleases, Resetting
  <2>2. Whole' /\ root' = root /\ Kids(mem', head') = {}
    BY <1>0, <2>1, ReleaseChildrenStep
  <2> QED BY <1>0, <2>1, <2>2 DEF TreeInv, AtRest
<1>4. CASE ResetEnds
  <2>1. /\ uci.at = "loop" /\ uci'.at = "start"
        /\ IF uci.seen THEN UNCHANGED treeVars ELSE TrimTreeAtHead
    BY <1>4 DEF ResetEnds, Trims
  <2>2. engine'.hasTree = engine.hasTree
    BY <1>4 DEF ResetEnds, IInv, GoInv, TypeOK, Engine
  <2>3. CASE uci.seen
    <3>1. UNCHANGED <<mem, root, head, gc>> /\ VisitsOK(mem, head)
      BY <2>1, <2>3 DEF treeVars, IInv, TreeInv
    <3>2. InTree' = InTree
      BY <3>1 DEF InTree
    <3>3. Whole'
      BY <1>0, <3>1, <3>2 DEF Whole
    <3> QED BY <1>0, <2>1, <2>2, <3>1, <3>3 DEF TreeInv, AtRest
  <2>4. CASE ~uci.seen
    <3>1. Whole' /\ root' = root /\ head' = head /\ VisitsOK(mem', head')
      BY <1>0, <2>1, <2>4, TrimTreeAtHeadStep
    <3> QED BY <1>0, <2>1, <2>2, <3>1 DEF TreeInv, AtRest
  <2> QED BY <2>3, <2>4
<1> QED BY <1>1, <1>2, <1>3, <1>4

LEMMA SearchKeepsTree ==
  ASSUME IInv, StartSearch \/ SearchPlayout \/ SearchAnswers \/ Stop
  PROVE  TreeInv'
<1>0. TypeOK /\ Whole
  BY DEF IInv, GoInv, TreeInv
<1>1. CASE StartSearch
  <2>1. /\ UNCHANGED <<mem, root, head, gc, engine>> /\ uci.at \in AtRest
        /\ uci'.at \in AtRest
    BY <1>1 DEF StartSearch, Destroyed, treeVars, Idle, AtRest
  <2> QED BY <2>1, TreeAtRest DEF IInv
<1>2. CASE SearchPlayout
  <2>1. search.state # "none" /\ search # NoSearch /\ Playout /\ UNCHANGED <<engine, uci>>
    BY <1>0, <1>2, SearchThere DEF SearchPlayout
  <2>2. uci.at \in AtRest
    BY <1>0, <2>1, UciThere DEF IInv, GoInv, ResetInv
  <2>3. root # NoNode /\ VisitsOK(mem, head)
    BY <2>1, <2>2 DEF IInv, GoInv, SearchInv, TreeInv
  <2>4. Whole' /\ VisitsOK(mem', head') /\ UNCHANGED <<root, head>>
    BY <1>0, <2>1, <2>3, PlayoutStep
  <2> QED BY <2>1, <2>2, <2>3, <2>4 DEF TreeInv, AtRest
<1>3. CASE SearchAnswers \/ Stop
  <2>1. UNCHANGED <<mem, root, head, gc, uci>> /\ engine'.hasTree = engine.hasTree
    BY <1>0, <1>3 DEF SearchAnswers, Stop, treeVars, TypeOK, Engine
  <2> QED BY <2>1, TreeAside DEF IInv
<1> QED BY <1>1, <1>2, <1>3

-----------------------------------------------------------------------------
(* The theorems. *)

(* The inductive invariant of the engine and its tree. *)
THEOREM Invariance == Spec => []IInv
<1>1. Init => IInv
  BY InitHolds, TreeInitHolds DEF IInv
<1>2. IInv /\ [Next]_vars => IInv'
  <2> SUFFICES ASSUME IInv, [Next]_vars PROVE GoInv' /\ TreeInv'
    BY DEF IInv
  <2>0. GoInv /\ TreeInv /\ TypeOK
    BY DEF IInv, GoInv
  <2>1. CASE SetOption
    <3>1. UNCHANGED <<mem, root, head, history, gc, engine, search, uci>>
          /\ options' \in [tb : Paths \cup {NoPath}, network : Networks]
      BY <2>1 DEF SetOption, treeVars
    <3> QED BY <2>0, <3>1, Aside, TreeAside
  <2>2. CASE \/ NewGame \/ (\E pos \in Positions : SetPosition(pos))
             \/ PonderHit \/ (\E ponder \in BOOLEAN : CmdGo(ponder))
    <3>1. /\ GoInv' /\ uci'.at \in AtRest /\ engine'.hasTree = engine.hasTree
      BY <2>0, <2>2, CommandSteps
    <3>2. UNCHANGED <<mem, root, head, gc>> /\ uci = Idle
      <4>1. CASE NewGame \/ (\E pos \in Positions : SetPosition(pos))
        BY <4>1 DEF NewGame, SetPosition, Command, treeVars
      <4>2. CASE PonderHit \/ (\E ponder \in BOOLEAN : CmdGo(ponder))
        BY <4>2 DEF PonderHit, CmdGo, Go, Command, treeVars
      <4> QED BY <2>2, <4>1, <4>2
    <3>3. uci.at \in AtRest
      BY <3>2 DEF Idle, AtRest
    <3> QED BY <2>0, <3>1, <3>2, <3>3, TreeAtRest
  <2>3. CASE Abort
    <3>1. /\ UNCHANGED <<mem, root, head, gc, engine>>
          /\ uci.at \in AtRest /\ uci'.at \in AtRest
      BY <2>0, <2>3, UciThere DEF Abort, treeVars, AtRest, Destruction
    <3> QED BY <2>0, <2>3, <3>1, AbortStep, TreeAtRest
  <2>4. CASE NewGameEnds \/ SetPositionEnds \/ SetupPosition
    <3>1. CASE SetPositionEnds
      <4>1. /\ UNCHANGED <<mem, root, head, gc, engine>>
            /\ uci.at \in AtRest /\ uci'.at \in AtRest
        BY <3>1 DEF SetPositionEnds, Destroyed, treeVars, AtRest, Idle
      <4> QED BY <2>0, <3>1, <4>1, SetPositionEndsStep, TreeAtRest
    <3> QED BY <2>0, <2>4, <3>1, NewGameEndsStep, NewGameKeepsTree, SetupPositionStep,
               SetupKeepsTree
  <2>5. CASE ResetFollows \/ ResetReleases \/ ResetCreates \/ ResetEnds
    <3>1. Whole /\ root # NoNode
      BY <2>0, <2>5
      DEF ResetFollows, ResetReleases, ResetCreates, ResetEnds, GoInv, ResetInv, TreeInv
    <3> QED BY <2>0, <2>5, <3>1, ResetSteps, ResetKeepsTree
  <2>6. CASE StartSearch \/ SearchPlayout \/ SearchAnswers \/ Stop
    BY <2>0, <2>6, SearchSteps, SearchKeepsTree
  <2>7. CASE CollectGarbage
    <3>1. Collect /\ UNCHANGED <<root, head, history, engine, options, search, uci>>
      BY <2>7 DEF CollectGarbage, Collect
    <3> QED BY <2>0, <3>1, Aside, CollectKeepsTree DEF TypeOK
  <2>8. CASE UNCHANGED vars
    <3>1. UNCHANGED <<mem, root, head, history, gc, engine, options, search, uci>>
      BY <2>8 DEF vars
    <3> QED BY <2>0, <3>1, Aside, TreeAside DEF TypeOK
  <2> QED
    BY <2>1, <2>2, <2>3, <2>4, <2>5, <2>6, <2>7, <2>8, Zenon DEF Next
<1> QED BY <1>1, <1>2, PTL DEF Spec

(* Type correctness of what EngineController and EngineLoop keep.          *)
THEOREM TypeCorrect == Spec => []TypeOK
<1>1. IInv => TypeOK
  BY DEF IInv, GoInv
<1> QED BY <1>1, Invariance, PTL

(* NewGame(), SetPosition() and SetupPosition() destroy the search before  *)
(* they replace anything it points to.                                     *)
THEOREM WorldKept == Spec => []SearchKeepsItsWorld
<1>1. IInv => SearchKeepsItsWorld
  BY EngineAssumption, SearchThere
  DEF IInv, GoInv, SearchInv, StartInv, SearchKeepsItsWorld
<1> QED BY <1>1, Invariance, PTL

(* A bestmove answers the position of the last `position` command that is  *)
(* over: the one being set, in whose SetPosition() the search is still     *)
(* destroyed, is not looked at before.                                     *)
THEOREM AnswersCorrect == Spec => AnswersThePosition
<1>1. IInv /\ [Next]_vars =>
        [search.state = "running" /\ search'.state = "answered"
           => search.of = TargetOf(PositionSet, search.ponder)]_vars
  BY SearchThere DEF IInv, GoInv, SearchInv
<1> QED BY <1>1, Invariance, PTL DEF Spec, AnswersThePosition

(* ReleaseChildrenExceptOne(), ReleaseChildren(), TrimTreeAtHead() and     *)
(* DeallocateTree() queue just what leaves the tree, once, and the         *)
(* collector frees nothing the tree or the search can reach.               *)
THEOREM TreeWhole == Spec => []TreeIsWhole
<1>1. ASSUME IInv PROVE TreeIsWhole
  <2>1. Whole /\ QueueOK(gc, InTree)
    BY <1>1 DEF IInv, TreeInv, Whole
  <2>2. InTree \cap UNION Range(gc) = {}
    BY <2>1 DEF QueueOK, Range
  <2>3. root # NoNode => head \in InTree
    BY <2>1, HeadFacts
  <2>4. search # NoSearch => search.root \in InTree
    BY <1>1, <2>3, SearchThere DEF IInv, GoInv, SearchInv, TreeInv
  <2> QED BY <2>1, <2>2, <2>3, <2>4 DEF TreeIsWhole, QueueOK
<1> QED BY <1>1, Invariance, PTL

(* When a search begins, the visits it finds below the head add up,        *)
(* whichever moves ResetToPosition() made.                                 *)
THEOREM HeadVisitsCorrect == Spec => []HeadVisitsAddUp
<1>1. ASSUME IInv PROVE HeadVisitsAddUp
  <2>1. uci.at = "idle" /\ root # NoNode => VisitsOK(mem, head)
    BY <1>1 DEF IInv, TreeInv, AtRest
  <2> QED BY <2>1 DEF HeadVisitsAddUp, VisitsOK, CountOK
<1> QED BY <1>1, Invariance, PTL

-----------------------------------------------------------------------------
(* The moves that lead to a node: whose visits it holds. *)

Seen(m, x) == m[x].n > 0 \/ m[x].terminal

(* at[x] are the moves from the start of the game to x, along the nodes of *)
(* T; the head h is at the position pos, and the visits a node holds are   *)
(* of its own position.                                                    *)
Labels(m, T, r, h, pos, at) ==
  /\ at \in [Addresses -> Seq(Moves)]
  /\ at[r] = <<>> /\ at[h] = pos.moves
  /\ \A y \in T : \A k \in DOMAIN m[y].kids : at[m[y].kids[k]] = Append(at[y], k)
  /\ \A y \in T : Seen(m, y) => m[y].of = [fen |-> pos.fen, moves |-> at[y]]

Labelled ==
  root # NoNode => \E at : Labels(mem, InTree, root, head, history, at)

(* What a node is reached by, from its parent. *)
LEMMA KidsNamed ==
  ASSUME NEW m, Memory(m), NEW y \in Addresses
  PROVE  /\ DOMAIN m[y].kids \in SUBSET Moves
         /\ \A k \in DOMAIN m[y].kids : m[y].kids[k] \in Kids(m, y)
         /\ \A z \in Kids(m, y) : \E k \in DOMAIN m[y].kids : m[y].kids[k] = z
<1>1. m[y].kids \in UNION {[D -> Addresses] : D \in SUBSET Moves}
  BY DEF Memory, Node
<1> QED BY <1>1 DEF Kids, Range

LEMMA AppendToConcat ==
  ASSUME NEW S, NEW s \in Seq(S), NEW t \in Seq(S), NEW k \in S
  PROVE  s \o Append(t, k) = Append(s \o t, k) /\ Append(t, k) \in Seq(S)
<1> DEFINE single == <<k>>
<1>1. single \in Seq(S) /\ (s \o t) \in Seq(S)
  BY ConcatProperties
<1>2. Append(t, k) = t \o single /\ Append(t, k) \in Seq(S)
  BY AppendIsConcat, AppendProperties
<1>3. Append(s \o t, k) = (s \o t) \o single
  BY <1>1, AppendIsConcat
<1> HIDE DEF single
<1>4. (s \o t) \o single = s \o (t \o single)
  BY <1>1, ConcatAssociative
<1> QED BY <1>2, <1>3, <1>4

(* MovesTo() finds the moves below the head. *)
LEMMA MovesToLabels ==
  ASSUME Memory(mem), head \in Addresses, Forest(mem, head), NEW at,
         at \in [Addresses -> Seq(Moves)], at[head] = history.moves,
         \A y \in Subtrees(mem, {head}) :
           \A k \in DOMAIN mem[y].kids : at[mem[y].kids[k]] = Append(at[y], k),
         NEW x \in Subtrees(mem, {head})
  PROVE  history.moves \o MovesTo(x) = at[x] /\ MovesTo(x) \in Seq(Moves)
<1> DEFINE B == Subtrees(mem, {head})
           Parent(y) == CHOOSE q \in B : y \in Kids(mem, q)
           Name(y, p) == CHOOSE mv \in DOMAIN mem[p].kids : mem[p].kids[mv] = y
           Eq(g) == [y \in B |-> IF y = head THEN <<>>
                                 ELSE Append(g[Parent(y)], Name(y, Parent(y)))]
           Down == CHOOSE g : g = Eq(g)
           s0 == at[head]
<1>1. MovesTo(x) = Down[x]
  BY DEF MovesTo
<1>2. /\ KidsOK(mem) /\ B \in SUBSET Addresses /\ head \in B
      /\ \A y \in B : Kids(mem, y) \subseteq B
  BY MemoryFacts, Below
<1>3. \A y \in B : at[y] \in Seq(Moves)
  BY <1>2
<1>4. ASSUME NEW y \in B, y # head
      PROVE  /\ Parent(y) \in B /\ y \in Kids(mem, Parent(y))
             /\ Name(y, Parent(y)) \in DOMAIN mem[Parent(y)].kids
             /\ Name(y, Parent(y)) \in Moves
             /\ at[y] = Append(at[Parent(y)], Name(y, Parent(y)))
  <2> DEFINE p == Parent(y)
  <2>1. \E q \in B : y \in Kids(mem, q)
    <3>1. {head} \in SUBSET Addresses /\ y \notin {head}
      BY <1>4
    <3> QED BY <1>2, <3>1, HasParent
  <2>2. p \in B /\ y \in Kids(mem, p)
    BY <2>1
  <2> HIDE DEF p
  <2>3. p \in Addresses
    BY <1>2, <2>2
  <2>4. /\ DOMAIN mem[p].kids \in SUBSET Moves
        /\ \E k \in DOMAIN mem[p].kids : mem[p].kids[k] = y
    BY <2>2, <2>3, KidsNamed
  <2>5. /\ Name(y, p) \in DOMAIN mem[p].kids /\ mem[p].kids[Name(y, p)] = y
    BY <2>4
  <2>6. Name(y, p) \in Moves
    BY <2>4, <2>5
  <2> HIDE DEF Name
  <2>7. at[y] = Append(at[p], Name(y, p))
    BY <2>2, <2>5
  <2> QED BY <2>2, <2>5, <2>6, <2>7 DEF p
<1>5. ASSUME NEW y \in B, NEW z \in Kids(mem, y)
      PROVE  z \in B /\ z # head /\ Parent(z) = y
  <2>1. z \in B /\ z # head
    BY <1>2 DEF Forest
  <2>2. Parent(z) \in B /\ z \in Kids(mem, Parent(z))
    BY <1>4, <2>1
  <2> QED BY <2>1, <2>2 DEF Forest
<1> HIDE DEF Parent, Name, B
<1>6. ASSUME NEW t \in Seq(Moves), NEW y \in B, s0 \o t = at[y],
             NEW z \in B, z # head, Parent(z) = y
      PROVE  /\ s0 \o Append(t, Name(z, y)) = at[z]
             /\ Append(t, Name(z, y)) \in Seq(Moves)
  <2> DEFINE k == Name(z, y)
  <2>1. k \in Moves /\ at[z] = Append(at[y], k) /\ s0 \in Seq(Moves)
    BY <1>4, <1>6
  <2> HIDE DEF k, s0
  <2>2. s0 \o Append(t, k) = Append(s0 \o t, k) /\ Append(t, k) \in Seq(Moves)
    BY <1>6, <2>1, AppendToConcat
  <2> QED BY <1>6, <2>1, <2>2 DEF k
<1>7. \A y \in B : \E t \in Seq(Moves) : s0 \o t = at[y]
  <2> DEFINE C == {y \in B : \E t \in Seq(Moves) : s0 \o t = at[y]}
  <2>1. head \in C
    <3>1. s0 \in Seq(Moves) /\ <<>> \in Seq(Moves)
      BY EmptySeq
    <3>2. s0 \o <<>> = s0
      BY <3>1, ConcatEmptySeq
    <3> QED BY <1>2, <3>1, <3>2
  <2>2. ASSUME NEW y \in C PROVE Kids(mem, y) \subseteq C
    <3> SUFFICES ASSUME NEW z \in Kids(mem, y) PROVE z \in C
      OBVIOUS
    <3>1. y \in B /\ z \in B /\ z # head /\ Parent(z) = y
      BY <1>5
    <3>2. PICK t \in Seq(Moves) : s0 \o t = at[y]
      OBVIOUS
    <3> HIDE DEF s0
    <3>3. s0 \o Append(t, Name(z, y)) = at[z] /\ Append(t, Name(z, y)) \in Seq(Moves)
      BY <1>6, <3>1, <3>2
    <3> QED BY <3>1, <3>3
  <2>3. C \in SUBSET Addresses /\ {head} \subseteq C /\ {head} \in SUBSET Addresses
    BY <1>2, <2>1
  <2> HIDE DEF C
  <2>4. Subtrees(mem, {head}) \subseteq C
    BY <2>2, <2>3, SubtreesLeast
  <2> QED BY <2>4 DEF C, B
<1> HIDE DEF s0
<1>8. \E f : f = Eq(f)
  <2> DEFINE Rest(y) == CHOOSE t \in Seq(Moves) : s0 \o t = at[y]
             f == [y \in B |-> Rest(y)]
  <2>1. \A y \in B : f[y] \in Seq(Moves) /\ s0 \o f[y] = at[y]
    BY <1>7
  <2> HIDE DEF Rest
  <2>2. s0 \in Seq(Moves) /\ <<>> \in Seq(Moves)
    BY <1>2, <1>3, EmptySeq DEF s0
  <2>3. f = [y \in B |-> f[y]]
    OBVIOUS
  <2> HIDE DEF f
  <2>4. f[head] = <<>>
    <3>1. s0 \o f[head] = s0 /\ f[head] \in Seq(Moves)
      BY <1>2, <2>1 DEF s0
    <3> QED BY <2>2, <3>1, ConcatEqualIffEmpty
  <2>5. ASSUME NEW z \in B, z # head
        PROVE  f[z] = Append(f[Parent(z)], Name(z, Parent(z)))
    <3> DEFINE y == Parent(z)
               u == Append(f[y], Name(z, y))
    <3>1. y \in B /\ f[y] \in Seq(Moves) /\ s0 \o f[y] = at[y]
      BY <1>4, <2>1, <2>5
    <3>2. s0 \o u = at[z] /\ u \in Seq(Moves)
      BY <1>6, <2>5, <3>1
    <3>3. f[z] \in Seq(Moves) /\ s0 \o f[z] = s0 \o u
      BY <2>1, <2>5, <3>2
    <3> HIDE DEF u
    <3>4. f[z] = u
      BY <2>2, <3>2, <3>3, ConcatSimplifications
    <3> QED BY <3>4 DEF u
  <2>6. f = Eq(f)
    BY <2>3, <2>4, <2>5
  <2> QED BY <2>6
<1>9. Down = Eq(Down)
  <2> HIDE DEF Eq
  <2> QED BY <1>8
<1> HIDE DEF Down
<1>10. Down[head] = <<>>
       /\ \A z \in B : z # head => Down[z] = Append(Down[Parent(z)], Name(z, Parent(z)))
  BY <1>2, <1>9
<1> HIDE DEF Eq
<1>11. \A y \in B : Down[y] \in Seq(Moves) /\ s0 \o Down[y] = at[y]
  <2> DEFINE C == {y \in B : Down[y] \in Seq(Moves) /\ s0 \o Down[y] = at[y]}
  <2>1. head \in C
    <3>1. s0 \in Seq(Moves) /\ <<>> \in Seq(Moves)
      BY <1>2, <1>3, EmptySeq DEF s0
    <3>2. s0 \o <<>> = s0
      BY <3>1, ConcatEmptySeq
    <3> QED BY <1>2, <1>10, <3>1, <3>2 DEF s0
  <2>2. ASSUME NEW y \in C PROVE Kids(mem, y) \subseteq C
    <3> SUFFICES ASSUME NEW z \in Kids(mem, y) PROVE z \in C
      OBVIOUS
    <3>1. y \in B /\ z \in B /\ z # head /\ Parent(z) = y
      BY <1>5
    <3>2. Down[y] \in Seq(Moves) /\ s0 \o Down[y] = at[y]
      OBVIOUS
    <3>3. s0 \o Append(Down[y], Name(z, y)) = at[z]
          /\ Append(Down[y], Name(z, y)) \in Seq(Moves)
      BY <1>6, <3>1, <3>2
    <3> QED BY <1>10, <3>1, <3>3
  <2>3. C \in SUBSET Addresses /\ {head} \subseteq C /\ {head} \in SUBSET Addresses
    BY <1>2, <2>1
  <2> HIDE DEF C
  <2>4. Subtrees(mem, {head}) \subseteq C
    BY <2>2, <2>3, SubtreesLeast
  <2> QED BY <2>4 DEF C, B
<1>12. x \in B
  BY DEF B
<1> QED BY <1>1, <1>11, <1>12 DEF s0

-----------------------------------------------------------------------------
(* Labels stay when the tree changes. *)

(* Edges go, nodes lose their visits, or get those of their own position.  *)
LEMMA LabelsSame ==
  ASSUME NEW m, NEW m2, NEW T \in SUBSET Addresses, NEW T2 \in SUBSET T,
         NEW r, NEW h, NEW pos, NEW at, Labels(m, T, r, h, pos, at),
         NEW h2, NEW pos2, pos2.fen = pos.fen, at[h2] = pos2.moves,
         \A y \in T2 : \A k \in DOMAIN m2[y].kids :
           k \in DOMAIN m[y].kids /\ m2[y].kids[k] = m[y].kids[k],
         \A y \in T2 : Seen(m2, y) =>
           \/ Seen(m, y) /\ m2[y].of = m[y].of
           \/ m2[y].of = [fen |-> pos.fen, moves |-> at[y]]
  PROVE  Labels(m2, T2, r, h2, pos2, at)
<1>1. at \in [Addresses -> Seq(Moves)] /\ at[r] = <<>> /\ at[h2] = pos2.moves
  BY DEF Labels
<1>2. ASSUME NEW y \in T2, NEW k \in DOMAIN m2[y].kids
      PROVE  at[m2[y].kids[k]] = Append(at[y], k)
  <2>1. y \in T /\ k \in DOMAIN m[y].kids /\ m2[y].kids[k] = m[y].kids[k]
    OBVIOUS
  <2> QED BY <2>1, Zenon DEF Labels
<1>3. ASSUME NEW y \in T2, Seen(m2, y)
      PROVE  m2[y].of = [fen |-> pos2.fen, moves |-> at[y]]
  <2>1. \/ Seen(m, y) /\ m2[y].of = m[y].of
        \/ m2[y].of = [fen |-> pos.fen, moves |-> at[y]]
    BY <1>3
  <2>2. Seen(m, y) => m[y].of = [fen |-> pos.fen, moves |-> at[y]]
    BY Zenon DEF Labels
  <2> QED BY <2>1, <2>2
<1> QED BY <1>1, <1>2, <1>3, Zenon DEF Labels

(* A node x is put below p for the move k. *)
Labelled1(at, x, p, k) == [at EXCEPT ![x] = Append(at[p], k)]

Grown(m, m2, T, T2, x, p, k, pos, at) ==
  /\ T2 \subseteq T \cup {x}
  /\ \A y \in T2 \ {x} :
       /\ \A j \in DOMAIN m2[y].kids :
            \/ j \in DOMAIN m[y].kids /\ m2[y].kids[j] = m[y].kids[j] /\ m[y].kids[j] \in T
            \/ y = p /\ j = k /\ m2[y].kids[j] = x
       /\ Seen(m2, y) => Seen(m, y) /\ m2[y].of = m[y].of
  /\ DOMAIN m2[x].kids = {}
  /\ Seen(m2, x) => m2[x].of = [fen |-> pos.fen, moves |-> Append(at[p], k)]

LEMMA LabelsMore ==
  ASSUME NEW m, NEW m2, NEW T \in SUBSET Addresses, NEW T2,
         NEW x \in Addresses, x \notin T,
         NEW r \in T, NEW h, NEW pos, NEW at, Labels(m, T, r, h, pos, at),
         NEW p \in T, NEW k \in Moves, Grown(m, m2, T, T2, x, p, k, pos, at),
         NEW h2, NEW pos2, pos2.fen = pos.fen,
         Labelled1(at, x, p, k)[h2] = pos2.moves
  PROVE  Labels(m2, T2, r, h2, pos2, Labelled1(at, x, p, k))
<1> USE DEF Grown
<1> DEFINE b == Labelled1(at, x, p, k)
<1>1. at \in [Addresses -> Seq(Moves)] /\ at[p] \in Seq(Moves)
  BY DEF Labels
<1>2. Append(at[p], k) \in Seq(Moves)
  BY <1>1, AppendProperties
<1>3. /\ b \in [Addresses -> Seq(Moves)] /\ b[x] = Append(at[p], k)
      /\ \A y \in T : b[y] = at[y]
  BY <1>1, <1>2 DEF Labelled1
<1> HIDE DEF b
<1>4. b[r] = <<>>
  BY <1>3 DEF Labels
<1>5. ASSUME NEW y \in T2, NEW j \in DOMAIN m2[y].kids
      PROVE  b[m2[y].kids[j]] = Append(b[y], j)
  <2>1. y # x /\ y \in T
    <3>1. ASSUME y = x PROVE FALSE
      <4>1. DOMAIN m2[y].kids = {}
        BY <3>1
      <4> QED BY <1>5, <4>1
    <3> QED BY <1>5, <3>1
  <2>2. CASE j \in DOMAIN m[y].kids /\ m2[y].kids[j] = m[y].kids[j] /\ m[y].kids[j] \in T
    <3>1. at[m[y].kids[j]] = Append(at[y], j)
      BY <2>1, <2>2 DEF Labels
    <3>2. b[m2[y].kids[j]] = at[m[y].kids[j]] /\ b[y] = at[y]
      BY <1>3, <2>1, <2>2
    <3> QED BY <3>1, <3>2
  <2>3. CASE y = p /\ j = k /\ m2[y].kids[j] = x
    BY <1>3, <2>3
  <2> QED BY <1>5, <2>1, <2>2, <2>3
<1>6. ASSUME NEW y \in T2, Seen(m2, y)
      PROVE  m2[y].of = [fen |-> pos.fen, moves |-> b[y]]
  <2>1. CASE y = x
    BY <1>3, <1>6, <2>1
  <2>2. CASE y # x
    BY <1>3, <1>6, <2>2 DEF Labels
  <2> QED BY <2>1, <2>2
<1>7. b[h2] = pos2.moves
  BY DEF b
<1>8. Labels(m2, T2, r, h2, pos2, b)
  BY <1>3, <1>4, <1>5, <1>6, <1>7 DEF Labels
<1> QED BY <1>8 DEF b

(* What the tree can reach afterwards. *)
LEMMA TreeWithin ==
  ASSUME root # NoNode, root' = root, NEW C \in SUBSET Addresses, root \in C,
         \A y \in C : Kids(mem', y) \subseteq C
  PROVE  InTree' \subseteq C
<1>1. {root} \in SUBSET Addresses /\ {root} \subseteq C
  OBVIOUS
<1>2. Subtrees(mem', {root}) \subseteq C
  <2> DEFINE m2 == mem'
  <2>1. \A y \in C : Kids(m2, y) \subseteq C
    OBVIOUS
  <2> HIDE DEF m2
  <2>2. Subtrees(m2, {root}) \subseteq C
    BY <1>1, <2>1, SubtreesLeast
  <2> QED BY <2>2 DEF m2
<1> QED BY <1>2 DEF InTree

(* One node is changed. *)
LEMMA NodeFields ==
  ASSUME NEW m, Memory(m), NEW y \in Addresses, NEW f
  PROVE  LET s == [m[y] EXCEPT !.kids = f]
         IN /\ s.kids = f /\ s.n = m[y].n /\ s.terminal = m[y].terminal /\ s.of = m[y].of
<1>1. m[y] \in Node(m[y].of)
  BY DEF Memory
<1> QED BY <1>1 DEF Node

LEMMA EmptyKids == DOMAIN BareNode.kids = {} /\ BareNode.n = 0 /\ ~BareNode.terminal
  BY BareFacts

(* The facts about the tree that each step uses. *)
LEMMA TreeFacts ==
  ASSUME Whole, root # NoNode
  PROVE  /\ Memory(mem) /\ InTree \in SUBSET Addresses
         /\ root \in InTree /\ head \in InTree /\ head \in Addresses
         /\ \A y \in InTree : Kids(mem, y) \subseteq InTree
         /\ \A y \in InTree : \A k \in DOMAIN mem[y].kids : mem[y].kids[k] \in InTree
         /\ \A x \in Free : x \in Addresses /\ x \notin InTree
<1>1. /\ Memory(mem) /\ InTree \in SUBSET Addresses
      /\ head \in InTree /\ head \in Addresses
      /\ \A y \in InTree : Kids(mem, y) \subseteq InTree
      /\ \A x \in Free : x \in Addresses /\ x \notin InTree
      /\ KidsOK(mem) /\ root \in Addresses /\ InTree = Subtrees(mem, {root})
  BY HeadFacts
<1>2. root \in InTree
  BY <1>1, Below
<1>3. \A y \in InTree : \A k \in DOMAIN mem[y].kids : mem[y].kids[k] \in InTree
  BY <1>1, KidsNamed
<1> QED BY <1>1, <1>2, <1>3

(* No node is added, and the head is at the new position. *)
LEMMA LabelsKept ==
  ASSUME Whole, root # NoNode, root' = root, NEW at,
         Labels(mem, InTree, root, head, history, at),
         history'.fen = history.fen, at[head'] = history'.moves,
         \A y \in InTree :
           /\ \A k \in DOMAIN mem'[y].kids :
                k \in DOMAIN mem[y].kids /\ mem'[y].kids[k] = mem[y].kids[k]
           /\ Seen(mem', y) =>
                \/ Seen(mem, y) /\ mem'[y].of = mem[y].of
                \/ mem'[y].of = [fen |-> history.fen, moves |-> at[y]]
  PROVE  Labelled'
<1> DEFINE m2 == mem'
           T2 == InTree'
           h2 == head'
           pos2 == history'
<1>1. /\ InTree \in SUBSET Addresses /\ root \in InTree
      /\ \A y \in InTree : \A k \in DOMAIN mem[y].kids : mem[y].kids[k] \in InTree
  BY TreeFacts
<1>2. \A y \in InTree : Kids(m2, y) \subseteq InTree
  <2> SUFFICES ASSUME NEW y \in InTree, NEW k \in DOMAIN m2[y].kids
               PROVE  m2[y].kids[k] \in InTree
    BY DEF Kids, Range
  <2>1. k \in DOMAIN mem[y].kids /\ m2[y].kids[k] = mem[y].kids[k]
    OBVIOUS
  <2> HIDE DEF m2
  <2> QED BY <1>1, <2>1
<1>3. T2 \in SUBSET InTree
  BY <1>1, <1>2, TreeWithin
<1>4. /\ pos2.fen = history.fen /\ at[h2] = pos2.moves
      /\ \A y \in T2 : \A k \in DOMAIN m2[y].kids :
           k \in DOMAIN mem[y].kids /\ m2[y].kids[k] = mem[y].kids[k]
      /\ \A y \in T2 : Seen(m2, y) =>
           \/ Seen(mem, y) /\ m2[y].of = mem[y].of
           \/ m2[y].of = [fen |-> history.fen, moves |-> at[y]]
  BY <1>3
<1> HIDE DEF m2, T2, h2, pos2
<1>5. Labels(m2, T2, root, h2, pos2, at)
  BY <1>1, <1>3, <1>4, LabelsSame
<1> QED BY <1>5 DEF Labelled, m2, T2, h2, pos2

(* A node is added below p. *)
LEMMA LabelsGrown ==
  ASSUME Whole, root # NoNode, root' = root, NEW at,
         Labels(mem, InTree, root, head, history, at),
         NEW x \in Free, NEW p \in InTree, NEW k \in Moves,
         history'.fen = history.fen,
         Labelled1(at, x, p, k)[head'] = history'.moves,
         \A y \in InTree :
           /\ \A j \in DOMAIN mem'[y].kids :
                \/ j \in DOMAIN mem[y].kids /\ mem'[y].kids[j] = mem[y].kids[j]
                \/ y = p /\ j = k /\ mem'[y].kids[j] = x
           /\ Seen(mem', y) => Seen(mem, y) /\ mem'[y].of = mem[y].of,
         DOMAIN mem'[x].kids = {},
         Seen(mem', x) => mem'[x].of = [fen |-> history.fen, moves |-> Append(at[p], k)]
  PROVE  Labelled'
<1> DEFINE m2 == mem'
           T2 == InTree'
           h2 == head'
           pos2 == history'
           C == InTree \cup {x}
<1>1. /\ InTree \in SUBSET Addresses /\ root \in InTree
      /\ \A y \in InTree : \A j \in DOMAIN mem[y].kids : mem[y].kids[j] \in InTree
      /\ x \in Addresses /\ x \notin InTree
  BY TreeFacts
<1>2. \A y \in C : Kids(m2, y) \subseteq C
  BY <1>1 DEF Kids, Range
<1>3. C \in SUBSET Addresses /\ root \in C
  BY <1>1
<1>4. T2 \subseteq InTree \cup {x}
  <2>1. T2 \subseteq C
    <3> HIDE DEF C
    <3> QED BY <1>2, <1>3, TreeWithin
  <2> QED BY <2>1
<1>5. /\ pos2.fen = history.fen /\ Labelled1(at, x, p, k)[h2] = pos2.moves
      /\ Grown(mem, m2, InTree, T2, x, p, k, history, at)
  BY <1>1, <1>4 DEF Grown
<1> HIDE DEF m2, T2, h2, pos2, C
<1>6. Labels(m2, T2, root, h2, pos2, Labelled1(at, x, p, k))
  BY <1>1, <1>5, LabelsMore
<1> QED BY <1>6 DEF Labelled, m2, T2, h2, pos2

-----------------------------------------------------------------------------
(* The labels after the moves of ResetToPosition(). *)

(* Children go, no label changes. *)
LEMMA ReleaseLabels ==
  ASSUME Whole, root # NoNode, Labelled, NEW move, ReleaseChildren(move)
  PROVE  Labelled'
<1>1. /\ mem' = [mem EXCEPT ![head].kids = <<>>]
      /\ UNCHANGED <<root, head, history>>
  BY DEF ReleaseChildren
<1>2. Memory(mem) /\ InTree \in SUBSET Addresses /\ head \in Addresses
  BY TreeFacts
<1>3. PICK at : Labels(mem, InTree, root, head, history, at)
  BY DEF Labelled
<1> DEFINE s == [mem[head] EXCEPT !.kids = <<>>]
<1>4. /\ s.n = mem[head].n /\ s.terminal = mem[head].terminal
      /\ s.of = mem[head].of /\ DOMAIN s.kids = {}
  BY <1>2, NodeFields, BareFacts
<1>5. mem'[head] = s /\ \A y \in Addresses \ {head} : mem'[y] = mem[y]
  BY <1>1, <1>2 DEF Memory
<1> HIDE DEF s
<1>6. \A y \in InTree :
        /\ \A k \in DOMAIN mem'[y].kids :
             k \in DOMAIN mem[y].kids /\ mem'[y].kids[k] = mem[y].kids[k]
        /\ Seen(mem', y) => Seen(mem, y) /\ mem'[y].of = mem[y].of
  BY <1>2, <1>4, <1>5 DEF Seen
<1>7. at[head'] = history'.moves /\ history'.fen = history.fen /\ root' = root
  BY <1>1, <1>3 DEF Labels
<1>8. \A y \in InTree :
        /\ \A k \in DOMAIN mem'[y].kids :
             k \in DOMAIN mem[y].kids /\ mem'[y].kids[k] = mem[y].kids[k]
        /\ Seen(mem', y) =>
             \/ Seen(mem, y) /\ mem'[y].of = mem[y].of
             \/ mem'[y].of = [fen |-> history.fen, moves |-> at[y]]
  BY <1>6, Zenon
<1> QED BY <1>3, <1>7, <1>8, LabelsKept

LEMMA TrimLabels ==
  ASSUME Whole, root # NoNode, Labelled, TrimTreeAtHead
  PROVE  Labelled'
<1>1. mem' = [mem EXCEPT ![head] = BareNode] /\ UNCHANGED <<root, head, history>>
  BY DEF TrimTreeAtHead
<1>2. Memory(mem) /\ InTree \in SUBSET Addresses /\ head \in Addresses
  BY TreeFacts
<1>3. PICK at : Labels(mem, InTree, root, head, history, at)
  BY DEF Labelled
<1> DEFINE s == BareNode
<1>4. DOMAIN s.kids = {} /\ s.n = 0 /\ ~s.terminal
  BY EmptyKids
<1>5. mem'[head] = s /\ \A y \in Addresses \ {head} : mem'[y] = mem[y]
  BY <1>1, <1>2 DEF Memory
<1> HIDE DEF s
<1>6. \A y \in InTree :
        /\ \A k \in DOMAIN mem'[y].kids :
             k \in DOMAIN mem[y].kids /\ mem'[y].kids[k] = mem[y].kids[k]
        /\ Seen(mem', y) => Seen(mem, y) /\ mem'[y].of = mem[y].of
  BY <1>2, <1>4, <1>5 DEF Seen
<1>7. at[head'] = history'.moves /\ history'.fen = history.fen /\ root' = root
  BY <1>1, <1>3 DEF Labels
<1>8. \A y \in InTree :
        /\ \A k \in DOMAIN mem'[y].kids :
             k \in DOMAIN mem[y].kids /\ mem'[y].kids[k] = mem[y].kids[k]
        /\ Seen(mem', y) =>
             \/ Seen(mem, y) /\ mem'[y].of = mem[y].of
             \/ mem'[y].of = [fen |-> history.fen, moves |-> at[y]]
  BY <1>6, Zenon
<1> QED BY <1>3, <1>7, <1>8, LabelsKept

(* The child that is kept is at the position after the move. *)
LEMMA FollowLabels ==
  ASSUME Whole, root # NoNode, Labelled, history \in Position,
         NEW move \in Moves, FollowEdge(move)
  PROVE  Labelled'
<1> DEFINE x == head'
           there == move \in DOMAIN mem[head].kids
           m1 == IF there THEN mem ELSE [mem EXCEPT ![x] = BareNode]
           s == IF m1[x].terminal THEN MadeNotTerminal(m1, x) ELSE m1[x]
           f == [k \in {move} |-> x]
           t == [mem[head] EXCEPT !.kids = f]
<1>1. /\ root' = root /\ history' = Extended(history, move)
      /\ x \in (IF there THEN {mem[head].kids[move]} ELSE Free)
      /\ mem' = [m1 EXCEPT ![head].kids = f, ![x] = s]
  BY DEF FollowEdge
<1>2. /\ Memory(mem) /\ InTree \in SUBSET Addresses /\ head \in InTree
      /\ head \in Addresses /\ \A y \in Free : y \in Addresses /\ y \notin InTree
      /\ \A y \in InTree : \A k \in DOMAIN mem[y].kids : mem[y].kids[k] \in InTree
  BY TreeFacts
<1>3. PICK at : Labels(mem, InTree, root, head, history, at)
  BY DEF Labelled
<1>4. /\ t.kids = f /\ t.n = mem[head].n /\ t.terminal = mem[head].terminal
      /\ t.of = mem[head].of
  <2> HIDE DEF f
  <2> QED BY <1>2, NodeFields
<1>5. /\ history'.fen = history.fen /\ history'.moves = Append(history.moves, move)
      /\ at[head] = history.moves /\ at \in [Addresses -> Seq(Moves)]
  BY <1>1, <1>3 DEF Extended, Position, Labels
<1>6. DOMAIN f = {move} /\ f[move] = x
  OBVIOUS
<1>7. CASE there
  <2>1. x = mem[head].kids[move] /\ m1 = mem /\ x \in InTree /\ x \in Addresses
    BY <1>1, <1>2, <1>7
  <2>2. x # head
    <3>1. /\ KidsOK(mem) /\ Forest(mem, head)
      BY HeadFacts
    <3>2. head \notin Kids(mem, head)
      BY <1>2, <3>1, Below DEF Forest
    <3> QED BY <1>2, <1>7, <2>1, <3>2, KidsNamed
  <2>3. /\ s.kids = mem[x].kids /\ s.of = mem[x].of
        /\ Seen(mem, x) \/ ~(s.n > 0 \/ s.terminal)
    <3>1. mem[x] \in Node(mem[x].of)
      BY <1>2, <2>1 DEF Memory
    <3>2. CASE mem[x].terminal
      <4>1. s = MadeNotTerminal(mem, x)
        BY <2>1, <3>2
      <4>2. s.kids = mem[x].kids /\ s.of = mem[x].of
        <5> DEFINE v == IF mem[x].edges = {} THEN 0 ELSE 1 + ChildVisits(mem, x)
                   r == mem[x]
        <5>1. MadeNotTerminal(mem, x) = [r EXCEPT !.terminal = FALSE, !.n = v]
          BY DEF MadeNotTerminal
        <5>2. r \in Node(r.of)
          BY <3>1
        <5> HIDE DEF v, r, s
        <5>3. s.kids = r.kids /\ s.of = r.of
          BY <4>1, <5>1, <5>2 DEF Node
        <5> QED BY <5>3 DEF r
      <4> QED BY <3>2, <4>2 DEF Seen
    <3>3. CASE ~mem[x].terminal
      <4>1. s = mem[x]
        BY <2>1, <3>3
      <4> QED BY <4>1 DEF Seen
    <3> QED BY <3>2, <3>3
  <2>4. /\ mem'[head] = t /\ mem'[x] = s
        /\ \A y \in Addresses \ {head, x} : mem'[y] = mem[y]
    <3>1. mem' = [mem EXCEPT ![head].kids = f, ![x] = s]
      BY <1>1, <2>1
    <3> HIDE DEF s, f, x
    <3> QED BY <1>2, <2>1, <2>2, <3>1 DEF Memory
  <2> HIDE DEF s, t, f
  <2>5. \A y \in InTree :
          /\ \A k \in DOMAIN mem'[y].kids :
               k \in DOMAIN mem[y].kids /\ mem'[y].kids[k] = mem[y].kids[k]
          /\ Seen(mem', y) => Seen(mem, y) /\ mem'[y].of = mem[y].of
    <3> SUFFICES ASSUME NEW y \in InTree
                 PROVE  /\ \A k \in DOMAIN mem'[y].kids :
                             k \in DOMAIN mem[y].kids /\ mem'[y].kids[k] = mem[y].kids[k]
                        /\ Seen(mem', y) => Seen(mem, y) /\ mem'[y].of = mem[y].of
      OBVIOUS
    <3>1. CASE y = head
      BY <1>4, <1>6, <1>7, <2>1, <2>4, <3>1 DEF Seen
    <3>2. CASE y = x
      BY <2>3, <2>4, <3>2 DEF Seen
    <3>3. CASE y \notin {head, x}
      BY <1>2, <2>4, <3>3 DEF Seen
    <3> QED BY <3>1, <3>2, <3>3
  <2>6. at[head'] = history'.moves
    BY <1>2, <1>3, <1>5, <1>7, <2>1 DEF Labels
  <2>7. root' = root /\ history'.fen = history.fen
    BY <1>1, <1>5
  <2> HIDE DEF x
  <2> QED BY <1>3, <2>5, <2>6, <2>7, LabelsKept
<1>8. CASE ~there
  <2>1. x \in Free /\ x \in Addresses /\ x \notin InTree /\ x # head
    BY <1>1, <1>2, <1>8
  <2>2. m1[x] = BareNode /\ s = BareNode
    <3>1. m1[x] = BareNode
      BY <1>2, <1>8, <2>1 DEF Memory
    <3> QED BY <3>1, BareFacts
  <2>3. /\ mem'[head] = t /\ mem'[x] = BareNode
        /\ \A y \in Addresses \ {head, x} : mem'[y] = mem[y]
    <3> DEFINE b == BareNode
    <3>1. mem' = [[mem EXCEPT ![x] = b] EXCEPT ![head].kids = f, ![x] = b]
      BY <1>1, <1>8, <2>2
    <3> HIDE DEF b, f, x
    <3> QED BY <1>2, <2>1, <3>1 DEF Memory, b
  <2> HIDE DEF s, t, f
  <2>4. \A y \in InTree :
          /\ \A j \in DOMAIN mem'[y].kids :
               \/ j \in DOMAIN mem[y].kids /\ mem'[y].kids[j] = mem[y].kids[j]
               \/ y = head /\ j = move /\ mem'[y].kids[j] = x
          /\ Seen(mem', y) => Seen(mem, y) /\ mem'[y].of = mem[y].of
    <3> SUFFICES ASSUME NEW y \in InTree
                 PROVE  /\ \A j \in DOMAIN mem'[y].kids :
                             \/ j \in DOMAIN mem[y].kids /\ mem'[y].kids[j] = mem[y].kids[j]
                             \/ y = head /\ j = move /\ mem'[y].kids[j] = x
                        /\ Seen(mem', y) => Seen(mem, y) /\ mem'[y].of = mem[y].of
      OBVIOUS
    <3>1. CASE y = head
      BY <1>4, <1>6, <2>3, <3>1 DEF Seen
    <3>2. CASE y # head
      BY <1>2, <2>1, <2>3, <3>2 DEF Seen
    <3> QED BY <3>1, <3>2
  <2>5. DOMAIN mem'[x].kids = {} /\ ~Seen(mem', x)
    BY <2>3, EmptyKids DEF Seen
  <2>6. Labelled1(at, x, head, move)[head'] = history'.moves
    BY <1>2, <1>5, <2>1 DEF Labelled1
  <2>7. root' = root /\ history'.fen = history.fen /\ head \in InTree
    BY <1>1, <1>2, <1>5
  <2>8. Seen(mem', x) => mem'[x].of = [fen |-> history.fen, moves |-> Append(at[head], move)]
    BY <2>5, Zenon
  <2> HIDE DEF x
  <2> QED BY <1>3, <2>1, <2>4, <2>5, <2>6, <2>7, <2>8, LabelsGrown
<1> QED BY <1>7, <1>8

(* The single child that is created is at the position after the move. *)
LEMMA CreateLabels ==
  ASSUME Whole, root # NoNode, Labelled, history \in Position,
         NEW move \in Moves, CreateSingleChildNode(move)
  PROVE  Labelled'
<1>1. PICK x \in Free :
        /\ mem' = [mem EXCEPT ![x] = BareNode, ![head].edges = {move},
                              ![head].kids = [k \in {move} |-> x]]
        /\ head' = x
  BY DEF CreateSingleChildNode
<1> DEFINE f == [k \in {move} |-> x]
           b == BareNode
           e == {move}
<1>2. /\ Memory(mem) /\ InTree \in SUBSET Addresses /\ head \in InTree
      /\ head \in Addresses /\ x \in Addresses /\ x \notin InTree /\ x # head
  BY TreeFacts
<1>3. PICK at : Labels(mem, InTree, root, head, history, at)
  BY DEF Labelled
<1>4. /\ root' = root /\ history'.fen = history.fen
      /\ history'.moves = Append(history.moves, move)
      /\ at[head] = history.moves /\ at \in [Addresses -> Seq(Moves)]
  BY <1>3 DEF CreateSingleChildNode, Extended, Position, Labels
<1>5. DOMAIN f = {move} /\ f[move] = x
  OBVIOUS
<1>6. /\ mem'[head].kids = f /\ mem'[head].n = mem[head].n
      /\ mem'[head].terminal = mem[head].terminal /\ mem'[head].of = mem[head].of
      /\ mem'[x] = b /\ \A y \in Addresses \ {head, x} : mem'[y] = mem[y]
  <2> DEFINE t == [[mem[head] EXCEPT !.edges = e] EXCEPT !.kids = f]
  <2>1. mem' = [mem EXCEPT ![x] = b, ![head].edges = e, ![head].kids = f]
    BY <1>1
  <2> HIDE DEF f, b, e
  <2>2. mem'[head] = t /\ mem'[x] = b /\ \A y \in Addresses \ {head, x} : mem'[y] = mem[y]
    BY <1>2, <2>1 DEF Memory
  <2>3. mem[head] \in Node(mem[head].of)
    BY <1>2 DEF Memory
  <2>4. t.kids = f /\ t.n = mem[head].n /\ t.terminal = mem[head].terminal
        /\ t.of = mem[head].of
    BY <2>3 DEF Node
  <2> QED BY <2>2, <2>4
<1> HIDE DEF f
<1>7. \A y \in InTree :
        /\ \A j \in DOMAIN mem'[y].kids :
             \/ j \in DOMAIN mem[y].kids /\ mem'[y].kids[j] = mem[y].kids[j]
             \/ y = head /\ j = move /\ mem'[y].kids[j] = x
        /\ Seen(mem', y) => Seen(mem, y) /\ mem'[y].of = mem[y].of
  <2> SUFFICES ASSUME NEW y \in InTree
               PROVE  /\ \A j \in DOMAIN mem'[y].kids :
                           \/ j \in DOMAIN mem[y].kids /\ mem'[y].kids[j] = mem[y].kids[j]
                           \/ y = head /\ j = move /\ mem'[y].kids[j] = x
                      /\ Seen(mem', y) => Seen(mem, y) /\ mem'[y].of = mem[y].of
    OBVIOUS
  <2>1. CASE y = head
    BY <1>5, <1>6, <2>1 DEF Seen
  <2>2. CASE y # head
    BY <1>2, <1>6, <2>2 DEF Seen
  <2> QED BY <2>1, <2>2
<1>8. DOMAIN mem'[x].kids = {} /\ ~Seen(mem', x)
  BY <1>6, EmptyKids DEF Seen
<1>9. Labelled1(at, x, head, move)[head'] = history'.moves
  <2>1. Labelled1(at, x, head, move)[x] = Append(at[head], move)
    BY <1>2, <1>4 DEF Labelled1
  <2> QED BY <1>1, <1>4, <2>1
<1>10. root' = root /\ history'.fen = history.fen /\ head \in InTree
  BY <1>2, <1>4
<1>11. Seen(mem', x) => mem'[x].of = [fen |-> history.fen, moves |-> Append(at[head], move)]
  BY <1>8, Zenon
<1> QED BY <1>3, <1>7, <1>8, <1>9, <1>10, <1>11, LabelsGrown

(* A new game: the old tree from its root, or a new root. *)
LEMMA BeginLabels ==
  ASSUME Whole, Labelled, NEW fen, BeginGame(fen)
  PROVE  Labelled'
<1>1. history' = [fen |-> fen, moves |-> <<>>]
  BY DEF BeginGame
<1>2. CASE SameStart(fen)
  <2>1. /\ root # NoNode /\ history.fen = fen
        /\ mem' = mem /\ root' = root /\ head' = root
    BY <1>2 DEF BeginGame, SameStart
  <2>2. PICK at : Labels(mem, InTree, root, head, history, at)
    BY <2>1 DEF Labelled
  <2>3. at[head'] = history'.moves /\ history'.fen = history.fen
    BY <1>1, <2>1, <2>2 DEF Labels
  <2>4. \A y \in InTree :
          /\ \A k \in DOMAIN mem'[y].kids :
               k \in DOMAIN mem[y].kids /\ mem'[y].kids[k] = mem[y].kids[k]
          /\ Seen(mem', y) => Seen(mem, y) /\ mem'[y].of = mem[y].of
    BY <2>1 DEF Seen
  <2> QED BY <2>1, <2>2, <2>3, <2>4, LabelsKept
<1>3. CASE ~SameStart(fen)
  <2>1. PICK x \in Free : root' = x /\ head' = x /\ mem' = [mem EXCEPT ![x] = BareNode]
    BY <1>3 DEF BeginGame
  <2>2. x \in Addresses /\ Memory(mem)
    BY DEF Free, Whole
  <2>3. mem'[x] = BareNode
    BY <2>1, <2>2 DEF Memory
  <2>4. DOMAIN mem'[x].kids = {} /\ ~Seen(mem', x)
    BY <2>3, EmptyKids DEF Seen
  <2>5. x # NoNode
    BY <2>2, MemoryAssumption
  <2> DEFINE C == {x}
  <2>6. Subtrees(mem', {x}) \subseteq C
    <3> DEFINE m2 == mem'
    <3>1. /\ C \in SUBSET Addresses
          /\ \A y \in C : Kids(m2, y) \subseteq C
      BY <2>2, <2>4 DEF Kids, Range
    <3> HIDE DEF m2, C
    <3>2. Subtrees(m2, C) \subseteq C
      BY <3>1, SubtreesLeast
    <3> QED BY <3>2 DEF m2, C
  <2>7. InTree' \subseteq {x}
    BY <2>1, <2>6 DEF InTree
  <2> DEFINE at == [y \in Addresses |-> <<>>]
  <2>8. Labels(mem', InTree', root', head', history', at)
    <3>1. at \in [Addresses -> Seq(Moves)]
      BY EmptySeq
    <3>2. at[root'] = <<>> /\ at[head'] = history'.moves
      BY <1>1, <2>1, <2>2
    <3>3. \A y \in InTree' : DOMAIN mem'[y].kids = {} /\ ~Seen(mem', y)
      BY <2>4, <2>7
    <3> HIDE DEF at
    <3> QED BY <3>1, <3>2, <3>3 DEF Labels
  <2> QED BY <2>8 DEF Labelled
<1> QED BY <1>2, <1>3

-----------------------------------------------------------------------------
(* The labels after a playout. *)

(* Counting changes nothing else. *)
LEMMA CountedOf ==
  ASSUME NEW m, Memory(m), NEW xs, NEW y \in Addresses
  PROVE  Counted(m, xs)[y].of = m[y].of
<1>1. Counted(m, xs)[y] = IF y \in xs THEN [m[y] EXCEPT !.n = m[y].n + 1] ELSE m[y]
  BY DEF Counted
<1>2. m[y] \in Node(m[y].of)
  BY DEF Memory
<1> DEFINE v == m[y].n + 1
           r == m[y]
<1>3. [r EXCEPT !.n = v].of = r.of
  <2> HIDE DEF v, r
  <2> QED BY <1>2 DEF Node, r
<1> QED BY <1>1, <1>3

(* A playout counts at nodes that were visited before. *)
LEMMA PathSeen ==
  ASSUME Whole, root # NoNode, VisitsOK(mem, head),
         NEW p \in Subtrees(mem, {head}), Seen(mem, p)
  PROVE  \A y \in Path(p) : Seen(mem, y)
<1>1. Memory(mem) /\ head \in Addresses /\ Subtrees(mem, {head}) \subseteq Addresses
  BY HeadFacts
<1>2. mem[p].n > 0
  <2>1. CASE mem[p].terminal
    <3>1. mem[p].n >= 1 + ChildVisits(mem, p)
      BY <2>1 DEF VisitsOK, CountOK
    <3>2. ChildVisits(mem, p) \in Nat /\ mem[p].n \in Nat
      BY <1>1, ChildVisitsFacts, MemoryFacts
    <3> QED BY <3>1, <3>2
  <2> QED BY <2>1 DEF Seen
<1>3. \A y \in Path(p) : y \in Subtrees(mem, {head}) /\ p \in Subtrees(mem, {y})
  BY DEF Path
<1>4. ASSUME NEW y \in Path(p) PROVE mem[y].n > 0
  <2> DEFINE m == mem
             h == head
  <2>1. /\ Memory(m) /\ h \in Addresses /\ VisitsOK(m, h) /\ y \in Subtrees(m, {h})
        /\ p \in Subtrees(m, {y}) /\ m[p].n > 0
    BY <1>1, <1>2, <1>3
  <2> HIDE DEF m, h
  <2>2. m[y].n > 0
    BY <2>1, VisitedAbove
  <2> QED BY <2>2 DEF m
<1> QED BY <1>4 DEF Seen

(* The visits of a new node are of its own position. *)
LEMMA VisitHeadLabels ==
  ASSUME Whole, root # NoNode, Labelled, history \in Position, VisitHead
  PROVE  Labelled'
<1>1. PICK es \in SUBSET Moves : mem' = [mem EXCEPT ![head] = Visited(es, history)]
  BY DEF VisitHead, Visited
<1>2. /\ Memory(mem) /\ InTree \in SUBSET Addresses /\ head \in Addresses
      /\ UNCHANGED <<root, head, history>>
  BY TreeFacts DEF VisitHead
<1>3. PICK at : Labels(mem, InTree, root, head, history, at)
  BY DEF Labelled
<1> DEFINE s == Visited(es, history)
<1>4. DOMAIN s.kids = {} /\ s.of = history
  <2>1. s.kids = <<>>
    BY VisitedFacts
  <2>2. s.of = history
    BY DEF Visited, BareNode
  <2> QED BY <2>1, <2>2, BareFacts
<1>5. mem'[head] = s /\ \A y \in Addresses \ {head} : mem'[y] = mem[y]
  <2> HIDE DEF s
  <2>1. mem' = [mem EXCEPT ![head] = s]
    BY <1>1 DEF s
  <2> QED BY <1>2, <2>1 DEF Memory
<1> HIDE DEF s
<1>6. history = [fen |-> history.fen, moves |-> at[head]]
  BY <1>3 DEF Labels, Position
<1>7. \A y \in InTree :
        /\ \A k \in DOMAIN mem'[y].kids :
             k \in DOMAIN mem[y].kids /\ mem'[y].kids[k] = mem[y].kids[k]
        /\ Seen(mem', y) =>
             \/ Seen(mem, y) /\ mem'[y].of = mem[y].of
             \/ mem'[y].of = [fen |-> history.fen, moves |-> at[y]]
  BY <1>2, <1>4, <1>5, <1>6 DEF Seen
<1>8. at[head'] = history'.moves /\ history'.fen = history.fen /\ root' = root
  BY <1>2, <1>3 DEF Labels
<1> QED BY <1>3, <1>7, <1>8, LabelsKept

LEMMA TerminalLabels ==
  ASSUME Whole, root # NoNode, Labelled, VisitsOK(mem, head),
         VisitTerminal \/ ConvertToTerminal
  PROVE  Labelled'
<1>1. /\ Memory(mem) /\ InTree \in SUBSET Addresses /\ head \in Addresses
      /\ Subtrees(mem, {head}) \subseteq Addresses
      /\ UNCHANGED <<root, head, history>>
  BY HeadFacts DEF VisitTerminal, ConvertToTerminal
<1>2. PICK at : Labels(mem, InTree, root, head, history, at)
  BY DEF Labelled
<1>3. \A y \in InTree :
        /\ mem'[y].kids = mem[y].kids /\ mem'[y].of = mem[y].of
        /\ Seen(mem', y) => Seen(mem, y)
  <2>1. CASE VisitTerminal
    <3>1. PICK x \in Subtrees(mem, {head}) :
            mem[x].terminal /\ mem' = Counted(mem, Path(x))
      BY <2>1 DEF VisitTerminal
    <3>2. \A y \in Path(x) : Seen(mem, y)
      BY <3>1, PathSeen DEF Seen
    <3> DEFINE P == Path(x)
               m2 == mem'
    <3>3. m2 = Counted(mem, P)
      BY <3>1
    <3> HIDE DEF P, m2
    <3>4. \A y \in Addresses :
            /\ m2[y].kids = mem[y].kids /\ m2[y].terminal = mem[y].terminal
            /\ m2[y].n = IF y \in P THEN mem[y].n + 1 ELSE mem[y].n
      BY <1>1, <3>3, CountedFacts
    <3>5. \A y \in Addresses : m2[y].of = mem[y].of
      BY <1>1, <3>3, CountedOf
    <3>6. \A y \in Addresses : Seen(m2, y) => Seen(mem, y)
      BY <3>2, <3>4 DEF Seen, P
    <3> QED BY <1>1, <3>4, <3>5, <3>6 DEF m2
  <2>2. CASE ConvertToTerminal
    <3>1. PICK x \in Subtrees(mem, {head}) :
            mem[x].n > 1 /\ mem' = [mem EXCEPT ![x].terminal = TRUE]
      BY <2>2 DEF ConvertToTerminal
    <3> DEFINE t == [mem[x] EXCEPT !.terminal = TRUE]
    <3>2. x \in Addresses /\ mem[x] \in Node(mem[x].of)
      BY <1>1 DEF Memory
    <3>3. mem'[x] = t /\ \A y \in Addresses \ {x} : mem'[y] = mem[y]
      BY <1>1, <3>1, <3>2 DEF Memory
    <3>4. t.kids = mem[x].kids /\ t.of = mem[x].of /\ t.n = mem[x].n
      BY <3>2 DEF Node
    <3>5. Seen(mem, x)
      <4>1. mem[x].n \in Nat
        BY <1>1, <3>2, MemoryFacts
      <4> QED BY <3>1, <4>1 DEF Seen
    <3> HIDE DEF t
    <3> QED BY <1>1, <3>3, <3>4, <3>5 DEF Seen
  <2> QED BY <2>1, <2>2
<1>4. at[head'] = history'.moves /\ history'.fen = history.fen /\ root' = root
  BY <1>1, <1>2 DEF Labels
<1> QED BY <1>2, <1>3, <1>4, LabelsKept

(* Positions and sequences of moves. *)
LEMMA PositionAfter ==
  ASSUME NEW pos \in Position, NEW v
  PROVE  [pos EXCEPT !.moves = v] = [fen |-> pos.fen, moves |-> v]
BY DEF Position

LEMMA AppendAfter ==
  ASSUME NEW s \in Seq(Moves), NEW d \in Seq(Moves), NEW k \in Moves
  PROVE  s \o Append(d, k) = Append(s \o d, k)
<1>1. Append(d, k) = d \o <<k>> /\ <<k>> \in Seq(Moves) /\ s \o d \in Seq(Moves)
  BY AppendIsConcat, ConcatProperties
<1>2. Append(s \o d, k) = (s \o d) \o <<k>>
  BY <1>1, AppendIsConcat
<1>3. (s \o d) \o <<k>> = s \o (d \o <<k>>)
  BY <1>1, ConcatAssociative
<1> QED BY <1>1, <1>2, <1>3

(* The labels of the tree, at the head and below. *)
LEMMA LabelsBelow ==
  ASSUME Whole, root # NoNode, NEW at, Labels(mem, InTree, root, head, history, at),
         NEW x \in Subtrees(mem, {head})
  PROVE  history.moves \o MovesTo(x) = at[x] /\ MovesTo(x) \in Seq(Moves)
<1>1. /\ Memory(mem) /\ head \in Addresses /\ Forest(mem, head)
      /\ Subtrees(mem, {head}) \subseteq InTree
  BY HeadFacts
<1>2. /\ at \in [Addresses -> Seq(Moves)] /\ at[head] = history.moves
      /\ \A y \in Subtrees(mem, {head}) :
           \A k \in DOMAIN mem[y].kids : at[mem[y].kids[k]] = Append(at[y], k)
  BY <1>1 DEF Labels
<1> QED BY <1>1, <1>2, MovesToLabels

LEMMA VisitChildLabels ==
  ASSUME Whole, root # NoNode, Labelled, VisitsOK(mem, head), history \in Position,
         VisitChild
  PROVE  Labelled'
<1>1. PICK p \in Subtrees(mem, {head}) :
        /\ mem[p].n > 0
        /\ \E k \in mem[p].edges \ DOMAIN mem[p].kids :
             LET counted == Counted(mem, Path(p))
                 pos == [history EXCEPT !.moves = @ \o Append(MovesTo(p), k)]
             IN \E x \in Free, es \in SUBSET Moves :
                  mem' = [counted EXCEPT
                     ![p].kids = [j \in DOMAIN @ \cup {k} |-> IF j = k THEN x ELSE @[j]],
                     ![x] = [BareNode EXCEPT !.edges = es, !.terminal = (es = {}), !.n = 1,
                                             !.of = pos]]
  BY DEF VisitChild
<1> DEFINE P == Path(p)
           counted == Counted(mem, P)
<1>2. PICK k \in mem[p].edges \ DOMAIN mem[p].kids :
        LET pos == [history EXCEPT !.moves = @ \o Append(MovesTo(p), k)]
        IN \E x \in Free, es \in SUBSET Moves :
             mem' = [counted EXCEPT
                ![p].kids = [j \in DOMAIN @ \cup {k} |-> IF j = k THEN x ELSE @[j]],
                ![x] = [BareNode EXCEPT !.edges = es, !.terminal = (es = {}), !.n = 1,
                                        !.of = pos]]
  BY <1>1
<1> DEFINE of == [history EXCEPT !.moves = @ \o Append(MovesTo(p), k)]
<1>3. PICK x \in Free, es \in SUBSET Moves :
        mem' = [counted EXCEPT
                  ![p].kids = [j \in DOMAIN @ \cup {k} |-> IF j = k THEN x ELSE @[j]],
                  ![x] = [BareNode EXCEPT !.edges = es, !.terminal = (es = {}), !.n = 1,
                                          !.of = of]]
  BY <1>2
<1> HIDE DEF of
<1> DEFINE s == ExtendedBy(es, of)
           f == [j \in DOMAIN counted[p].kids \cup {k} |->
                   IF j = k THEN x ELSE counted[p].kids[j]]
           t == [counted[p] EXCEPT !.kids = f]
<1>4. /\ Memory(mem) /\ InTree \in SUBSET Addresses
      /\ Subtrees(mem, {head}) \subseteq InTree
      /\ x \in Addresses /\ x \notin InTree /\ UNCHANGED <<root, head, history>>
  BY HeadFacts DEF VisitChild
<1>5. p \in InTree /\ p \in Addresses /\ x # p
  BY <1>4
<1>6. PICK at : Labels(mem, InTree, root, head, history, at)
  BY DEF Labelled
<1>7. k \in Moves
  BY <1>4, <1>5 DEF Memory, Node
<1>8. of = [fen |-> history.fen, moves |-> Append(at[p], k)]
  <2> DEFINE h == history.moves
             d == MovesTo(p)
             v == h \o Append(d, k)
  <2>1. h \o d = at[p] /\ d \in Seq(Moves) /\ h \in Seq(Moves)
    BY <1>6, LabelsBelow DEF Position
  <2>2. v = Append(at[p], k)
    <3> HIDE DEF h, d
    <3>1. h \o Append(d, k) = Append(h \o d, k)
      BY <1>7, <2>1, AppendAfter, Zenon
    <3> QED BY <2>1, <3>1, Zenon
  <2>3. of = [history EXCEPT !.moves = v]
    BY DEF of
  <2> HIDE DEF v
  <2> QED BY <2>2, <2>3, PositionAfter
<1>9. /\ Memory(counted)
      /\ \A y \in Addresses :
           /\ counted[y].kids = mem[y].kids /\ counted[y].terminal = mem[y].terminal
           /\ counted[y].n = IF y \in P THEN mem[y].n + 1 ELSE mem[y].n
           /\ counted[y] \in Node(counted[y].of)
  <2> HIDE DEF P
  <2> QED BY <1>4, CountedFacts
<1>10. /\ \A y \in Addresses : counted[y].of = mem[y].of
  BY <1>4, CountedOf
<1>11. \A y \in Addresses : Seen(counted, y) => Seen(mem, y)
  <2>1. \A y \in P : Seen(mem, y)
    BY <1>1, PathSeen DEF Seen
  <2> HIDE DEF P, counted
  <2> QED BY <1>9, <2>1 DEF Seen
<1>12. DOMAIN s.kids = {} /\ s.of = of
  <2>1. s.kids = <<>>
    BY VisitedFacts
  <2>2. s.of = of
    BY DEF ExtendedBy, BareNode
  <2> QED BY <2>1, <2>2, BareFacts
<1>13. /\ mem'[x] = s /\ mem'[p] = t
       /\ \A y \in Addresses \ {p, x} : mem'[y] = counted[y]
  <2>1. counted = [y \in Addresses |-> counted[y]]
    BY <1>9 DEF Memory
  <2>2. mem' = [counted EXCEPT ![p].kids = f, ![x] = s]
    <3> HIDE DEF counted
    <3> QED BY <1>3 DEF ExtendedBy
  <2> HIDE DEF counted, f, s
  <2> QED BY <1>4, <1>5, <2>1, <2>2
<1>14. /\ DOMAIN f = DOMAIN mem[p].kids \cup {k} /\ f[k] = x
       /\ \A j \in DOMAIN mem[p].kids : f[j] = mem[p].kids[j]
  <2> DEFINE g == mem[p].kids
  <2>1. f = [j \in DOMAIN g \cup {k} |-> IF j = k THEN x ELSE g[j]]
    <3>1. counted[p].kids = g
      BY <1>5, <1>9
    <3> HIDE DEF counted, g
    <3> QED BY <3>1
  <2>2. k \notin DOMAIN g
    OBVIOUS
  <2> HIDE DEF f, g
  <2>3. /\ DOMAIN f = DOMAIN g \cup {k} /\ f[k] = x
        /\ \A j \in DOMAIN g : f[j] = g[j]
    BY <2>1, <2>2
  <2> QED BY <2>3 DEF g
<1>15. /\ t.kids = f /\ t.of = counted[p].of
       /\ t.n = counted[p].n /\ t.terminal = counted[p].terminal
  <2> DEFINE c == counted
  <2>1. Memory(c) /\ p \in Addresses
    BY <1>5, <1>9
  <2> HIDE DEF f, c
  <2>2. LET u == [c[p] EXCEPT !.kids = f]
        IN u.kids = f /\ u.n = c[p].n /\ u.terminal = c[p].terminal /\ u.of = c[p].of
    BY <2>1, NodeFields
  <2> QED BY <2>2 DEF c
<1> HIDE DEF s, t, f, counted, P
<1>16. \A y \in InTree :
         /\ \A j \in DOMAIN mem'[y].kids :
              \/ j \in DOMAIN mem[y].kids /\ mem'[y].kids[j] = mem[y].kids[j]
              \/ y = p /\ j = k /\ mem'[y].kids[j] = x
         /\ Seen(mem', y) => Seen(mem, y) /\ mem'[y].of = mem[y].of
  <2> SUFFICES ASSUME NEW y \in InTree
               PROVE  /\ \A j \in DOMAIN mem'[y].kids :
                           \/ j \in DOMAIN mem[y].kids /\ mem'[y].kids[j] = mem[y].kids[j]
                           \/ y = p /\ j = k /\ mem'[y].kids[j] = x
                      /\ Seen(mem', y) => Seen(mem, y) /\ mem'[y].of = mem[y].of
    OBVIOUS
  <2>0. y \in Addresses /\ y # x
    BY <1>4
  <2>1. CASE y = p
    <3>1. Seen(mem', y) => Seen(counted, y)
      BY <1>13, <1>15, <2>1 DEF Seen
    <3>2. mem'[y].of = mem[y].of /\ mem'[y].kids = f
      BY <1>10, <1>13, <1>15, <2>0, <2>1
    <3> QED BY <1>11, <1>14, <2>0, <2>1, <3>1, <3>2
  <2>2. CASE y # p
    <3>1. mem'[y] = counted[y]
      BY <1>13, <2>0, <2>2
    <3>2. Seen(mem', y) => Seen(counted, y)
      BY <3>1 DEF Seen
    <3> QED BY <1>9, <1>10, <1>11, <2>0, <3>1, <3>2
  <2> QED BY <2>1, <2>2
<1>17. /\ DOMAIN mem'[x].kids = {}
       /\ mem'[x].of = [fen |-> history.fen, moves |-> Append(at[p], k)]
  BY <1>8, <1>12, <1>13
<1>18. Labelled1(at, x, p, k)[head'] = history'.moves
  <2>1. head \in InTree /\ at \in [Addresses -> Seq(Moves)] /\ at[head] = history.moves
    BY <1>6, HeadFacts DEF Labels
  <2> QED BY <1>4, <2>1 DEF Labelled1
<1>19. root' = root /\ history'.fen = history.fen
  BY <1>4
<1> QED BY <1>5, <1>6, <1>7, <1>16, <1>17, <1>18, <1>19, LabelsGrown

LEMMA PlayoutLabels ==
  ASSUME Whole, root # NoNode, Labelled, VisitsOK(mem, head), history \in Position,
         Playout
  PROVE  Labelled'
BY VisitHeadLabels, VisitChildLabels, TerminalLabels DEF Playout

-----------------------------------------------------------------------------
(* The labels of the engine's tree. *)

LEMMA LabelsAside ==
  ASSUME Labelled, UNCHANGED <<mem, root, head, history>>
  PROVE  Labelled'
<1>1. InTree' = InTree
  BY DEF InTree
<1> QED BY <1>1 DEF Labelled

(* What every step of the engine keeps. *)
LEMMA LabelsStep == ASSUME IInv, Labelled, [Next]_vars PROVE Labelled'
<1>0. GoInv /\ TreeInv /\ TypeOK /\ Whole /\ history \in Position
  BY DEF IInv, GoInv, TreeInv, TypeOK
<1>1. CASE \/ SetOption \/ Stop \/ StartSearch \/ SearchAnswers \/ CollectGarbage
           \/ NewGame \/ (\E pos \in Positions : SetPosition(pos)) \/ PonderHit
           \/ (\E ponder \in BOOLEAN : CmdGo(ponder))
           \/ Abort \/ SetPositionEnds \/ UNCHANGED vars
  <2>1. UNCHANGED <<mem, root, head, history>>
    BY <1>1 DEF SetOption, Stop, StartSearch, SearchAnswers, CollectGarbage, Collect,
                NewGame, SetPosition, PonderHit, CmdGo, Go, Abort, SetPositionEnds,
                treeVars, vars
  <2> QED BY <2>1, LabelsAside
<1>2. CASE NewGameEnds
  <2>1. root' = NoNode
    BY <1>2 DEF NewGameEnds, DeallocateTree
  <2> QED BY <2>1 DEF Labelled
<1>3. CASE SetupPosition
  <2>1. UNCHANGED treeVars \/ BeginGame(Target(uci.ponder).fen)
    BY <1>3 DEF SetupPosition
  <2>2. CASE UNCHANGED treeVars
    BY <2>2, LabelsAside DEF treeVars
  <2> QED BY <1>0, <2>1, <2>2, BeginLabels
<1>4. CASE ResetFollows \/ ResetReleases \/ ResetCreates \/ ResetEnds
  <2>1. uci.at \in {"loop", "create"} /\ root # NoNode
    BY <1>0, <1>4
    DEF ResetFollows, ResetReleases, ResetCreates, ResetEnds, GoInv, ResetInv, TreeInv
  <2>2. uci.todo \in Seq(Moves)
    BY <1>0, <2>1, UciThere DEF Resetting
  <2>3. uci.todo # <<>> => Head(uci.todo) \in Moves
    BY <2>2, HeadTailProperties
  <2>4. CASE ResetFollows
    BY <1>0, <2>1, <2>3, <2>4, FollowLabels DEF ResetFollows
  <2>5. CASE ResetReleases
    BY <1>0, <2>1, <2>5, ReleaseLabels DEF ResetReleases
  <2>6. CASE ResetCreates
    <3>1. uci.todo # <<>> /\ CreateSingleChildNode(Head(uci.todo))
      BY <1>0, <2>6 DEF ResetCreates, GoInv, ResetInv
    <3> QED BY <1>0, <2>1, <2>3, <3>1, CreateLabels
  <2>7. CASE ResetEnds
    <3>1. TrimTreeAtHead \/ UNCHANGED treeVars
      BY <2>7 DEF ResetEnds
    <3>2. CASE UNCHANGED treeVars
      BY <3>2, LabelsAside DEF treeVars
    <3> QED BY <1>0, <2>1, <3>1, <3>2, TrimLabels
  <2> QED BY <1>4, <2>4, <2>5, <2>6, <2>7
<1>5. CASE SearchPlayout
  <2>1. search.state # "none" /\ search # NoSearch /\ Playout
    BY <1>0, <1>5, SearchThere DEF SearchPlayout
  <2>2. uci.at \in AtRest
    BY <1>0, <2>1, UciThere DEF GoInv, ResetInv
  <2>3. root # NoNode /\ VisitsOK(mem, head)
    BY <1>0, <2>1, <2>2 DEF GoInv, SearchInv, TreeInv
  <2> QED BY <1>0, <2>1, <2>3, PlayoutLabels
<1> QED BY <1>1, <1>2, <1>3, <1>4, <1>5, Zenon DEF Next

(* ResetToPosition() keeps the visits of a node only while the node is     *)
(* reached by the moves its visits were made after, from the same start:   *)
(* what a search finds at the head and below is of the positions it will   *)
(* look at.                                                                *)
THEOREM VisitsOfThePositionCorrect == Spec => []VisitsAreOfThePosition
<1>1. Init => Labelled
  BY DEF Init, TreeInit, Labelled
<1>2. IInv /\ Labelled /\ [Next]_vars => Labelled'
  BY LabelsStep
<1>3. ASSUME IInv, Labelled PROVE VisitsAreOfThePosition
  <2>1. SUFFICES ASSUME search # NoSearch,
                        NEW x \in Subtrees(mem, {head}), mem[x].n > 0
                 PROVE  mem[x].of = [history EXCEPT !.moves = @ \o MovesTo(x)]
    BY DEF VisitsAreOfThePosition
  <2>2. Whole /\ root # NoNode /\ history \in Position
    BY <1>3, <2>1, SearchThere DEF IInv, GoInv, SearchInv, TreeInv, TypeOK
  <2>3. PICK at : Labels(mem, InTree, root, head, history, at)
    BY <1>3, <2>2 DEF Labelled
  <2>4. Subtrees(mem, {head}) \subseteq InTree
    BY <2>2, HeadFacts
  <2>5. mem[x].of = [fen |-> history.fen, moves |-> at[x]]
    BY <2>1, <2>3, <2>4 DEF Labels, Seen
  <2>6. history.moves \o MovesTo(x) = at[x]
    BY <2>2, <2>3, LabelsBelow
  <2> DEFINE v == history.moves \o MovesTo(x)
  <2>7. [history EXCEPT !.moves = v] = [fen |-> history.fen, moves |-> v]
    <3> HIDE DEF v
    <3> QED BY <2>2, PositionAfter
  <2> QED BY <2>5, <2>6, <2>7
<1> QED BY <1>1, <1>2, <1>3, Invariance, PTL DEF Spec
=============================================================================
