--------------------------- MODULE SearchTreeProofs ---------------------------
(***************************************************************************)
(* Proofs about SearchTree for every finite game tree, every number of     *)
(* workers and every setting: virtual losses, the ownership of a node that *)
(* is being extended, the visit counts and the conversions of nodes to     *)
(* terminals.                                                              *)
(***************************************************************************)
EXTENDS SearchTree, SumTheorems

Items(w) == DOMAIN minibatch[w]
Item(w, i) == minibatch[w][i]

(* ExtendNode() has not dealt with the item yet. *)
Unextended(w, i) == pc[w] = "extend" /\ i = Len(minibatch[w])

(* What each phase of a worker says of its minibatch. *)
BatchOf(w) ==
  /\ pc[w] \in {"extend", "outOfOrder"} =>
       minibatch[w] # <<>> /\ ~Last(minibatch[w]).isCollision
  /\ pc[w] \in {"counters", "done"} => minibatch[w] = <<>>
  /\ pc[w] \in {"gather", "extend", "outOfOrder"} =>
       outOfOrder[w] < MiniBatchSize
  /\ pc[w] = "done" => outOfOrder[w] = 0
  /\ \A i \in Items(w) : ~Item(w, i).isCollision => Item(w, i).multivisit = 1

BatchInv == \A w \in Workers : BatchOf(w)

(* The way down to an item was open when it was picked and stays open; a   *)
(* visited node is not visited a second time before it is finished, unless *)
(* it is terminal.                                                         *)
WayInv ==
  \A w \in Workers : \A i \in Items(w) :
    /\ InTree(Item(w, i).node)
    /\ \A y \in Ancestors(Item(w, i).node) : hasChildren[y] /\ n[y] > 0

VisitInv ==
  \A w \in Workers : \A i \in Items(w) :
    LET x == Item(w, i).node IN
    ~Item(w, i).isCollision /\ ~isTerminal[x] =>
      /\ n[x] = 0
      /\ hasChildren[x] <=> ~Unextended(w, i)
      /\ \A v \in Workers : \A j \in Items(v) :
           Item(v, j).node = x /\ ~Item(v, j).isCollision => v = w /\ j = i

(* A node without visits is not expanded unless the visit that did it is   *)
(* still under way, and nothing below it was visited; a node with visits   *)
(* is expanded or terminal.                                                *)
NodeInv ==
  /\ \A x \in Nodes : hasChildren[x] => x \notin Leaves
  /\ \A x \in Nodes : isTerminal[x] => hasChildren[x] \/ x \in Leaves
  /\ \A x \in Nodes : InTree(x) /\ n[x] = 0 =>
       /\ \A c \in Children(x) : n[c] = 0
       /\ hasChildren[x] => \E w \in Workers : \E i \in Items(w) :
            Item(w, i).node = x /\ ~Item(w, i).isCollision
  /\ \A x \in Nodes : InTree(x) /\ n[x] > 0 => hasChildren[x] \/ isTerminal[x]

TreeInv ==
  WayInv /\ VisitInv /\ NodeInv /\ VisitsAddUp /\ DecisiveConversionsSound

IInv == TypeOK /\ VirtualLossConserved /\ BatchInv /\ TreeInv

-----------------------------------------------------------------------------
(* The tree of positions. *)

LEMMA PathFacts ==
  ASSUME NEW x \in Nodes
  PROVE  /\ x \in Path[x] /\ GameBegin \in Path[x]
         /\ Path[x] \in SUBSET Nodes
         /\ IsFiniteSet(Path[x]) /\ Cardinality(Path[x]) \in Nat
<1>1. x \in Path[x] /\ GameBegin \in Path[x] /\ Path[x] \in SUBSET Nodes
  BY TreeAssumption
<1>2. IsFiniteSet(Path[x])
  BY <1>1, TreeAssumption, FS_Subset
<1> QED BY <1>1, <1>2, FS_CardinalityType

LEMMA ParentFacts ==
  ASSUME NEW x \in Nodes, x # GameBegin
  PROVE  /\ Parent[x] \in Nodes
         /\ x \notin Path[Parent[x]]
         /\ Path[x] = {x} \cup Path[Parent[x]]
         /\ Cardinality(Path[Parent[x]]) \in Nat
         /\ Cardinality(Path[Parent[x]]) < Cardinality(Path[x])
<1>1. /\ Parent[x] \in Nodes /\ x \notin Path[Parent[x]]
      /\ Path[x] = {x} \cup Path[Parent[x]]
  BY TreeAssumption
<1>2. /\ IsFiniteSet(Path[Parent[x]]) /\ Cardinality(Path[Parent[x]]) \in Nat
  BY <1>1, PathFacts
<1>3. Cardinality(Path[Parent[x]] \cup {x}) = Cardinality(Path[Parent[x]]) + 1
  BY <1>1, <1>2, FS_AddElement
<1>4. Path[x] = Path[Parent[x]] \cup {x}
  BY <1>1
<1> QED BY <1>1, <1>2, <1>3, <1>4

(* Positions before a position before x are before x. *)
LEMMA PathTransitive ==
  \A x \in Nodes : \A y \in Path[x] : Path[y] \subseteq Path[x]
<1> DEFINE Bad == {x \in Nodes : \E y \in Path[x] : ~(Path[y] \subseteq Path[x])}
           Sizes == {Cardinality(Path[x]) : x \in Bad}
<1>1. SUFFICES ASSUME Bad # {} PROVE FALSE
  OBVIOUS
<1>2. Sizes \in SUBSET Nat /\ Sizes # {}
  BY <1>1, PathFacts
<1>3. PICK m \in Sizes : \A k \in Sizes : m <= k
  <2> HIDE DEF Sizes
  <2> QED BY <1>2, LeastNat
<1>4. PICK x \in Bad : Cardinality(Path[x]) = m
  BY <1>3
<1>5. x \in Nodes
  BY <1>4
<1>6. PICK y \in Path[x] : ~(Path[y] \subseteq Path[x])
  BY <1>4
<1>7. x # GameBegin
  BY <1>6, TreeAssumption
<1>8. y # x
  BY <1>6
<1>9. y \in Path[Parent[x]]
  BY <1>5, <1>6, <1>7, <1>8, ParentFacts
<1>10. Parent[x] \notin Bad
  <2> HIDE DEF Bad
  <2> QED BY <1>2, <1>3, <1>4, <1>5, <1>7, ParentFacts
<1>11. Path[y] \subseteq Path[Parent[x]]
  BY <1>5, <1>7, <1>9, <1>10, ParentFacts
<1> QED BY <1>5, <1>6, <1>7, <1>11, ParentFacts

(* Below x there is exactly one child of x on the way to y. *)
LEMMA ChildOnPath ==
  \A y \in Nodes : \A x \in Path[y] \ {y} :
    \E c \in Children(x) :
      c \in Path[y] /\ \A d \in Children(x) : d \in Path[y] => d = c
<1> DEFINE OneChild(x, y) ==
             \E c \in Children(x) :
               c \in Path[y] /\ \A d \in Children(x) : d \in Path[y] => d = c
           Bad == {y \in Nodes : \E x \in Path[y] \ {y} : ~OneChild(x, y)}
           Sizes == {Cardinality(Path[y]) : y \in Bad}
<1>1. SUFFICES ASSUME Bad # {} PROVE FALSE
  OBVIOUS
<1>2. Sizes \in SUBSET Nat /\ Sizes # {}
  <2> HIDE DEF OneChild
  <2> QED BY <1>1, PathFacts
<1>3. PICK m \in Sizes : \A k \in Sizes : m <= k
  <2> HIDE DEF Sizes
  <2> QED BY <1>2, LeastNat
<1>4. PICK y \in Bad : Cardinality(Path[y]) = m
  BY <1>3
<1>5. y \in Nodes
  BY <1>4
<1>6. PICK x \in Path[y] \ {y} : ~OneChild(x, y)
  BY <1>4
<1>7. y # GameBegin
  BY <1>6, TreeAssumption
<1> DEFINE p == Parent[y]
<1>8. /\ p \in Nodes /\ x \in Path[p] /\ Path[y] = {y} \cup Path[p]
      /\ x \in Nodes
  BY <1>5, <1>6, <1>7, ParentFacts, PathFacts
<1>9. CASE x = p
  <2>1. y \in Children(x)
    BY <1>5, <1>7, <1>9 DEF Children
  <2>2. ASSUME NEW d \in Children(x), d \in Path[y] PROVE d = y
    <3>1. d \in Nodes /\ d # GameBegin /\ Parent[d] = p
      BY <2>2, <1>9 DEF Children
    <3>2. d \notin Path[p]
      BY <3>1, ParentFacts
    <3> QED BY <1>8, <2>2, <3>2
  <2> QED BY <1>6, <1>8, <2>1, <2>2
<1>10. CASE x # p
  <2>1. p \notin Bad
    <3> HIDE DEF Bad
    <3> QED BY <1>2, <1>3, <1>4, <1>5, <1>7, ParentFacts
  <2>2. OneChild(x, p)
    BY <1>8, <1>10, <2>1
  <2>3. y \notin Children(x)
    BY <1>10 DEF Children
  <2> QED BY <1>6, <1>8, <2>2, <2>3
<1> QED BY <1>9, <1>10

(* The same for the part of the tree the search works in. *)
LEMMA WayDown ==
  ASSUME root \in Nodes, NEW y \in Nodes, InTree(y)
  PROVE  /\ y \in PathUp(y) /\ root \in PathUp(y)
         /\ PathUp(y) \in SUBSET Nodes
         /\ Ancestors(y) \in SUBSET Nodes
         /\ \A x \in PathUp(y) : InTree(x) /\ PathUp(x) \subseteq PathUp(y)
         /\ \A x \in Ancestors(y) : \E c \in Children(x) :
              /\ c \in PathUp(y)
              /\ \A d \in Children(x) : d \in PathUp(y) => d = c
<1> USE DEF InTree, PathUp, Ancestors
<1>1. /\ y \in PathUp(y) /\ root \in PathUp(y) /\ PathUp(y) \in SUBSET Nodes
      /\ Ancestors(y) \in SUBSET Nodes
  BY PathFacts
<1>2. \A x \in PathUp(y) : InTree(x) /\ PathUp(x) \subseteq PathUp(y)
  BY PathTransitive
<1>3. ASSUME NEW x \in Ancestors(y)
      PROVE  \E c \in Children(x) :
               /\ c \in PathUp(y)
               /\ \A d \in Children(x) : d \in PathUp(y) => d = c
  <2>1. PICK c \in Children(x) :
          c \in Path[y] /\ \A d \in Children(x) : d \in Path[y] => d = c
    BY <1>3, ChildOnPath
  <2>2. c \in Nodes /\ c # GameBegin /\ Parent[c] = x
    BY DEF Children
  <2>3. root \in Path[c]
    BY <1>3, <2>2, ParentFacts
  <2> QED BY <2>1, <2>3
<1> QED BY <1>1, <1>2, <1>3

LEMMA ChildrenFacts ==
  ASSUME NEW x \in Nodes
  PROVE  /\ Children(x) \in SUBSET Nodes /\ IsFiniteSet(Children(x))
         /\ x \notin Children(x)
         /\ root \in Nodes /\ InTree(x) =>
              \A c \in Children(x) : InTree(c) /\ c # root
<1>1. Children(x) \in SUBSET Nodes /\ IsFiniteSet(Children(x))
  BY TreeAssumption, FS_Subset DEF Children
<1>2. ASSUME NEW c \in Children(x)
      PROVE  c \in Nodes /\ Path[c] = {c} \cup Path[x] /\ c \notin Path[x]
  BY <1>2, ParentFacts DEF Children
<1>3. x \in Path[x]
  BY PathFacts
<1> QED BY <1>1, <1>2, <1>3 DEF InTree

-----------------------------------------------------------------------------
(* The virtual loss of a minibatch, item by item. *)

LEMMA LossOnNat ==
  ASSUME NEW x \in Nodes, NEW item \in NodeToProcess
  PROVE  LossOn(x, item) \in Nat
BY DEF LossOn, NodeToProcess

Losses(x, b) == [i \in DOMAIN b |-> LossOn(x, b[i])]

LEMMA LossesSeq ==
  ASSUME NEW x \in Nodes, NEW b \in Seq(NodeToProcess)
  PROVE  /\ Losses(x, b) \in Seq(Nat) /\ Losses(x, b) \in Seq(Int)
         /\ Len(Losses(x, b)) = Len(b)
         /\ \A i \in 1 .. Len(b) : Losses(x, b)[i] = LossOn(x, b[i])
<1>1. DOMAIN b = 1 .. Len(b) /\ Len(b) \in Nat
  BY LenProperties
<1>2. \A i \in 1 .. Len(b) : LossOn(x, b[i]) \in Nat
  BY ElementOfSeq, LossOnNat
<1> QED BY <1>1, <1>2 DEF Losses

LEMMA LossOfBatchNat ==
  ASSUME NEW x \in Nodes, NEW b \in Seq(NodeToProcess)
  PROVE  LossOfBatch(x, b) \in Nat
<1>1. /\ DOMAIN Losses(x, b) = 1 .. Len(b) /\ Len(b) \in Nat
      /\ \A i \in 1 .. Len(b) : Losses(x, b)[i] \in Nat
  BY LossesSeq, LenProperties, ElementOfSeq
<1>2. IsFiniteSet(DOMAIN Losses(x, b))
  BY <1>1, FS_Interval
<1>3. SumFunction(Losses(x, b)) \in Nat
  BY <1>1, <1>2, SumNat DEF SumFunction
<1> QED BY <1>3 DEF LossOfBatch, Losses

LEMMA LossOfEmpty == \A x : LossOfBatch(x, <<>>) = 0
<1> SUFFICES ASSUME NEW x PROVE LossOfBatch(x, <<>>) = 0
  OBVIOUS
<1>1. DOMAIN <<>> = {}
  BY EmptySeq, LenProperties
<1>2. Losses(x, <<>>) = <<>>
  BY <1>1 DEF Losses
<1> QED BY <1>2, SumOfEmpty DEF LossOfBatch, Losses

LEMMA LossOfAppend ==
  ASSUME NEW x \in Nodes, NEW b \in Seq(NodeToProcess),
         NEW item \in NodeToProcess
  PROVE  LossOfBatch(x, Append(b, item)) = LossOfBatch(x, b) + LossOn(x, item)
<1>1. Append(b, item) \in Seq(NodeToProcess)
  BY AppendProperties
<1>2. LossOn(x, item) \in Int
  BY LossOnNat
<1>3. Losses(x, Append(b, item)) = Append(Losses(x, b), LossOn(x, item))
  <2> DEFINE s == Losses(x, Append(b, item))
             t == Append(Losses(x, b), LossOn(x, item))
  <2>0. /\ Len(Append(b, item)) = Len(b) + 1 /\ Len(b) \in Nat
        /\ Losses(x, b) \in Seq(Int) /\ Len(Losses(x, b)) = Len(b)
        /\ s \in Seq(Int) /\ Len(s) = Len(b) + 1
    BY <1>1, LossesSeq, AppendProperties, LenProperties
  <2>1. s \in Seq(Int) /\ t \in Seq(Int) /\ Len(s) = Len(t)
    BY <1>2, <2>0, AppendProperties
  <2>2. ASSUME NEW i \in 1 .. Len(s) PROVE s[i] = t[i]
    <3>1. s[i] = LossOn(x, Append(b, item)[i])
      BY <1>1, LossesSeq
    <3>3. CASE i = Len(b) + 1
      BY <1>2, <3>1, <3>3, LossesSeq, AppendProperties
    <3>4. CASE i \in 1 .. Len(b)
      <4>1. t[i] = Losses(x, b)[i]
        BY <1>2, <3>4, LossesSeq, AppendProperties
      <4>2. Append(b, item)[i] = b[i]
        BY <3>4, AppendProperties
      <4> QED BY <3>1, <3>4, <4>1, <4>2, LossesSeq
    <3>5. i = Len(b) + 1 \/ i \in 1 .. Len(b)
      <4> HIDE DEF s
      <4> QED BY <2>0
    <3> QED BY <3>3, <3>4, <3>5
  <2> HIDE DEF s, t
  <2>3. s = t
    BY <2>1, <2>2, SeqEqual
  <2> QED BY <2>3 DEF s, t
<1>4. SumFunction(Append(Losses(x, b), LossOn(x, item)))
        = SumFunction(Losses(x, b)) + LossOn(x, item)
  BY <1>2, LossesSeq, SumOfAppend
<1> QED BY <1>3, <1>4 DEF LossOfBatch, Losses

LEMMA LossOfTail ==
  ASSUME NEW x \in Nodes, NEW b \in Seq(NodeToProcess), b # <<>>
  PROVE  LossOfBatch(x, Tail(b)) = LossOfBatch(x, b) - LossOn(x, Head(b))
<1>1. Tail(b) \in Seq(NodeToProcess) /\ Len(b) \in Nat \ {0} /\ Head(b) = b[1]
  BY HeadTailProperties, EmptySeq
<1>2. Losses(x, b) # <<>> /\ Head(Losses(x, b)) = LossOn(x, Head(b))
  BY <1>1, LossesSeq, EmptySeq
<1>3. Losses(x, Tail(b)) = Tail(Losses(x, b))
  <2> DEFINE s == Losses(x, Tail(b))
             t == Tail(Losses(x, b))
  <2>1. s \in Seq(Int) /\ t \in Seq(Int) /\ Len(s) = Len(t)
    BY <1>1, <1>2, LossesSeq, HeadTailProperties
  <2>2. ASSUME NEW i \in 1 .. Len(s) PROVE s[i] = t[i]
    <3>1. /\ Len(s) = Len(b) - 1 /\ Len(Tail(b)) = Len(s)
          /\ i + 1 \in 1 .. Len(b)
      <4>1. Len(s) = Len(b) - 1 /\ Len(Tail(b)) = Len(s)
        BY <1>1, LossesSeq, HeadTailProperties
      <4> HIDE DEF s
      <4> QED BY <1>1, <4>1
    <3>2. s[i] = LossOn(x, Tail(b)[i]) /\ Tail(b)[i] = b[i + 1]
      BY <1>1, <3>1, LossesSeq, HeadTailProperties
    <3>3. t[i] = Losses(x, b)[i + 1]
      BY <1>2, <2>1, LossesSeq, HeadTailProperties
    <3> QED BY <3>1, <3>2, <3>3, LossesSeq
  <2> HIDE DEF s, t
  <2>3. s = t
    BY <2>1, <2>2, SeqEqual
  <2> QED BY <2>3 DEF s, t
<1>4. SumFunction(Tail(Losses(x, b)))
        = SumFunction(Losses(x, b)) - Head(Losses(x, b))
  BY <1>2, LossesSeq, SumOfTail
<1> QED BY <1>2, <1>3, <1>4 DEF LossOfBatch, Losses

LEMMA FrontLast ==
  ASSUME NEW S, NEW b \in Seq(S), b # <<>>
  PROVE  /\ Front(b) \in Seq(S) /\ Last(b) \in S /\ Last(b) = b[Len(b)]
         /\ Len(b) \in Nat \ {0} /\ Len(Front(b)) = Len(b) - 1
         /\ \A i \in 1 .. Len(b) - 1 : Front(b)[i] = b[i]
         /\ b = Append(Front(b), Last(b))
<1>1. Len(b) \in Nat \ {0} /\ \A i \in 1 .. Len(b) : b[i] \in S
  BY EmptySeq, ElementOfSeq
<1>2. /\ Front(b) \in Seq(S) /\ Len(Front(b)) = Len(b) - 1
      /\ \A i \in 1 .. Len(b) - 1 : Front(b)[i] = b[i]
  <2>1. 1 \in Int /\ Len(b) - 1 \in Int /\ \A i \in 1 .. Len(b) - 1 : b[i] \in S
    BY <1>1
  <2>2. /\ SubSeq(b, 1, Len(b) - 1) \in Seq(S)
        /\ Len(SubSeq(b, 1, Len(b) - 1)) =
             IF 1 <= Len(b) - 1 THEN (Len(b) - 1) - 1 + 1 ELSE 0
        /\ \A i \in 1 .. (Len(b) - 1) - 1 + 1 :
             SubSeq(b, 1, Len(b) - 1)[i] = b[1 + i - 1]
    BY <2>1, SubSeqProperties
  <2> DEFINE t == SubSeq(b, 1, Len(b) - 1)
             k == Len(b)
  <2>3. k \in Nat \ {0}
    BY <1>1
  <2>4. t \in Seq(S) /\ Len(t) = k - 1
    <3> HIDE DEF t, k
    <3>1. Len(t) = IF 1 <= k - 1 THEN (k - 1) - 1 + 1 ELSE 0
      BY <2>2 DEF t, k
    <3> QED BY <2>2, <2>3, <3>1 DEF t
  <2>5. ASSUME NEW i \in 1 .. k - 1 PROVE t[i] = b[i]
    <3> HIDE DEF t, k
    <3>1. i \in 1 .. (k - 1) - 1 + 1 /\ 1 + i - 1 = i
      BY <2>3
    <3> QED BY <2>2, <3>1 DEF t, k
  <2> HIDE DEF t
  <2>6. t = Front(b)
    BY DEF t, Front
  <2> QED BY <2>4, <2>5, <2>6
<1>3. Last(b) = b[Len(b)] /\ Last(b) \in S
  BY <1>1 DEF Last
<1>4. b = Append(Front(b), Last(b))
  <2> DEFINE t == Append(Front(b), Last(b))
  <2>1. /\ t \in Seq(S) /\ Len(t) = Len(b)
        /\ \A i \in 1 .. Len(b) - 1 : t[i] = b[i]
        /\ t[Len(b)] = b[Len(b)]
    BY <1>1, <1>2, <1>3, AppendProperties
  <2> HIDE DEF t
  <2>2. \A i \in 1 .. Len(b) : b[i] = t[i]
    BY <1>1, <2>1
  <2>3. b = t
    BY <2>1, <2>2, SeqEqual
  <2> QED BY <2>3 DEF t
<1> QED BY <1>1, <1>2, <1>3, <1>4

LEMMA LossOfFront ==
  ASSUME NEW x \in Nodes, NEW b \in Seq(NodeToProcess), b # <<>>
  PROVE  LossOfBatch(x, Front(b)) = LossOfBatch(x, b) - LossOn(x, Last(b))
<1>1. /\ Front(b) \in Seq(NodeToProcess) /\ Last(b) \in NodeToProcess
      /\ b = Append(Front(b), Last(b))
  BY FrontLast
<1>2. LossOfBatch(x, b) = LossOfBatch(x, Front(b)) + LossOn(x, Last(b))
  BY <1>1, LossOfAppend
<1>3. LossOfBatch(x, Front(b)) \in Nat /\ LossOn(x, Last(b)) \in Nat
  BY <1>1, LossOfBatchNat, LossOnNat
<1> QED BY <1>2, <1>3

-----------------------------------------------------------------------------
(* Virtual losses: every step moves n_in_flight_ and the minibatch of one  *)
(* worker by the same amount at every node.                                *)

LEMMA LossPrimed ==
  ASSUME root' = root
  PROVE  VirtualLossConserved' <=>
           \A x \in Nodes :
             nInFlight'[x] = SumFunction([w \in Workers |-> LossOfBatch(x, minibatch'[w])])
BY DEF VirtualLossConserved, LossOfBatch, LossOn, Ancestors, PathUp, InTree

LEMMA LossMoves ==
  ASSUME TypeOK, VirtualLossConserved, root' = root,
         NEW w \in Workers, NEW b \in Seq(NodeToProcess),
         minibatch' = [minibatch EXCEPT ![w] = b],
         nInFlight' \in [Nodes -> Int],
         \A x \in Nodes : nInFlight'[x] =
           nInFlight[x] + LossOfBatch(x, b) - LossOfBatch(x, minibatch[w])
  PROVE  /\ VirtualLossConserved'
         /\ minibatch' \in [Workers -> Seq(NodeToProcess)]
         /\ nInFlight' \in [Nodes -> Nat]
<1>1. /\ minibatch \in [Workers -> Seq(NodeToProcess)]
      /\ minibatch' \in [Workers -> Seq(NodeToProcess)]
      /\ minibatch'[w] = b /\ \A v \in Workers \ {w} : minibatch'[v] = minibatch[v]
  BY DEF TypeOK
<1>2. IsFiniteSet(Workers)
  BY ParamAssumption
<1>3. ASSUME NEW x \in Nodes
      PROVE  /\ nInFlight'[x] =
                  SumFunction([v \in Workers |-> LossOfBatch(x, minibatch'[v])])
             /\ nInFlight'[x] \in Nat
  <2> DEFINE f == [v \in Workers |-> LossOfBatch(x, minibatch[v])]
             g == [v \in Workers |-> LossOfBatch(x, minibatch'[v])]
  <2>1. \A v \in Workers : f[v] \in Nat /\ g[v] \in Nat
    BY <1>1, LossOfBatchNat
  <2>2. /\ \A v \in Workers \ {w} : g[v] = f[v]
        /\ f[w] = LossOfBatch(x, minibatch[w]) /\ g[w] = LossOfBatch(x, b)
        /\ DOMAIN f = Workers /\ DOMAIN g = Workers
    BY <1>1
  <2>3. nInFlight[x] = SumFunction(f)
    BY DEF VirtualLossConserved
  <2> HIDE DEF f, g
  <2>4. SumFunction(g) = SumFunction(f) + g[w] - f[w]
    BY <1>2, <2>1, <2>2, SumChange DEF SumFunction
  <2>5. SumFunction(g) \in Nat
    BY <1>2, <2>1, <2>2, SumNat DEF SumFunction
  <2>6. nInFlight'[x] = SumFunction(g)
    BY <2>1, <2>2, <2>3, <2>4, <2>5 DEF TypeOK
  <2> QED BY <2>5, <2>6 DEF g
<1> QED BY <1>1, <1>3, LossPrimed

LEMMA LossStays ==
  ASSUME VirtualLossConserved, UNCHANGED <<root, nInFlight, minibatch>>
  PROVE  VirtualLossConserved'
BY LossPrimed DEF VirtualLossConserved

LEMMA LossOfBackup ==
  ASSUME TypeOK, NEW item \in NodeToProcess, DoBackupUpdateSingleNode(item)
  PROVE  /\ nInFlight' \in [Nodes -> Int]
         /\ \A x \in Nodes : nInFlight'[x] = nInFlight[x] - LossOn(x, item)
<1>1. item.multivisit \in Nat
  BY DEF NodeToProcess
<1>2. CASE item.isCollision
  BY <1>1, <1>2
  DEF DoBackupUpdateSingleNode, UndoCollision, AddInFlight, LossOn, TypeOK
<1>3. CASE ~item.isCollision
  BY <1>1, <1>3
  DEF DoBackupUpdateSingleNode, FinalizeVisit, AddInFlight, LossOn, TypeOK
<1> QED BY <1>2, <1>3

LEMMA LossStep ==
  ASSUME TypeOK, VirtualLossConserved, BatchInv, [Next]_vars
  PROVE  /\ VirtualLossConserved'
         /\ minibatch' \in [Workers -> Seq(NodeToProcess)]
         /\ nInFlight' \in [Nodes -> Nat]
<1> DEFINE Goal == /\ VirtualLossConserved'
                   /\ minibatch' \in [Workers -> Seq(NodeToProcess)]
                   /\ nInFlight' \in [Nodes -> Nat]
<1>1. ASSUME UNCHANGED <<root, nInFlight, minibatch>> PROVE Goal
  BY <1>1, LossStays DEF TypeOK
<1> HIDE DEF Goal
<1>2. ASSUME NEW w \in Workers, Worker(w) PROVE Goal
  <2>0. minibatch[w] \in Seq(NodeToProcess) /\ nInFlight \in [Nodes -> Nat]
    BY DEF TypeOK
  <2>a. \A x \in Nodes : LossOfBatch(x, minibatch[w]) \in Nat
    BY <2>0, LossOfBatchNat
  <2>1. CASE PickCollision(w)
    <3>1. PICK y \in Nodes, visits \in 1 .. CollisionsLeft(minibatch[w]) :
            /\ AddInFlight(Ancestors(y), visits)
            /\ minibatch' = [minibatch EXCEPT ![w] = Append(@, Collision(y, visits))]
      BY <2>1 DEF PickCollision
    <3>2. visits \in Nat \ {0}
      OBVIOUS
    <3> DEFINE item == Collision(y, visits)
               b == Append(minibatch[w], item)
    <3>3. item \in NodeToProcess /\ item.isCollision /\ item.node = y
            /\ item.multivisit = visits
      BY <3>2 DEF Collision, NodeToProcess
    <3>4. /\ nInFlight' \in [Nodes -> Int]
          /\ \A x \in Nodes : nInFlight'[x] = nInFlight[x] + LossOn(x, item)
      <4> HIDE DEF item
      <4> QED BY <2>0, <3>1, <3>2, <3>3 DEF AddInFlight, LossOn
    <3>5. b \in Seq(NodeToProcess)
      BY <2>0, <3>3, AppendProperties
    <3>6. \A x \in Nodes : /\ LossOfBatch(x, b)
                                = LossOfBatch(x, minibatch[w]) + LossOn(x, item)
                           /\ LossOn(x, item) \in Nat
      BY <2>0, <3>3, LossOfAppend, LossOnNat
    <3>7. minibatch' = [minibatch EXCEPT ![w] = b] /\ root' = root
      BY <2>1, <3>1 DEF PickCollision, TypeOK
    <3> HIDE DEF item, b
    <3>8. \A x \in Nodes : nInFlight'[x] =
            nInFlight[x] + LossOfBatch(x, b) - LossOfBatch(x, minibatch[w])
      BY <2>0, <2>a, <3>4, <3>6
    <3> QED BY <3>4, <3>5, <3>7, <3>8, LossMoves DEF Goal
  <2>2. CASE PickVisit(w)
    <3>1. PICK y \in Nodes :
            /\ AddInFlight(PathUp(y), 1)
            /\ minibatch' = [minibatch EXCEPT ![w] =
                            Append(@, Visit(y, FALSE, FALSE))]
      BY <2>2 DEF PickVisit
    <3> DEFINE item == Visit(y, FALSE, FALSE)
               b == Append(minibatch[w], item)
    <3>3. item \in NodeToProcess /\ ~item.isCollision /\ item.node = y
            /\ item.multivisit = 1
      BY DEF Visit, NodeToProcess
    <3>4. /\ nInFlight' \in [Nodes -> Int]
          /\ \A x \in Nodes : nInFlight'[x] = nInFlight[x] + LossOn(x, item)
      <4> HIDE DEF item
      <4> QED BY <2>0, <3>1, <3>3 DEF AddInFlight, LossOn
    <3>5. b \in Seq(NodeToProcess)
      BY <2>0, <3>3, AppendProperties
    <3>6. \A x \in Nodes : /\ LossOfBatch(x, b)
                                = LossOfBatch(x, minibatch[w]) + LossOn(x, item)
                           /\ LossOn(x, item) \in Nat
      BY <2>0, <3>3, LossOfAppend, LossOnNat
    <3>7. minibatch' = [minibatch EXCEPT ![w] = b] /\ root' = root
      BY <2>2, <3>1 DEF PickVisit, TypeOK
    <3> HIDE DEF item, b
    <3>8. \A x \in Nodes : nInFlight'[x] =
            nInFlight[x] + LossOfBatch(x, b) - LossOfBatch(x, minibatch[w])
      BY <2>0, <2>a, <3>4, <3>6
    <3> QED BY <3>4, <3>5, <3>7, <3>8, LossMoves DEF Goal
  <2>3. CASE Extend(w)
    <3>1. UNCHANGED <<root, nInFlight>>
      BY <2>3 DEF Extend
    <3>2. CASE UNCHANGED minibatch
      BY <1>1, <3>1, <3>2
    <3>3. CASE \E hit, miss \in BOOLEAN :
                 minibatch' = [minibatch EXCEPT ![w] =
                   Append(Front(@), Visit(Last(minibatch[w]).node, hit, miss))]
      <4>1. /\ minibatch[w] # <<>> /\ ~Last(minibatch[w]).isCollision
            /\ Last(minibatch[w]).multivisit = 1
        <5>1. minibatch[w] # <<>> /\ ~Last(minibatch[w]).isCollision
          BY <2>3 DEF Extend, BatchInv, BatchOf
        <5>2. /\ Last(minibatch[w]) = Item(w, Len(minibatch[w]))
              /\ Len(minibatch[w]) \in Items(w)
          <6>1. /\ Last(minibatch[w]) = minibatch[w][Len(minibatch[w])]
                /\ Len(minibatch[w]) \in Nat \ {0}
            BY <2>0, <5>1, FrontLast
          <6>2. DOMAIN minibatch[w] = 1 .. Len(minibatch[w])
            BY <2>0, LenProperties
          <6> QED BY <6>1, <6>2 DEF Items, Item
        <5> QED BY <5>1, <5>2 DEF BatchInv, BatchOf
      <4>2. PICK hit, miss \in BOOLEAN :
              minibatch' = [minibatch EXCEPT ![w] =
                Append(Front(@), Visit(Last(minibatch[w]).node, hit, miss))]
        BY <3>3
      <4> DEFINE old == Last(minibatch[w])
                 new == Visit(old.node, hit, miss)
                 b == Append(Front(minibatch[w]), new)
      <4>3. old \in NodeToProcess /\ Front(minibatch[w]) \in Seq(NodeToProcess)
        BY <2>0, <4>1, FrontLast
      <4>4. /\ new \in NodeToProcess
            /\ ~new.isCollision /\ new.node = old.node /\ new.multivisit = 1
        <5> HIDE DEF old
        <5>1. old.node \in Nodes /\ 1 \in Nat \ {0}
          BY <4>3 DEF NodeToProcess
        <5>2. new \in NodeToProcess
          BY <4>2, <5>1, Zenon DEF NodeToProcess, Visit
        <5> QED BY <5>2 DEF Visit
      <4>5. \A x \in Nodes : LossOn(x, new) = LossOn(x, old) /\ LossOn(x, old) \in Nat
        <5> HIDE DEF new
        <5> QED BY <4>1, <4>3, <4>4, LossOnNat DEF LossOn
      <4>6. b \in Seq(NodeToProcess)
        BY <4>3, <4>4, AppendProperties
      <4>7. \A x \in Nodes :
              /\ LossOfBatch(x, b) = LossOfBatch(x, Front(minibatch[w])) + LossOn(x, new)
              /\ LossOfBatch(x, Front(minibatch[w]))
                   = LossOfBatch(x, minibatch[w]) - LossOn(x, old)
        BY <2>0, <4>1, <4>3, <4>4, LossOfAppend, LossOfFront
      <4>8. minibatch' = [minibatch EXCEPT ![w] = b]
        BY <4>2 DEF TypeOK
      <4> HIDE DEF old, new, b
      <4>9. \A x \in Nodes : nInFlight'[x] =
              nInFlight[x] + LossOfBatch(x, b) - LossOfBatch(x, minibatch[w])
        BY <2>0, <2>a, <3>1, <4>5, <4>7
      <4>10. nInFlight' \in [Nodes -> Int]
        BY <2>0, <3>1
      <4> QED BY <3>1, <4>6, <4>8, <4>9, <4>10, LossMoves DEF Goal
    <3> QED BY <2>3, <3>2, <3>3 DEF Extend
  <2>4. CASE BackupOutOfOrder(w)
    <3>1. minibatch[w] # <<>>
      BY <2>4 DEF BackupOutOfOrder, BatchInv, BatchOf
    <3> DEFINE item == Last(minibatch[w])
               b == Front(minibatch[w])
    <3>2. item \in NodeToProcess /\ b \in Seq(NodeToProcess)
      BY <2>0, <3>1, FrontLast
    <3>3. /\ nInFlight' \in [Nodes -> Int]
          /\ \A x \in Nodes : nInFlight'[x] = nInFlight[x] - LossOn(x, item)
      BY <2>4, <3>2, LossOfBackup DEF BackupOutOfOrder
    <3>4. \A x \in Nodes : /\ LossOfBatch(x, b)
                                = LossOfBatch(x, minibatch[w]) - LossOn(x, item)
                           /\ LossOn(x, item) \in Nat
      BY <2>0, <3>1, <3>2, LossOfFront, LossOnNat
    <3>5. minibatch' = [minibatch EXCEPT ![w] = b] /\ root' = root
      BY <2>4 DEF BackupOutOfOrder, TypeOK
    <3> HIDE DEF item, b
    <3>6. \A x \in Nodes : nInFlight'[x] =
            nInFlight[x] + LossOfBatch(x, b) - LossOfBatch(x, minibatch[w])
      BY <2>0, <2>a, <3>3, <3>4
    <3> QED BY <3>2, <3>3, <3>5, <3>6, LossMoves DEF Goal
  <2>5. CASE BackupNext(w)
    <3>1. minibatch[w] # <<>>
      BY <2>5 DEF BackupNext
    <3> DEFINE item == Head(minibatch[w])
               b == Tail(minibatch[w])
    <3>2. item \in NodeToProcess /\ b \in Seq(NodeToProcess)
      BY <2>0, <3>1, HeadTailProperties
    <3>3. /\ nInFlight' \in [Nodes -> Int]
          /\ \A x \in Nodes : nInFlight'[x] = nInFlight[x] - LossOn(x, item)
      BY <2>5, <3>2, LossOfBackup DEF BackupNext
    <3>4. \A x \in Nodes : /\ LossOfBatch(x, b)
                                = LossOfBatch(x, minibatch[w]) - LossOn(x, item)
                           /\ LossOn(x, item) \in Nat
      BY <2>0, <3>1, <3>2, LossOfTail, LossOnNat
    <3>5. minibatch' = [minibatch EXCEPT ![w] = b] /\ root' = root
      BY <2>5 DEF BackupNext, TypeOK
    <3> HIDE DEF item, b
    <3>6. \A x \in Nodes : nInFlight'[x] =
            nInFlight[x] + LossOfBatch(x, b) - LossOfBatch(x, minibatch[w])
      BY <2>0, <2>a, <3>3, <3>4
    <3> QED BY <3>2, <3>3, <3>5, <3>6, LossMoves DEF Goal
  <2>6. CASE StartBackup(w) \/ EndBackup(w) \/ UpdateCounters(w)
    BY <1>1, <2>6 DEF StartBackup, EndBackup, UpdateCounters, nodeVars
  <2> QED BY <1>2, <2>1, <2>2, <2>3, <2>4, <2>5, <2>6, Zenon DEF Worker
<1>3. CASE Stop
  BY <1>1, <1>3 DEF Stop, nodeVars, workerVars, Goal
<1>4. CASE MakeMove
  <2>1. /\ UNCHANGED minibatch
        /\ \E c \in Nodes : nInFlight' =
             [x \in Nodes |-> IF c \in Path[x] THEN nInFlight[x] ELSE 0]
    BY <1>4 DEF MakeMove, Children
  <2>2. \A w \in Workers : minibatch[w] = <<>>
    BY <1>4 DEF MakeMove, BatchInv, BatchOf
  <2>3. \A x \in Nodes : SumFunction([w \in Workers |-> LossOfBatch(x, minibatch[w])]) = 0
    BY <2>2, LossOfEmpty, ParamAssumption, SumZero DEF SumFunction
  <2>4. \A x \in Nodes : nInFlight'[x] = 0
    BY <2>1, <2>3 DEF VirtualLossConserved
  <2>5. \A x \in Nodes : SumFunction([w \in Workers |-> LossOfBatch(x, minibatch[w])'])
                           = 0
    <3>1. \A x \in Nodes, w \in Workers : LossOfBatch(x, minibatch[w])' = 0
      <4>1. \A w \in Workers : minibatch'[w] = <<>>
        BY <2>1, <2>2
      <4>2. DOMAIN <<>> = {}
        BY EmptySeq, LenProperties
      <4> QED BY <4>1, <4>2, SumEmpty DEF LossOfBatch, SumFunction
    <3> QED BY <3>1, ParamAssumption, SumZero DEF SumFunction
  <2> QED BY <2>1, <2>4, <2>5 DEF Goal, VirtualLossConserved, TypeOK
<1>5. CASE UNCHANGED vars
  BY <1>1, <1>5 DEF vars, nodeVars, workerVars, Goal
<1> QED BY <1>2, <1>3, <1>4, <1>5 DEF Next, Goal

-----------------------------------------------------------------------------
(* Types, and what each phase says of the minibatch. *)

LEMMA ItemTypes ==
  ASSUME TypeOK, NEW w \in Workers
  PROVE  /\ minibatch[w] \in Seq(NodeToProcess)
         /\ Len(minibatch[w]) \in Nat
         /\ DOMAIN minibatch[w] = 1 .. Len(minibatch[w])
         /\ \A i \in DOMAIN minibatch[w] :
              /\ minibatch[w][i] \in NodeToProcess
              /\ minibatch[w][i].node \in Nodes
              /\ minibatch[w][i].multivisit \in Nat \ {0}
<1>1. minibatch[w] \in Seq(NodeToProcess)
  BY DEF TypeOK
<1>2. /\ Len(minibatch[w]) \in Nat
      /\ DOMAIN minibatch[w] = 1 .. Len(minibatch[w])
  BY <1>1, LenProperties
<1>3. \A i \in DOMAIN minibatch[w] : minibatch[w][i] \in NodeToProcess
  BY <1>1, <1>2, ElementOfSeq
<1> QED BY <1>1, <1>2, <1>3 DEF NodeToProcess

LEMMA ChildVisitsNat ==
  ASSUME TypeOK, NEW x \in Nodes PROVE ChildVisits(x) \in Nat
BY ChildrenFacts, SumNat DEF ChildVisits, TypeOK

LEMMA ValueAtType ==
  ASSUME q \in [Nodes -> Values], NEW x \in Nodes, NEW y
  PROVE  ValueAt(x, y) \in Values
<1> DEFINE even == Cardinality(PathUp(x) \ PathUp(y)) % 2 = 0
<1>1. ValueAt(x, y) = IF even THEN q[x] ELSE - q[x]
  BY DEF ValueAt
<1>2. q[x] \in Values /\ - q[x] \in Values
  BY DEF Values
<1> HIDE DEF even
<1> QED BY <1>1, <1>2

LEMMA TypeOfBackup ==
  ASSUME TypeOK, NEW item \in NodeToProcess, DoBackupUpdateSingleNode(item)
  PROVE  /\ n' \in [Nodes -> Nat] /\ isTerminal' \in [Nodes -> BOOLEAN]
         /\ q' \in [Nodes -> Values] /\ totalPlayouts' \in Nat
<1>1. CASE item.isCollision
  <2>1. UNCHANGED <<n, isTerminal, q, totalPlayouts>>
    BY <1>1 DEF DoBackupUpdateSingleNode, UndoCollision
  <2> QED BY <2>1 DEF TypeOK
<1>2. CASE ~item.isCollision
  <2>1. item.multivisit \in Nat /\ item.node \in Nodes
    BY DEF NodeToProcess
  <2>2. FinalizeVisit(item)
    BY <1>2 DEF DoBackupUpdateSingleNode
  <2>3. n' \in [Nodes -> Nat] /\ totalPlayouts' \in Nat
    <3>1. /\ n' = [y \in Nodes |-> n[y] + (IF y \in PathUp(item.node)
                                            THEN item.multivisit ELSE 0)]
          /\ totalPlayouts' = totalPlayouts + item.multivisit
      BY <2>2, Zenon DEF FinalizeVisit
    <3>2. n \in [Nodes -> Nat] /\ totalPlayouts \in Nat
      BY DEF TypeOK
    <3> QED BY <2>1, <3>1, <3>2
  <2>4. isTerminal' \in [Nodes -> BOOLEAN]
    BY <2>2, Zenon DEF FinalizeVisit
  <2>5. q' \in [Nodes -> Values]
    <3>1. q' = [y \in Nodes |-> IF y \in Converted(item.node)
                                 THEN ValueAt(item.node, y) ELSE q[y]]
      BY <2>2 DEF FinalizeVisit
    <3> QED BY <2>1, <3>1, ValueAtType DEF TypeOK
  <2> QED BY <2>3, <2>4, <2>5
<1> QED BY <1>1, <1>2

LEMMA TypeInit == Init => TypeOK
<1> SUFFICES ASSUME Init PROVE TypeOK
  OBVIOUS
<1>1. outcome \in Outcomes /\ root \in Nodes
  BY TreeAssumption DEF Init
<1>2. /\ n \in [Nodes -> Nat] /\ nInFlight \in [Nodes -> Nat]
      /\ q \in [Nodes -> Values]
      /\ initialVisits \in Nat /\ totalPlayouts \in Nat
      /\ outOfOrder \in [Workers -> 0 .. MiniBatchSize]
  BY ParamAssumption DEF Init, Values
<1>3. minibatch \in [Workers -> Seq(NodeToProcess)]
  BY EmptySeq DEF Init
<1> QED BY <1>1, <1>2, <1>3, Zenon DEF Init, TypeOK

LEMMA TypeStep ==
  ASSUME TypeOK, VirtualLossConserved, BatchInv, [Next]_vars
  PROVE  TypeOK'
<1>0. /\ minibatch' \in [Workers -> Seq(NodeToProcess)]
      /\ nInFlight' \in [Nodes -> Nat]
  BY LossStep
<1>1. ASSUME NEW w \in Workers, Worker(w) PROVE TypeOK'
  <2>a. ASSUME NEW b, NEW done
        PROVE  /\ AfterVisit(b, done) \in {"gather", "compute"}
               /\ AfterCollision(b, done) \in {"gather", "compute"}
    BY DEF AfterVisit, AfterCollision
  <2>1. CASE PickCollision(w)
    BY <1>0, <2>a, <2>1 DEF PickCollision, TypeOK
  <2>2. CASE PickVisit(w)
    BY <1>0, <2>2 DEF PickVisit, TypeOK
  <2>3. CASE Extend(w)
    <3>1. /\ hasChildren' \in [Nodes -> BOOLEAN]
          /\ isTerminal' \in [Nodes -> BOOLEAN]
      BY <2>3, Zenon DEF Extend, TypeOK
    <3>2. q' \in [Nodes -> Values]
      <4>1. outcome \in [Leaves -> Values] /\ q \in [Nodes -> Values]
        BY OutcomeAssumption DEF TypeOK
      <4>2. \/ q' = q
            \/ \E x \in Leaves : q' = [q EXCEPT ![x] = outcome[x]]
        BY <2>3 DEF Extend
      <4> QED BY <4>1, <4>2
    <3>3. /\ pc' \in [Workers -> {"gather", "extend", "outOfOrder", "compute",
                                  "backup", "counters", "done"}]
      BY <2>3, <2>a DEF Extend, TypeOK
    <3> QED BY <1>0, <2>3, <3>1, <3>2, <3>3 DEF Extend, TypeOK
  <2>4. CASE BackupOutOfOrder(w)
    <3>1. Last(minibatch[w]) \in NodeToProcess
      BY <2>4, FrontLast, ItemTypes DEF BackupOutOfOrder, BatchInv, BatchOf
    <3>2. outOfOrder' \in [Workers -> 0 .. MiniBatchSize]
      BY <2>4, ParamAssumption DEF BackupOutOfOrder, BatchInv, BatchOf, TypeOK
    <3> QED
      BY <1>0, <2>4, <2>a, <3>1, <3>2, TypeOfBackup DEF BackupOutOfOrder, TypeOK
  <2>5. CASE BackupNext(w)
    <3>1. Head(minibatch[w]) \in NodeToProcess
      BY <2>5, HeadTailProperties, ItemTypes DEF BackupNext
    <3> QED BY <1>0, <2>5, <3>1, TypeOfBackup DEF BackupNext, TypeOK
  <2>6. CASE StartBackup(w) \/ EndBackup(w)
    BY <1>0, <2>6 DEF StartBackup, EndBackup, nodeVars, TypeOK
  <2>7. CASE UpdateCounters(w)
    <3>1. stop' \in BOOLEAN
      BY <2>7, Zenon DEF UpdateCounters
    <3> QED
      BY <1>0, <2>7, <3>1, ParamAssumption DEF UpdateCounters, nodeVars, TypeOK
  <2> QED
    BY <1>1, <2>1, <2>2, <2>3, <2>4, <2>5, <2>6, <2>7, Zenon DEF Worker
<1>2. CASE Stop
  BY <1>0, <1>2 DEF Stop, nodeVars, workerVars, TypeOK
<1>3. CASE MakeMove
  <2>1. PICK c \in Children(root) \ Leaves :
          /\ root' = c
          /\ n' = [x \in Nodes |->
                     IF x = c THEN VisitsOfHead(c)
                     ELSE IF c \in Path[x] THEN n[x] ELSE 0]
          /\ hasChildren' = [x \in Nodes |-> c \in Path[x] /\ hasChildren[x]]
          /\ isTerminal' =
               [x \in Nodes |-> c \in Path[x] /\ x # c /\ isTerminal[x]]
          /\ q' = [x \in Nodes |-> IF c \in Path[x] /\ x # c THEN q[x] ELSE 0]
          /\ initialVisits' = VisitsOfHead(c)
    BY <1>3 DEF MakeMove
  <2>2. c \in Nodes
    BY DEF Children
  <2>3. VisitsOfHead(c) \in Nat
    BY <2>2, ChildVisitsNat DEF VisitsOfHead, TypeOK
  <2>4. n' \in [Nodes -> Nat] /\ q' \in [Nodes -> Values] /\ root' \in Nodes
    BY <2>1, <2>2, <2>3 DEF TypeOK, Values
  <2>5. /\ hasChildren' \in [Nodes -> BOOLEAN]
        /\ isTerminal' \in [Nodes -> BOOLEAN]
    BY <2>1, Zenon
  <2> QED BY <1>0, <1>3, <2>1, <2>3, <2>4, <2>5 DEF MakeMove, TypeOK
<1>4. CASE UNCHANGED vars
  BY <1>4 DEF vars, nodeVars, workerVars, TypeOK
<1> QED BY <1>1, <1>2, <1>3, <1>4, Zenon DEF Next

(* The batch of a worker after a step: an item more, the last item         *)
(* replaced, or the first or the last item less.                           *)
LEMMA AppendIdx ==
  ASSUME NEW S, NEW b \in Seq(S), NEW e \in S
  PROVE  /\ DOMAIN Append(b, e) = 1 .. Len(b) + 1 /\ DOMAIN b = 1 .. Len(b)
         /\ Append(b, e) \in Seq(S) /\ Len(Append(b, e)) = Len(b) + 1
         /\ Len(b) \in Nat /\ Append(b, e) # <<>>
         /\ \A i \in 1 .. Len(b) : Append(b, e)[i] = b[i]
         /\ Append(b, e)[Len(b) + 1] = e
         /\ Last(Append(b, e)) = e
<1>1. /\ Append(b, e) \in Seq(S) /\ Len(Append(b, e)) = Len(b) + 1
      /\ \A i \in 1 .. Len(b) : Append(b, e)[i] = b[i]
      /\ Append(b, e)[Len(b) + 1] = e
  BY AppendProperties
<1>2. Len(b) \in Nat /\ DOMAIN b = 1 .. Len(b)
  BY LenProperties
<1>3. DOMAIN Append(b, e) = 1 .. Len(b) + 1
  <2>1. DOMAIN Append(b, e) = 1 .. Len(Append(b, e))
    BY <1>1, LenProperties
  <2> QED BY <1>1, <2>1
<1>4. Append(b, e) # <<>> /\ Last(Append(b, e)) = e
  <2>1. Append(b, e) # <<>>
    BY <1>1, <1>2, EmptySeq
  <2> QED BY <1>1, <2>1 DEF Last
<1> QED BY <1>1, <1>2, <1>3, <1>4

LEMMA FrontIdx ==
  ASSUME NEW S, NEW b \in Seq(S), b # <<>>
  PROVE  /\ DOMAIN Front(b) = 1 .. Len(b) - 1 /\ DOMAIN b = 1 .. Len(b)
         /\ \A i \in 1 .. Len(b) - 1 : Front(b)[i] = b[i]
         /\ Len(b) \in DOMAIN b /\ Last(b) = b[Len(b)] /\ Last(b) \in S
<1>1. /\ Front(b) \in Seq(S) /\ Len(Front(b)) = Len(b) - 1
      /\ \A i \in 1 .. Len(b) - 1 : Front(b)[i] = b[i]
      /\ Last(b) = b[Len(b)] /\ Last(b) \in S /\ Len(b) \in Nat \ {0}
  BY FrontLast
<1>2. DOMAIN b = 1 .. Len(b) /\ DOMAIN Front(b) = 1 .. Len(Front(b))
  BY <1>1, LenProperties
<1>3. DOMAIN Front(b) = 1 .. Len(b) - 1
  BY <1>1, <1>2
<1> QED BY <1>1, <1>2, <1>3

LEMMA TailIdx ==
  ASSUME NEW S, NEW b \in Seq(S), b # <<>>
  PROVE  /\ DOMAIN Tail(b) = 1 .. Len(b) - 1 /\ DOMAIN b = 1 .. Len(b)
         /\ \A i \in 1 .. Len(b) - 1 : Tail(b)[i] = b[i + 1]
         /\ 1 \in DOMAIN b /\ Head(b) = b[1] /\ Head(b) \in S
         /\ Len(b) \in Nat \ {0}
<1>1. /\ Tail(b) \in Seq(S) /\ Len(Tail(b)) = Len(b) - 1
      /\ \A i \in 1 .. Len(Tail(b)) : Tail(b)[i] = b[i + 1]
      /\ Head(b) = b[1] /\ Head(b) \in S /\ Len(b) \in Nat \ {0}
  BY HeadTailProperties, EmptySeq
<1>2. DOMAIN b = 1 .. Len(b) /\ DOMAIN Tail(b) = 1 .. Len(Tail(b))
  BY <1>1, LenProperties
<1>3. DOMAIN Tail(b) = 1 .. Len(b) - 1
  BY <1>1, <1>2
<1> QED BY <1>1, <1>2, <1>3

(* What the steps of a worker do to its items. *)
ItemAdded(w, item) ==
  /\ item \in NodeToProcess
  /\ DOMAIN minibatch'[w] = 1 .. Len(minibatch[w]) + 1
  /\ Len(minibatch'[w]) = Len(minibatch[w]) + 1
  /\ minibatch'[w] # <<>> /\ Last(minibatch'[w]) = item
  /\ minibatch'[w][Len(minibatch[w]) + 1] = item
  /\ \A i \in Items(w) : minibatch'[w][i] = Item(w, i)
  /\ \A v \in Workers \ {w} : minibatch'[v] = minibatch[v]

ItemExtended(w) ==
  /\ minibatch'[w] # <<>> /\ DOMAIN minibatch'[w] = Items(w)
  /\ Len(minibatch'[w]) = Len(minibatch[w])
  /\ Last(minibatch'[w]) = minibatch'[w][Len(minibatch[w])]
  /\ \A i \in Items(w) : /\ minibatch'[w][i].node = Item(w, i).node
                         /\ minibatch'[w][i].isCollision <=> Item(w, i).isCollision
                         /\ minibatch'[w][i].multivisit = Item(w, i).multivisit
  /\ \A v \in Workers \ {w} : minibatch'[v] = minibatch[v]

(* Item k left the batch; the others moved o places forward. *)
ItemRemoved(w, k, o) ==
  /\ k \in Items(w) /\ DOMAIN minibatch'[w] \in SUBSET Nat
  /\ \A i \in DOMAIN minibatch'[w] :
       i + o \in Items(w) \ {k} /\ minibatch'[w][i] = Item(w, i + o)
  /\ \A j \in Items(w) \ {k} :
       j - o \in DOMAIN minibatch'[w] /\ minibatch'[w][j - o] = Item(w, j)
  /\ \A v \in Workers \ {w} : minibatch'[v] = minibatch[v]

LEMMA Picks ==
  ASSUME TypeOK, NEW w \in Workers, NEW item \in NodeToProcess,
         minibatch' = [minibatch EXCEPT ![w] = Append(@, item)]
  PROVE  ItemAdded(w, item)
<1>1. minibatch[w] \in Seq(NodeToProcess)
  BY ItemTypes
<1>2. /\ minibatch'[w] = Append(minibatch[w], item)
      /\ \A v \in Workers \ {w} : minibatch'[v] = minibatch[v]
  BY DEF TypeOK
<1> QED BY <1>1, <1>2, AppendIdx DEF ItemAdded, Items, Item

LEMMA Extends ==
  ASSUME TypeOK, BatchInv, NEW w \in Workers, Extend(w)
  PROVE  ItemExtended(w)
<1>1. /\ minibatch[w] \in Seq(NodeToProcess) /\ minibatch[w] # <<>>
      /\ ~Last(minibatch[w]).isCollision
  BY ItemTypes DEF Extend, BatchInv, BatchOf
<1>2. /\ Items(w) = 1 .. Len(minibatch[w]) /\ Len(minibatch[w]) \in Nat \ {0}
      /\ Last(minibatch[w]) = Item(w, Len(minibatch[w]))
      /\ Len(minibatch[w]) \in Items(w)
  BY <1>1, FrontIdx, FrontLast DEF Items, Item
<1>3. CASE UNCHANGED minibatch
  BY <1>1, <1>2, <1>3, Zenon DEF ItemExtended, Items, Item
<1>4. CASE \E hit, miss \in BOOLEAN :
             minibatch' = [minibatch EXCEPT ![w] =
               Append(Front(@), Visit(Last(minibatch[w]).node, hit, miss))]
  <2>1. PICK hit, miss \in BOOLEAN :
          minibatch' = [minibatch EXCEPT ![w] =
            Append(Front(@), Visit(Last(minibatch[w]).node, hit, miss))]
    BY <1>4
  <2> DEFINE new == Visit(Last(minibatch[w]).node, hit, miss)
             rest == Front(minibatch[w])
             len == Len(minibatch[w])
  <2>2. /\ new.node = Last(minibatch[w]).node /\ ~new.isCollision
        /\ new.multivisit = 1
    BY DEF Visit
  <2>3. new \in NodeToProcess
    <3>1. Last(minibatch[w]) \in NodeToProcess
      BY <1>1, FrontLast
    <3>2. Last(minibatch[w]).node \in Nodes /\ 1 \in Nat \ {0}
      BY <3>1 DEF NodeToProcess
    <3> QED BY <2>1, <3>2, Zenon DEF NodeToProcess, Visit
  <2>4. Last(minibatch[w]).multivisit = 1
    BY <1>1, <1>2 DEF BatchInv, BatchOf
  <2>5. /\ rest \in Seq(NodeToProcess) /\ Len(rest) = len - 1
        /\ \A i \in 1 .. len - 1 : rest[i] = Item(w, i)
    BY <1>1, FrontLast DEF Item
  <2>6. /\ minibatch'[w] = Append(rest, new)
        /\ \A v \in Workers \ {w} : minibatch'[v] = minibatch[v]
    BY <2>1 DEF TypeOK
  <2> HIDE DEF new, rest, len
  <2>7. /\ DOMAIN minibatch'[w] = 1 .. Len(rest) + 1
        /\ Len(minibatch'[w]) = Len(rest) + 1
        /\ minibatch'[w] # <<>> /\ Last(minibatch'[w]) = new
        /\ \A i \in 1 .. Len(rest) : minibatch'[w][i] = rest[i]
        /\ minibatch'[w][Len(rest) + 1] = new
    BY <2>3, <2>5, <2>6, AppendIdx
  <2>8. len \in Nat \ {0} /\ Len(rest) + 1 = len
    BY <1>2, <2>5 DEF len
  <2>9. /\ DOMAIN minibatch'[w] = Items(w) /\ Len(minibatch'[w]) = len
        /\ Last(minibatch'[w]) = minibatch'[w][len]
    BY <1>2, <2>7, <2>8 DEF len
  <2>10. ASSUME NEW i \in Items(w)
         PROVE  /\ minibatch'[w][i].node = Item(w, i).node
                /\ minibatch'[w][i].isCollision <=> Item(w, i).isCollision
                /\ minibatch'[w][i].multivisit = Item(w, i).multivisit
    <3>1. CASE i = len
      BY <1>1, <1>2, <2>2, <2>4, <2>7, <2>8, <3>1 DEF len
    <3>2. CASE i # len
      <4>1. i \in 1 .. len - 1 /\ i \in 1 .. Len(rest)
        BY <1>2, <2>8, <3>2 DEF len
      <4> QED BY <2>5, <2>7, <4>1
    <3> QED BY <3>1, <3>2
  <2> QED BY <2>6, <2>7, <2>9, <2>10 DEF ItemExtended, len
<1> QED BY <1>3, <1>4 DEF Extend

LEMMA TakesLast ==
  ASSUME TypeOK, NEW w \in Workers, minibatch[w] # <<>>,
         minibatch' = [minibatch EXCEPT ![w] = Front(@)]
  PROVE  /\ ItemRemoved(w, Len(minibatch[w]), 0)
         /\ Last(minibatch[w]) = Item(w, Len(minibatch[w]))
<1>1. minibatch[w] \in Seq(NodeToProcess) /\ Len(minibatch[w]) \in Nat
  BY ItemTypes
<1>2. /\ minibatch'[w] = Front(minibatch[w])
      /\ \A v \in Workers \ {w} : minibatch'[v] = minibatch[v]
  BY DEF TypeOK
<1> DEFINE len == Len(minibatch[w])
<1>3. /\ DOMAIN minibatch'[w] = 1 .. len - 1 /\ Items(w) = 1 .. len
      /\ \A i \in 1 .. len - 1 : minibatch'[w][i] = Item(w, i)
      /\ len \in Items(w) /\ Last(minibatch[w]) = Item(w, len)
  BY <1>1, <1>2, FrontIdx DEF Items, Item
<1>4. len \in Nat
  BY <1>1
<1> HIDE DEF len
<1>5. ASSUME NEW i \in DOMAIN minibatch'[w]
      PROVE  i + 0 \in Items(w) \ {len} /\ minibatch'[w][i] = Item(w, i + 0)
  <2>1. i + 0 = i /\ i \in 1 .. len /\ i # len
    BY <1>3, <1>4
  <2> QED BY <1>3, <2>1
<1>6. ASSUME NEW j \in Items(w) \ {len}
      PROVE  j - 0 \in DOMAIN minibatch'[w] /\ minibatch'[w][j - 0] = Item(w, j)
  <2>1. j - 0 = j /\ j \in 1 .. len - 1
    BY <1>3, <1>4
  <2> QED BY <1>3, <2>1
<1> QED BY <1>2, <1>3, <1>5, <1>6 DEF ItemRemoved, len

LEMMA TakesFirst ==
  ASSUME TypeOK, NEW w \in Workers, minibatch[w] # <<>>,
         minibatch' = [minibatch EXCEPT ![w] = Tail(@)]
  PROVE  ItemRemoved(w, 1, 1) /\ Head(minibatch[w]) = Item(w, 1)
<1>1. minibatch[w] \in Seq(NodeToProcess)
  BY ItemTypes
<1>2. /\ minibatch'[w] = Tail(minibatch[w])
      /\ \A v \in Workers \ {w} : minibatch'[v] = minibatch[v]
  BY DEF TypeOK
<1> DEFINE len == Len(minibatch[w])
<1>3. /\ DOMAIN minibatch'[w] = 1 .. len - 1 /\ Items(w) = 1 .. len
      /\ \A i \in 1 .. len - 1 : minibatch'[w][i] = Item(w, i + 1)
      /\ 1 \in Items(w) /\ Head(minibatch[w]) = Item(w, 1)
      /\ len \in Nat \ {0}
  <2> DEFINE b == minibatch[w]
  <2>1. b \in Seq(NodeToProcess) /\ b # <<>>
    BY <1>1
  <2> HIDE DEF b
  <2>2. /\ DOMAIN Tail(b) = 1 .. Len(b) - 1 /\ DOMAIN b = 1 .. Len(b)
        /\ \A i \in 1 .. Len(b) - 1 : Tail(b)[i] = b[i + 1]
        /\ 1 \in DOMAIN b /\ Head(b) = b[1] /\ Len(b) \in Nat \ {0}
    BY <2>1, TailIdx
  <2> QED BY <1>2, <2>2 DEF Items, Item, b
<1> HIDE DEF len
<1>4. ASSUME NEW i \in DOMAIN minibatch'[w]
      PROVE  i + 1 \in Items(w) \ {1} /\ minibatch'[w][i] = Item(w, i + 1)
  BY <1>3
<1>5. ASSUME NEW j \in Items(w) \ {1}
      PROVE  j - 1 \in DOMAIN minibatch'[w] /\ minibatch'[w][j - 1] = Item(w, j)
  <2>1. j - 1 \in 1 .. len - 1 /\ (j - 1) + 1 = j
    BY <1>3
  <2> QED BY <1>3, <2>1
<1>6. DOMAIN minibatch'[w] \in SUBSET Nat
  BY <1>3
<1> QED BY <1>2, <1>3, <1>4, <1>5, <1>6 DEF ItemRemoved

LEMMA WhereNext ==
  ASSUME NEW b, NEW done
  PROVE  /\ AfterVisit(b, done) \in {"gather", "compute"}
         /\ AfterVisit(b, done) = "gather" => done < MiniBatchSize
         /\ AfterCollision(b, done) \in {"gather", "compute"}
         /\ AfterCollision(b, done) = "gather" => done < MiniBatchSize
BY DEF AfterVisit, AfterCollision, GathersMore

LEMMA BatchStays ==
  ASSUME BatchInv, NEW w \in Workers,
         pc'[w] = pc[w], minibatch'[w] = minibatch[w],
         outOfOrder'[w] = outOfOrder[w]
  PROVE  BatchOf(w)'
BY DEF BatchInv, BatchOf, Items, Item

(* The items of a batch are as before, or a part of them. *)
LEMMA SingleVisits ==
  ASSUME BatchInv, NEW w \in Workers,
         \A i \in DOMAIN minibatch'[w] : \E j \in Items(w) :
           /\ minibatch'[w][i].isCollision <=> Item(w, j).isCollision
           /\ minibatch'[w][i].multivisit = Item(w, j).multivisit
  PROVE  \A i \in DOMAIN minibatch'[w] :
           ~minibatch'[w][i].isCollision => minibatch'[w][i].multivisit = 1
BY DEF BatchInv, BatchOf

LEMMA BatchStep ==
  ASSUME TypeOK, BatchInv, [Next]_vars
  PROVE  BatchInv'
<1>1. ASSUME UNCHANGED workerVars PROVE BatchInv'
  BY <1>1 DEF workerVars, BatchInv, BatchOf, Items, Item
<1>2. ASSUME NEW w \in Workers, Worker(w) PROVE BatchInv'
  <2>1. BatchOf(w)
    BY DEF BatchInv
  <2>2. ASSUME BatchOf(w)',
               \A v \in Workers \ {w} : /\ pc'[v] = pc[v]
                                        /\ minibatch'[v] = minibatch[v]
                                        /\ outOfOrder'[v] = outOfOrder[v]
        PROVE  BatchInv'
    BY <2>2, BatchStays DEF BatchInv
  <2>3. CASE PickCollision(w)
    <3>1. PICK y \in Nodes, visits \in 1 .. CollisionsLeft(minibatch[w]) :
            minibatch' = [minibatch EXCEPT ![w] = Append(@, Collision(y, visits))]
      BY <2>3 DEF PickCollision
    <3> DEFINE item == Collision(y, visits)
    <3>2. item \in NodeToProcess /\ item.isCollision
      BY DEF Collision, NodeToProcess
    <3> HIDE DEF item
    <3>3. ItemAdded(w, item)
      BY <3>1, <3>2, Picks DEF item
    <3>4. \A i \in DOMAIN minibatch'[w] :
            ~minibatch'[w][i].isCollision => minibatch'[w][i].multivisit = 1
      <4>1. Items(w) = 1 .. Len(minibatch[w]) /\ Len(minibatch[w]) \in Nat
        BY ItemTypes DEF Items
      <4>2. ASSUME NEW i \in DOMAIN minibatch'[w]
            PROVE  i \in Items(w) \/ i = Len(minibatch[w]) + 1
        BY <3>3, <4>1 DEF ItemAdded
      <4> QED BY <2>1, <3>2, <3>3, <4>2 DEF ItemAdded, BatchOf
    <3>5. /\ pc'[w] = AfterCollision(minibatch'[w], outOfOrder[w])
          /\ outOfOrder' = outOfOrder
          /\ \A v \in Workers \ {w} : pc'[v] = pc[v]
      BY <2>3 DEF PickCollision, TypeOK
    <3>6. /\ pc'[w] \in {"gather", "compute"}
          /\ pc'[w] = "gather" => outOfOrder[w] < MiniBatchSize
      BY <3>5, WhereNext
    <3>7. BatchOf(w)'
      BY <3>4, <3>5, <3>6 DEF BatchOf, Items, Item
    <3> QED BY <2>2, <3>3, <3>5, <3>7 DEF ItemAdded
  <2>4. CASE PickVisit(w)
    <3>1. PICK y \in Nodes :
            minibatch' = [minibatch EXCEPT ![w] = Append(@, Visit(y, FALSE, FALSE))]
      BY <2>4 DEF PickVisit
    <3> DEFINE item == Visit(y, FALSE, FALSE)
    <3>2. item \in NodeToProcess /\ ~item.isCollision /\ item.multivisit = 1
      BY DEF Visit, NodeToProcess
    <3> HIDE DEF item
    <3>3. ItemAdded(w, item)
      BY <3>1, <3>2, Picks DEF item
    <3>4. \A i \in DOMAIN minibatch'[w] :
            ~minibatch'[w][i].isCollision => minibatch'[w][i].multivisit = 1
      <4>1. Items(w) = 1 .. Len(minibatch[w]) /\ Len(minibatch[w]) \in Nat
        BY ItemTypes DEF Items
      <4>2. ASSUME NEW i \in DOMAIN minibatch'[w]
            PROVE  i \in Items(w) \/ i = Len(minibatch[w]) + 1
        BY <3>3, <4>1 DEF ItemAdded
      <4> QED BY <2>1, <3>2, <3>3, <4>2 DEF ItemAdded, BatchOf
    <3>5. /\ pc'[w] = "extend" /\ outOfOrder' = outOfOrder
          /\ pc[w] = "gather"
          /\ \A v \in Workers \ {w} : pc'[v] = pc[v]
      BY <2>4 DEF PickVisit, TypeOK
    <3>6. minibatch'[w] # <<>> /\ ~Last(minibatch'[w]).isCollision
      BY <3>2, <3>3 DEF ItemAdded
    <3>7. BatchOf(w)'
      BY <2>1, <3>4, <3>5, <3>6 DEF BatchOf, Items, Item
    <3> QED BY <2>2, <3>3, <3>5, <3>7 DEF ItemAdded
  <2>5. CASE Extend(w)
    <3>1. ItemExtended(w)
      BY <2>5, Extends
    <3>2. /\ pc[w] = "extend" /\ outOfOrder' = outOfOrder
          /\ \/ pc'[w] = "outOfOrder"
             \/ pc'[w] = AfterVisit(minibatch'[w], outOfOrder[w])
          /\ \A v \in Workers \ {w} : pc'[v] = pc[v]
      BY <2>5 DEF Extend, TypeOK
    <3>3. /\ pc'[w] \in {"outOfOrder", "gather", "compute"}
          /\ outOfOrder[w] < MiniBatchSize
      BY <2>1, <3>2, WhereNext DEF BatchOf
    <3>4. minibatch'[w] # <<>> /\ ~Last(minibatch'[w]).isCollision
      <4>1. /\ minibatch[w] # <<>> /\ ~Last(minibatch[w]).isCollision
        BY <2>1, <3>2 DEF BatchOf
      <4>2. /\ Last(minibatch[w]) = Item(w, Len(minibatch[w]))
            /\ Len(minibatch[w]) \in Items(w)
        BY <4>1, ItemTypes, FrontIdx DEF Items, Item
      <4> QED BY <3>1, <4>1, <4>2 DEF ItemExtended
    <3>5. \A i \in DOMAIN minibatch'[w] :
            ~minibatch'[w][i].isCollision => minibatch'[w][i].multivisit = 1
      BY <3>1, SingleVisits DEF ItemExtended
    <3>6. BatchOf(w)'
      BY <3>2, <3>3, <3>4, <3>5 DEF BatchOf, Items, Item
    <3> QED BY <2>2, <3>1, <3>2, <3>6 DEF ItemExtended
  <2>6. CASE BackupOutOfOrder(w)
    <3>1. /\ pc[w] = "outOfOrder" /\ minibatch[w] # <<>>
          /\ minibatch' = [minibatch EXCEPT ![w] = Front(@)]
          /\ pc' = [pc EXCEPT ![w] = AfterVisit(minibatch'[w], outOfOrder'[w])]
          /\ \A v \in Workers \ {w} : outOfOrder'[v] = outOfOrder[v]
      BY <2>1, <2>6 DEF BackupOutOfOrder, BatchOf, TypeOK
    <3>2. ItemRemoved(w, Len(minibatch[w]), 0)
      BY <3>1, TakesLast
    <3>3. \A i \in DOMAIN minibatch'[w] :
            ~minibatch'[w][i].isCollision => minibatch'[w][i].multivisit = 1
      BY <3>2, SingleVisits DEF ItemRemoved
    <3>4. /\ pc'[w] \in {"gather", "compute"}
          /\ pc'[w] = "gather" => outOfOrder'[w] < MiniBatchSize
          /\ \A v \in Workers \ {w} : pc'[v] = pc[v]
      BY <3>1, WhereNext DEF TypeOK
    <3>5. BatchOf(w)'
      BY <3>3, <3>4 DEF BatchOf, Items, Item
    <3> QED BY <2>2, <3>1, <3>2, <3>4, <3>5 DEF ItemRemoved
  <2>7. CASE BackupNext(w)
    <3>1. /\ pc[w] = "backup" /\ minibatch[w] # <<>>
          /\ minibatch' = [minibatch EXCEPT ![w] = Tail(@)]
          /\ pc' = pc /\ outOfOrder' = outOfOrder
      BY <2>7 DEF BackupNext
    <3>2. ItemRemoved(w, 1, 1)
      BY <3>1, TakesFirst
    <3>3. \A i \in DOMAIN minibatch'[w] :
            ~minibatch'[w][i].isCollision => minibatch'[w][i].multivisit = 1
      BY <3>2, SingleVisits DEF ItemRemoved
    <3>4. BatchOf(w)'
      BY <3>1, <3>3 DEF BatchOf, Items, Item
    <3> QED BY <2>2, <3>1, <3>2, <3>4 DEF ItemRemoved
  <2>8. CASE StartBackup(w) \/ EndBackup(w) \/ UpdateCounters(w)
    <3>1. /\ minibatch' = minibatch
          /\ \A v \in Workers \ {w} : /\ pc'[v] = pc[v]
                                      /\ outOfOrder'[v] = outOfOrder[v]
          /\ \/ pc'[w] = "backup"
             \/ pc'[w] = "counters" /\ minibatch[w] = <<>>
             \/ pc'[w] = "gather" /\ outOfOrder'[w] = 0
             \/ /\ pc'[w] = "done" /\ outOfOrder'[w] = 0
                /\ minibatch[w] = <<>>
      BY <2>1, <2>8
      DEF StartBackup, EndBackup, UpdateCounters, BatchOf, TypeOK
    <3>2. 0 < MiniBatchSize
      BY ParamAssumption
    <3>3. BatchOf(w)'
      BY <2>1, <3>1, <3>2 DEF BatchOf, Items, Item
    <3> QED BY <2>2, <3>1, <3>3
  <2> QED
    BY <1>2, <2>3, <2>4, <2>5, <2>6, <2>7, <2>8, Zenon DEF Worker
<1>3. CASE Stop
  BY <1>1, <1>3 DEF Stop
<1>4. CASE MakeMove
  <2>1. /\ minibatch' = minibatch /\ outOfOrder' = outOfOrder
        /\ \A w \in Workers : pc[w] = "done" /\ pc'[w] = "gather"
    BY <1>4 DEF MakeMove
  <2>2. 0 < MiniBatchSize
    BY ParamAssumption
  <2>3. ASSUME NEW w \in Workers PROVE BatchOf(w)'
    BY <2>1, <2>2 DEF BatchInv, BatchOf, Items, Item
  <2> QED BY <2>3 DEF BatchInv
<1>5. CASE UNCHANGED vars
  BY <1>1, <1>5 DEF vars
<1> QED BY <1>2, <1>3, <1>4, <1>5, Zenon DEF Next

-----------------------------------------------------------------------------
(* The tree: who extends a node, and what is known above and below it. *)

(* An item leaves at least its visits on every node it marked. *)
LEMMA LossIsSeen ==
  ASSUME TypeOK, VirtualLossConserved, NEW x \in Nodes
  PROVE  /\ \A w \in Workers : \A i \in Items(w) :
              LossOn(x, Item(w, i)) <= nInFlight[x]
         /\ \A w \in Workers : \A i, j \in Items(w) :
              i # j => LossOn(x, Item(w, i)) + LossOn(x, Item(w, j)) <= nInFlight[x]
         /\ \A w, v \in Workers : \A i \in Items(w), j \in Items(v) :
              w # v => LossOn(x, Item(w, i)) + LossOn(x, Item(v, j)) <= nInFlight[x]
<1> DEFINE f == [w \in Workers |-> LossOfBatch(x, minibatch[w])]
<1>1. /\ DOMAIN f = Workers /\ IsFiniteSet(Workers)
      /\ \A w \in Workers : f[w] = LossOfBatch(x, minibatch[w]) /\ f[w] \in Nat
  BY ItemTypes, LossOfBatchNat, ParamAssumption
<1>2. nInFlight[x] = SumFunctionOnSet(f, Workers)
  BY <1>1 DEF VirtualLossConserved, SumFunction
<1> HIDE DEF f
<1>3. /\ \A w \in Workers : f[w] <= nInFlight[x]
      /\ \A w, v \in Workers : w # v => f[w] + f[v] <= nInFlight[x]
  BY <1>1, <1>2, SumAtLeast
<1>4. ASSUME NEW w \in Workers
      PROVE  /\ \A i \in Items(w) :
                  LossOn(x, Item(w, i)) \in Nat /\ LossOn(x, Item(w, i)) <= f[w]
             /\ \A i, j \in Items(w) :
                  i # j => LossOn(x, Item(w, i)) + LossOn(x, Item(w, j)) <= f[w]
  <2> DEFINE g == [i \in DOMAIN minibatch[w] |-> LossOn(x, minibatch[w][i])]
             D == DOMAIN minibatch[w]
  <2>1. /\ D = 1 .. Len(minibatch[w]) /\ Len(minibatch[w]) \in Nat
        /\ \A i \in D : minibatch[w][i] \in NodeToProcess
    BY ItemTypes
  <2>2. IsFiniteSet(D)
    BY <2>1, FS_Interval
  <2>3. /\ DOMAIN g = D
        /\ \A i \in D : g[i] = LossOn(x, Item(w, i)) /\ g[i] \in Nat
    BY <2>1, LossOnNat DEF Item
  <2>4. f[w] = SumFunctionOnSet(g, D)
    BY <1>1, <2>3 DEF LossOfBatch, SumFunction
  <2>5. Items(w) = D
    BY DEF Items
  <2> HIDE DEF g, D
  <2>6. \A i \in D : /\ g[i] <= f[w]
                     /\ \A j \in D \ {i} : g[i] + g[j] <= f[w]
    BY <2>2, <2>3, <2>4, SumAtLeast
  <2> QED BY <2>3, <2>5, <2>6
<1>5. nInFlight[x] \in Nat
  BY DEF TypeOK
<1>6. ASSUME NEW w \in Workers, NEW i \in Items(w)
      PROVE  LossOn(x, Item(w, i)) <= nInFlight[x]
  BY <1>1, <1>3, <1>4, <1>5
<1>7. ASSUME NEW w \in Workers, NEW i \in Items(w), NEW j \in Items(w), i # j
      PROVE  LossOn(x, Item(w, i)) + LossOn(x, Item(w, j)) <= nInFlight[x]
  BY <1>1, <1>3, <1>4, <1>5, <1>7
<1>8. ASSUME NEW w \in Workers, NEW v \in Workers, w # v,
             NEW i \in Items(w), NEW j \in Items(v)
      PROVE  LossOn(x, Item(w, i)) + LossOn(x, Item(v, j)) <= nInFlight[x]
  <2>1. /\ LossOn(x, Item(w, i)) \in Nat /\ LossOn(x, Item(w, i)) <= f[w]
        /\ LossOn(x, Item(v, j)) \in Nat /\ LossOn(x, Item(v, j)) <= f[v]
    BY <1>4
  <2>2. f[w] \in Nat /\ f[v] \in Nat /\ f[w] + f[v] <= nInFlight[x]
    BY <1>1, <1>3, <1>8
  <2> QED BY <1>5, <2>1, <2>2
<1> QED BY <1>6, <1>7, <1>8

LEMMA PendingIsSeen ==
  ASSUME TypeOK, VirtualLossConserved,
         NEW w \in Workers, NEW i \in Items(w),
         ~Item(w, i).isCollision, InTree(Item(w, i).node)
  PROVE  nInFlight[Item(w, i).node] > 0
<1> DEFINE x == Item(w, i).node
<1>1. x \in Nodes /\ Item(w, i).multivisit \in Nat \ {0} /\ root \in Nodes
  BY ItemTypes DEF Items, Item, TypeOK
<1>2. x \in PathUp(x)
  BY <1>1, WayDown
<1>3. LossOn(x, Item(w, i)) > 0
  BY <1>1, <1>2 DEF LossOn
<1>4. LossOn(x, Item(w, i)) <= nInFlight[x] /\ nInFlight[x] \in Nat
  BY <1>1, LossIsSeen DEF TypeOK
<1>5. LossOn(x, Item(w, i)) \in Nat
  BY <1>1, ItemTypes, LossOnNat DEF Items, Item
<1> HIDE DEF x
<1>6. nInFlight[x] > 0
  BY <1>3, <1>4, <1>5
<1> QED BY <1>6 DEF x

(* The way down leads through visited nodes only. *)
LEMMA DescendsVisited ==
  ASSUME TypeOK, VirtualLossConserved, NodeInv, NEW x \in Nodes,
         InTree(x), Descends(x)
  PROVE  hasChildren[x] /\ n[x] > 0
<1>1. hasChildren[x] /\ (n[x] # 0 \/ ~(nInFlight[x] > 0)) /\ n[x] \in Nat
  BY DEF Descends, BeingExtended, TypeOK
<1>2. ASSUME n[x] = 0 PROVE FALSE
  <2>1. PICK w \in Workers : \E i \in Items(w) :
          Item(w, i).node = x /\ ~Item(w, i).isCollision
    BY <1>1, <1>2 DEF NodeInv
  <2>2. PICK i \in Items(w) : Item(w, i).node = x /\ ~Item(w, i).isCollision
    BY <2>1
  <2>3. nInFlight[x] > 0
    BY <2>2, PendingIsSeen
  <2> QED BY <1>1, <1>2, <2>3
<1> QED BY <1>1, <1>2

LEMMA WayPrimed ==
  ASSUME root' = root
  PROVE  WayInv' <=>
           \A w \in Workers : \A i \in DOMAIN minibatch'[w] :
             LET x == minibatch'[w][i].node IN
             /\ InTree(x)
             /\ \A y \in Ancestors(x) : hasChildren'[y] /\ n'[y] > 0
BY DEF WayInv, Ancestors, PathUp, InTree, Items, Item

LEMMA VisitPrimed ==
  VisitInv' <=>
    \A w \in Workers : \A i \in DOMAIN minibatch'[w] :
      LET x == minibatch'[w][i].node IN
      ~minibatch'[w][i].isCollision /\ ~isTerminal'[x] =>
        /\ n'[x] = 0
        /\ hasChildren'[x] <=> ~(pc'[w] = "extend" /\ i = Len(minibatch'[w]))
        /\ \A v \in Workers : \A j \in DOMAIN minibatch'[v] :
             minibatch'[v][j].node = x /\ ~minibatch'[v][j].isCollision
               => v = w /\ j = i
BY Zenon DEF VisitInv, Items, Item, Unextended

LEMMA NodePrimed ==
  ASSUME root' = root
  PROVE  NodeInv' <=>
    /\ \A x \in Nodes : hasChildren'[x] => x \notin Leaves
    /\ \A x \in Nodes : isTerminal'[x] => hasChildren'[x] \/ x \in Leaves
    /\ \A x \in Nodes : InTree(x) /\ n'[x] = 0 =>
         /\ \A c \in Children(x) : n'[c] = 0
         /\ hasChildren'[x] => \E w \in Workers : \E i \in DOMAIN minibatch'[w] :
              minibatch'[w][i].node = x /\ ~minibatch'[w][i].isCollision
    /\ \A x \in Nodes :
         InTree(x) /\ n'[x] > 0 => hasChildren'[x] \/ isTerminal'[x]
BY DEF NodeInv, InTree, Items, Item, Leaves, Children

LEMMA VisitsPrimed ==
  ASSUME root' = root
  PROVE  VisitsAddUp' <=>
    /\ n'[root] = initialVisits' + totalPlayouts'
    /\ \A x \in Nodes :
         InTree(x) /\ hasChildren'[x] /\ n'[x] > 0 =>
           /\ n'[x] >= 1 + SumFunctionOnSet(n', Children(x))
           /\ ~isTerminal'[x] => n'[x] = 1 + SumFunctionOnSet(n', Children(x))
BY DEF VisitsAddUp, InTree, ChildVisits, Children

LEMMA ConversionsPrimed ==
  DecisiveConversionsSound' <=>
    \A x \in Nodes :
      isTerminal'[x] /\ hasChildren'[x] =>
        /\ q'[x] = -1 => \E c \in Children(x) : isTerminal'[c] /\ q'[c] = 1
        /\ q'[x] = 1 => \A c \in Children(x) : isTerminal'[c] /\ q'[c] = -1
BY DEF DecisiveConversionsSound, ConvertedNode, Proven, Children

LEMMA TreeAlone ==
  ASSUME TreeInv,
         UNCHANGED <<root, n, hasChildren, isTerminal, q, minibatch,
                     initialVisits, totalPlayouts>>,
         \A w \in Workers : pc'[w] = "extend" <=> pc[w] = "extend"
  PROVE  TreeInv'
<1>1. WayInv'
  BY WayPrimed DEF TreeInv, WayInv, Items, Item
<1>2. VisitInv'
  BY VisitPrimed DEF TreeInv, VisitInv, Items, Item, Unextended
<1>3. NodeInv'
  BY NodePrimed DEF TreeInv, NodeInv, Items, Item
<1>4. VisitsAddUp'
  BY VisitsPrimed DEF TreeInv, VisitsAddUp, ChildVisits
<1>5. DecisiveConversionsSound'
  BY ConversionsPrimed
  DEF TreeInv, DecisiveConversionsSound, ConvertedNode, Proven
<1> QED BY <1>1, <1>2, <1>3, <1>4, <1>5 DEF TreeInv

(* A playout ends at a node: another one is extending it, or it is a       *)
(* terminal or a leaf that nobody else is extending.                       *)
LEMMA PickStep ==
  ASSUME TypeOK, VirtualLossConserved, TreeInv,
         NEW w \in Workers, NEW item, ItemAdded(w, item),
         pc[w] = "gather", \A v \in Workers \ {w} : pc'[v] = pc[v],
         pc'[w] = "extend" <=> ~item.isCollision,
         UNCHANGED <<root, n, hasChildren, isTerminal, q, initialVisits,
                     totalPlayouts>>,
         InTree(item.node), \A y \in Ancestors(item.node) : Descends(y),
         ~item.isCollision =>
           /\ ~BeingExtended(item.node)
           /\ isTerminal[item.node] \/ ~hasChildren[item.node]
  PROVE  TreeInv'
<1> DEFINE x == item.node
           new == Len(minibatch[w]) + 1
<1>1. x \in Nodes /\ InTree(x) /\ root \in Nodes
  BY DEF ItemAdded, NodeToProcess, TypeOK
<1>2. ASSUME NEW y \in Ancestors(x) PROVE hasChildren[y] /\ n[y] > 0
  <2>1. y \in Nodes /\ InTree(y)
    BY <1>1, <1>2, WayDown DEF Ancestors
  <2> QED BY <1>2, <2>1, DescendsVisited DEF TreeInv
<1>3. /\ Items(w) = 1 .. Len(minibatch[w]) /\ Len(minibatch[w]) \in Nat
      /\ DOMAIN minibatch'[w] = 1 .. new /\ Len(minibatch'[w]) = new
      /\ minibatch'[w][new] = item
      /\ \A i \in Items(w) : minibatch'[w][i] = Item(w, i)
      /\ \A v \in Workers \ {w} : minibatch'[v] = minibatch[v]
  BY ItemTypes DEF ItemAdded, Items
<1>4. new \notin Items(w) /\ DOMAIN minibatch'[w] = Items(w) \cup {new}
  BY <1>3
<1> HIDE DEF x, new
(* An item of the new batches is an old one or the new one. *)
<1>5. ASSUME NEW v \in Workers, NEW i \in DOMAIN minibatch'[v]
      PROVE  \/ i \in Items(v) /\ minibatch'[v][i] = Item(v, i)
             \/ v = w /\ i = new /\ minibatch'[v][i] = item
  BY <1>3, <1>4 DEF Items, Item
<1>6. ASSUME NEW v \in Workers, NEW i \in Items(v)
      PROVE  /\ i \in DOMAIN minibatch'[v] /\ minibatch'[v][i] = Item(v, i)
             /\ ~(v = w /\ i = new)
             /\ (pc'[v] = "extend" /\ i = Len(minibatch'[v])) <=> Unextended(v, i)
  <2>1. CASE v = w
    <3>1. i \in DOMAIN minibatch'[w] /\ i # new /\ ~Unextended(w, i)
      BY <1>4, <1>6, <2>1 DEF Unextended
    <3> QED BY <1>3, <1>6, <2>1, <3>1
  <2>2. CASE v # w
    BY <1>3, <1>6, <2>2 DEF Items, Item, Unextended
  <2> QED BY <2>1, <2>2
<1>7. WayInv'
  <2> SUFFICES ASSUME NEW v \in Workers, NEW i \in DOMAIN minibatch'[v]
               PROVE  LET y == minibatch'[v][i].node IN
                      /\ InTree(y)
                      /\ \A z \in Ancestors(y) : hasChildren[z] /\ n[z] > 0
    BY WayPrimed
  <2>1. CASE i \in Items(v) /\ minibatch'[v][i] = Item(v, i)
    BY <2>1 DEF TreeInv, WayInv
  <2>2. CASE minibatch'[v][i] = item
    BY <1>1, <1>2, <2>2 DEF x
  <2> QED BY <1>5, <2>1, <2>2
(* Nobody else is extending the node of the new item. *)
<1>8. ASSUME ~item.isCollision, ~isTerminal[x]
      PROVE  /\ n[x] = 0 /\ ~hasChildren[x]
             /\ \A v \in Workers : \A j \in Items(v) :
                  Item(v, j).node = x => Item(v, j).isCollision
  <2>1. ~hasChildren[x] /\ ~(n[x] = 0 /\ nInFlight[x] > 0) /\ n[x] \in Nat
    BY <1>1, <1>8 DEF x, BeingExtended, TypeOK
  <2>2. ~(n[x] > 0)
    BY <1>1, <1>8, <2>1 DEF TreeInv, NodeInv
  <2>3. n[x] = 0 /\ ~(nInFlight[x] > 0)
    BY <2>1, <2>2
  <2> QED BY <1>1, <2>1, <2>3, PendingIsSeen
<1>9. VisitInv'
  <2> SUFFICES ASSUME NEW v \in Workers, NEW i \in DOMAIN minibatch'[v],
                      NEW y, y = minibatch'[v][i].node,
                      ~minibatch'[v][i].isCollision, ~isTerminal[y]
               PROVE  /\ n[y] = 0
                      /\ hasChildren[y]
                           <=> ~(pc'[v] = "extend" /\ i = Len(minibatch'[v]))
                      /\ \A u \in Workers : \A j \in DOMAIN minibatch'[u] :
                           minibatch'[u][j].node = y /\ ~minibatch'[u][j].isCollision
                             => u = v /\ j = i
    BY VisitPrimed
  <2>1. CASE i \in Items(v) /\ minibatch'[v][i] = Item(v, i)
    <3>1. /\ n[y] = 0 /\ (hasChildren[y] <=> ~Unextended(v, i))
          /\ \A u \in Workers : \A j \in Items(u) :
               Item(u, j).node = y /\ ~Item(u, j).isCollision => u = v /\ j = i
      BY <2>1 DEF TreeInv, VisitInv
    <3>2. ~(y = x /\ ~item.isCollision)
      BY <1>8, <2>1
    <3>3. hasChildren[y] <=> ~(pc'[v] = "extend" /\ i = Len(minibatch'[v]))
      BY <1>6, <2>1, <3>1
    <3>4. ASSUME NEW u \in Workers, NEW j \in DOMAIN minibatch'[u],
                 minibatch'[u][j].node = y, ~minibatch'[u][j].isCollision
          PROVE  u = v /\ j = i
      BY <1>5, <3>1, <3>2, <3>4 DEF x
    <3> QED BY <3>1, <3>3, <3>4
  <2>2. CASE v = w /\ i = new /\ minibatch'[v][i] = item
    <3>1. y = x /\ ~item.isCollision /\ ~isTerminal[x]
      BY <2>2 DEF x
    <3>2. pc'[v] = "extend" /\ i = Len(minibatch'[v])
      BY <1>3, <2>2, <3>1
    <3>3. ASSUME NEW u \in Workers, NEW j \in DOMAIN minibatch'[u],
                 minibatch'[u][j].node = y, ~minibatch'[u][j].isCollision
          PROVE  u = v /\ j = i
      BY <1>5, <1>8, <2>2, <3>1, <3>3
    <3> QED BY <1>8, <3>1, <3>2, <3>3
  <2> QED BY <1>5, <2>1, <2>2
<1>10. NodeInv'
  <2>1. ASSUME NEW y \in Nodes, InTree(y), n[y] = 0, hasChildren[y]
        PROVE  \E v \in Workers : \E i \in DOMAIN minibatch'[v] :
                 minibatch'[v][i].node = y /\ ~minibatch'[v][i].isCollision
    <3>1. PICK v \in Workers : \E i \in Items(v) :
            Item(v, i).node = y /\ ~Item(v, i).isCollision
      BY <2>1 DEF TreeInv, NodeInv
    <3> QED BY <1>6, <3>1
  <2> QED BY <2>1, NodePrimed DEF TreeInv, NodeInv
<1>11. VisitsAddUp' /\ DecisiveConversionsSound'
  BY VisitsPrimed, ConversionsPrimed
  DEF TreeInv, VisitsAddUp, ChildVisits, DecisiveConversionsSound,
      ConvertedNode, Proven
<1> QED BY <1>7, <1>9, <1>10, <1>11 DEF TreeInv

(* ExtendNode(): the node of the last item becomes a terminal or gets its  *)
(* edges.                                                                  *)
LEMMA ExtendStep ==
  ASSUME TypeOK, BatchInv, TreeInv, NEW w \in Workers, Extend(w)
  PROVE  TreeInv'
<1> DEFINE x == Last(minibatch[w]).node
           len == Len(minibatch[w])
<1>1. ItemExtended(w)
  BY Extends
<1>2. /\ pc[w] = "extend" /\ pc'[w] # "extend"
      /\ \A v \in Workers \ {w} : pc'[v] = pc[v]
      /\ UNCHANGED <<root, n, initialVisits, totalPlayouts>>
  <2>1. ASSUME NEW b, NEW d PROVE AfterVisit(b, d) # "extend"
    BY WhereNext
  <2> QED BY <2>1 DEF Extend, TypeOK
<1>3. /\ len \in Items(w) /\ Item(w, len).node = x
      /\ ~Item(w, len).isCollision /\ x \in Nodes /\ root \in Nodes
  <2>1. minibatch[w] # <<>> /\ ~Last(minibatch[w]).isCollision
    BY <1>2 DEF BatchInv, BatchOf
  <2>2. /\ Last(minibatch[w]) = minibatch[w][len] /\ len \in DOMAIN minibatch[w]
    BY <2>1, ItemTypes, FrontIdx
  <2> QED BY <2>1, <2>2, ItemTypes DEF Items, Item, TypeOK
<1>4. \/ isTerminal[x] /\ UNCHANGED <<hasChildren, isTerminal, q>>
      \/ /\ ~isTerminal[x] /\ x \in Leaves
         /\ isTerminal' = [isTerminal EXCEPT ![x] = TRUE]
         /\ q' = [q EXCEPT ![x] = outcome[x]] /\ hasChildren' = hasChildren
      \/ /\ ~isTerminal[x] /\ x \notin Leaves
         /\ hasChildren' = [hasChildren EXCEPT ![x] = TRUE]
         /\ UNCHANGED <<isTerminal, q>>
  BY DEF Extend
<1> HIDE DEF x, len
<1>5. /\ \A y \in Nodes \ {x} : /\ hasChildren'[y] <=> hasChildren[y]
                                /\ isTerminal'[y] <=> isTerminal[y]
                                /\ q'[y] = q[y]
      /\ \A y \in Nodes : (hasChildren[y] => hasChildren'[y])
                          /\ (isTerminal[y] => isTerminal'[y])
      /\ ~isTerminal'[x] => hasChildren'[x]
      /\ isTerminal[x] => /\ hasChildren'[x] <=> hasChildren[x]
                          /\ q'[x] = q[x]
      /\ isTerminal'[x] /\ ~isTerminal[x] =>
           x \in Leaves /\ (hasChildren'[x] <=> hasChildren[x])
      /\ hasChildren'[x] /\ ~hasChildren[x] =>
           x \notin Leaves /\ (isTerminal'[x] <=> isTerminal[x])
  BY <1>3, <1>4 DEF TypeOK
<1>6. ~isTerminal[x] => n[x] = 0
  BY <1>3 DEF TreeInv, VisitInv
<1>7. \A v \in Workers : /\ DOMAIN minibatch'[v] = Items(v)
                         /\ Len(minibatch'[v]) = Len(minibatch[v])
                         /\ \A i \in Items(v) :
                              /\ minibatch'[v][i].node = Item(v, i).node
                              /\ minibatch'[v][i].isCollision
                                   <=> Item(v, i).isCollision
  BY <1>1, Zenon DEF ItemExtended, Items, Item
<1>8. WayInv'
  <2> SUFFICES ASSUME NEW v \in Workers, NEW i \in Items(v)
               PROVE  LET y == Item(v, i).node IN
                      /\ InTree(y)
                      /\ \A z \in Ancestors(y) : hasChildren'[z] /\ n[z] > 0
    BY <1>2, <1>7, WayPrimed
  <2>1. /\ InTree(Item(v, i).node) /\ Item(v, i).node \in Nodes
        /\ \A z \in Ancestors(Item(v, i).node) : hasChildren[z] /\ n[z] > 0
    BY ItemTypes DEF TreeInv, WayInv, Items, Item
  <2> QED BY <1>3, <1>5, <2>1, WayDown
<1>9. VisitInv'
  <2> SUFFICES ASSUME NEW v \in Workers, NEW i \in Items(v),
                      NEW y, y = Item(v, i).node,
                      ~Item(v, i).isCollision, ~isTerminal'[y]
               PROVE  /\ n[y] = 0
                      /\ hasChildren'[y]
                           <=> ~(pc'[v] = "extend" /\ i = Len(minibatch'[v]))
                      /\ \A u \in Workers : \A j \in Items(u) :
                           Item(u, j).node = y /\ ~Item(u, j).isCollision
                             => u = v /\ j = i
    BY <1>2, <1>7, VisitPrimed
  <2>1. y \in Nodes /\ ~isTerminal[y]
    BY <1>5, ItemTypes DEF Items, Item
  <2>2. /\ n[y] = 0 /\ (hasChildren[y] <=> ~Unextended(v, i))
        /\ \A u \in Workers : \A j \in Items(u) :
             Item(u, j).node = y /\ ~Item(u, j).isCollision => u = v /\ j = i
    BY <2>1 DEF TreeInv, VisitInv
  <2>3. CASE y = x
    <3>1. v = w /\ i = len
      BY <1>3, <2>2, <2>3
    <3> QED BY <1>2, <1>5, <2>2, <2>3, <3>1
  <2>4. CASE y # x
    <3>1. Unextended(v, i)
            <=> (pc'[v] = "extend" /\ i = Len(minibatch'[v]))
      <4>1. CASE v = w
        <5>1. i # len
          BY <1>3, <2>4, <4>1
        <5> QED BY <1>2, <4>1, <5>1 DEF Unextended, len
      <4>2. CASE v # w
        BY <1>2, <1>7, <4>2 DEF Unextended
      <4> QED BY <4>1, <4>2
    <3>2. hasChildren'[y] <=> hasChildren[y]
      BY <1>5, <2>1, <2>4
    <3> QED BY <2>2, <3>1, <3>2
  <2> QED BY <2>3, <2>4
<1>10. NodeInv'
  <2>0. /\ \A y \in Nodes : hasChildren[y] => y \notin Leaves
        /\ \A y \in Nodes : isTerminal[y] => hasChildren[y] \/ y \in Leaves
        /\ \A y \in Nodes : InTree(y) /\ n[y] = 0 =>
             /\ \A c \in Children(y) : n[c] = 0
             /\ hasChildren[y] => \E v \in Workers : \E i \in Items(v) :
                  Item(v, i).node = y /\ ~Item(v, i).isCollision
        /\ \A y \in Nodes : InTree(y) /\ n[y] > 0 => hasChildren[y] \/ isTerminal[y]
    BY DEF TreeInv, NodeInv
  <2>1. \A y \in Nodes : hasChildren'[y] => y \notin Leaves
    BY <1>5, <2>0
  <2>2. \A y \in Nodes : isTerminal'[y] => hasChildren'[y] \/ y \in Leaves
    BY <1>5, <2>0
  <2>3. ASSUME NEW y \in Nodes, InTree(y), n[y] = 0, hasChildren'[y]
        PROVE  \E v \in Workers : \E i \in Items(v) :
                 Item(v, i).node = y /\ ~Item(v, i).isCollision
    <3>1. CASE y = x
      BY <1>3, <3>1
    <3>2. CASE y # x
      BY <1>5, <2>0, <2>3, <3>2
    <3> QED BY <3>1, <3>2
  <2>4. ASSUME NEW y \in Nodes, InTree(y), n[y] = 0, hasChildren'[y]
        PROVE  \E v \in Workers : \E i \in DOMAIN minibatch'[v] :
                 minibatch'[v][i].node = y /\ ~minibatch'[v][i].isCollision
    BY <1>7, <2>3, <2>4
  <2>5. \A y \in Nodes : InTree(y) /\ n[y] > 0 => hasChildren'[y] \/ isTerminal'[y]
    BY <1>5, <2>0
  <2> QED BY <1>2, <2>0, <2>1, <2>2, <2>4, <2>5, NodePrimed
<1>11. VisitsAddUp'
  <2>1. \A y \in Nodes : n[y] > 0 /\ hasChildren'[y] => hasChildren[y]
    BY <1>3, <1>5, <1>6
  <2>2. \A y \in Nodes : ~isTerminal'[y] => ~isTerminal[y]
    BY <1>5
  <2> QED BY <1>2, <2>1, <2>2, VisitsPrimed DEF TreeInv, VisitsAddUp, ChildVisits
<1>12. DecisiveConversionsSound'
  <2>1. \A y \in Nodes : isTerminal'[y] /\ hasChildren'[y]
                           => isTerminal[y] /\ hasChildren[y] /\ q'[y] = q[y]
    <3>1. \A y \in Nodes : hasChildren[y] => y \notin Leaves
      BY DEF TreeInv, NodeInv
    <3> QED BY <1>3, <1>5, <3>1
  <2>2. \A y \in Nodes : isTerminal[y] => isTerminal'[y] /\ q'[y] = q[y]
    BY <1>3, <1>5
  <2>3. \A y \in Nodes : \A c \in Children(y) : c \in Nodes
    BY DEF Children
  <2> QED BY <2>1, <2>2, <2>3, ConversionsPrimed
    DEF TreeInv, DecisiveConversionsSound, ConvertedNode, Proven
<1> QED BY <1>8, <1>9, <1>10, <1>11, <1>12 DEF TreeInv

(* The conversion of an ancestor: the child on the way is proven with the  *)
(* opposite value, and the other children are no way out.                  *)
LEMMA Parity == \A k \in Nat : (k + 1) % 2 = 0 <=> ~(k % 2 = 0)
OBVIOUS

LEMMA PathUpOfChild ==
  ASSUME TypeOK, NEW y \in Nodes, InTree(y), NEW c \in Children(y)
  PROVE  PathUp(c) = PathUp(y) \cup {c} /\ c \notin PathUp(y) /\ Ancestors(c) = PathUp(y)
<1>1. c \in Nodes /\ c # GameBegin /\ Parent[c] = y /\ root \in Nodes
  BY DEF Children, TypeOK
<1>2. Path[c] = {c} \cup Path[y] /\ c \notin Path[y]
  BY <1>1, ParentFacts
<1>3. InTree(c)
  BY <1>1, <1>2 DEF InTree
<1> QED BY <1>2, <1>3 DEF PathUp, Ancestors

LEMMA ValueOfParent ==
  ASSUME TypeOK, NEW x \in Nodes, InTree(x),
         NEW y \in Ancestors(x), NEW c \in Children(y), c \in PathUp(x)
  PROVE  ValueAt(x, y) = - ValueAt(x, c)
<1>1. /\ y \in Nodes /\ InTree(y) /\ root \in Nodes
      /\ PathUp(y) \subseteq PathUp(x) /\ PathUp(x) \in SUBSET Nodes
  BY WayDown DEF Ancestors, TypeOK
<1>2. PathUp(c) = PathUp(y) \cup {c} /\ c \notin PathUp(y)
  BY <1>1, PathUpOfChild
<1> DEFINE near == PathUp(x) \ PathUp(c)
           far == PathUp(x) \ PathUp(y)
<1>3. far = near \cup {c} /\ c \notin near
  BY <1>2
<1>4. IsFiniteSet(near)
  BY <1>1, TreeAssumption, FS_Subset
<1>5. Cardinality(near) \in Nat /\ Cardinality(far) = Cardinality(near) + 1
  <2> HIDE DEF near, far
  <2> QED BY <1>3, <1>4, FS_AddElement, FS_CardinalityType
<1>6. /\ ValueAt(x, y) = IF Cardinality(far) % 2 = 0 THEN q[x] ELSE - q[x]
      /\ ValueAt(x, c) = IF Cardinality(near) % 2 = 0 THEN q[x] ELSE - q[x]
  BY DEF ValueAt
<1> HIDE DEF near, far
<1>7. (Cardinality(far) % 2 = 0) <=> ~(Cardinality(near) % 2 = 0)
  BY <1>5, Parity
<1>8. q[x] \in {-1, 0, 1}
  BY DEF TypeOK, Values
<1> DEFINE even == Cardinality(near) % 2 = 0
           odd == Cardinality(far) % 2 = 0
<1>9. /\ ValueAt(x, y) = IF odd THEN q[x] ELSE - q[x]
      /\ ValueAt(x, c) = IF even THEN q[x] ELSE - q[x]
      /\ odd <=> ~even
  BY <1>6, <1>7
<1> HIDE DEF even, odd
<1> QED BY <1>8, <1>9

LEMMA ConvertedFacts ==
  ASSUME TypeOK, NEW x \in Nodes, InTree(x), NEW y \in Converted(x)
  PROVE  /\ y \in Ancestors(x) /\ isTerminal[x] /\ ~isTerminal[y]
         /\ \E c \in Children(y) :
              /\ ValueAt(x, y) = - ValueAt(x, c)
              /\ (c = x /\ ValueAt(x, c) = q[x]) \/ c \in Converted(x)
              /\ \/ ValueAt(x, c) = 1
                 \/ \A d \in Children(y) \ {c} :
                      isTerminal[d] /\ EdgeQ(d) = ValueAt(x, c)
<1>1. /\ isTerminal[x] /\ StickyEndgames /\ n[x] = 0 /\ y \in Ancestors(x)
      /\ \A z \in Ancestors(x) \ Ancestors(y) : ConvertsHere(x, z)
  BY DEF Converted
<1>2. /\ y \in Nodes /\ InTree(y) /\ root \in Nodes
      /\ PathUp(y) \subseteq PathUp(x) /\ PathUp(x) \in SUBSET Nodes
  BY <1>1, WayDown DEF Ancestors, TypeOK
<1>3. ConvertsHere(x, y)
  BY <1>1 DEF Ancestors
<1> DEFINE c == ChildTowards(x, y)
<1>4. c \in Children(y) /\ c \in PathUp(x)
  <2>1. \E d \in PathUp(x) : d # GameBegin /\ Parent[d] = y
    <3>1. PICK d \in Children(y) : d \in PathUp(x)
      BY <1>1, <1>2, WayDown
    <3> QED BY <3>1 DEF Children
  <2>2. c \in PathUp(x) /\ c # GameBegin /\ Parent[c] = y
    BY <2>1 DEF ChildTowards
  <2> QED BY <1>2, <2>2 DEF Children
<1>5. /\ ~isTerminal[y]
      /\ \/ ValueAt(x, c) = 1
         \/ \A d \in Children(y) \ {c} : isTerminal[d] /\ EdgeQ(d) = ValueAt(x, c)
  BY <1>3 DEF ConvertsHere
<1> HIDE DEF c
<1>6. ValueAt(x, y) = - ValueAt(x, c)
  BY <1>1, <1>4, ValueOfParent
<1>7. (c = x /\ ValueAt(x, c) = q[x]) \/ c \in Converted(x)
  <2>1. CASE c = x
    <3>1. PathUp(x) \ PathUp(x) = {}
      OBVIOUS
    <3>2. Cardinality({}) = 0 /\ 0 % 2 = 0
      BY FS_EmptySet
    <3>3. ValueAt(x, x) = q[x]
      BY <3>1, <3>2 DEF ValueAt
    <3> QED BY <2>1, <3>3
  <2>2. CASE c # x
    <3>1. c \in Ancestors(x)
      BY <1>4, <2>2 DEF Ancestors
    <3>2. Ancestors(y) \subseteq Ancestors(c)
      BY <1>2, <1>4, PathUpOfChild DEF Ancestors
    <3> QED BY <1>1, <3>1, <3>2 DEF Converted
  <2> QED BY <2>1, <2>2
<1> QED BY <1>1, <1>4, <1>5, <1>6, <1>7

(* FinalizeVisit() adds one visit to the node and to everything above it:  *)
(* a node above it has one more visit and so has exactly one child.        *)
LEMMA ChildVisitsAfter ==
  ASSUME TypeOK, NEW x \in Nodes, InTree(x), NEW y \in Nodes, InTree(y),
         n' = [z \in Nodes |-> n[z] + (IF z \in PathUp(x) THEN 1 ELSE 0)]
  PROVE  SumFunctionOnSet(n', Children(y))
           = ChildVisits(y) + (IF y \in Ancestors(x) THEN 1 ELSE 0)
<1>1. /\ Children(y) \in SUBSET Nodes /\ IsFiniteSet(Children(y))
      /\ \A c \in Children(y) : InTree(c) /\ y \in PathUp(c) /\ y # c
  <2>1. /\ Children(y) \in SUBSET Nodes /\ IsFiniteSet(Children(y))
        /\ y \notin Children(y) /\ root \in Nodes
        /\ \A c \in Children(y) : InTree(c)
    BY ChildrenFacts DEF TypeOK
  <2>2. ASSUME NEW c \in Children(y) PROVE y \in PathUp(c)
    BY <2>1, PathUpOfChild, WayDown
  <2> QED BY <2>1, <2>2
<1>2. /\ n \in [Nodes -> Nat] /\ n' \in [Nodes -> Nat]
      /\ \A z \in Nodes : n'[z] = n[z] + (IF z \in PathUp(x) THEN 1 ELSE 0)
  BY DEF TypeOK
<1>3. CASE y \in Ancestors(x)
  <2>1. PICK c \in Children(y) :
          c \in PathUp(x) /\ \A d \in Children(y) : d \in PathUp(x) => d = c
    BY <1>3, WayDown DEF TypeOK
  <2>2. /\ \A d \in Children(y) : n[d] \in Int /\ n'[d] \in Int
        /\ \A d \in Children(y) \ {c} : n'[d] = n[d]
        /\ n'[c] = n[c] + 1
    BY <1>1, <1>2, <2>1
  <2>3. SumFunctionOnSet(n', Children(y))
          = SumFunctionOnSet(n, Children(y)) + n'[c] - n[c]
    <3> DEFINE S == Children(y)
               f == n
               g == n'
    <3>1. /\ IsFiniteSet(S) /\ c \in S
          /\ \A d \in S : f[d] \in Int /\ g[d] \in Int
          /\ \A d \in S \ {c} : g[d] = f[d]
      BY <1>1, <2>1, <2>2
    <3> HIDE DEF S, f, g
    <3>2. SumFunctionOnSet(g, S) = SumFunctionOnSet(f, S) + g[c] - f[c]
      BY <3>1, SumChange
    <3> QED BY <3>2 DEF S, f, g
  <2>4. SumFunctionOnSet(n, Children(y)) \in Int /\ n[c] \in Int
    BY <1>1, <2>2, SumInt
  <2> QED BY <1>3, <2>2, <2>3, <2>4 DEF ChildVisits
<1>4. CASE y \notin Ancestors(x)
  <2>1. ASSUME NEW c \in Children(y) PROVE c \notin PathUp(x)
    <3>1. ASSUME c \in PathUp(x) PROVE FALSE
      <4>1. PathUp(c) \subseteq PathUp(x)
        BY <3>1, WayDown DEF TypeOK
      <4>2. y \in PathUp(x) /\ y = x
        BY <1>1, <1>4, <4>1 DEF Ancestors
      <4>3. c \in Path[x] /\ Path[c] = {c} \cup Path[x] /\ c \notin Path[x]
        <5>1. c \in Nodes \ {GameBegin} /\ Parent[c] = x
          BY <4>2 DEF Children
        <5> QED BY <3>1, <5>1, ParentFacts DEF PathUp
      <4> QED BY <4>3
    <3> QED BY <3>1
  <2>2. \A c \in Children(y) : n'[c] = n[c]
    BY <1>1, <1>2, <2>1
  <2>3. SumFunctionOnSet(n', Children(y)) = SumFunctionOnSet(n, Children(y))
    BY <1>1, <2>2, SumEqual
  <2>4. SumFunctionOnSet(n, Children(y)) \in Int
    BY <1>1, <1>2, SumInt
  <2> QED BY <1>4, <2>3, <2>4 DEF ChildVisits
<1> QED BY <1>3, <1>4

(* A node whose children are unvisited: nothing to sum. *)
LEMMA NoChildVisits ==
  ASSUME NEW x \in Nodes, \A c \in Children(x) : n[c] = 0
  PROVE  ChildVisits(x) = 0
BY ChildrenFacts, SumZero DEF ChildVisits

(* Item k of a worker is backed up and leaves the batch. *)
LEMMA BackupStep ==
  ASSUME TypeOK, BatchInv, TreeInv, NEW w \in Workers, NEW k, NEW o \in Int,
         ItemRemoved(w, k, o), DoBackupUpdateSingleNode(Item(w, k)),
         pc[w] # "extend", pc'[w] # "extend",
         \A v \in Workers \ {w} : pc'[v] = pc[v],
         UNCHANGED <<root, hasChildren, initialVisits>>
  PROVE  TreeInv'
<1> DEFINE item == Item(w, k)
           x == item.node
(* The items that are left, and where they were. *)
<1>1. /\ k \in Items(w) /\ item \in NodeToProcess /\ x \in Nodes
      /\ root \in Nodes /\ InTree(x)
      /\ \A y \in Ancestors(x) : hasChildren[y] /\ n[y] > 0
  BY ItemTypes DEF ItemRemoved, Items, Item, TypeOK, TreeInv, WayInv
<1>2. ASSUME NEW v \in Workers, NEW i \in DOMAIN minibatch'[v]
      PROVE  \E j \in Items(v) :
               /\ minibatch'[v][i] = Item(v, j) /\ ~(v = w /\ j = k)
               /\ j = IF v = w THEN i + o ELSE i
  BY <1>2, Zenon DEF ItemRemoved, Items, Item
<1>3. ASSUME NEW v \in Workers, NEW j \in Items(v), ~(v = w /\ j = k)
      PROVE  \E i \in DOMAIN minibatch'[v] : minibatch'[v][i] = Item(v, j)
  BY <1>3, Zenon DEF ItemRemoved, Items, Item
<1>4. \A v \in Workers : \A i \in DOMAIN minibatch'[v] :
        (pc'[v] = "extend" /\ i = Len(minibatch'[v]))
          <=> Unextended(v, IF v = w THEN i + o ELSE i)
  <2>1. \A v \in Workers \ {w} : minibatch'[v] = minibatch[v] /\ pc'[v] = pc[v]
    BY DEF ItemRemoved
  <2> QED BY <2>1 DEF Unextended
(* What both kinds of items leave true. *)
<1> DEFINE Kept ==
      /\ \A y \in Nodes : /\ n[y] \in Nat /\ n'[y] \in Nat /\ n'[y] >= n[y]
                          /\ isTerminal[y] => isTerminal'[y] /\ q'[y] = q[y]
                          /\ isTerminal'[y] => isTerminal[y] \/ hasChildren[y]
      /\ \A y \in Nodes : InTree(y) /\ n[y] = 0 /\ n'[y] > 0 =>
           /\ y = x /\ ~item.isCollision
           /\ hasChildren[x] \/ isTerminal[x]
      /\ \A y \in Nodes : InTree(y) /\ n'[y] = 0 =>
           /\ y = x => item.isCollision
           /\ \A c \in Children(y) : n[c] = 0 => n'[c] = 0
<1>5. ASSUME item.isCollision
      PROVE  Kept /\ VisitsAddUp' /\ DecisiveConversionsSound'
  <2>1. UNCHANGED <<n, isTerminal, q, totalPlayouts>>
    BY <1>5 DEF DoBackupUpdateSingleNode, UndoCollision
  <2>2. Kept
    BY <1>5, <2>1 DEF TypeOK
  <2>3. VisitsAddUp'
    BY <2>1, VisitsPrimed DEF TreeInv, VisitsAddUp, ChildVisits
  <2>4. DecisiveConversionsSound'
    BY <2>1, ConversionsPrimed
    DEF TreeInv, DecisiveConversionsSound, ConvertedNode, Proven
  <2> QED BY <2>2, <2>3, <2>4
<1>6. ASSUME ~item.isCollision
      PROVE  Kept /\ VisitsAddUp' /\ DecisiveConversionsSound'
  <2>1. /\ n' = [y \in Nodes |-> n[y] + (IF y \in PathUp(x) THEN 1 ELSE 0)]
        /\ isTerminal' = [y \in Nodes |-> isTerminal[y] \/ y \in Converted(x)]
        /\ q' = [y \in Nodes |-> IF y \in Converted(x) THEN ValueAt(x, y) ELSE q[y]]
        /\ totalPlayouts' = totalPlayouts + 1
    <3>1. item.multivisit = 1
      BY <1>1, <1>6 DEF BatchInv, BatchOf
    <3>2. FinalizeVisit(item)
      BY <1>6 DEF DoBackupUpdateSingleNode
    <3> HIDE DEF item
    <3> QED BY <3>1, <3>2 DEF FinalizeVisit
  <2>2. /\ \A y \in Nodes : /\ n[y] \in Nat /\ n'[y] \in Nat
                            /\ y \in PathUp(x) => n'[y] = n[y] + 1
                            /\ y \notin PathUp(x) => n'[y] = n[y]
        /\ x \in PathUp(x) /\ root \in PathUp(x)
        /\ \A y \in PathUp(x) : y \in Ancestors(x) \/ y = x
        /\ \A y \in Ancestors(x) : y \in Nodes /\ y # x /\ y \in PathUp(x)
    BY <1>1, <2>1, WayDown DEF TypeOK, Ancestors
  <2>3. ASSUME NEW y \in Converted(x)
        PROVE  y \in Nodes /\ ~isTerminal[y] /\ hasChildren[y] /\ isTerminal[x]
    BY <1>1, <2>2, ConvertedFacts
  <2>4. \A y \in Nodes :
          /\ isTerminal[y] => isTerminal'[y] /\ q'[y] = q[y]
          /\ isTerminal'[y] => isTerminal[y] \/ y \in Converted(x)
          /\ y \in Converted(x) => isTerminal'[y] /\ q'[y] = ValueAt(x, y)
    BY <2>1, <2>3
  <2>5. Kept
    <3>1. ASSUME NEW y \in Nodes
          PROVE  /\ n[y] \in Nat /\ n'[y] \in Nat /\ n'[y] >= n[y]
                 /\ isTerminal[y] => isTerminal'[y] /\ q'[y] = q[y]
                 /\ isTerminal'[y] => isTerminal[y] \/ hasChildren[y]
      BY <2>2, <2>3, <2>4
    <3>2. ASSUME NEW y \in Nodes, InTree(y), n[y] = 0, n'[y] > 0
          PROVE  /\ y = x /\ ~item.isCollision
                 /\ hasChildren[x] \/ isTerminal[x]
      <4>1. y = x
        BY <1>1, <2>2, <3>2
      <4>2. ~Unextended(w, k)
        BY DEF Unextended
      <4>3. hasChildren[x] \/ isTerminal[x]
        BY <1>1, <1>6, <4>2 DEF TreeInv, VisitInv
      <4> QED BY <1>6, <4>1, <4>3
    <3>3. ASSUME NEW y \in Nodes, InTree(y), n'[y] = 0
          PROVE  y # x /\ \A c \in Children(y) : n[c] = 0 => n'[c] = 0
      <4>1. y \notin PathUp(x)
        BY <2>2, <3>3
      <4>2. ASSUME NEW c \in Children(y) PROVE c \in Nodes /\ c \notin PathUp(x)
        <5>1. c \in Nodes /\ y \in PathUp(c)
          <6>1. /\ y \in PathUp(y) /\ PathUp(c) = PathUp(y) \cup {c}
            BY <1>1, <3>3, PathUpOfChild, WayDown
          <6> QED BY <6>1 DEF Children
        <5>2. c \in PathUp(x) => PathUp(c) \subseteq PathUp(x)
          BY <1>1, WayDown
        <5> QED BY <4>1, <5>1, <5>2
      <4> QED BY <2>2, <4>1, <4>2
    <3> QED BY <3>1, <3>2, <3>3
  <2>6. VisitsAddUp'
    <3>1. n'[root] = initialVisits' + totalPlayouts'
      <4>1. /\ n[root] = initialVisits + totalPlayouts
            /\ initialVisits \in Nat /\ totalPlayouts \in Nat
        BY DEF TreeInv, VisitsAddUp, TypeOK
      <4> QED BY <1>1, <2>1, <2>2, <4>1
    <3>2. ASSUME NEW y \in Nodes, InTree(y), hasChildren'[y], n'[y] > 0
          PROVE  /\ n'[y] >= 1 + SumFunctionOnSet(n', Children(y))
                 /\ ~isTerminal'[y] => n'[y] = 1 + SumFunctionOnSet(n', Children(y))
      <4>1. /\ SumFunctionOnSet(n', Children(y))
                 = ChildVisits(y) + (IF y \in Ancestors(x) THEN 1 ELSE 0)
            /\ ChildVisits(y) \in Nat
        BY <1>1, <2>1, <3>2, ChildVisitsAfter, ChildVisitsNat
      <4>2. CASE n[y] > 0
        <5>1. /\ n[y] >= 1 + ChildVisits(y)
              /\ ~isTerminal[y] => n[y] = 1 + ChildVisits(y)
          BY <3>2, <4>2 DEF TreeInv, VisitsAddUp
        <5>2. CASE y \in Ancestors(x)
          BY <2>2, <2>4, <4>1, <5>1, <5>2
        <5>3. CASE y = x
          <6>1. isTerminal[x] /\ isTerminal'[x]
            BY <1>1, <1>6, <2>4, <4>2, <5>3 DEF TreeInv, VisitInv
          <6> QED BY <2>2, <4>1, <5>1, <5>3, <6>1
        <5>4. CASE y \notin PathUp(x)
          BY <2>2, <2>4, <4>1, <5>1, <5>4
        <5> QED BY <2>2, <5>2, <5>3, <5>4
      <4>3. CASE n[y] = 0
        <5>1. y = x
          BY <2>5, <3>2, <4>3
        <5>2. ChildVisits(y) = 0
          BY <3>2, <4>3, NoChildVisits DEF TreeInv, NodeInv
        <5> QED BY <2>2, <4>1, <4>3, <5>1, <5>2
      <4> QED BY <2>2, <4>2, <4>3
    <3> QED BY <3>1, <3>2, VisitsPrimed
  <2>7. DecisiveConversionsSound'
    <3>1. ASSUME NEW y \in Nodes, isTerminal'[y], hasChildren'[y]
          PROVE  /\ q'[y] = -1 =>
                      \E c \in Children(y) : isTerminal'[c] /\ q'[c] = 1
                 /\ q'[y] = 1 =>
                      \A c \in Children(y) : isTerminal'[c] /\ q'[c] = -1
      <4>0. \A c \in Children(y) : c \in Nodes
        BY DEF Children
      <4>1. CASE isTerminal[y]
        <5>1. /\ q[y] = -1 => \E c \in Children(y) : isTerminal[c] /\ q[c] = 1
              /\ q[y] = 1 => \A c \in Children(y) : isTerminal[c] /\ q[c] = -1
          BY <3>1, <4>1
          DEF TreeInv, DecisiveConversionsSound, ConvertedNode, Proven
        <5> QED BY <2>4, <4>0, <4>1, <5>1
      <4>2. CASE ~isTerminal[y]
        <5>1. y \in Converted(x)
          BY <2>4, <3>1, <4>2
        <5>2. PICK c \in Children(y) :
                /\ ValueAt(x, y) = - ValueAt(x, c)
                /\ (c = x /\ ValueAt(x, c) = q[x]) \/ c \in Converted(x)
                /\ \/ ValueAt(x, c) = 1
                   \/ \A d \in Children(y) \ {c} :
                        isTerminal[d] /\ EdgeQ(d) = ValueAt(x, c)
          BY <1>1, <5>1, ConvertedFacts
        <5>3. isTerminal'[c] /\ q'[c] = ValueAt(x, c)
          BY <2>3, <2>4, <4>0, <5>1, <5>2
        <5>4. q'[y] = ValueAt(x, y) /\ ValueAt(x, c) \in {-1, 0, 1}
          BY <1>1, <2>4, <5>1, ValueAtType DEF TypeOK, Values
        <5>5. ASSUME q'[y] = 1, NEW d \in Children(y)
              PROVE  isTerminal'[d] /\ q'[d] = -1
          <6>1. ValueAt(x, c) = -1
            BY <5>2, <5>4, <5>5
          <6>2. CASE d # c
            <7>1. isTerminal[d] /\ EdgeQ(d) = -1
              BY <5>2, <6>1, <6>2
            <7> QED BY <2>4, <4>0, <7>1 DEF EdgeQ
          <6> QED BY <5>3, <6>1, <6>2
        <5>6. q'[y] = -1 => ValueAt(x, c) = 1
          BY <5>2, <5>4
        <5> QED BY <5>3, <5>5, <5>6
      <4> QED BY <4>1, <4>2
    <3> QED BY <3>1, ConversionsPrimed
  <2> QED BY <2>5, <2>6, <2>7
<1>7. Kept /\ VisitsAddUp' /\ DecisiveConversionsSound'
  BY <1>5, <1>6
<1>8. WayInv'
  <2> SUFFICES ASSUME NEW v \in Workers, NEW i \in DOMAIN minibatch'[v]
               PROVE  LET y == minibatch'[v][i].node IN
                      /\ InTree(y)
                      /\ \A z \in Ancestors(y) : hasChildren'[z] /\ n'[z] > 0
    BY WayPrimed
  <2>1. PICK j \in Items(v) : minibatch'[v][i] = Item(v, j)
    BY <1>2
  <2>2. /\ InTree(Item(v, j).node)
        /\ \A z \in Ancestors(Item(v, j).node) : hasChildren[z] /\ n[z] > 0
    BY DEF TreeInv, WayInv
  <2>3. Item(v, j).node \in Nodes
    BY ItemTypes DEF Items, Item
  <2>4. \A z \in Ancestors(Item(v, j).node) : z \in Nodes
    BY <1>1, <2>2, <2>3, WayDown
  <2> HIDE DEF item, x
  <2> QED BY <1>7, <2>1, <2>2, <2>4
<1>9. VisitInv'
  <2> SUFFICES ASSUME NEW v \in Workers, NEW i \in DOMAIN minibatch'[v],
                      NEW y, y = minibatch'[v][i].node,
                      ~minibatch'[v][i].isCollision, ~isTerminal'[y]
               PROVE  /\ n'[y] = 0
                      /\ hasChildren'[y]
                           <=> ~(pc'[v] = "extend" /\ i = Len(minibatch'[v]))
                      /\ \A u \in Workers : \A j \in DOMAIN minibatch'[u] :
                           minibatch'[u][j].node = y /\ ~minibatch'[u][j].isCollision
                             => u = v /\ j = i
    BY VisitPrimed
  <2>1. PICK i0 \in Items(v) : /\ minibatch'[v][i] = Item(v, i0)
                               /\ ~(v = w /\ i0 = k)
                               /\ i0 = IF v = w THEN i + o ELSE i
    BY <1>2
  <2>2. y \in Nodes /\ ~isTerminal[y] /\ InTree(y)
    BY <1>7, <2>1, ItemTypes DEF Items, Item, TreeInv, WayInv
  <2>3. /\ n[y] = 0 /\ (hasChildren[y] <=> ~Unextended(v, i0))
        /\ \A u \in Workers : \A j \in Items(u) :
             Item(u, j).node = y /\ ~Item(u, j).isCollision => u = v /\ j = i0
    BY <2>1, <2>2 DEF TreeInv, VisitInv
  <2>4. n'[y] = 0
    <3>1. ASSUME n'[y] > 0 PROVE FALSE
      <4>1. y = x /\ ~item.isCollision
        BY <1>7, <2>2, <2>3, <3>1
      <4>2. w = v /\ k = i0
        BY <1>1, <2>3, <4>1
      <4> QED BY <2>1, <4>2
    <3>2. n'[y] \in Nat
      BY <1>7, <2>2
    <3> QED BY <3>1, <3>2
  <2>5. hasChildren'[y] <=> ~(pc'[v] = "extend" /\ i = Len(minibatch'[v]))
    BY <1>4, <2>1, <2>3
  <2>6. ASSUME NEW u \in Workers, NEW j \in DOMAIN minibatch'[u],
               minibatch'[u][j].node = y, ~minibatch'[u][j].isCollision
        PROVE  u = v /\ j = i
    <3>1. PICK j0 \in Items(u) : /\ minibatch'[u][j] = Item(u, j0)
                                 /\ j0 = IF u = w THEN j + o ELSE j
      BY <1>2
    <3>2. u = v /\ j0 = i0
      BY <2>3, <2>6, <3>1
    <3>3. CASE v = w
      <4>1. i \in Int /\ j \in Int
        BY <3>2, <3>3 DEF ItemRemoved
      <4> QED BY <2>1, <3>1, <3>2, <3>3, <4>1
    <3>4. CASE v # w
      BY <2>1, <3>1, <3>2, <3>4
    <3> QED BY <3>3, <3>4
  <2> QED BY <2>4, <2>5, <2>6
<1>10. NodeInv'
  <2>0. /\ \A y \in Nodes : hasChildren[y] => y \notin Leaves
        /\ \A y \in Nodes : isTerminal[y] => hasChildren[y] \/ y \in Leaves
        /\ \A y \in Nodes : InTree(y) /\ n[y] = 0 =>
             /\ \A c \in Children(y) : n[c] = 0
             /\ hasChildren[y] => \E v \in Workers : \E i \in Items(v) :
                  Item(v, i).node = y /\ ~Item(v, i).isCollision
        /\ \A y \in Nodes : InTree(y) /\ n[y] > 0 => hasChildren[y] \/ isTerminal[y]
    BY DEF TreeInv, NodeInv
  <2>1. ASSUME NEW y \in Nodes, isTerminal'[y]
        PROVE  hasChildren[y] \/ y \in Leaves
    BY <1>7, <2>0, <2>1
  <2>2. ASSUME NEW y \in Nodes, InTree(y), n'[y] = 0
        PROVE  /\ n[y] = 0 /\ \A c \in Children(y) : n'[c] = 0
               /\ y = x => item.isCollision
    BY <1>7, <2>0, <2>2
  <2>3. ASSUME NEW y \in Nodes, InTree(y), n'[y] = 0, hasChildren[y]
        PROVE  \E v \in Workers : \E i \in DOMAIN minibatch'[v] :
                 minibatch'[v][i].node = y /\ ~minibatch'[v][i].isCollision
    <3>1. PICK v \in Workers : \E j \in Items(v) :
            Item(v, j).node = y /\ ~Item(v, j).isCollision
      BY <2>0, <2>2, <2>3
    <3>2. PICK j \in Items(v) : Item(v, j).node = y /\ ~Item(v, j).isCollision
      BY <3>1
    <3>3. ~(v = w /\ j = k)
      BY <2>2, <2>3, <3>2
    <3> QED BY <1>3, <3>2, <3>3
  <2>4. ASSUME NEW y \in Nodes, InTree(y), n'[y] > 0
        PROVE  hasChildren[y] \/ isTerminal'[y]
    <3>1. CASE n[y] > 0
      BY <1>7, <2>0, <2>4, <3>1
    <3>2. CASE n[y] = 0
      BY <1>7, <2>4, <3>2
    <3>3. n[y] \in Nat
      BY DEF TypeOK
    <3> QED BY <3>1, <3>2, <3>3
  <2> QED BY <2>0, <2>1, <2>2, <2>3, <2>4, NodePrimed
<1> QED BY <1>7, <1>8, <1>9, <1>10 DEF TreeInv

(* NodeTree::MakeMove(): a move of the root becomes the root; no playout   *)
(* is under way.                                                           *)
LEMMA MoveStep ==
  ASSUME TypeOK, BatchInv, TreeInv, MakeMove
  PROVE  TreeInv'
<1>1. /\ minibatch' = minibatch
      /\ \A w \in Workers : minibatch[w] = <<>> /\ Items(w) = {}
  <2>1. DOMAIN <<>> = {}
    BY EmptySeq, LenProperties
  <2> QED BY <2>1 DEF MakeMove, BatchInv, BatchOf, Items
<1>2. PICK c \in Children(root) \ Leaves :
        /\ root' = c
        /\ n' = [x \in Nodes |->
                   IF x = c THEN VisitsOfHead(c)
                   ELSE IF c \in Path[x] THEN n[x] ELSE 0]
        /\ hasChildren' = [x \in Nodes |-> c \in Path[x] /\ hasChildren[x]]
        /\ isTerminal' = [x \in Nodes |-> c \in Path[x] /\ x # c /\ isTerminal[x]]
        /\ q' = [x \in Nodes |-> IF c \in Path[x] /\ x # c THEN q[x] ELSE 0]
        /\ initialVisits' = VisitsOfHead(c) /\ totalPlayouts' = 0
  BY DEF MakeMove
<1>3. /\ root \in Nodes /\ c \in Nodes /\ c # GameBegin /\ Parent[c] = root
      /\ root \in Path[c] /\ c \in Path[c]
  <2>1. root \in Nodes /\ c \in Nodes /\ c # GameBegin /\ Parent[c] = root
    BY DEF TypeOK, Children
  <2> QED BY <2>1, ParentFacts, PathFacts
<1>4. ASSUME NEW y \in Nodes, c \in Path[y]
      PROVE  /\ InTree(y)
             /\ \A d \in Children(y) : d \in Nodes /\ c \in Path[d] /\ d # c
  <2>1. InTree(y)
    BY <1>3, <1>4, PathTransitive DEF InTree
  <2>2. ASSUME NEW d \in Children(y)
        PROVE  d \in Nodes /\ Path[d] = {d} \cup Path[y] /\ d \notin Path[y]
    BY ParentFacts DEF Children
  <2> QED BY <1>4, <2>1, <2>2
<1>5. /\ \A y \in Nodes : c \in Path[y] /\ y # c =>
           /\ n'[y] = n[y] /\ q'[y] = q[y] /\ (isTerminal'[y] <=> isTerminal[y])
      /\ \A y \in Nodes : c \in Path[y] => (hasChildren'[y] <=> hasChildren[y])
      /\ \A y \in Nodes : hasChildren'[y] => hasChildren[y] /\ c \in Path[y]
      /\ \A y \in Nodes : isTerminal'[y] => isTerminal[y] /\ c \in Path[y] /\ y # c
      /\ n'[c] = VisitsOfHead(c) /\ ~isTerminal'[c]
  BY <1>2, <1>3
<1>6. VisitsOfHead(c) = IF ~isTerminal[c] THEN n[c]
                        ELSE IF hasChildren[c] THEN 1 + ChildVisits(c) ELSE 0
  BY DEF VisitsOfHead
<1>7. /\ \A y \in Nodes : hasChildren[y] => y \notin Leaves
      /\ \A y \in Nodes : isTerminal[y] => hasChildren[y] \/ y \in Leaves
      /\ \A y \in Nodes : InTree(y) /\ n[y] = 0 =>
           (\A d \in Children(y) : n[d] = 0) /\ ~hasChildren[y]
      /\ \A y \in Nodes : InTree(y) /\ n[y] > 0 => hasChildren[y] \/ isTerminal[y]
  BY <1>1 DEF TreeInv, NodeInv
<1>8. c \notin Leaves /\ ChildVisits(c) \in Nat /\ n[c] \in Nat
  BY <1>3, ChildVisitsNat DEF TypeOK
<1>9. /\ n'[c] = 0 => n[c] = 0 /\ ~isTerminal[c]
      /\ n'[c] > 0 => hasChildren[c]
      /\ n'[c] > 0 /\ ~isTerminal[c] => n'[c] = n[c] /\ n[c] > 0
      /\ isTerminal[c] => n'[c] = 1 + ChildVisits(c)
  <2>1. isTerminal[c] => hasChildren[c]
    BY <1>3, <1>7, <1>8
  <2>2. InTree(c)
    BY <1>3 DEF InTree
  <2> QED BY <1>3, <1>5, <1>6, <1>7, <1>8, <2>1, <2>2
<1>10. WayInv'
  BY <1>1 DEF WayInv, Items
<1>11. VisitInv'
  BY <1>1 DEF VisitInv, Items
<1>12. NodeInv'
  <2>1. \A y \in Nodes : hasChildren'[y] => y \notin Leaves
    BY <1>5, <1>7
  <2>2. \A y \in Nodes : isTerminal'[y] => hasChildren'[y] \/ y \in Leaves
    BY <1>5, <1>7
  <2>3. ASSUME NEW y \in Nodes, c \in Path[y], n'[y] = 0
        PROVE  (\A d \in Children(y) : n'[d] = 0) /\ ~hasChildren'[y]
    <3>1. n[y] = 0
      BY <1>5, <1>9, <2>3
    <3> QED BY <1>4, <1>5, <1>7, <2>3, <3>1
  <2>4. ASSUME NEW y \in Nodes, c \in Path[y], n'[y] > 0
        PROVE  hasChildren'[y] \/ isTerminal'[y]
    BY <1>4, <1>5, <1>7, <1>9, <2>4
  <2>5. \A x : Children(x)' = Children(x) /\ Leaves' = Leaves
    BY DEF Children, Leaves
  <2>6. \A y : InTree(y)' <=> c \in Path[y]
    BY <1>2 DEF InTree
  <2> QED BY <2>1, <2>2, <2>3, <2>4, <2>5, <2>6 DEF NodeInv, InTree, Leaves, Children
<1>13. VisitsAddUp'
  <2>1. ASSUME NEW y \in Nodes, c \in Path[y]
        PROVE  SumFunctionOnSet(n', Children(y)) = ChildVisits(y)
    <3> DEFINE f == n
               g == n'
               S == Children(y)
    <3>1. IsFiniteSet(S) /\ \A d \in S : g[d] = f[d]
      BY <1>4, <1>5, <2>1, ChildrenFacts
    <3> HIDE DEF f, g, S
    <3>2. SumFunctionOnSet(g, S) = SumFunctionOnSet(f, S)
      BY <3>1, SumEqual
    <3> QED BY <3>2 DEF f, g, S, ChildVisits
  <2>2. ASSUME NEW y \in Nodes, c \in Path[y], hasChildren'[y], n'[y] > 0
        PROVE  /\ n'[y] >= 1 + ChildVisits(y)
               /\ ~isTerminal'[y] => n'[y] = 1 + ChildVisits(y)
    <3>1. InTree(y) /\ hasChildren[y]
      BY <1>4, <1>5, <2>2
    <3>2. n[y] > 0 => /\ n[y] >= 1 + ChildVisits(y)
                      /\ ~isTerminal[y] => n[y] = 1 + ChildVisits(y)
      BY <3>1 DEF TreeInv, VisitsAddUp
    <3>3. CASE y = c
      BY <1>8, <1>9, <2>2, <3>2, <3>3
    <3>4. CASE y # c
      BY <1>5, <2>2, <3>2, <3>4
    <3> QED BY <3>3, <3>4
  <2>3. n'[c] = initialVisits' + totalPlayouts'
    <3>1. VisitsOfHead(c) \in Nat
      BY <1>6, <1>8
    <3> QED BY <1>2, <1>5, <3>1
  <2>4. VisitsAddUp' <=>
          /\ n'[root'] = initialVisits' + totalPlayouts'
          /\ \A y \in Nodes :
               c \in Path[y] /\ hasChildren'[y] /\ n'[y] > 0 =>
                 /\ n'[y] >= 1 + SumFunctionOnSet(n', Children(y))
                 /\ ~isTerminal'[y] =>
                      n'[y] = 1 + SumFunctionOnSet(n', Children(y))
    BY <1>2 DEF VisitsAddUp, InTree, ChildVisits, Children
  <2> QED BY <1>2, <2>1, <2>2, <2>3, <2>4
<1>14. DecisiveConversionsSound'
  <2> SUFFICES ASSUME NEW y \in Nodes, isTerminal'[y], hasChildren'[y]
               PROVE  /\ q'[y] = -1 =>
                           \E d \in Children(y) : isTerminal'[d] /\ q'[d] = 1
                      /\ q'[y] = 1 =>
                           \A d \in Children(y) : isTerminal'[d] /\ q'[d] = -1
    BY ConversionsPrimed
  <2>1. c \in Path[y] /\ isTerminal[y] /\ hasChildren[y] /\ q'[y] = q[y]
    BY <1>5
  <2>2. /\ q[y] = -1 => \E d \in Children(y) : isTerminal[d] /\ q[d] = 1
        /\ q[y] = 1 => \A d \in Children(y) : isTerminal[d] /\ q[d] = -1
    BY <2>1 DEF TreeInv, DecisiveConversionsSound, ConvertedNode, Proven
  <2> QED BY <1>4, <1>5, <2>1, <2>2
<1> QED BY <1>10, <1>11, <1>12, <1>13, <1>14 DEF TreeInv

LEMMA TreeStep ==
  ASSUME TypeOK, VirtualLossConserved, BatchInv, TreeInv, [Next]_vars
  PROVE  TreeInv'
<1>1. ASSUME NEW w \in Workers, Worker(w) PROVE TreeInv'
  <2>1. CASE PickCollision(w)
    <3>1. PICK y \in Nodes, visits \in 1 .. CollisionsLeft(minibatch[w]) :
            /\ InTree(y) /\ \A z \in Ancestors(y) : Descends(z)
            /\ minibatch' = [minibatch EXCEPT ![w] = Append(@, Collision(y, visits))]
      BY <2>1 DEF PickCollision
    <3> DEFINE item == Collision(y, visits)
    <3>2. item \in NodeToProcess /\ item.isCollision /\ item.node = y
      BY DEF Collision, NodeToProcess
    <3> HIDE DEF item
    <3>3. ItemAdded(w, item)
      BY <3>1, <3>2, Picks DEF item
    <3>4. /\ pc[w] = "gather" /\ pc'[w] # "extend"
          /\ \A v \in Workers \ {w} : pc'[v] = pc[v]
          /\ UNCHANGED <<root, n, hasChildren, isTerminal, q, initialVisits,
                         totalPlayouts>>
      <4>1. pc'[w] = AfterCollision(minibatch'[w], outOfOrder[w])
        BY <2>1 DEF PickCollision, TypeOK
      <4>2. pc'[w] # "extend"
        BY <4>1, WhereNext
      <4> QED BY <2>1, <4>2 DEF PickCollision, TypeOK
    <3> QED BY <3>1, <3>2, <3>3, <3>4, PickStep
  <2>2. CASE PickVisit(w)
    <3>1. PICK y \in Nodes :
            /\ InTree(y) /\ \A z \in Ancestors(y) : Descends(z)
            /\ ~BeingExtended(y) /\ (isTerminal[y] \/ ~hasChildren[y])
            /\ minibatch' = [minibatch EXCEPT ![w] = Append(@, Visit(y, FALSE, FALSE))]
      BY <2>2 DEF PickVisit
    <3> DEFINE item == Visit(y, FALSE, FALSE)
    <3>2. item \in NodeToProcess /\ ~item.isCollision /\ item.node = y
      BY DEF Visit, NodeToProcess
    <3> HIDE DEF item
    <3>3. ItemAdded(w, item)
      BY <3>1, <3>2, Picks DEF item
    <3>4. /\ pc[w] = "gather" /\ pc'[w] = "extend"
          /\ \A v \in Workers \ {w} : pc'[v] = pc[v]
          /\ UNCHANGED <<root, n, hasChildren, isTerminal, q, initialVisits,
                         totalPlayouts>>
      BY <2>2 DEF PickVisit, TypeOK
    <3> QED BY <3>1, <3>2, <3>3, <3>4, PickStep
  <2>3. CASE Extend(w)
    BY <2>3, ExtendStep
  <2>4. CASE BackupOutOfOrder(w)
    <3>1. /\ pc[w] = "outOfOrder" /\ minibatch[w] # <<>>
          /\ minibatch' = [minibatch EXCEPT ![w] = Front(@)]
          /\ pc'[w] = AfterVisit(minibatch'[w], outOfOrder'[w])
          /\ \A v \in Workers \ {w} : pc'[v] = pc[v]
          /\ UNCHANGED <<root, hasChildren, initialVisits>>
          /\ DoBackupUpdateSingleNode(Last(minibatch[w]))
      BY <2>4 DEF BackupOutOfOrder, BatchInv, BatchOf, TypeOK
    <3>2. /\ ItemRemoved(w, Len(minibatch[w]), 0)
          /\ Last(minibatch[w]) = Item(w, Len(minibatch[w]))
      BY <3>1, TakesLast
    <3>3. pc'[w] # "extend"
      BY <3>1, WhereNext
    <3>4. DoBackupUpdateSingleNode(Item(w, Len(minibatch[w])))
      BY <3>1, <3>2
    <3> QED BY <3>1, <3>2, <3>3, <3>4, BackupStep
  <2>5. CASE BackupNext(w)
    <3>1. /\ pc[w] = "backup" /\ minibatch[w] # <<>> /\ pc' = pc
          /\ minibatch' = [minibatch EXCEPT ![w] = Tail(@)]
          /\ UNCHANGED <<root, hasChildren, initialVisits>>
          /\ DoBackupUpdateSingleNode(Head(minibatch[w]))
      BY <2>5 DEF BackupNext
    <3>2. ItemRemoved(w, 1, 1) /\ Head(minibatch[w]) = Item(w, 1)
      BY <3>1, TakesFirst
    <3>3. DoBackupUpdateSingleNode(Item(w, 1))
      BY <3>1, <3>2
    <3> QED BY <3>1, <3>2, <3>3, BackupStep
  <2>6. CASE StartBackup(w) \/ EndBackup(w) \/ UpdateCounters(w)
    <3>1. /\ UNCHANGED <<root, n, hasChildren, isTerminal, q, minibatch,
                         initialVisits, totalPlayouts>>
          /\ \A v \in Workers : pc'[v] = "extend" <=> pc[v] = "extend"
      BY <2>6 DEF StartBackup, EndBackup, UpdateCounters, nodeVars, TypeOK
    <3> QED BY <3>1, TreeAlone
  <2> QED
    BY <1>1, <2>1, <2>2, <2>3, <2>4, <2>5, <2>6, Zenon DEF Worker
<1>2. CASE Stop \/ UNCHANGED vars
  BY <1>2, TreeAlone DEF Stop, vars, nodeVars, workerVars
<1>3. CASE MakeMove
  BY <1>3, MoveStep
<1> QED BY <1>1, <1>2, <1>3, Zenon DEF Next

LEMMA TreeInit ==
  Init => VirtualLossConserved /\ BatchInv /\ TreeInv
<1> SUFFICES ASSUME Init PROVE VirtualLossConserved /\ BatchInv /\ TreeInv
  OBVIOUS
<1>1. TypeOK
  BY TypeInit
<1>2. \A w \in Workers : minibatch[w] = <<>> /\ Items(w) = {}
  <2>1. DOMAIN <<>> = {}
    BY EmptySeq, LenProperties
  <2> QED BY <2>1 DEF Init, Items
<1>3. /\ root \in Nodes /\ initialVisits = 0 /\ totalPlayouts = 0
      /\ \A x \in Nodes : /\ n[x] = 0 /\ nInFlight[x] = 0
                          /\ ~hasChildren[x] /\ ~isTerminal[x]
      /\ \A x \in Nodes : \A c \in Children(x) : n[c] = 0
      /\ \A w \in Workers : pc[w] = "gather" /\ outOfOrder[w] = 0
  BY <1>1 DEF Init, TypeOK, Children
<1>4. VirtualLossConserved
  <2> SUFFICES ASSUME NEW x \in Nodes
               PROVE  SumFunction([w \in Workers |-> LossOfBatch(x, minibatch[w])]) = 0
    BY <1>3 DEF VirtualLossConserved
  <2>1. \A w \in Workers : LossOfBatch(x, minibatch[w]) = 0
    BY <1>2, LossOfEmpty
  <2> QED BY <2>1, ParamAssumption, SumZero DEF SumFunction
<1>5. BatchInv
  BY <1>2, <1>3, ParamAssumption DEF BatchInv, BatchOf
<1>6. WayInv /\ VisitInv
  BY <1>2 DEF WayInv, VisitInv
<1>7. NodeInv /\ VisitsAddUp /\ DecisiveConversionsSound
  BY <1>3 DEF NodeInv, VisitsAddUp, DecisiveConversionsSound, ConvertedNode
<1> QED BY <1>4, <1>5, <1>6, <1>7 DEF TreeInv

-----------------------------------------------------------------------------
(* The theorems. *)

(* n_in_flight_ = 1 while a node is being extended: the only playout that  *)
(* can have marked it is the one that extends it, since the way down to    *)
(* any other item leads through expanded nodes.                            *)
LEMMA OwnedFollows == IInv => OwnedWhileExtended
<1> SUFFICES ASSUME IInv, NEW w \in Workers, pc[w] = "extend",
                    NEW x, x = Last(minibatch[w]).node, ~isTerminal[x]
             PROVE  /\ n[x] = 0 /\ nInFlight[x] = 1 /\ ~hasChildren[x]
                    /\ \A v \in Workers \ {w} : \A i \in DOMAIN minibatch[v] :
                         minibatch[v][i].node = x => minibatch[v][i].isCollision
  BY DEF OwnedWhileExtended
<1>1. TypeOK /\ VirtualLossConserved /\ BatchInv /\ TreeInv
  BY DEF IInv
<1> DEFINE len == Len(minibatch[w])
<1>2. /\ len \in Items(w) /\ Item(w, len).node = x
      /\ ~Item(w, len).isCollision /\ x \in Nodes /\ root \in Nodes
      /\ Unextended(w, len)
  <2>1. minibatch[w] # <<>> /\ ~Last(minibatch[w]).isCollision
    BY <1>1 DEF BatchInv, BatchOf
  <2>2. Last(minibatch[w]) = minibatch[w][len] /\ len \in DOMAIN minibatch[w]
    BY <1>1, <2>1, ItemTypes, FrontIdx
  <2> QED BY <1>1, <2>1, <2>2, ItemTypes DEF Items, Item, TypeOK, Unextended
<1> HIDE DEF len
<1>3. /\ n[x] = 0 /\ ~hasChildren[x] /\ InTree(x)
      /\ \A v \in Workers : \A j \in Items(v) :
           Item(v, j).node = x /\ ~Item(v, j).isCollision => v = w /\ j = len
  BY <1>1, <1>2 DEF TreeInv, VisitInv, WayInv
<1>4. ASSUME NEW v \in Workers, NEW j \in Items(v), ~(v = w /\ j = len)
      PROVE  LossOn(x, Item(v, j)) = 0
  <2>1. \A y \in Ancestors(Item(v, j).node) : hasChildren[y]
    BY <1>1 DEF TreeInv, WayInv
  <2>2. x \notin Ancestors(Item(v, j).node)
    BY <1>3, <2>1
  <2> QED BY <1>3, <1>4, <2>2 DEF LossOn, Ancestors
<1>5. LossOn(x, Item(w, len)) = 1
  <2>1. Item(w, len).multivisit = 1
    BY <1>1, <1>2 DEF BatchInv, BatchOf
  <2> QED BY <1>2, <1>3, <2>1, WayDown DEF LossOn
<1>6. ASSUME NEW v \in Workers
      PROVE  LossOfBatch(x, minibatch[v]) = IF v = w THEN 1 ELSE 0
  <2> DEFINE D == DOMAIN minibatch[v]
             f == [i \in DOMAIN minibatch[v] |-> LossOn(x, minibatch[v][i])]
  <2>1. DOMAIN f = D /\ \A i \in D : f[i] = LossOn(x, Item(v, i))
    BY DEF Item
  <2>2. IsFiniteSet(D) /\ D = Items(v)
    <3>1. D = 1 .. Len(minibatch[v]) /\ Len(minibatch[v]) \in Nat
      BY <1>1, ItemTypes
    <3>2. IsFiniteSet(1 .. Len(minibatch[v]))
      BY <3>1, FS_Interval
    <3> QED BY <3>1, <3>2 DEF Items
  <2>3. LossOfBatch(x, minibatch[v]) = SumFunctionOnSet(f, D)
    BY <2>1 DEF LossOfBatch, SumFunction
  <2> HIDE DEF D, f
  <2>4. CASE v = w
    <3>1. len \in D /\ f[len] = 1 /\ \A i \in D \ {len} : f[i] = 0
      BY <1>2, <1>4, <1>5, <2>1, <2>2, <2>4
    <3> QED BY <2>2, <2>3, <2>4, <3>1, SumSingle
  <2>5. CASE v # w
    <3>1. \A i \in D : f[i] = 0
      BY <1>4, <2>1, <2>2, <2>5
    <3> QED BY <2>2, <2>3, <2>5, <3>1, SumZero
  <2> QED BY <2>4, <2>5
<1>7. nInFlight[x] = 1
  <2> DEFINE f == [v \in Workers |-> LossOfBatch(x, minibatch[v])]
  <2>1. /\ DOMAIN f = Workers /\ f[w] = 1
        /\ \A v \in Workers \ {w} : f[v] = 0
    BY <1>6
  <2>2. nInFlight[x] = SumFunctionOnSet(f, Workers)
    BY <1>1, <1>2, <2>1 DEF VirtualLossConserved, SumFunction
  <2> HIDE DEF f
  <2> QED BY <2>1, <2>2, ParamAssumption, SumSingle
<1> QED BY <1>3, <1>7 DEF Items, Item

(* The inductive invariant of the tree search. *)
THEOREM Invariance == Spec => []IInv
<1>1. Init => IInv
  BY TypeInit, TreeInit DEF IInv
<1>2. IInv /\ [Next]_vars => IInv'
  BY TypeStep, LossStep, BatchStep, TreeStep DEF IInv
<1> QED BY <1>1, <1>2, PTL DEF Spec

(* Type correctness: in particular n_in_flight_ is never taken below zero, *)
(* and number_out_of_order_ never exceeds the size of a minibatch.         *)
THEOREM TypeCorrect == Spec => []TypeOK
<1>1. IInv => TypeOK
  BY DEF IInv
<1> QED BY <1>1, Invariance, PTL

(* IncrementNInFlight(), CancelScoreUpdate() and FinalizeScoreUpdate() are *)
(* balanced: n_in_flight_ is the sum of what the unfinished playouts left. *)
THEOREM LossConserved == Spec => []VirtualLossConserved
<1>1. IInv => VirtualLossConserved
  BY DEF IInv
<1> QED BY <1>1, Invariance, PTL

(* ExtendNode() needs no lock: the worker that extends a node is the only  *)
(* one that may touch it.                                                  *)
THEOREM Ownership == Spec => []OwnedWhileExtended
BY OwnedFollows, Invariance, PTL

(* A visit is counted once at every node above it: a node has its own      *)
(* visit and those of its children, and the root what the limits compare.  *)
THEOREM VisitsCorrect == Spec => []VisitsAddUp
<1>1. IInv => VisitsAddUp
  BY DEF IInv, TreeInv
<1> QED BY <1>1, Invariance, PTL

(* A sticky endgame is decisive only with a proof among the moves.         *)
THEOREM ConversionsCorrect == Spec => []DecisiveConversionsSound
<1>1. IInv => DecisiveConversionsSound
  BY DEF IInv, TreeInv
<1> QED BY <1>1, Invariance, PTL
=============================================================================
