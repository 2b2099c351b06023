------------------------------ MODULE SearchTree ------------------------------
(***************************************************************************)
(* The search tree under several SearchWorkers (src/mcts/search.cc steps   *)
(* 2, 5 and 6, src/mcts/node.cc): which worker may extend which node, the  *)
(* virtual losses (n_in_flight_) a worker leaves on its way down and takes *)
(* back on its way up, the visit counts, and the conversion of nodes to    *)
(* terminals ("sticky endgames").                                          *)
(*                                                                         *)
(* PickNodeToExtend() and every DoBackupUpdateSingleNode() run under       *)
(* nodes_mutex_; ExtendNode() runs without it, so it interleaves with      *)
(* everything.  Which child the PUCT formula prefers is left open: every   *)
(* descent is possible.  Evaluations of non-terminal nodes are not         *)
(* represented; the value of a terminal node is exact.                     *)
(***************************************************************************)
EXTENDS Integers, Sequences, SequencesExt

CONSTANTS
  Workers,
  Nodes,               \* the positions of a finite game tree
  GameBegin,           \* its root
  Parent,              \* the position before, for all but GameBegin
  Path,                \* a position and all positions before it
  Outcomes,            \* the results the final positions may have
  StickyEndgames,      \* params_.GetStickyEndgames()
  OutOfOrderEval,      \* params_.GetOutOfOrderEval()
  MiniBatchSize,       \* params_.GetMiniBatchSize()
  MaxCollisionEvents,  \* params_.GetMaxCollisionEvents()
  MaxCollisionVisits,  \* params_.GetMaxCollisionVisitsId()
  PlayoutLimit,        \* limits_.playouts of every search
  NoWorker

Children(x) == {c \in Nodes \ {GameBegin} : Parent[c] = x}
Leaves == {x \in Nodes : Children(x) = {}}

(* q_ of a terminal node: the result for the player who moved into it. *)
Values == {-1, 0, 1}

ASSUME TreeAssumption ==
  /\ IsFiniteSet(Nodes)
  /\ GameBegin \in Nodes
  /\ Parent \in [Nodes \ {GameBegin} -> Nodes]
  /\ Path \in [Nodes -> SUBSET Nodes]
  /\ Path[GameBegin] = {GameBegin}
  /\ \A x \in Nodes \ {GameBegin} :
        x \notin Path[Parent[x]] /\ Path[x] = {x} \cup Path[Parent[x]]
  /\ \A x \in Nodes : GameBegin \in Path[x]
  /\ GameBegin \notin Leaves
ASSUME OutcomeAssumption == Outcomes \subseteq [Leaves -> Values]
ASSUME ParamAssumption ==
  /\ StickyEndgames \in BOOLEAN /\ OutOfOrderEval \in BOOLEAN
  /\ {MiniBatchSize, MaxCollisionEvents, MaxCollisionVisits, PlayoutLimit}
        \subseteq Nat \ {0}
  /\ IsFiniteSet(Workers) /\ NoWorker \notin Workers

VARIABLES
  outcome,        \* the result of each final position
  root,           \* root_node_, current_head_ of the NodeTree
  n,              \* n_
  nInFlight,      \* n_in_flight_
  hasChildren,    \* edges_ is not empty
  isTerminal,     \* is_terminal_
  q,              \* q_, meaningful for terminal nodes
  initialVisits,  \* initial_visits_
  totalPlayouts,  \* total_playouts_
  stop,           \* stop_
  nodesMutex,     \* who holds nodes_mutex_ across several steps
  pc,
  minibatch,      \* minibatch_ of each worker
  outOfOrder      \* number_out_of_order_ of each worker

nodeVars == <<n, nInFlight, hasChildren, isTerminal, q>>
workerVars == <<pc, minibatch, outOfOrder>>
vars == <<outcome, root, nodeVars, initialVisits, totalPlayouts, stop,
          nodesMutex, workerVars>>

(* SearchWorker::NodeToProcess; isMiss: the position is in the batch that  *)
(* goes to the network.                                                    *)
NodeToProcess ==
  [node : Nodes, multivisit : Nat \ {0}, isCollision : BOOLEAN,
   isCacheHit : BOOLEAN, isMiss : BOOLEAN]

Collision(x, visits) ==
  [node |-> x, multivisit |-> visits, isCollision |-> TRUE,
   isCacheHit |-> FALSE, isMiss |-> FALSE]

Visit(x, hit, miss) ==
  [node |-> x, multivisit |-> 1, isCollision |-> FALSE,
   isCacheHit |-> hit, isMiss |-> miss]

TypeOK ==
  /\ outcome \in Outcomes
  /\ root \in Nodes
  /\ n \in [Nodes -> Nat]
  /\ nInFlight \in [Nodes -> Nat]
  /\ hasChildren \in [Nodes -> BOOLEAN]
  /\ isTerminal \in [Nodes -> BOOLEAN]
  /\ q \in [Nodes -> Values]
  /\ initialVisits \in Nat /\ totalPlayouts \in Nat
  /\ stop \in BOOLEAN
  /\ nodesMutex \in Workers \cup {NoWorker}
  /\ pc \in [Workers -> {"gather", "extend", "outOfOrder", "compute",
                         "backup", "counters", "done"}]
  /\ minibatch \in [Workers -> Seq(NodeToProcess)]
  /\ outOfOrder \in [Workers -> 0 .. MiniBatchSize]

Init ==
  /\ outcome \in Outcomes
  /\ root = GameBegin
  /\ n = [x \in Nodes |-> 0]
  /\ nInFlight = [x \in Nodes |-> 0]
  /\ hasChildren = [x \in Nodes |-> FALSE]
  /\ isTerminal = [x \in Nodes |-> FALSE]
  /\ q = [x \in Nodes |-> 0]
  /\ initialVisits = 0 /\ totalPlayouts = 0
  /\ stop = FALSE
  /\ nodesMutex = NoWorker
  /\ pc = [w \in Workers |-> "gather"]
  /\ minibatch = [w \in Workers |-> <<>>]
  /\ outOfOrder = [w \in Workers |-> 0]

----------------------------------------------------------------------------
(* The tree below root_node_.                                              *)

InTree(x) == root \in Path[x]

(* From a node up to and including the root of the search. *)
PathUp(x) == {y \in Path[x] : InTree(y)}
Ancestors(x) == PathUp(x) \ {x}

(* Mutant: the n_in_flight_ of the extending playout itself is not seen. *)
BeingExtendedShared(x) == n[x] = 0 /\ nInFlight[x] > 1

(* TryStartScoreUpdate() would return false. *)
BeingExtended(x) == n[x] = 0 /\ nInFlight[x] > 0

(* The descent goes on below x. *)
Descends(x) == ~BeingExtended(x) /\ ~isTerminal[x] /\ hasChildren[x]

AddInFlight(S, k) ==
  nInFlight' = [x \in Nodes |-> nInFlight[x] + (IF x \in S THEN k ELSE 0)]

----------------------------------------------------------------------------
(* The minibatch of a worker.                                              *)

VisitsOf(b) == SelectSeq(b, LAMBDA i : ~i.isCollision)
CollisionsOf(b) == SelectSeq(b, LAMBDA i : i.isCollision)
CacheMisses(b) == SelectSeq(b, LAMBDA i : i.isMiss)

CollisionEventsLeft(b) == MaxCollisionEvents - Len(CollisionsOf(b))
CollisionsLeft(b) ==
  MaxCollisionVisits
    - FoldLeft(LAMBDA sum, i : sum + i.multivisit, 0, CollisionsOf(b))

(* The condition of the loop of GatherMinibatch() and its first early      *)
(* return: nothing of the batch needs the network.                         *)
GathersMore(b, done) ==
  /\ Len(VisitsOf(b)) < MiniBatchSize
  /\ done < MiniBatchSize
  /\ ~(Len(VisitsOf(b)) > 0 /\ CacheMisses(b) = <<>>)

(* Where a worker goes after an item of the minibatch was dealt with. *)
AfterVisit(b, done) ==
  IF ~stop /\ GathersMore(b, done) THEN "gather" ELSE "compute"

AfterCollision(b, done) ==
  IF /\ CollisionEventsLeft(b) > 0
     /\ CollisionsLeft(b) > 0
     /\ ~stop
     /\ GathersMore(b, done)
  THEN "gather" ELSE "compute"

----------------------------------------------------------------------------
(* Step 2: GatherMinibatch().                                              *)

(* PickNodeToExtend() ends on a node another playout is extending.  On the *)
(* way the collision limit can only shrink; at the root there is no way,   *)
(* and no counter to increment.                                            *)
PickCollision(w) ==
  /\ pc[w] = "gather"
  /\ nodesMutex = NoWorker
  /\ \E x \in Nodes, visits \in 1 .. CollisionsLeft(minibatch[w]) :
       /\ InTree(x)
       /\ BeingExtended(x)
       /\ \A y \in Ancestors(x) : Descends(y)
       /\ x = root => visits = CollisionsLeft(minibatch[w])
       /\ AddInFlight(Ancestors(x), visits)
       /\ minibatch' = [minibatch EXCEPT ![w] = Append(@, Collision(x, visits))]
  /\ pc' = [pc EXCEPT ![w] = AfterCollision(minibatch'[w], outOfOrder[w])]
  /\ UNCHANGED <<outcome, root, n, hasChildren, isTerminal, q, initialVisits,
                 totalPlayouts, stop, nodesMutex, outOfOrder>>

(* PickNodeToExtend() ends on a terminal or a leaf. *)
PickVisit(w) ==
  /\ pc[w] = "gather"
  /\ nodesMutex = NoWorker
  /\ \E x \in Nodes :
       /\ InTree(x)
       /\ ~BeingExtended(x)
       /\ isTerminal[x] \/ ~hasChildren[x]
       /\ \A y \in Ancestors(x) : Descends(y)
       /\ AddInFlight(PathUp(x), 1)
       /\ minibatch' = [minibatch EXCEPT ![w] = Append(@, Visit(x, FALSE, FALSE))]
  /\ pc' = [pc EXCEPT ![w] = "extend"]
  /\ UNCHANGED <<outcome, root, n, hasChildren, isTerminal, q, initialVisits,
                 totalPlayouts, stop, nodesMutex, outOfOrder>>

CanEvalOutOfOrder(item) == item.isCacheHit \/ isTerminal'[item.node]

(* ExtendNode() and AddNodeToComputation(), without any lock: a final      *)
(* position becomes a terminal, any other gets its edges and is looked up  *)
(* in the cache: twice, and only the first time a hit is recorded as such, *)
(* so another worker's Insert() in between makes neither hit nor miss.     *)
Extend(w) ==
  LET x == Last(minibatch[w]).node IN
  /\ pc[w] = "extend"
  /\ \/ /\ isTerminal[x]
        /\ UNCHANGED <<hasChildren, isTerminal, q, minibatch>>
     \/ /\ ~isTerminal[x]
        /\ x \in Leaves
        /\ isTerminal' = [isTerminal EXCEPT ![x] = TRUE]
        /\ q' = [q EXCEPT ![x] = outcome[x]]
        /\ UNCHANGED <<hasChildren, minibatch>>
     \/ /\ ~isTerminal[x]
        /\ x \notin Leaves
        /\ hasChildren' = [hasChildren EXCEPT ![x] = TRUE]
        /\ \E hit, miss \in BOOLEAN :
             /\ hit => ~miss
             /\ minibatch' =
                  [minibatch EXCEPT ![w] = Append(Front(@), Visit(x, hit, miss))]
        /\ UNCHANGED <<isTerminal, q>>
  /\ pc' = [pc EXCEPT ![w] =
       IF OutOfOrderEval /\ CanEvalOutOfOrder(Last(minibatch'[w]))
       THEN "outOfOrder"
       ELSE AfterVisit(minibatch'[w], outOfOrder[w])]
  /\ UNCHANGED <<outcome, root, n, nInFlight, initialVisits, totalPlayouts,
                 stop, nodesMutex, outOfOrder>>

----------------------------------------------------------------------------
(* Step 6: DoBackupUpdateSingleNode().                                     *)

(* GetQ(0.0f) of an edge: the node counts only once it was visited. *)
EdgeQ(c) == IF n[c] > 0 THEN q[c] ELSE 0

(* The value backed up to y from the terminal node x below it. *)
ValueAt(x, y) ==
  LET distance == Cardinality(PathUp(x) \ PathUp(y)) IN
  IF distance % 2 = 0 THEN q[x] ELSE - q[x]

(* The child of y on the way down to x. *)
ChildTowards(x, y) == CHOOSE c \in PathUp(x) : c # GameBegin /\ Parent[c] = y

(* Mutant: only draws look at the other moves.                           *)
ConvertsHereHasty(x, y) ==
  LET c == ChildTowards(x, y)
      v == ValueAt(x, c)
  IN /\ y # root
     /\ ~isTerminal[y]
     /\ \/ v # 0
        \/ \A d \in Children(y) \ {c} : isTerminal[d] /\ EdgeQ(d) = v

(* A winning move is enough to convert y to a loss; otherwise every other  *)
(* move has to be terminal with the same value.                            *)
ConvertsHere(x, y) ==
  LET c == ChildTowards(x, y)
      v == ValueAt(x, c)
  IN /\ y # root
     /\ ~isTerminal[y]
     /\ \/ v = 1
        \/ \A d \in Children(y) \ {c} : isTerminal[d] /\ EdgeQ(d) = v

(* The ancestors that the first visit of the terminal node x converts: as  *)
(* long as each one on the way up converts.                                *)
Converted(x) ==
  IF StickyEndgames /\ isTerminal[x] /\ n[x] = 0
  THEN {y \in Ancestors(x) :
          \A z \in Ancestors(x) \ Ancestors(y) : ConvertsHere(x, z)}
  ELSE {}

FinalizeVisit(item) ==
  LET x == item.node IN
  /\ n' = [y \in Nodes |->
             n[y] + (IF y \in PathUp(x) THEN item.multivisit ELSE 0)]
  /\ AddInFlight(PathUp(x), - item.multivisit)
  /\ isTerminal' = [y \in Nodes |-> isTerminal[y] \/ y \in Converted(x)]
  /\ q' = [y \in Nodes |-> IF y \in Converted(x) THEN ValueAt(x, y) ELSE q[y]]
  /\ totalPlayouts' = totalPlayouts + item.multivisit

(* Mutant: one visit is given back whatever was taken.                   *)
UndoCollisionOnce(item) ==
  /\ AddInFlight(Ancestors(item.node), -1)
  /\ UNCHANGED <<n, isTerminal, q, totalPlayouts>>

UndoCollision(item) ==
  /\ AddInFlight(Ancestors(item.node), - item.multivisit)
  /\ UNCHANGED <<n, isTerminal, q, totalPlayouts>>

DoBackupUpdateSingleNode(item) ==
  IF item.isCollision THEN UndoCollision(item) ELSE FinalizeVisit(item)

(* The last item needs no network: it is backed up during the gathering    *)
(* and leaves the minibatch.                                               *)
BackupOutOfOrder(w) ==
  /\ pc[w] = "outOfOrder"
  /\ nodesMutex = NoWorker
  /\ DoBackupUpdateSingleNode(Last(minibatch[w]))
  /\ minibatch' = [minibatch EXCEPT ![w] = Front(@)]
  /\ outOfOrder' = [outOfOrder EXCEPT ![w] = @ + 1]
  /\ pc' = [pc EXCEPT ![w] = AfterVisit(minibatch'[w], outOfOrder'[w])]
  /\ UNCHANGED <<outcome, root, hasChildren, initialVisits, stop, nodesMutex>>

(* The network has answered; DoBackupUpdate() takes nodes_mutex_ ... *)
StartBackup(w) ==
  /\ pc[w] = "compute"
  /\ nodesMutex = NoWorker
  /\ nodesMutex' = w
  /\ pc' = [pc EXCEPT ![w] = "backup"]
  /\ UNCHANGED <<outcome, root, nodeVars, initialVisits, totalPlayouts, stop,
                 minibatch, outOfOrder>>

(* ... deals with one item after the other ... *)
BackupNext(w) ==
  /\ pc[w] = "backup"
  /\ minibatch[w] # <<>>
  /\ DoBackupUpdateSingleNode(Head(minibatch[w]))
  /\ minibatch' = [minibatch EXCEPT ![w] = Tail(@)]
  /\ UNCHANGED <<outcome, root, hasChildren, initialVisits, stop, nodesMutex,
                 pc, outOfOrder>>

(* Mutant: a search that was stopped returns before it gives it back.      *)
EndBackupStopped(w) ==
  /\ pc[w] = "backup"
  /\ minibatch[w] = <<>>
  /\ nodesMutex' = IF stop THEN nodesMutex ELSE NoWorker
  /\ pc' = [pc EXCEPT ![w] = "counters"]
  /\ UNCHANGED <<outcome, root, nodeVars, initialVisits, totalPlayouts, stop,
                 minibatch, outOfOrder>>

(* ... and gives it back. *)
EndBackup(w) ==
  /\ pc[w] = "backup"
  /\ minibatch[w] = <<>>
  /\ nodesMutex' = NoWorker
  /\ pc' = [pc EXCEPT ![w] = "counters"]
  /\ UNCHANGED <<outcome, root, nodeVars, initialVisits, totalPlayouts, stop,
                 minibatch, outOfOrder>>

(* Step 7 and the loop of RunBlocking(). *)
UpdateCounters(w) ==
  /\ pc[w] = "counters"
  /\ nodesMutex = NoWorker
  /\ stop' = (stop \/ totalPlayouts >= PlayoutLimit)
  /\ pc' = [pc EXCEPT ![w] = IF stop' THEN "done" ELSE "gather"]
  /\ outOfOrder' = [outOfOrder EXCEPT ![w] = 0]
  /\ UNCHANGED <<outcome, root, nodeVars, initialVisits, totalPlayouts,
                 nodesMutex, minibatch>>

Worker(w) ==
  \/ PickCollision(w)
  \/ PickVisit(w)
  \/ Extend(w)
  \/ BackupOutOfOrder(w)
  \/ StartBackup(w)
  \/ BackupNext(w)
  \/ EndBackup(w)
  \/ UpdateCounters(w)

----------------------------------------------------------------------------
(* Between two searches.                                                   *)

(* Search::Stop(), at any time. *)
Stop ==
  /\ ~stop
  /\ stop' = TRUE
  /\ UNCHANGED <<outcome, root, nodeVars, initialVisits, totalPlayouts,
                 nodesMutex, workerVars>>

ChildVisits(x) == SumFunctionOnSet(n, Children(x))

(* Mutant: the visit of the node itself is not counted.                    *)
VisitsOfHeadBare(c) ==
  IF ~isTerminal[c] THEN n[c] ELSE IF hasChildren[c] THEN ChildVisits(c) ELSE 0

(* MakeNotTerminal() recounts a terminal that becomes the head. *)
VisitsOfHead(c) ==
  IF ~isTerminal[c] THEN n[c]
  ELSE IF hasChildren[c] THEN 1 + ChildVisits(c) ELSE 0

(* NodeTree::MakeMove() into a position that is not final, and a new       *)
(* Search on it: the siblings are released, and a terminal head becomes    *)
(* searchable again, with the visits of its children.                      *)
MakeMove ==
  /\ \A w \in Workers : pc[w] = "done"
  /\ hasChildren[root]
  /\ \E c \in Children(root) \ Leaves :
       LET kept(x) == c \in Path[x]
           visits == VisitsOfHead(c)
       IN /\ root' = c
          /\ n' = [x \in Nodes |->
                     IF x = c THEN visits ELSE IF kept(x) THEN n[x] ELSE 0]
          /\ nInFlight' =
               [x \in Nodes |-> IF kept(x) THEN nInFlight[x] ELSE 0]
          /\ hasChildren' = [x \in Nodes |-> kept(x) /\ hasChildren[x]]
          /\ isTerminal' = [x \in Nodes |-> kept(x) /\ x # c /\ isTerminal[x]]
          /\ q' = [x \in Nodes |-> IF kept(x) /\ x # c THEN q[x] ELSE 0]
          /\ initialVisits' = visits
  /\ totalPlayouts' = 0
  /\ stop' = FALSE
  /\ pc' = [w \in Workers |-> "gather"]
  /\ UNCHANGED <<outcome, nodesMutex, minibatch, outOfOrder>>

Next == Stop \/ MakeMove \/ \E w \in Workers : Worker(w)

Spec == Init /\ [][Next]_vars

(* Every worker thread runs, and a mutex that is free again and again is   *)
(* acquired at last: strong fairness for the steps that lock it.           *)
Fairness ==
  \A w \in Workers :
    /\ WF_vars(Worker(w))
    /\ SF_vars(PickVisit(w) \/ PickCollision(w) \/ BackupOutOfOrder(w)
                 \/ StartBackup(w) \/ UpdateCounters(w))

FairSpec == Spec /\ Fairness

----------------------------------------------------------------------------
(* Properties.                                                             *)

(* The virtual loss a picked item has left on a node. *)
LossOn(x, item) ==
  LET marked == IF item.isCollision THEN Ancestors(item.node)
                                    ELSE PathUp(item.node)
  IN IF x \in marked THEN item.multivisit ELSE 0

LossOfBatch(x, b) == SumFunction([i \in DOMAIN b |-> LossOn(x, b[i])])

(* n_in_flight_ of every node is exactly the sum of what the unfinished    *)
(* playouts of all workers put there: nothing leaks, nothing is taken back *)
(* twice, whatever collides, is backed up early or is cut short by stop.   *)
VirtualLossConserved ==
  \A x \in Nodes :
    nInFlight[x] = SumFunction([w \in Workers |-> LossOfBatch(x, minibatch[w])])

(* Comment at search.cc:1014: no mutex is needed to extend a node because  *)
(* the other threads see N = 0 and N-in-flight = 1 and leave it alone.     *)
OwnedWhileExtended ==
  \A w \in Workers :
    LET x == Last(minibatch[w]).node IN
    pc[w] = "extend" /\ ~isTerminal[x] =>
      /\ n[x] = 0 /\ nInFlight[x] = 1 /\ ~hasChildren[x]
      /\ \A v \in Workers \ {w} : \A i \in DOMAIN minibatch[v] :
           minibatch[v][i].node = x => minibatch[v][i].isCollision

(* An expanded node has one visit of its own and those of its children; a  *)
(* node that became terminal afterwards may have more.  The limits compare *)
(* total_playouts_ + initial_visits_, which is counted apart and by other  *)
(* rules, with what the user asked for: it is the visits of the root.      *)
VisitsAddUp ==
  /\ n[root] = initialVisits + totalPlayouts
  /\ \A x \in Nodes :
       InTree(x) /\ hasChildren[x] /\ n[x] > 0 =>
         /\ n[x] >= 1 + ChildVisits(x)
         /\ ~isTerminal[x] => n[x] = 1 + ChildVisits(x)

ConvertedNode(x) == isTerminal[x] /\ hasChildren[x]
Proven(c, v) == isTerminal[c] /\ q[c] = v

(* A node converted to a loss has a winning reply, and a node converted to *)
(* a win has only losing ones (comments at search.cc:1320 and 1327).       *)
DecisiveConversionsSound ==
  \A x \in Nodes :
    ConvertedNode(x) =>
      /\ q[x] = -1 => \E c \in Children(x) : Proven(c, 1)
      /\ q[x] = 1 => \A c \in Children(x) : Proven(c, -1)

(* A node is converted to a draw only if all its moves are draws.          *)
DrawConversionsSound ==
  \A x \in Nodes :
    ConvertedNode(x) /\ q[x] = 0 => \A c \in Children(x) : Proven(c, 0)

(* The workers always get to the playout limit and end: collisions among   *)
(* them cannot keep all of them busy for ever.                             *)
SearchEnds == []<>(\A w \in Workers : pc[w] = "done")
=============================================================================
