------------------------------ MODULE NodeTree ------------------------------
(***************************************************************************)
(* NodeTree of mcts/node.h and mcts/node.cc: the tree that is kept from    *)
(* one position of a game to the next, and the garbage collector that      *)
(* frees what is cut off.  Memory is modelled by addresses, because the    *)
(* code compares the old head with new nodes by address.                   *)
(*                                                                         *)
(* mem[x] is the node at address x: its edges, the child nodes that were   *)
(* spawned for some of them, the visits, whether it is terminal, and (for  *)
(* the properties only) the position whose evaluation its visits hold.     *)
(***************************************************************************)
EXTENDS Naturals, Sequences, FiniteSets, SequencesExt, FiniteSetsExt

CONSTANTS Addresses, Moves, NoNode

ASSUME MemoryAssumption == IsFiniteSet(Addresses) /\ NoNode \notin Addresses

VARIABLES
  mem,      \* the nodes
  root,     \* gamebegin_node_
  head,     \* current_head_
  history,  \* history_: the starting board and the moves
  gc        \* subtrees_to_gc_: sets of nodes that die together

treeVars == <<mem, root, head, history, gc>>

NoFen == "none"
NoPosition == [fen |-> NoFen, moves |-> <<>>]
BareNode == [edges |-> {}, kids |-> <<>>, n |-> 0, terminal |-> FALSE, of |-> NoPosition]

Kids(m, x) == Range(m[x].kids)
(* What can be reached from S: what every set around S contains that is    *)
(* closed under children.                                                  *)
Subtrees(m, S) ==
  LET kids == [y \in Addresses |-> Kids(m, y)]
      around == {C \in {S \cup D : D \in SUBSET (Addresses \ S)} :
                   \A y \in C : kids[y] \subseteq C}
  IN {x \in Addresses : \A C \in around : x \in C}
InTree == IF root = NoNode THEN {} ELSE Subtrees(mem, {root})
Free == Addresses \ (InTree \cup UNION Range(gc))
Extended(pos, move) == [pos EXCEPT !.moves = Append(@, move)]

(* AddToGcQueue: nothing is queued for an empty list. *)
Queued(queue, m, S) == IF S = {} THEN queue ELSE Append(queue, Subtrees(m, S))

(* GarbageCollect frees the subtree queued last. *)
Collect ==
  /\ gc # <<>>
  /\ gc' = Front(gc)
  /\ UNCHANGED <<mem, root, head, history>>

TreeInit ==
  /\ mem = [x \in Addresses |-> BareNode]
  /\ root = NoNode /\ head = NoNode
  /\ history = NoPosition
  /\ gc = <<>>

ChildVisits(m, x) == SumFunctionOnSet([k \in Addresses |-> m[k].n], Kids(m, x))

(* Node::MakeNotTerminal: the visits are counted again. *)
MadeNotTerminal(m, x) ==
  [m[x] EXCEPT !.terminal = FALSE,
               !.n = IF m[x].edges = {} THEN 0 ELSE 1 + ChildVisits(m, x)]

(* NodeTree::DeallocateTree. *)
Deallocated(queue) == IF root = NoNode THEN queue ELSE Queued(queue, mem, {root})

(***************************************************************************)
(* ResetToPosition, first part: a different starting board drops the tree, *)
(* the head goes back to the beginning of the game.                        *)
(***************************************************************************)
(* Mutant: the tree of another starting board is kept. *)
SameStartAlways(fen) == root # NoNode
SameStart(fen) == root # NoNode /\ history.fen = fen

BeginGame(fen) ==
  /\ history' = [fen |-> fen, moves |-> <<>>]
  /\ IF SameStart(fen)
     THEN UNCHANGED <<mem, root, gc>> /\ head' = root
     ELSE /\ gc' = Deallocated(gc)
          /\ \E x \in Free : /\ root' = x /\ head' = x
                             /\ mem' = [mem EXCEPT ![x] = BareNode]

(***************************************************************************)
(* MakeMove when the head has an edge for the move: the child is spawned   *)
(* if need be, its siblings are released.                                  *)
(***************************************************************************)
(* Mutant: the child that is kept is queued with its siblings. *)
ReleasedAll(m, saved) == Kids(m, head)
Released(m, saved) == Kids(m, head) \ saved

FollowEdge(move) ==
  /\ move \in mem[head].edges
  /\ \E x \in IF move \in DOMAIN mem[head].kids THEN {mem[head].kids[move]} ELSE Free :
       LET there == move \in DOMAIN mem[head].kids
           m1 == IF there THEN mem ELSE [mem EXCEPT ![x] = BareNode]
       IN /\ mem' = [m1 EXCEPT
                       ![head].kids = [k \in {move} |-> x],
                       ![x] = IF m1[x].terminal THEN MadeNotTerminal(m1, x) ELSE m1[x]]
          /\ gc' = Queued(gc, mem, Released(mem, {x}))
          /\ head' = x
  /\ history' = Extended(history, move)
  /\ UNCHANGED root

(* MakeMove when it has none: all children go first ... *)
ReleaseChildren(move) ==
  /\ move \notin mem[head].edges
  /\ gc' = Queued(gc, mem, Kids(mem, head))
  /\ mem' = [mem EXCEPT ![head].kids = <<>>]
  /\ UNCHANGED <<root, head, history>>

(* ... and CreateSingleChildNode replaces the edges. *)
CreateSingleChildNode(move) ==
  /\ \E x \in Free :
       /\ mem' = [mem EXCEPT ![x] = BareNode, ![head].edges = {move},
                             ![head].kids = [k \in {move} |-> x]]
       /\ head' = x
  /\ history' = Extended(history, move)
  /\ UNCHANGED <<root, gc>>

(* TrimTreeAtHead: a fresh node in the place of the head. *)
TrimTreeAtHead ==
  /\ gc' = Queued(gc, mem, Kids(mem, head))
  /\ mem' = [mem EXCEPT ![head] = BareNode]
  /\ UNCHANGED <<root, head, history>>

DeallocateTree ==
  /\ gc' = Deallocated(gc)
  /\ root' = NoNode /\ head' = NoNode /\ history' = NoPosition
  /\ UNCHANGED mem

-----------------------------------------------------------------------------
(* One playout of a search at the head, along a path of nodes: the last    *)
(* node is visited for the first time (edges, or none if it is the end of  *)
(* the game) or is a terminal node visited again.                          *)
Path(x) == {p \in Subtrees(mem, {head}) : x \in Subtrees(mem, {p})}

MovesTo(x) ==
  LET below == Subtrees(mem, {head})
      Down[y \in below] ==
        IF y = head THEN <<>>
        ELSE LET p == CHOOSE q \in below : y \in Kids(mem, q)
                 k == CHOOSE mv \in DOMAIN mem[p].kids : mem[p].kids[mv] = y
             IN Append(Down[p], k)
  IN Down[x]

Counted(m, xs) == [y \in Addresses |-> IF y \in xs THEN [m[y] EXCEPT !.n = @ + 1] ELSE m[y]]

VisitHead ==
  /\ mem[head].n = 0 /\ mem[head].edges = {}
  /\ \E es \in (SUBSET Moves) \ {{}} :
       mem' = [mem EXCEPT ![head] = [BareNode EXCEPT !.edges = es, !.n = 1, !.of = history]]
  /\ UNCHANGED <<root, head, history, gc>>

VisitChild ==
  \E p \in Subtrees(mem, {head}) :
    /\ mem[p].n > 0 /\ ~mem[p].terminal
    /\ \E k \in mem[p].edges \ DOMAIN mem[p].kids :
         LET counted == Counted(mem, Path(p))
             pos == [history EXCEPT !.moves = @ \o Append(MovesTo(p), k)]
         IN \E x \in Free, es \in SUBSET Moves :
              mem' = [counted EXCEPT
                 ![p].kids = [j \in DOMAIN @ \cup {k} |-> IF j = k THEN x ELSE @[j]],
                 ![x] = [BareNode EXCEPT !.edges = es, !.terminal = (es = {}), !.n = 1,
                                         !.of = pos]]
    /\ UNCHANGED <<root, head, history, gc>>

VisitTerminal ==
  \E x \in Subtrees(mem, {head}) \ {head} :
    /\ mem[x].terminal
    /\ mem' = Counted(mem, Path(x))
    /\ UNCHANGED <<root, head, history, gc>>

(* A node whose children decide it becomes terminal, with its children.    *)
ConvertToTerminal ==
  \E x \in Subtrees(mem, {head}) \ {head} :
    /\ mem[x].n > 1 /\ ~mem[x].terminal
    /\ mem' = [mem EXCEPT ![x].terminal = TRUE]
    /\ UNCHANGED <<root, head, history, gc>>

Playout == VisitHead \/ VisitChild \/ VisitTerminal \/ ConvertToTerminal
=============================================================================
