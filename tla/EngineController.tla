-------------------------- MODULE EngineController --------------------------
(***************************************************************************)
(* EngineController and EngineLoop (engine.h, engine.cc), driven by the    *)
(* commands of a UCI host (chess/uciloop.cc), with the NodeTree they keep. *)
(*                                                                         *)
(* The UCI thread runs one command at a time; the garbage collector and    *)
(* the threads of a search run beside it.  A search is what BestmoveService *)
(* promises: it answers at most once, and its destructor silences it       *)
(* unless it was stopped, when the answer is still owed.  Its threads work *)
(* on the tree until the destructor has joined them.                       *)
(***************************************************************************)
EXTENDS NodeTree

CONSTANTS
  Fens,           \* starting boards, with StartFen among them
  StartFen,
  Paths,          \* values of the option SyzygyPath other than the empty one
  Loadable,       \* the paths where tablebases are found
  Networks,       \* values of the network options
  Broken,         \* the networks that cannot be loaded
  Positions,      \* bound: the positions the host sets
  MaxVisits,      \* bound: visits of the head
  MaxCommands     \* bound: commands of the host

NoPath == "no path"
NoNetwork == "no network"

ASSUME EngineAssumption ==
  /\ StartFen \in Fens /\ NoFen \notin Fens
  /\ Loadable \subseteq Paths /\ Broken \subseteq Networks
  /\ NoNetwork \notin Networks
  /\ Positions \subseteq [fen : Fens, moves : Seq(Moves)]
  /\ MaxVisits \in Nat /\ MaxCommands \in Nat

VARIABLES
  engine,    \* members of EngineController other than tree and search
  options,   \* the options as the host has set them
  search,    \* search_, or NoSearch
  uci,       \* where the UCI thread is inside a command
  commands   \* how many commands the host has sent

vars == <<mem, root, head, history, gc, engine, options, search, uci, commands>>

NoSearch == [state |-> "none"]
Idle == [at |-> "idle"]

Init ==
  /\ TreeInit
  /\ engine = [tb_paths |-> NoPath, tb |-> NoPath, configuration |-> NoNetwork,
               network |-> NoNetwork, current |-> NoPosition, ponder |-> FALSE,
               spared |-> FALSE, hasTree |-> FALSE]
  /\ options \in [tb : {NoPath}, network : Networks \ Broken]
  /\ search = NoSearch
  /\ uci = Idle
  /\ commands = 0

-----------------------------------------------------------------------------
(***************************************************************************)
(* UpdateFromUciOptions: the tablebases first, then the network, whose     *)
(* loading may throw.                                                      *)
(***************************************************************************)
TablebasesUpdated(e) ==
  IF options.tb = NoPath \/ options.tb = e.tb_paths THEN e
  ELSE IF options.tb \in Loadable THEN [e EXCEPT !.tb = options.tb, !.tb_paths = options.tb]
  ELSE [e EXCEPT !.tb = NoPath]
UpdateThrows(e) == options.network # e.configuration /\ options.network \in Broken
Updated(e) ==
  LET e1 == TablebasesUpdated(e)
  IN IF UpdateThrows(e) THEN e1
     ELSE [e1 EXCEPT !.network = options.network, !.configuration = options.network]

(* What a command costs the host, and what it leaves alone. *)
Command == uci = Idle /\ commands < MaxCommands /\ commands' = commands + 1

(***************************************************************************)
(* search_.reset(): ~Search calls Abort(), which silences a search that    *)
(* was not stopped, and Wait(), which returns when the threads are gone.   *)
(* A stopped search answers first.  "then" is what the command goes on     *)
(* with, "was" the position before the command.                            *)
(***************************************************************************)
Destroying(then, ponder) ==
  [at |-> IF search = NoSearch THEN "wait" ELSE "abort", then |-> then,
   was |-> engine.current, ponder |-> ponder]

Abort ==
  /\ uci.at = "abort"
  /\ search' = IF search.state = "running" /\ ~search.stopped
               THEN [search EXCEPT !.state = "silenced"] ELSE search
  /\ uci' = [uci EXCEPT !.at = "wait"]
  /\ UNCHANGED <<treeVars, engine, options, commands>>

Destroyed(then) == uci.at = "wait" /\ uci.then = then /\ search.state # "running"

SetOption ==
  /\ Command
  /\ options' \in [tb : Paths \cup {NoPath}, network : Networks] \ {options}
  /\ UNCHANGED <<treeVars, engine, search, uci>>

NewGame ==
  /\ Command
  /\ uci' = Destroying("newgame", FALSE)
  /\ UNCHANGED <<treeVars, engine, options, search>>

(* An exception of UpdateFromUciOptions() comes last. *)
NewGameEnds ==
  /\ Destroyed("newgame")
  /\ engine' = Updated([engine EXCEPT !.spared = FALSE, !.current = NoPosition,
                                      !.hasTree = FALSE])
  /\ search' = NoSearch
  /\ DeallocateTree
  /\ uci' = Idle
  /\ UNCHANGED <<options, commands>>

(* SetPosition.  Mutant: the running search is left alone. *)
SearchKeptByPosition(ponder) == Idle
SearchResetByPosition(ponder) == Destroying("position", ponder)
SetPosition(pos) ==
  /\ Command
  /\ engine' = [engine EXCEPT !.current = pos]
  /\ uci' = SearchResetByPosition(FALSE)
  /\ UNCHANGED <<treeVars, options, search>>

SetPositionEnds ==
  /\ Destroyed("position")
  /\ search' = NoSearch
  /\ uci' = Idle
  /\ UNCHANGED <<treeVars, engine, options, commands>>

(***************************************************************************)
(* Go.  A ponder search is set up one move earlier.  SetupPosition resets  *)
(* the search, updates from the options (and may throw), and calls         *)
(* ResetToPosition, which runs move by move while the collector frees.     *)
(* Without it, the search before is destroyed when the new one replaces it.*)
(***************************************************************************)
TargetOf(pos, ponder) ==
  IF pos = NoPosition THEN [fen |-> StartFen, moves |-> <<>>]
  ELSE IF ponder /\ pos.moves # <<>> THEN [pos EXCEPT !.moves = Front(@)]
  ELSE pos
Target(ponder) == TargetOf(engine.current, ponder)
NeedsSetup == engine.current # NoPosition \/ ~engine.hasTree

Go(ponder) ==
  /\ engine' = [engine EXCEPT !.ponder = ponder]
  /\ uci' = Destroying(IF NeedsSetup THEN "setup" ELSE "start", ponder)
  /\ UNCHANGED <<treeVars, options, search>>

(* Mutant: SetupPosition leaves the search where it is. *)
SearchKeptBySetup(s) == s
SearchAfterSetup(s) == NoSearch

SetupPosition ==
  LET target == Target(uci.ponder)
      old == IF SameStart(target.fen) THEN head ELSE NoNode
      e == Updated(engine)
  IN /\ Destroyed("setup")
     /\ search' = SearchAfterSetup(search)
     /\ IF UpdateThrows(engine)
        THEN engine' = e /\ uci' = Idle /\ UNCHANGED treeVars
        ELSE /\ engine' = [e EXCEPT !.hasTree = TRUE]
             /\ BeginGame(target.fen)
             /\ uci' = [at |-> "loop", todo |-> target.moves, old |-> old,
                        seen |-> root' = old, ponder |-> uci.ponder]
     /\ UNCHANGED <<options, commands>>

CmdGo(ponder) == Command /\ Go(ponder)
PonderHit == Command /\ engine.ponder /\ Go(FALSE)

Stop ==
  /\ Command
  /\ search.state = "running"
  /\ search' = [search EXCEPT !.permitted = TRUE, !.stopped = TRUE]
  /\ UNCHANGED <<treeVars, engine, options, uci>>

-----------------------------------------------------------------------------
(* The loop of ResetToPosition over the moves. *)
Moved == uci' = [uci EXCEPT !.at = "loop", !.todo = Tail(@), !.seen = @ \/ head' = uci.old]

ResetFollows ==
  /\ uci.at = "loop" /\ uci.todo # <<>>
  /\ FollowEdge(Head(uci.todo))
  /\ Moved
  /\ UNCHANGED <<engine, options, search, commands>>

ResetReleases ==
  /\ uci.at = "loop" /\ uci.todo # <<>>
  /\ ReleaseChildren(Head(uci.todo))
  /\ uci' = [uci EXCEPT !.at = "create"]
  /\ UNCHANGED <<engine, options, search, commands>>

ResetCreates ==
  /\ uci.at = "create"
  /\ CreateSingleChildNode(Head(uci.todo))
  /\ Moved
  /\ UNCHANGED <<engine, options, search, commands>>

(* Mutant: a head that is an ancestor of the old one keeps its counts. *)
NeverTrims(seen) == FALSE
Trims(seen) == ~seen

ResetEnds ==
  /\ uci.at = "loop" /\ uci.todo = <<>>
  /\ IF Trims(uci.seen) THEN TrimTreeAtHead ELSE UNCHANGED treeVars
  /\ engine' = IF uci.seen THEN engine ELSE [engine EXCEPT !.spared = FALSE]
  /\ uci' = [at |-> "start", ponder |-> uci.ponder]
  /\ UNCHANGED <<options, search, commands>>

StartSearch ==
  /\ uci.at = "start" \/ Destroyed("start")
  /\ search' = [state |-> "running", of |-> history, root |-> head, ponder |-> uci.ponder,
                permitted |-> ~uci.ponder, stopped |-> FALSE,
                network |-> engine.network, tb |-> engine.tb]
  /\ uci' = Idle
  /\ UNCHANGED <<treeVars, engine, options, commands>>

(* Threads of the search: they work on the tree, to the end of what they   *)
(* had begun when the search is over, and answer once; the time a search   *)
(* saves is kept for the next one.                                         *)
SearchPlayout ==
  /\ search # NoSearch /\ mem[search.root].n < MaxVisits
  /\ Playout
  /\ UNCHANGED <<engine, options, search, uci, commands>>

SearchAnswers ==
  /\ search.state = "running" /\ search.permitted
  /\ search' = [search EXCEPT !.state = "answered"]
  /\ engine' = [engine EXCEPT !.spared = TRUE]
  /\ UNCHANGED <<treeVars, options, uci, commands>>

CollectGarbage == Collect /\ UNCHANGED <<engine, options, search, uci, commands>>

Next ==
  \/ SetOption \/ NewGame \/ Stop \/ PonderHit
  \/ \E pos \in Positions : SetPosition(pos)
  \/ \E ponder \in BOOLEAN : CmdGo(ponder)
  \/ Abort \/ NewGameEnds \/ SetPositionEnds \/ SetupPosition
  \/ ResetFollows \/ ResetReleases \/ ResetCreates \/ ResetEnds \/ StartSearch
  \/ SearchPlayout \/ SearchAnswers \/ CollectGarbage

Spec == Init /\ [][Next]_vars

-----------------------------------------------------------------------------
(* Every node is in the tree or in one queued subtree, never in two: what  *)
(* the collector frees is out of reach of the tree and of the search.      *)
TreeIsWhole ==
  LET tree == InTree IN
  /\ tree \cap UNION Range(gc) = {}
  /\ \A i, j \in DOMAIN gc : i # j => gc[i] \cap gc[j] = {}
  /\ (root # NoNode) => (head \in tree)
  /\ (search # NoSearch) => (search.root \in tree)

(* The visits below the head of the tree add up, whatever positions came   *)
(* before: a node that was extended has one visit of its own and those of  *)
(* its children, a terminal one at least that.                             *)
HeadVisitsAddUp ==
  (uci.at = "idle" /\ root # NoNode) =>
    \A x \in Subtrees(mem, {head}) :
      LET below == ChildVisits(mem, x)
      IN IF mem[x].terminal THEN mem[x].n >= 1 + below
         ELSE mem[x].n = IF mem[x].n = 0 THEN below ELSE 1 + below

(* The visits a search finds at the head and below belong to the positions *)
(* it will look at.                                                        *)
VisitsAreOfThePosition ==
  (search # NoSearch) =>
    \A x \in Subtrees(mem, {head}) :
      mem[x].n > 0 => mem[x].of = [history EXCEPT !.moves = @ \o MovesTo(x)]

(* While a search has threads, nothing it points to is replaced: the tree  *)
(* head, the network and the tablebases are those it was given.            *)
SearchKeepsItsWorld ==
  (search # NoSearch) =>
    /\ search.root = head /\ search.of = history
    /\ search.network = engine.network /\ search.tb = engine.tb
    /\ search.network # NoNetwork

(* A bestmove is for the position set by the last `position` command that  *)
(* is over, or for the one before its last move when the search was a      *)
(* ponder search.  While a `position` command destroys the search, that is *)
(* the position before: current_position_ is the new one already.          *)
Beginning == uci.at \in {"abort", "wait"}
PositionSet == IF Beginning THEN uci.was ELSE engine.current
AnswersThePosition ==
  [][search.state = "running" /\ search'.state = "answered"
     => search.of = TargetOf(PositionSet, search.ponder)]_vars

(* "Stops search, but does not return bestmove" (Abort, mcts/search.h:78). *)
AbortReturnsNoBestmove ==
  [][uci.at = "wait" /\ search.state = "running" => search'.state # "answered"]_vars
=============================================================================
