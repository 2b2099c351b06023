----------------------- MODULE SelfPlayTournamentProofs -----------------------
(***************************************************************************)
(* Proofs about SelfPlayTournament for any number of workers, games and    *)
(* moves: type correctness, that an aborted game does not think, that      *)
(* every game is counted, and what the final report says.                  *)
(***************************************************************************)
EXTENDS SelfPlayTournament, FiniteSetTheorems, TLAPS

(* The states in which a worker's game was claimed and is not counted, and *)
(* those in which its colours were drawn as well.                          *)
Drawn == {"create", "move", "think", "after", "over", "count"}
Claimed == Drawn \cup {"colour"}

Playing == {w \in Workers : pc[w] \in Claimed}
Blacks == {w \in Workers : pc[w] \in Drawn /\ black[w]}
Whites == {w \in Workers : pc[w] \in Drawn /\ ~black[w]}

(* A search starts only when there is a move left to make. *)
MovesLeft == \A w \in Workers : pc[w] \in {"think", "after"} => moves[w] < MaxMoves

(* The life of the worker threads: before they are started there is none,  *)
(* and once RunBlocking() has joined them all have exited.                 *)
ThreadInv ==
  /\ main = "idle" => runner = "none"
  /\ runner \in {"none", "start"} =>
       threads = {} /\ \A w \in Workers : pc[w] = "unborn"
  /\ runner \notin {"none", "start"} => \A w \in workers : pc[w] # "unborn"
  /\ runner = "joining" => ~Alone
  /\ ~Alone => \A w \in Workers \ threads : pc[w] \in {"unborn", "exited"}
  /\ \A w \in Workers \ workers : pc[w] = "unborn"
  /\ runner \in {"finish", "done"} =>
       \A w \in Workers : pc[w] \in {"unborn", "exited"}

(* What the flags say: a worker that left before the tournament was        *)
(* stopped left because no game remained, and only Abort() ends a game     *)
(* that is not decided.                                                    *)
FlagInv ==
  /\ main \notin {"idle", "started"} => abort
  /\ abortCalled => abort
  /\ main \in {"finish", "stopped"} /\ ~Alone =>
       \A w \in Workers : pc[w] \in {"unborn", "claim", "exited"}
  /\ ~abort => \A w \in Workers : pc[w] = "exited" => Enough
  /\ ~abortCalled => \A w \in Workers :
       ~gameAbort[w] /\ (pc[w] = "over" => decided[w])

(* Every claimed game is in progress or counted; there are never more than *)
(* were asked for.                                                         *)
CountInv ==
  /\ kTotalGames # -1 => gamesCount <= kTotalGames
  /\ ~abortCalled =>
       gamesCount = results["black"] + results["white"] + Cardinality(Playing)

(* The draws alternate: the colours of the games that were drawn and the   *)
(* colour of the next draw.                                                *)
ColourInv ==
  ~abortCalled =>
    results["black"] + Cardinality(Blacks)
      - (results["white"] + Cardinality(Whites))
        \in (IF nextGameBlack THEN -1 .. 0 ELSE 0 .. 1)

(* Only RunBlocking() can send the final report: whoever stops the         *)
(* tournament has set abort_ first.                                        *)
ReportInv ==
  IF runner = "done" /\ finals > 0 THEN FinalReport ELSE finals = 0

IInv == /\ TypeOK /\ MovesLeft /\ ThreadInv /\ FlagInv
        /\ AbortedGameDoesNotThink /\ CountInv /\ ColourInv /\ ReportInv

-----------------------------------------------------------------------------
(* Every variable keeps its type, whatever the tournament's settings.      *)
LEMMA TypeInit == Init => TypeOK /\ MovesLeft
<1> SUFFICES ASSUME Init PROVE TypeOK /\ MovesLeft
  OBVIOUS
<1>1. nextGameBlack \in BOOLEAN
  BY Zenon DEF Init
<1>2. /\ moves \in [Workers -> 0 .. MaxMoves]
      /\ gamesCount \in Nat /\ finals \in Nat /\ results \in [Colours -> Nat]
      /\ MovesLeft
  BY BoundAssumption DEF Init, MovesLeft
<1> QED BY <1>1, <1>2, Zenon DEF Init, TypeOK

LEMMA TypeWorker ==
  ASSUME TypeOK, MovesLeft, NEW w \in Workers, Worker(w)
  PROVE  TypeOK' /\ MovesLeft'
<1> USE BoundAssumption
    DEF TypeOK, MovesLeft, Goto, tournament, fixed, game, Colours
<1>1. CASE ClaimGame(w)
  BY <1>1 DEF ClaimGame
<1>2. CASE ChooseColour(w)
  <2>1. /\ black' \in [Workers -> BOOLEAN] /\ nextGameBlack' \in BOOLEAN
        /\ gameAbort' \in [Workers -> BOOLEAN]
        /\ decided' \in [Workers -> BOOLEAN]
    BY <1>2, Zenon DEF ChooseColour
  <2> QED BY <1>2, <2>1 DEF ChooseColour
<1>3. CASE CreateGame(w)
  BY <1>3 DEF CreateGame
<1>4. CASE GameEnds(w)
  <2>1. decided' \in [Workers -> BOOLEAN]
    BY <1>4, Zenon DEF GameEnds
  <2>2. /\ pc' \in [Workers -> {"unborn", "claim", "colour", "create", "move",
                     "think", "after", "over", "count", "erase", "exited"}]
        /\ \A v \in Workers : pc'[v] \in {"think", "after"} => pc[v] = pc'[v]
        /\ moves' = moves
    BY <1>4 DEF GameEnds
  <2>3. MovesLeft'
    BY <2>2
  <2> QED BY <1>4, <2>1, <2>2, <2>3 DEF GameEnds
<1>5. CASE StartSearch(w)
  BY <1>5 DEF StartSearch
<1>6. CASE SearchReturns(w)
  BY <1>6 DEF SearchReturns
<1>7. CASE AfterSearch(w)
  <2>1. decided' \in [Workers -> BOOLEAN]
    BY <1>7, Zenon DEF AfterSearch
  <2> QED BY <1>7, <2>1 DEF AfterSearch
<1>8. CASE ReportGame(w)
  BY <1>8 DEF ReportGame
<1>9. CASE CountGame(w)
  BY <1>9 DEF CountGame
<1>10. CASE EraseGame(w)
  BY <1>10 DEF EraseGame
<1> QED
  BY <1>1, <1>2, <1>3, <1>4, <1>5, <1>6, <1>7, <1>8, <1>9, <1>10 DEF Worker

LEMMA TypeRunner ==
  ASSUME TypeOK, MovesLeft, Runner PROVE TypeOK' /\ MovesLeft'
<1> USE DEF TypeOK, MovesLeft, tournament, fixed, game
<1>1. workers \subseteq Workers
  BY WorkersAssumption
<1>2. CASE StartWorkers
  BY <1>1, <1>2 DEF StartWorkers
<1>3. CASE RunnerJoins \/ RunnerJoined
  BY <1>3 DEF RunnerJoins, RunnerJoined, BeginJoin, Joined
<1>4. CASE RunnerFinishes
  BY <1>4 DEF RunnerFinishes, Finish
<1> QED BY <1>2, <1>3, <1>4 DEF Runner

LEMMA TypeMain ==
  ASSUME TypeOK, MovesLeft, Main PROVE TypeOK' /\ MovesLeft'
<1> USE DEF TypeOK, MovesLeft, tournament, fixed, game
<1>1. CASE CmdStart
  BY <1>1 DEF CmdStart
<1>4. CASE CmdStop
  BY <1>4 DEF CmdStop
<1>5. CASE StopJoins \/ StopJoined
  BY <1>5 DEF StopJoins, StopJoined, Joined
<1>6. CASE Destroy
  BY <1>6 DEF Destroy
<1>2. CASE StopReturns
  BY <1>2 DEF StopReturns, Finish
<1>3. CASE Abort
  BY <1>3 DEF Abort, AbortGames
<1> QED BY <1>1, <1>2, <1>3, <1>4, <1>5, <1>6 DEF Main

LEMMA TypeStep == TypeOK /\ MovesLeft /\ [Next]_vars => TypeOK' /\ MovesLeft'
<1>1. ASSUME TypeOK, MovesLeft, UNCHANGED vars PROVE TypeOK' /\ MovesLeft'
  BY <1>1 DEF TypeOK, MovesLeft, vars, tournament, fixed, game
<1> QED BY <1>1, TypeWorker, TypeRunner, TypeMain DEF Next

(* Every variable of the tournament, of its games and of the loop keeps    *)
(* its type in every reachable state; in particular a game never has more  *)
(* moves than it can have, though a search is started in one step and its  *)
(* move is made in another.                                                *)
THEOREM TypeCorrect == Spec => []TypeOK
<1> QED BY TypeInit, TypeStep, PTL DEF Spec

-----------------------------------------------------------------------------
(* SelfPlayGame::Abort() and the start of a search take the same lock, so  *)
(* a game whose abort_ is set has no search that nobody stops              *)
(* (selfplay/game.cc).                                                     *)
LEMMA AbortStep ==
  TypeOK /\ AbortedGameDoesNotThink /\ [Next]_vars => AbortedGameDoesNotThink'
<1> SUFFICES ASSUME TypeOK, AbortedGameDoesNotThink, [Next]_vars
             PROVE  AbortedGameDoesNotThink'
  OBVIOUS
<1> USE DEF AbortedGameDoesNotThink
<1>1. ASSUME UNCHANGED <<gameAbort, search>> PROVE AbortedGameDoesNotThink'
  BY <1>1
<1>2. ASSUME NEW w \in Workers, Worker(w) PROVE AbortedGameDoesNotThink'
  <2> USE DEF TypeOK
  <2>1. CASE CreateGame(w)
    BY <2>1 DEF CreateGame
  <2>2. CASE StartSearch(w)
    BY <2>2 DEF StartSearch
  <2>3. CASE SearchReturns(w)
    BY <2>3 DEF SearchReturns
  <2> QED
    BY <1>1, <1>2, <2>1, <2>2, <2>3
    DEF Worker, ClaimGame, ChooseColour, GameEnds, AfterSearch, ReportGame,
        CountGame, EraseGame, game
<1>3. CASE Runner
  BY <1>1, <1>3
  DEF Runner, StartWorkers, RunnerJoins, RunnerJoined, RunnerFinishes, game
<1>4. CASE Main
  <2>1. CASE Abort
    BY <2>1 DEF Abort, AbortGames, TypeOK
  <2> QED
    BY <1>1, <1>4, <2>1
    DEF Main, CmdStart, CmdStop, StopJoins, StopJoined, StopReturns, Destroy, game
<1>5. CASE UNCHANGED vars
  BY <1>1, <1>5 DEF vars, game
<1> QED BY <1>2, <1>3, <1>4, <1>5 DEF Next

(* A game that was aborted never thinks, in any tournament: Abort() of the *)
(* destructor can meet the game at any point between two searches.         *)
THEOREM AbortedGamesAreQuiet == Spec => []AbortedGameDoesNotThink
<1>1. Init => AbortedGameDoesNotThink
  BY DEF Init, AbortedGameDoesNotThink
<1> QED BY <1>1, AbortStep, TypeCorrect, PTL DEF Spec

-----------------------------------------------------------------------------
(* The threads: who was started, who has exited, and who knows of it.      *)
LEMMA ThreadStep ==
  ASSUME TypeOK, ThreadInv, [Next]_vars
  PROVE  ThreadInv'
<1> USE DEF TypeOK, ThreadInv
<1>1. ASSUME NEW w \in Workers, Worker(w) PROVE ThreadInv'
  <2>1. /\ pc[w] \notin {"unborn", "exited"}
        /\ pc'[w] # "unborn"
        /\ \A v \in Workers \ {w} : pc'[v] = pc[v]
    BY <1>1
    DEF Worker, ClaimGame, ChooseColour, CreateGame, GameEnds, StartSearch,
        SearchReturns, AfterSearch, ReportGame, CountGame, EraseGame, Goto
  <2>2. UNCHANGED <<workers, threads, runner, main>>
    BY <1>1
    DEF Worker, ClaimGame, ChooseColour, CreateGame, GameEnds, StartSearch,
        SearchReturns, AfterSearch, ReportGame, CountGame, EraseGame,
        tournament, fixed
  <2>3. Alone' <=> Alone
    BY <2>2 DEF Alone
  <2>4. w \in workers /\ runner \notin {"none", "start", "finish", "done"}
    BY <2>1
  <2>5. ~Alone => w \in threads
    BY <2>1
  <2> QED BY <2>1, <2>2, <2>3, <2>4, <2>5, WorkersAssumption
<1>2. CASE Runner
  <2>0. workers \subseteq Workers /\ (Alone' <=> Alone)
    BY <1>2, WorkersAssumption
    DEF Alone, Runner, StartWorkers, RunnerJoins, RunnerJoined,
        RunnerFinishes, tournament, fixed
  <2>1. CASE StartWorkers
    BY <2>0, <2>1 DEF StartWorkers, tournament, fixed
  <2>2. CASE RunnerJoins
    BY <2>2 DEF RunnerJoins, BeginJoin, Alone, tournament, fixed
  <2>3. CASE RunnerJoined
    <3>1. \A w \in Workers : pc[w] \in {"unborn", "exited"}
      BY <2>3 DEF RunnerJoined, Joined
    <3>2. UNCHANGED <<workers, pc, main>> /\ runner' = "finish" /\ runner # "none"
      BY <2>3 DEF RunnerJoined, tournament, fixed
    <3>3. runner \notin {"none", "start"}
      BY <2>3 DEF RunnerJoined
    <3> QED BY <2>0, <3>1, <3>2, <3>3
  <2>4. CASE RunnerFinishes
    BY <2>4 DEF RunnerFinishes, Alone, fixed
  <2> QED BY <1>2, <2>1, <2>2, <2>3, <2>4 DEF Runner
<1>3. CASE Main
  <2>1. CASE CmdStart \/ CmdStop \/ StopReturns \/ Abort
    BY <2>1
    DEF CmdStart, CmdStop, StopReturns, Abort, Alone, tournament, fixed, game
  <2>2. CASE StopJoins \/ StopJoined \/ Destroy
    BY <2>2 DEF StopJoins, StopJoined, Joined, Destroy, Alone, tournament, fixed
  <2> QED BY <1>3, <2>1, <2>2 DEF Main
<1>4. CASE UNCHANGED vars
  BY <1>4 DEF vars, tournament, fixed, game, Alone
<1> QED BY <1>1, <1>2, <1>3, <1>4 DEF Next

(* The flags: nobody leaves or ends a game but for a reason they show.     *)
LEMMA FlagStep ==
  ASSUME TypeOK, ThreadInv, FlagInv, [Next]_vars
  PROVE  FlagInv'
<1> USE DEF TypeOK, FlagInv
<1>1. ASSUME NEW w \in Workers, Worker(w) PROVE FlagInv'
  <2> USE DEF Alone, Enough, Goto
  <2>1. UNCHANGED <<workers, kTotalGames, abort, abortCalled, main>>
    BY <1>1
    DEF Worker, ClaimGame, ChooseColour, CreateGame, GameEnds, StartSearch,
        SearchReturns, AfterSearch, ReportGame, CountGame, EraseGame,
        tournament, fixed, game
  <2>2. CASE ClaimGame(w)
    BY <2>1, <2>2 DEF ClaimGame, game
  <2>3. CASE ChooseColour(w) \/ EraseGame(w)
    BY <2>1, <2>3 DEF ChooseColour, EraseGame, game
  <2>4. CASE CreateGame(w)
    BY <2>1, <2>4 DEF CreateGame
  <2>5. CASE GameEnds(w) \/ AfterSearch(w)
    BY <2>1, <2>5 DEF GameEnds, AfterSearch, tournament
  <2>6. CASE StartSearch(w) \/ SearchReturns(w)
    BY <2>1, <2>6 DEF StartSearch, SearchReturns, tournament
  <2>7. CASE ReportGame(w) \/ CountGame(w)
    BY <2>1, <2>7 DEF ReportGame, CountGame, game
  <2> QED BY <1>1, <2>2, <2>3, <2>4, <2>5, <2>6, <2>7 DEF Worker
<1>2. CASE Runner
  <2> USE DEF Alone, Enough
  <2>1. CASE StartWorkers
    BY <2>1 DEF StartWorkers, tournament, fixed, game
  <2>2. CASE RunnerJoins \/ RunnerJoined \/ RunnerFinishes
    BY <2>2 DEF RunnerJoins, RunnerJoined, RunnerFinishes, tournament, fixed, game
  <2> QED BY <1>2, <2>1, <2>2 DEF Runner
<1>3. CASE Main
  <2> USE DEF Alone, Enough
  <2>1. CASE CmdStart \/ CmdStop \/ StopReturns
    BY <2>1 DEF CmdStart, CmdStop, StopReturns, tournament, fixed, game
  <2>2. CASE StopJoined
    BY <2>2 DEF StopJoined, Joined, ThreadInv, tournament, fixed, game
  <2>3. CASE StopJoins \/ Destroy
    BY <2>3 DEF StopJoins, Destroy, tournament, fixed, game
  <2>4. CASE Abort
    BY <2>4 DEF Abort, fixed
  <2> QED BY <1>3, <2>1, <2>2, <2>3, <2>4 DEF Main
<1>4. CASE UNCHANGED vars
  BY <1>4 DEF vars, tournament, fixed, game, Alone, Enough
<1> QED BY <1>1, <1>2, <1>3, <1>4 DEF Next

-----------------------------------------------------------------------------
(* Counting workers. *)
LEMMA OneMore ==
  ASSUME NEW S \in SUBSET Workers, NEW w \in Workers \ S
  PROVE  /\ Cardinality(S) \in Nat
         /\ Cardinality(S \cup {w}) = Cardinality(S) + 1
BY WorkersAssumption, FS_Subset, FS_CardinalityType, FS_AddElement

LEMMA OneLess ==
  ASSUME NEW S \in SUBSET Workers, NEW w \in S
  PROVE  /\ Cardinality(S) \in Nat
         /\ Cardinality(S \ {w}) = Cardinality(S) - 1
BY WorkersAssumption, FS_Subset, FS_CardinalityType, FS_RemoveElement

LEMMA WorkerCounts ==
  ASSUME NEW S \in SUBSET Workers PROVE Cardinality(S) \in Nat
BY WorkersAssumption, FS_Subset, FS_CardinalityType

(* Two more parts of the invariant, about the games that were not aborted. *)
LEMMA CountStep ==
  ASSUME TypeOK, TypeOK', ThreadInv, FlagInv, CountInv, ColourInv, [Next]_vars
  PROVE  CountInv' /\ ColourInv'
<1> DEFINE Same == UNCHANGED <<Playing, Blacks, Whites>>
<1>1. ASSUME Same, UNCHANGED <<kTotalGames, gamesCount, nextGameBlack, results>>,
             abortCalled => abortCalled'
      PROVE  CountInv' /\ ColourInv'
  BY <1>1 DEF CountInv, ColourInv, TypeOK
<1>2. ASSUME NEW w \in Workers, Worker(w) PROVE CountInv' /\ ColourInv'
  <2> USE DEF TypeOK, Goto, Playing, Blacks, Whites, Claimed, Drawn
  <2>0. /\ Playing \in SUBSET Workers /\ Blacks \in SUBSET Workers
        /\ Whites \in SUBSET Workers
        /\ Cardinality(Playing) \in Nat /\ Cardinality(Blacks) \in Nat
        /\ Cardinality(Whites) \in Nat
    BY WorkerCounts
  <2>1. CASE ClaimGame(w)
    <3>1. UNCHANGED <<Blacks, Whites>>
      BY <2>1 DEF ClaimGame, game
    <3>2. CASE abort \/ Enough
      <4>1. UNCHANGED Playing
        BY <2>1, <3>2 DEF ClaimGame
      <4> HIDE DEF Playing, Blacks, Whites
      <4> QED BY <1>1, <2>1, <3>1, <3>2, <4>1 DEF ClaimGame, fixed
    <3>3. CASE ~(abort \/ Enough)
      <4>1. w \in Workers \ Playing /\ Playing' = Playing \cup {w}
        BY <2>1, <3>3 DEF ClaimGame
      <4> HIDE DEF Playing, Blacks, Whites
      <4>2. Cardinality(Playing') = Cardinality(Playing) + 1
        BY <2>0, <4>1, OneMore
      <4>3. /\ gamesCount' = gamesCount + 1
            /\ UNCHANGED <<kTotalGames, nextGameBlack, results, abortCalled>>
        BY <2>1, <3>3 DEF ClaimGame, fixed
      <4>4. kTotalGames # -1 => gamesCount < kTotalGames
        BY <3>3, TotalAssumption DEF Enough
      <4> QED
        BY <2>0, <3>1, <4>2, <4>3, <4>4, TotalAssumption
        DEF CountInv, ColourInv, Colours
    <3> QED BY <3>2, <3>3
  <2>2. CASE ChooseColour(w)
    <3>1. /\ UNCHANGED <<Playing, kTotalGames, gamesCount, results, abortCalled>>
          /\ nextGameBlack' = ~nextGameBlack
      BY <2>2 DEF ChooseColour, fixed
    <3>2. CASE nextGameBlack
      <4>1. /\ w \in Workers \ Blacks /\ Blacks' = Blacks \cup {w}
            /\ UNCHANGED Whites
        BY <2>2, <3>2 DEF ChooseColour
      <4> HIDE DEF Playing, Blacks, Whites
      <4>2. Cardinality(Blacks') = Cardinality(Blacks) + 1
        BY <2>0, <4>1, OneMore
      <4> QED
        BY <2>0, <3>1, <3>2, <4>1, <4>2 DEF CountInv, ColourInv, Colours
    <3>3. CASE ~nextGameBlack
      <4>1. /\ w \in Workers \ Whites /\ Whites' = Whites \cup {w}
            /\ UNCHANGED Blacks
        BY <2>2, <3>3 DEF ChooseColour
      <4> HIDE DEF Playing, Blacks, Whites
      <4>2. Cardinality(Whites') = Cardinality(Whites) + 1
        BY <2>0, <4>1, OneMore
      <4>3. nextGameBlack' = TRUE /\ nextGameBlack = FALSE
        BY <3>1, <3>3, Zenon
      <4> QED
        BY <2>0, <3>1, <4>1, <4>2, <4>3 DEF CountInv, ColourInv, Colours
    <3> QED BY <3>2, <3>3
  <2>3. CASE CreateGame(w) \/ EraseGame(w)
    <3>1. Same
      BY <2>3 DEF CreateGame, EraseGame, game
    <3> HIDE DEF Same, Playing, Blacks, Whites
    <3> QED BY <1>1, <2>3, <3>1 DEF CreateGame, EraseGame, fixed
  <2>4. CASE GameEnds(w) \/ StartSearch(w) \/ SearchReturns(w) \/ AfterSearch(w)
    <3>1. Same
      BY <2>4 DEF GameEnds, StartSearch, SearchReturns, AfterSearch
    <3> HIDE DEF Same, Playing, Blacks, Whites
    <3> QED
      BY <1>1, <2>4, <3>1
      DEF GameEnds, StartSearch, SearchReturns, AfterSearch, tournament, fixed
  <2>5. CASE ReportGame(w)
    <3>1. CASE decided[w]
      <4>1. Same
        BY <2>5, <3>1 DEF ReportGame, game
      <4> HIDE DEF Same, Playing, Blacks, Whites
      <4> QED BY <1>1, <2>5, <4>1 DEF ReportGame, fixed
    <3>2. CASE ~decided[w]
      <4>1. abortCalled /\ UNCHANGED <<abortCalled, gamesCount, kTotalGames>>
        BY <2>5, <3>2 DEF ReportGame, FlagInv, fixed
      <4> HIDE DEF Playing, Blacks, Whites
      <4> QED BY <4>1 DEF CountInv, ColourInv
    <3> QED BY <3>1, <3>2
  <2>6. CASE CountGame(w)
    <3>1. /\ UNCHANGED <<kTotalGames, gamesCount, nextGameBlack, abortCalled>>
          /\ w \in Playing /\ Playing' = Playing \ {w}
      BY <2>6 DEF CountGame, fixed
    <3>2. Cardinality(Playing') = Cardinality(Playing) - 1
      <4> HIDE DEF Playing
      <4> QED BY <2>0, <3>1, OneLess
    <3>3. CASE black[w]
      <4>1. /\ w \in Blacks /\ Blacks' = Blacks \ {w} /\ UNCHANGED Whites
            /\ results' = [results EXCEPT !["black"] = @ + 1]
        BY <2>6, <3>3 DEF CountGame, game
      <4> HIDE DEF Playing, Blacks, Whites
      <4>2. Cardinality(Blacks') = Cardinality(Blacks) - 1
        BY <2>0, <4>1, OneLess
      <4> QED
        BY <2>0, <3>1, <3>2, <4>1, <4>2 DEF CountInv, ColourInv, Colours
    <3>4. CASE ~black[w]
      <4>1. /\ w \in Whites /\ Whites' = Whites \ {w} /\ UNCHANGED Blacks
            /\ results' = [results EXCEPT !["white"] = @ + 1]
        BY <2>6, <3>4 DEF CountGame, game
      <4> HIDE DEF Playing, Blacks, Whites
      <4>2. Cardinality(Whites') = Cardinality(Whites) - 1
        BY <2>0, <4>1, OneLess
      <4> QED
        BY <2>0, <3>1, <3>2, <4>1, <4>2 DEF CountInv, ColourInv, Colours
    <3> QED BY <3>3, <3>4
  <2> QED BY <1>2, <2>1, <2>2, <2>3, <2>4, <2>5, <2>6 DEF Worker
<1>3. CASE Runner
  <2>1. Same
    <3>1. CASE StartWorkers
      BY <3>1
      DEF StartWorkers, ThreadInv, Playing, Blacks, Whites, Claimed, Drawn, game
    <3>2. CASE RunnerJoins \/ RunnerJoined \/ RunnerFinishes
      BY <3>2
      DEF RunnerJoins, RunnerJoined, RunnerFinishes, Playing, Blacks, Whites, game
    <3> QED BY <1>3, <3>1, <3>2 DEF Runner
  <2> HIDE DEF Same
  <2> QED
    BY <1>1, <1>3, <2>1
    DEF Runner, StartWorkers, RunnerJoins, RunnerJoined, RunnerFinishes,
        tournament, fixed
<1>4. CASE Main
  <2>1. UNCHANGED <<pc, black, kTotalGames, gamesCount, nextGameBlack, results>>
    BY <1>4
    DEF Main, CmdStart, CmdStop, StopJoins, StopJoined, StopReturns, Abort,
        Destroy, tournament, fixed, game
  <2>2. abortCalled => abortCalled'
    BY <1>4, Zenon
    DEF Main, CmdStart, CmdStop, StopJoins, StopJoined, StopReturns, Abort,
        Destroy, tournament
  <2>3. Same
    BY <2>1 DEF Playing, Blacks, Whites
  <2> QED BY <1>1, <2>1, <2>2, <2>3
<1>5. CASE UNCHANGED vars
  <2>1. Same
    BY <1>5 DEF vars, Playing, Blacks, Whites, game
  <2> HIDE DEF Same
  <2> QED BY <1>1, <1>5, <2>1 DEF vars, tournament, fixed
<1> QED BY <1>2, <1>3, <1>4, <1>5 DEF Next

-----------------------------------------------------------------------------
(* The final report: at the moment it is sent all workers have left        *)
(* because no game remained, so all games are counted; nobody counts or    *)
(* reports after it.                                                       *)
LEMMA ReportStep ==
  ASSUME TypeOK, ThreadInv, FlagInv, CountInv, ColourInv, ReportInv, [Next]_vars
  PROVE  ReportInv'
<1> USE DEF TypeOK, Colours
<1>1. ASSUME UNCHANGED <<kTotalGames, finals, reports, results>>,
             runner # "done" => runner' # "done" \/ finals = 0,
             runner = "done" => runner' = "done"
      PROVE  ReportInv'
  BY <1>1 DEF ReportInv, FinalReport
<1>2. ASSUME NEW w \in Workers, Worker(w) PROVE ReportInv'
  <2>1. /\ runner \notin {"none", "start", "finish", "done"}
        /\ UNCHANGED <<finals, runner>>
    BY <1>2
    DEF Worker, ClaimGame, ChooseColour, CreateGame, GameEnds, StartSearch,
        SearchReturns, AfterSearch, ReportGame, CountGame, EraseGame, Goto,
        tournament, fixed, ThreadInv
  <2> QED BY <2>1 DEF ReportInv
<1>3. CASE Runner
  <2>1. CASE StartWorkers \/ RunnerJoins \/ RunnerJoined
    BY <1>1, <2>1
    DEF StartWorkers, RunnerJoins, RunnerJoined, BeginJoin, tournament, fixed
  <2>2. CASE RunnerFinishes
    <3>1. CASE abort
      BY <2>2, <3>1 DEF RunnerFinishes, Finish, ReportInv
    <3>2. CASE ~abort
      <4>1. PICK w \in Workers : w \in workers
        BY WorkersAssumption
      <4>2. Enough
        BY <2>2, <3>2, <4>1 DEF RunnerFinishes, ThreadInv, FlagInv
      <4>3. gamesCount = kTotalGames
        BY <4>2, TotalAssumption DEF Enough, CountInv
      <4>4. Playing = {} /\ Blacks = {} /\ Whites = {}
        BY <2>2
        DEF RunnerFinishes, ThreadInv, Playing, Blacks, Whites, Claimed, Drawn
      <4>5. /\ Cardinality(Playing) = 0 /\ Cardinality(Blacks) = 0
            /\ Cardinality(Whites) = 0
        BY <4>4, FS_EmptySet, Zenon
      <4>6. /\ results["black"] + results["white"] = kTotalGames
            /\ results["black"] - results["white"] \in -1 .. 1
        BY <3>2, <4>3, <4>5 DEF CountInv, ColourInv, FlagInv
      <4>7. /\ finals' = 1 /\ reports' = "final" /\ runner' = "done"
            /\ UNCHANGED <<kTotalGames, results>>
        BY <2>2, <3>2 DEF RunnerFinishes, Finish, ReportInv, fixed
      <4> QED BY <4>6, <4>7 DEF ReportInv, FinalReport
    <3> QED BY <3>1, <3>2
  <2> QED BY <1>3, <2>1, <2>2 DEF Runner
<1>4. CASE Main
  <2>1. CASE CmdStart
    BY <2>1 DEF CmdStart, ReportInv, ThreadInv, tournament
  <2>2. CASE StopReturns
    BY <1>1, <2>2 DEF StopReturns, Finish, FlagInv, fixed
  <2>3. CASE CmdStop \/ StopJoins \/ StopJoined \/ Abort \/ Destroy
    BY <1>1, <2>3
    DEF CmdStop, StopJoins, StopJoined, Abort, Destroy, tournament, fixed
  <2> QED BY <1>4, <2>1, <2>2, <2>3 DEF Main
<1>5. CASE UNCHANGED vars
  BY <1>1, <1>5 DEF vars, tournament, fixed
<1> QED BY <1>2, <1>3, <1>4, <1>5 DEF Next

-----------------------------------------------------------------------------
LEMMA InvInit == Init => IInv
<1> SUFFICES ASSUME Init PROVE IInv
  OBVIOUS
<1>1. ThreadInv /\ FlagInv
  BY WorkersAssumption DEF Init, ThreadInv, FlagInv
<1>2. AbortedGameDoesNotThink /\ ReportInv
  BY DEF Init, AbortedGameDoesNotThink, ReportInv
<1>3. Playing = {} /\ Blacks = {} /\ Whites = {}
  BY DEF Init, Playing, Blacks, Whites, Claimed, Drawn
<1>4. /\ Cardinality(Playing) = 0 /\ Cardinality(Blacks) = 0
      /\ Cardinality(Whites) = 0
  BY <1>3, FS_EmptySet, Zenon
<1>5. CountInv
  BY <1>4, TotalAssumption DEF Init, CountInv, Colours
<1>6. ColourInv
  BY <1>4 DEF Init, ColourInv, Colours
<1> QED BY <1>1, <1>2, <1>5, <1>6, TypeInit DEF IInv

LEMMA InvStep == IInv /\ [Next]_vars => IInv'
BY TypeStep, ThreadStep, FlagStep, AbortStep, CountStep, ReportStep DEF IInv

(* IInv holds in every reachable state, for every number of workers, every *)
(* kTotalGames and every length of game.                                   *)
THEOREM Invariance == Spec => []IInv
<1> QED BY InvInit, InvStep, PTL DEF Spec

(* The final report (tournament.cc, Wait() and RunBlocking()) is sent at   *)
(* most once, as the last report, and counts exactly kTotalGames games     *)
(* with the colours of the players balanced to one game: from the          *)
(* alternating draws, whatever order the workers finish their games in.    *)
THEOREM ReportIsFinal == Spec => []FinalReport
<1>1. IInv => FinalReport
  BY DEF IInv, ReportInv, FinalReport, TypeOK
<1> QED BY <1>1, Invariance, PTL

(* No game of a tournament that was not cut short is lost, and once        *)
(* CmdStop() has returned none is in progress unless there is one worker.  *)
THEOREM GamesAreCounted == Spec => []EveryGameCounts
<1>1. ASSUME IInv PROVE EveryGameCounts
  <2>1. Playing = {w \in Workers : pc[w] \in {"colour", "create", "move",
                                     "think", "after", "over", "count"}}
    BY DEF Playing, Claimed, Drawn
  <2> QED BY <1>1, <2>1 DEF IInv, CountInv, FlagInv, EveryGameCounts
<1> QED BY <1>1, Invariance, PTL
=============================================================================
