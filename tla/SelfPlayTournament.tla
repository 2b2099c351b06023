-------------------------- MODULE SelfPlayTournament --------------------------
(***************************************************************************)
(* Self-play (src/selfplay): the SelfPlayTournament whose workers play one *)
(* SelfPlayGame after the other, and the SelfPlayLoop that starts it in a  *)
(* thread of its own, stops it and destroys it.                            *)
(*                                                                         *)
(* Every action is one critical section (mutex_ of the tournament, mutex_  *)
(* of a game, threads_mutex_) or one unlocked step.  A game is known by    *)
(* the worker that plays it.  A search is what SearchLifecycle.tla says of *)
(* it: it runs until it has reached its limits or was aborted.             *)
(***************************************************************************)
EXTENDS Integers, FiniteSets, FiniteSetsExt

CONSTANTS
  Workers,       \* the threads there may be
  Parallelisms,  \* which of them there are: kParallelism in number
  TotalGames,    \* the values of kTotalGames besides -1, which is without end
  MaxMoves,      \* bound: a game is decided after so many moves
  GamesCap       \* bound: games that are started when kTotalGames is -1

ASSUME WorkersAssumption ==
  IsFiniteSet(Workers) /\ Parallelisms \subseteq (SUBSET Workers) \ {{}}
ASSUME TotalAssumption == TotalGames \subseteq Nat
ASSUME BoundAssumption == MaxMoves \in Nat \ {0} /\ GamesCap \in Nat

VARIABLES
  workers,        \* the threads that play games
  kTotalGames,
  abort,          \* abort_
  abortCalled,    \* Abort() was called, not only Stop()
  gamesCount,     \* games_count_
  nextGameBlack,  \* next_game_black_
  games,          \* games_: whose games are in progress
  results,        \* tournament_info_.results, by the colour of player1
  reports,        \* the last call of tournament_callback_
  finals,         \* how many of these calls had finished set
  threads,        \* threads_: started and not joined
  threadsMutex,   \* who holds threads_mutex_ for more than one step
  pc,             \* where each worker is
  black,          \* player1_black of each worker's game
  gameAbort,      \* SelfPlayGame::abort_
  search,         \* SelfPlayGame::search_
  moves,          \* moves made in the game
  decided,        \* game_result_ is not UNDECIDED
  runner,         \* the thread in RunBlocking()
  main            \* the thread of SelfPlayLoop

fixed == <<workers, kTotalGames>>
tournament == <<fixed, abort, abortCalled, gamesCount, nextGameBlack, games, results,
                reports, finals>>
game == <<black, gameAbort, search, moves, decided>>
vars == <<tournament, threads, threadsMutex, pc, game, runner, main>>

Colours == {"black", "white"}

TypeOK ==
  /\ workers \in Parallelisms /\ kTotalGames \in TotalGames \cup {-1}
  /\ abort \in BOOLEAN /\ abortCalled \in BOOLEAN
  /\ gamesCount \in Nat
  /\ nextGameBlack \in BOOLEAN
  /\ games \subseteq Workers
  /\ results \in [Colours -> Nat]
  /\ reports \in {"none", "game", "final"}
  /\ finals \in Nat
  /\ threads \subseteq Workers
  /\ threadsMutex \in {"free", "runner", "main"}
  /\ pc \in [Workers -> {"unborn", "claim", "colour", "create", "move",
                         "think", "after", "over", "count", "erase", "exited"}]
  /\ black \in [Workers -> BOOLEAN]
  /\ gameAbort \in [Workers -> BOOLEAN]
  /\ search \in [Workers -> {"none", "running", "aborted", "ended"}]
  /\ moves \in [Workers -> 0 .. MaxMoves]
  /\ decided \in [Workers -> BOOLEAN]
  /\ runner \in {"none", "start", "wait", "joining", "finish", "done"}
  /\ main \in {"idle", "started", "stopping", "joining", "finish", "stopped",
               "destructor", "destroyed"}

Init ==
  /\ workers \in Parallelisms /\ kTotalGames \in TotalGames \cup {-1}
  /\ abort = FALSE /\ abortCalled = FALSE
  /\ gamesCount = 0
  /\ nextGameBlack \in (IF kTotalGames = 1 THEN {FALSE} ELSE BOOLEAN)
  /\ games = {}
  /\ results = [c \in Colours |-> 0]
  /\ reports = "none" /\ finals = 0
  /\ threads = {}
  /\ threadsMutex = "free"
  /\ pc = [w \in Workers |-> "unborn"]
  /\ black = [w \in Workers |-> FALSE]
  /\ gameAbort = [w \in Workers |-> FALSE]
  /\ search = [w \in Workers |-> "none"]
  /\ moves = [w \in Workers |-> 0]
  /\ decided = [w \in Workers |-> FALSE]
  /\ runner = "none"
  /\ main = "idle"

Goto(w, from, to) == pc[w] = from /\ pc' = [pc EXCEPT ![w] = to]

----------------------------------------------------------------------------
(* A worker of the tournament: Worker() and PlayOneGame().                 *)

Enough == kTotalGames # -1 /\ gamesCount >= kTotalGames

(* Mutant: abort_ is not looked at. *)
ClaimGameDeaf(w) ==
  /\ IF Enough
     THEN /\ Goto(w, "claim", "exited")
          /\ UNCHANGED gamesCount
     ELSE /\ Goto(w, "claim", "colour")
          /\ kTotalGames = -1 => gamesCount < GamesCap
          /\ gamesCount' = gamesCount + 1
  /\ UNCHANGED <<fixed, abort, abortCalled, nextGameBlack, games, results,
                 reports, finals, threads, threadsMutex, game, runner, main>>

ClaimGame(w) ==
  /\ IF abort \/ Enough
     THEN /\ Goto(w, "claim", "exited")
          /\ UNCHANGED gamesCount
     ELSE /\ Goto(w, "claim", "colour")
          /\ kTotalGames = -1 => gamesCount < GamesCap
          /\ gamesCount' = gamesCount + 1
  /\ UNCHANGED <<fixed, abort, abortCalled, nextGameBlack, games, results,
                 reports, finals, threads, threadsMutex, game, runner, main>>

(* Mutant: the colours are not exchanged. *)
ChooseColourSame(w) ==
  /\ Goto(w, "colour", "create")
  /\ black' = [black EXCEPT ![w] = nextGameBlack]
  /\ UNCHANGED <<tournament, threads, threadsMutex, gameAbort, search, moves,
                 decided, runner, main>>

ChooseColour(w) ==
  /\ Goto(w, "colour", "create")
  /\ black' = [black EXCEPT ![w] = nextGameBlack]
  /\ nextGameBlack' = ~nextGameBlack
  /\ UNCHANGED <<fixed, abort, abortCalled, gamesCount, games, results, reports,
                 finals, threads, threadsMutex, gameAbort, search, moves,
                 decided, runner, main>>

(* games_.emplace_front(); whether abort_ was set meanwhile is not tested. *)
CreateGame(w) ==
  /\ Goto(w, "create", "move")
  /\ games' = games \cup {w}
  /\ gameAbort' = [gameAbort EXCEPT ![w] = FALSE]
  /\ search' = [search EXCEPT ![w] = "none"]
  /\ moves' = [moves EXCEPT ![w] = 0]
  /\ decided' = [decided EXCEPT ![w] = FALSE]
  /\ UNCHANGED <<fixed, abort, abortCalled, gamesCount, nextGameBlack, results,
                 reports, finals, threads, threadsMutex, black, runner, main>>

(* SelfPlayGame::Play(), the top of the loop: aborted, or over by the      *)
(* rules, which it is after MaxMoves moves at the latest.                  *)
GameEnds(w) ==
  /\ Goto(w, "move", "over")
  /\ \/ gameAbort[w] /\ UNCHANGED decided
     \/ ~gameAbort[w] /\ decided' = [decided EXCEPT ![w] = TRUE]
  /\ UNCHANGED <<tournament, threads, threadsMutex, black, gameAbort, search,
                 moves, runner, main>>

(* Mutant: abort_ is not looked at again under the lock. *)
StartSearchUnasked(w) ==
  /\ moves[w] < MaxMoves
  /\ Goto(w, "move", "think")
  /\ search' = [search EXCEPT ![w] = "running"]
  /\ UNCHANGED <<tournament, threads, threadsMutex, black, gameAbort, moves,
                 decided, runner, main>>

(* The game goes on: under the lock of the game a new Search takes the     *)
(* place of the last one, unless the game was aborted.                     *)
StartSearch(w) ==
  /\ moves[w] < MaxMoves
  /\ IF gameAbort[w]
     THEN Goto(w, "move", "over") /\ UNCHANGED search
     ELSE /\ Goto(w, "move", "think")
          /\ search' = [search EXCEPT ![w] = "running"]
  /\ UNCHANGED <<tournament, threads, threadsMutex, black, gameAbort, moves,
                 decided, runner, main>>

(* search_->RunBlocking() returns: limits reached, or aborted. *)
SearchReturns(w) ==
  /\ Goto(w, "think", "after")
  /\ search' = [search EXCEPT ![w] = "ended"]
  /\ UNCHANGED <<tournament, threads, threadsMutex, black, gameAbort, moves,
                 decided, runner, main>>

AfterSearch(w) ==
  /\ IF gameAbort[w]
     THEN Goto(w, "after", "over") /\ UNCHANGED <<moves, decided>>
     ELSE \/ /\ Goto(w, "after", "over")
             /\ decided' = [decided EXCEPT ![w] = TRUE]
             /\ UNCHANGED moves
          \/ /\ Goto(w, "after", "move")
             /\ moves' = [moves EXCEPT ![w] = @ + 1]
             /\ UNCHANGED decided
  /\ UNCHANGED <<tournament, threads, threadsMutex, black, gameAbort, search,
                 runner, main>>

(* Back in PlayOneGame(): a game that was decided is reported. *)
ReportGame(w) ==
  /\ Goto(w, "over", IF decided[w] THEN "count" ELSE "erase")
  /\ reports' = IF decided[w] THEN "game" ELSE reports
  /\ UNCHANGED <<fixed, abort, abortCalled, gamesCount, nextGameBlack, games,
                 results, finals, threads, threadsMutex, game, runner, main>>

CountGame(w) ==
  /\ Goto(w, "count", "erase")
  /\ results' = [results EXCEPT ![IF black[w] THEN "black" ELSE "white"] = @ + 1]
  /\ reports' = "game"
  /\ UNCHANGED <<fixed, abort, abortCalled, gamesCount, nextGameBlack, games, finals,
                 threads, threadsMutex, game, runner, main>>

EraseGame(w) ==
  /\ Goto(w, "erase", "claim")
  /\ games' = games \ {w}
  /\ UNCHANGED <<fixed, abort, abortCalled, gamesCount, nextGameBlack, results,
                 reports, finals, threads, threadsMutex, game, runner, main>>

Worker(w) ==
  \/ ClaimGame(w) \/ ChooseColour(w) \/ CreateGame(w) \/ GameEnds(w)
  \/ StartSearch(w) \/ SearchReturns(w) \/ AfterSearch(w) \/ ReportGame(w)
  \/ CountGame(w) \/ EraseGame(w)

----------------------------------------------------------------------------
(* RunBlocking() in thread_ of the loop.                                   *)

Alone == Cardinality(workers) = 1

(* With kParallelism = 1 the thread is the worker itself; otherwise        *)
(* StartAsync() creates the workers.                                       *)
StartWorkers ==
  /\ runner = "start"
  /\ Alone \/ threadsMutex = "free"
  /\ runner' = "wait"
  /\ threads' = IF Alone THEN {} ELSE workers
  /\ pc' = [w \in Workers |-> IF w \in workers THEN "claim" ELSE "unborn"]
  /\ UNCHANGED <<tournament, threadsMutex, game, main>>

(* Wait(): threads_mutex_ is held until all threads are joined. *)
BeginJoin(thread, self) ==
  /\ thread = "wait"
  /\ threadsMutex = "free"
  /\ threadsMutex' = self

Joined(self) ==
  /\ threadsMutex = self
  /\ \A w \in threads : pc[w] = "exited"
  /\ threads' = {}
  /\ threadsMutex' = "free"

(* The end of Wait() and of RunBlocking(). *)
Finish ==
  IF abort THEN UNCHANGED <<reports, finals>>
  ELSE reports' = "final" /\ finals' = finals + 1

RunnerJoins ==
  /\ ~Alone
  /\ BeginJoin(runner, "runner")
  /\ runner' = "joining"
  /\ UNCHANGED <<tournament, threads, pc, game, main>>

RunnerJoined ==
  /\ \/ runner = "joining" /\ Joined("runner")
     \/ /\ Alone /\ runner = "wait"
        /\ \A w \in workers : pc[w] = "exited"
        /\ UNCHANGED <<threads, threadsMutex>>
  /\ runner' = "finish"
  /\ UNCHANGED <<tournament, pc, game, main>>

RunnerFinishes ==
  /\ runner = "finish"
  /\ Finish
  /\ runner' = "done"
  /\ UNCHANGED <<fixed, abort, abortCalled, gamesCount, nextGameBlack, games,
                 results, threads, threadsMutex, pc, game, main>>

Runner == StartWorkers \/ RunnerJoins \/ RunnerJoined \/ RunnerFinishes

----------------------------------------------------------------------------
(* The commands of SelfPlayLoop.                                           *)

CmdStart ==
  /\ main = "idle"
  /\ main' = "started"
  /\ runner' = "start"
  /\ UNCHANGED <<tournament, threads, threadsMutex, pc, game>>

(* SelfPlayGame::Abort() of every game in games_. *)
AbortGames ==
  /\ gameAbort' = [w \in Workers |-> gameAbort[w] \/ w \in games]
  /\ search' = [w \in Workers |->
       IF w \in games /\ search[w] = "running" THEN "aborted" ELSE search[w]]

(* Mutant: the games are aborted instead of played to their end. *)
CmdStopAborts ==
  /\ main = "started"
  /\ main' = "stopping"
  /\ abort' = TRUE
  /\ AbortGames
  /\ UNCHANGED <<fixed, abortCalled, gamesCount, nextGameBlack, games, results,
                 reports, finals, threads, threadsMutex, pc, black, moves,
                 decided, runner>>

(* CmdStop(): Stop() and then Wait(). *)
CmdStop ==
  /\ main = "started"
  /\ main' = "stopping"
  /\ abort' = TRUE
  /\ UNCHANGED <<fixed, abortCalled, gamesCount, nextGameBlack, games, results,
                 reports, finals, threads, threadsMutex, pc, game, runner>>

StopJoins ==
  /\ main = "stopping"
  /\ threadsMutex = "free"
  /\ threadsMutex' = "main"
  /\ main' = "joining"
  /\ UNCHANGED <<tournament, threads, pc, game, runner>>

StopJoined ==
  /\ main = "joining"
  /\ Joined("main")
  /\ main' = "finish"
  /\ UNCHANGED <<tournament, pc, game, runner>>

StopReturns ==
  /\ main = "finish"
  /\ Finish
  /\ main' = "stopped"
  /\ UNCHANGED <<fixed, abort, abortCalled, gamesCount, nextGameBlack, games,
                 results, threads, threadsMutex, pc, game, runner>>

(* ~SelfPlayLoop(): SelfPlayTournament::Abort(), and thread_ is joined. *)
Abort ==
  /\ main \in {"started", "stopped"}
  /\ main' = "destructor"
  /\ abort' = TRUE /\ abortCalled' = TRUE
  /\ AbortGames
  /\ UNCHANGED <<fixed, gamesCount, nextGameBlack, games, results, reports,
                 finals, threads, threadsMutex, pc, black, moves, decided, runner>>

Destroy ==
  /\ main = "destructor"
  /\ runner = "done"
  /\ main' = "destroyed"
  /\ UNCHANGED <<tournament, threads, threadsMutex, pc, game, runner>>

Main == CmdStart \/ CmdStop \/ StopJoins \/ StopJoined \/ StopReturns
          \/ Abort \/ Destroy

Next == Main \/ Runner \/ \E w \in Workers : Worker(w)

Spec == Init /\ [][Next]_vars

(* All threads run; nobody has to start, stop or destroy a tournament.     *)
Fairness ==
  /\ WF_vars(Runner)
  /\ \A w \in Workers : WF_vars(Worker(w))
  /\ WF_vars(StopJoins \/ StopJoined \/ StopReturns \/ Destroy)
  /\ SF_vars(StartWorkers) /\ SF_vars(StopJoins) /\ SF_vars(RunnerJoins)

FairSpec == Spec /\ Fairness

----------------------------------------------------------------------------
(* Properties.                                                             *)

(* Abort() of a game and the start of its next search exclude each other:  *)
(* a game that was aborted is never left thinking about a search that      *)
(* nobody stops.                                                           *)
AbortedGameDoesNotThink ==
  \A w \in Workers : gameAbort[w] => search[w] # "running"

(* The final report is sent once, after all other reports, by whichever    *)
(* thread joins the workers; it counts every game, and the colours of the  *)
(* players are balanced although workers draw them in any order.           *)
FinalReport ==
  finals > 0 =>
    /\ finals = 1 /\ reports = "final"
    /\ results["black"] + results["white"] = kTotalGames
    /\ results["black"] - results["white"] \in -1 .. 1

(* Games of a tournament are counted in the end: those that were started   *)
(* and not counted are still in progress, unless Abort() cut them short.   *)
(* CmdStop() has waited for them, and none starts later (comments at       *)
(* tournament.h:56 and 62); not so with one worker, which is the thread in *)
(* RunBlocking(): Wait() finds no thread to join (tournament.cc:312).      *)
EveryGameCounts ==
  /\ ~abortCalled =>
       gamesCount = results["black"] + results["white"]
         + Cardinality({w \in Workers : pc[w] \in {"colour", "create", "move",
                                                   "think", "after", "over", "count"}})
  /\ main = "stopped" /\ ~Alone =>
       \A w \in Workers : pc[w] \in {"unborn", "claim", "exited"}

(* A stop returns, and so does the destructor of the loop.                 *)
EverybodyReturns ==
  /\ (main = "stopping") ~> (main \in {"stopped", "destructor", "destroyed"})
  /\ (main = "destructor") ~> (main = "destroyed")
=============================================================================
