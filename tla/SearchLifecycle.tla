--------------------------- MODULE SearchLifecycle ---------------------------
(***************************************************************************)
(* One lczero::Search (src/mcts/search.h, search.cc) from construction to  *)
(* destruction: how the watchdog thread, the worker threads and the caller *)
(* (EngineController, SelfPlayGame, Benchmark) agree on when the search    *)
(* ends and who reports the best move.                                     *)
(*                                                                         *)
(* Every action is one critical section of the code (nodes_mutex_ and      *)
(* counters_mutex_ held together count as one) or one unlocked step        *)
(* between two of them.  The tree is abstracted to total_playouts_ and to  *)
(* the visits each worker has picked and not backed up yet; the choice of  *)
(* the node to visit is the subject of SearchTree.tla.                     *)
(***************************************************************************)
EXTENDS Integers

CONSTANTS
  Workers,          \* the search threads StartThreads() creates
  Watchdog,         \* the first thread StartThreads() creates
  LimitSet,         \* the SearchLimits a search may be created with
  InitialVisits,    \* the values root_node_->GetN() may have at the start
  MiniBatchSize,    \* params_.GetMiniBatchSize()
  PlayoutCap        \* bound: total_playouts_ saturates here

(* playouts and visits are -1 when there is no such limit; timed says      *)
(* whether there is a search_deadline, depth whether there is a depth      *)
(* limit and kld whether MinimumKLDGainPerNode is positive.                *)
Limits == [infinite : BOOLEAN, playouts : Int, visits : Int,
           timed : BOOLEAN, depth : BOOLEAN, kld : BOOLEAN]

ASSUME WorkersAssumption == Workers # {} /\ Watchdog \notin Workers
ASSUME LimitAssumption ==
  LimitSet \subseteq Limits /\ InitialVisits \subseteq Nat
ASSUME BoundAssumption == MiniBatchSize \in Nat \ {0} /\ PlayoutCap \in Nat \ {0}

VARIABLES
  limits,           \* const SearchLimits limits_
  initialVisits,    \* initial_visits_
  stop,             \* std::atomic<bool> stop_
  okToRespond,      \* ok_to_respond_bestmove_
  bestmoveSent,     \* bestmove_is_sent_
  onlyOneMove,      \* only_one_possible_move_left_
  kldTooSmall,      \* kldgain_too_small_
  deadlinePassed,   \* GetTimeToDeadline() <= 0
  totalPlayouts,    \* total_playouts_
  threads,          \* threads_: created and not joined
  pc,               \* where each thread is
  carried,          \* visits picked by a worker and not backed up
  outOfOrder,       \* number_out_of_order_ of a worker
  collided,         \* the worker met a collision in this iteration
  owner,            \* what the owner of the Search object is doing
  replies,          \* calls of best_move_callback_
  lastOut           \* the kind of the last line given to the callbacks

gathering == <<carried, outOfOrder, collided>>
flags == <<stop, okToRespond, bestmoveSent>>
reasons == <<onlyOneMove, kldTooSmall, deadlinePassed>>
fixed == <<limits, initialVisits>>
output == <<replies, lastOut>>
vars == <<fixed, flags, reasons, totalPlayouts, threads, pc, gathering, owner,
          output>>

Threads == Workers \cup {Watchdog}

WorkerPc == {"gather", "backup", "kld", "trigger", "output"}
WatchdogPc == {"trigger", "output", "wait", "blocked"}

TypeOK ==
  /\ limits \in LimitSet
  /\ initialVisits \in InitialVisits
  /\ stop \in BOOLEAN /\ okToRespond \in BOOLEAN /\ bestmoveSent \in BOOLEAN
  /\ onlyOneMove \in BOOLEAN /\ kldTooSmall \in BOOLEAN
  /\ deadlinePassed \in BOOLEAN
  /\ totalPlayouts \in 0 .. PlayoutCap
  /\ threads \subseteq Threads
  /\ pc \in [Threads -> WorkerPc \cup WatchdogPc \cup {"unborn", "exited"}]
  /\ carried \in [Workers -> 0 .. MiniBatchSize]
  /\ outOfOrder \in [Workers -> 0 .. MiniBatchSize]
  /\ collided \in [Workers -> BOOLEAN]
  /\ owner \in {"created", "started", "waiting", "waited", "destructor",
                "joining", "destroyed"}
  /\ replies \in Nat
  /\ lastOut \in {"none", "info", "bestmove"}

Init ==
  /\ limits \in LimitSet
  /\ initialVisits \in InitialVisits
  /\ stop = FALSE
  /\ okToRespond = ~limits.infinite
  /\ bestmoveSent = FALSE
  /\ onlyOneMove = FALSE /\ kldTooSmall = FALSE /\ deadlinePassed = FALSE
  /\ totalPlayouts = 0
  /\ threads = {}
  /\ pc = [t \in Threads |-> "unborn"]
  /\ carried = [w \in Workers |-> 0]
  /\ outOfOrder = [w \in Workers |-> 0]
  /\ collided = [w \in Workers |-> FALSE]
  /\ owner = "created"
  /\ replies = 0
  /\ lastOut = "none"

Goto(t, from, to) == pc[t] = from /\ pc' = [pc EXCEPT ![t] = to]

(* total_playouts_ += k, saturating at PlayoutCap. *)
Played(k) ==
  totalPlayouts' = IF totalPlayouts + k > PlayoutCap THEN PlayoutCap
                                                    ELSE totalPlayouts + k

----------------------------------------------------------------------------
(* MaybeTriggerStop(), called by the watchdog and by every worker.         *)

PlayoutsReached == limits.playouts >= 0 /\ totalPlayouts >= limits.playouts

VisitsReached ==
  limits.visits >= 0 /\ totalPlayouts + initialVisits >= limits.visits

(* The average depth moves both ways with every backup: either outcome. *)
DepthReached == IF limits.depth THEN BOOLEAN ELSE {FALSE}

(* Mutant: the deadline is forgotten. *)
LimitReachedUntimed(depthReached) ==
  kldTooSmall \/ onlyOneMove \/ PlayoutsReached \/ VisitsReached \/ depthReached

LimitReached(depthReached) ==
  \/ kldTooSmall
  \/ onlyOneMove
  \/ PlayoutsReached
  \/ VisitsReached
  \/ limits.timed /\ deadlinePassed
  \/ depthReached

(* Early returns: already responded, or the root is not expanded yet. *)
NothingToTrigger == bestmoveSent \/ totalPlayouts = 0

MaybeTriggerStop ==
  IF NothingToTrigger
  THEN UNCHANGED <<flags, output>>
  ELSE /\ \E depthReached \in DepthReached :
            stop' = (stop \/ LimitReached(depthReached))
       /\ IF stop' /\ okToRespond
          THEN /\ replies' = replies + 1
               /\ lastOut' = "bestmove"
               /\ bestmoveSent' = TRUE
          ELSE UNCHANGED <<bestmoveSent, output>>
       /\ UNCHANGED okToRespond

(* Mutant: bestmove_is_sent_ is not looked at. *)
MaybeOutputInfoLate ==
  /\ \/ totalPlayouts > 0 /\ lastOut' = "info"
     \/ UNCHANGED lastOut
  /\ UNCHANGED replies

(* MaybeOutputInfo(): whether the statistics changed is left open. *)
MaybeOutputInfo ==
  /\ \/ ~bestmoveSent /\ totalPlayouts > 0 /\ lastOut' = "info"
     \/ UNCHANGED lastOut
  /\ UNCHANGED replies

----------------------------------------------------------------------------
(* SearchWorker::RunBlocking(), one ExecuteOneIteration() after another.   *)

(* PickNodeToExtend() sees a root that has been expanded and only one      *)
(* move that is allowed or can still win: it says so, unless infinite.     *)
MaybeOnlyOneMove ==
  \/ UNCHANGED onlyOneMove
  \/ /\ totalPlayouts + initialVisits > 0
     /\ ~limits.infinite
     /\ onlyOneMove' = TRUE

BatchNotFull(w) ==
  carried[w] < MiniBatchSize /\ outOfOrder[w] < MiniBatchSize

(* GatherMinibatch() picks a node no thread is working on. *)
GatherVisit(w) ==
  /\ pc[w] = "gather"
  /\ BatchNotFull(w)
  /\ carried' = [carried EXCEPT ![w] = @ + 1]
  /\ MaybeOnlyOneMove
  /\ UNCHANGED <<fixed, flags, kldTooSmall, deadlinePassed, totalPlayouts,
                 threads, pc, outOfOrder, collided, owner, output>>

(* The visit just picked needs no network evaluation: it is backed up at   *)
(* once and leaves the minibatch.                                          *)
BackupOutOfOrder(w) ==
  /\ pc[w] = "gather"
  /\ carried[w] > 0
  /\ outOfOrder[w] < MiniBatchSize
  /\ carried' = [carried EXCEPT ![w] = @ - 1]
  /\ outOfOrder' = [outOfOrder EXCEPT ![w] = @ + 1]
  /\ Played(1)
  /\ UNCHANGED <<fixed, flags, reasons, threads, pc, collided, owner, output>>

(* The pick ends on a node another thread is extending. *)
GatherCollision(w) ==
  /\ pc[w] = "gather"
  /\ BatchNotFull(w)
  /\ ~collided[w]
  /\ \E v \in Workers : carried[v] > 0
  /\ collided' = [collided EXCEPT ![w] = TRUE]
  /\ MaybeOnlyOneMove
  /\ UNCHANGED <<fixed, flags, kldTooSmall, deadlinePassed, totalPlayouts,
                 threads, pc, carried, outOfOrder, owner, output>>

(* The minibatch is complete: full, limits on collisions reached, nothing  *)
(* left for the network, or stop_ seen.  There is always a first pick.     *)
GatherEnd(w) ==
  /\ Goto(w, "gather", "backup")
  /\ carried[w] > 0 \/ outOfOrder[w] > 0 \/ collided[w]
  /\ UNCHANGED <<fixed, flags, reasons, totalPlayouts, threads, gathering,
                 owner, output>>

(* The network returns; DoBackupUpdate() finalizes the minibatch. *)
DoBackupUpdate(w) ==
  /\ Goto(w, "backup", "kld")
  /\ Played(carried[w])
  /\ carried' = [carried EXCEPT ![w] = 0]
  /\ outOfOrder' = [outOfOrder EXCEPT ![w] = 0]
  /\ collided' = [collided EXCEPT ![w] = FALSE]
  /\ UNCHANGED <<fixed, flags, reasons, threads, owner, output>>

UpdateKLDGain(w) ==
  /\ Goto(w, "kld", "trigger")
  /\ \E small \in (IF limits.kld THEN BOOLEAN ELSE {FALSE}) :
        kldTooSmall' = (kldTooSmall \/ small)
  /\ UNCHANGED <<fixed, flags, onlyOneMove, deadlinePassed, totalPlayouts,
                 threads, gathering, owner, output>>

WorkerTrigger(w) ==
  /\ Goto(w, "trigger", "output")
  /\ MaybeTriggerStop
  /\ UNCHANGED <<fixed, reasons, totalPlayouts, threads, gathering, owner>>

(* The end of an iteration: the loop is left once stop_ is seen, so at     *)
(* least one iteration runs.                                               *)
WorkerOutput(w) ==
  /\ pc[w] = "output"
  /\ MaybeOutputInfo
  /\ pc' = [pc EXCEPT ![w] = IF stop THEN "exited" ELSE "gather"]
  /\ UNCHANGED <<fixed, flags, reasons, totalPlayouts, threads, gathering,
                 owner>>

Worker(w) ==
  \/ GatherVisit(w)
  \/ BackupOutOfOrder(w)
  \/ GatherCollision(w)
  \/ GatherEnd(w)
  \/ DoBackupUpdate(w)
  \/ UpdateKLDGain(w)
  \/ WorkerTrigger(w)
  \/ WorkerOutput(w)

----------------------------------------------------------------------------
(* WatchdogThread()                                                        *)

WatchdogTrigger ==
  /\ Goto(Watchdog, "trigger", "output")
  /\ MaybeTriggerStop
  /\ UNCHANGED <<fixed, reasons, totalPlayouts, threads, gathering, owner>>

WatchdogOutput ==
  /\ Goto(Watchdog, "output", "wait")
  /\ MaybeOutputInfo
  /\ UNCHANGED <<fixed, flags, reasons, totalPlayouts, threads, gathering,
                 owner>>

(* Mutant: the watchdog leaves as soon as the search is stopped. *)
WatchdogWaitHasty ==
  /\ Goto(Watchdog, "wait", IF stop THEN "exited" ELSE "blocked")
  /\ UNCHANGED <<fixed, flags, reasons, totalPlayouts, threads, gathering,
                 owner, output>>

(* Exit when the best move is out, otherwise wait_for(): its predicate is  *)
(* tested first, and a set stop_ makes it return without blocking.         *)
WatchdogWait ==
  /\ pc[Watchdog] = "wait"
  /\ pc' = [pc EXCEPT ![Watchdog] = IF bestmoveSent THEN "exited"
                                    ELSE IF stop THEN "trigger"
                                    ELSE "blocked"]
  /\ UNCHANGED <<fixed, flags, reasons, totalPlayouts, threads, gathering,
                 owner, output>>

(* Woken by FireStopInternal(), by the timeout or for no reason at all. *)
WatchdogWake ==
  /\ Goto(Watchdog, "blocked", "trigger")
  /\ UNCHANGED <<fixed, flags, reasons, totalPlayouts, threads, gathering,
                 owner, output>>

WatchdogThread ==
  WatchdogTrigger \/ WatchdogOutput \/ WatchdogWait \/ WatchdogWake

----------------------------------------------------------------------------
(* The thread that owns the Search object.                                 *)

StartThreads ==
  /\ owner = "created"
  /\ owner' = "started"
  /\ threads' = Threads
  /\ pc' = [t \in Threads |-> IF t = Watchdog THEN "trigger" ELSE "gather"]
  /\ UNCHANGED <<fixed, flags, reasons, totalPlayouts, gathering, output>>

(* Search::Wait(), called by RunBlocking() and by the benchmark. *)
CallWait ==
  /\ owner = "started"
  /\ owner' = "waiting"
  /\ UNCHANGED <<fixed, flags, reasons, totalPlayouts, threads, pc, gathering,
                 output>>

(* Search::~Search(): Abort() and then Wait(). *)
Destroy ==
  /\ owner \in {"started", "waited"}
  /\ owner' = "destructor"
  /\ UNCHANGED <<fixed, flags, reasons, totalPlayouts, threads, pc, gathering,
                 output>>

(* Mutant: the threads are detached instead of joined. *)
JoinDetaching ==
  /\ owner \in {"waiting", "joining"}
  /\ threads # {}
  /\ threads' = {}
  /\ UNCHANGED <<fixed, flags, reasons, totalPlayouts, pc, gathering, owner,
                 output>>

(* threads_.back().join(): the watchdog was created first, it goes last. *)
Join ==
  /\ owner \in {"waiting", "joining"}
  /\ \E t \in threads :
       /\ pc[t] = "exited"
       /\ t = Watchdog => threads = {Watchdog}
       /\ threads' = threads \ {t}
  /\ UNCHANGED <<fixed, flags, reasons, totalPlayouts, pc, gathering, owner,
                 output>>

WaitReturns ==
  /\ owner \in {"waiting", "joining"}
  /\ threads = {}
  /\ owner' = IF owner = "waiting" THEN "waited" ELSE "destroyed"
  /\ UNCHANGED <<fixed, flags, reasons, totalPlayouts, threads, pc, gathering,
                 output>>

----------------------------------------------------------------------------
(* Stop() and Abort(), by the owner or by another thread.                  *)

Alive == owner \in {"created", "started", "waiting", "waited"}

Stop ==
  /\ Alive
  /\ okToRespond' = TRUE
  /\ stop' = TRUE
  /\ UNCHANGED <<fixed, bestmoveSent, reasons, totalPlayouts, threads, pc,
                 gathering, owner, output>>

DoAbort ==
  /\ IF ~stop \/ (~bestmoveSent /\ ~okToRespond)
     THEN bestmoveSent' = TRUE /\ stop' = TRUE
     ELSE UNCHANGED <<bestmoveSent, stop>>
  /\ UNCHANGED <<fixed, okToRespond, reasons, totalPlayouts, threads, pc,
                 gathering, output>>

Abort == Alive /\ DoAbort /\ UNCHANGED owner

AbortInDestructor ==
  /\ owner = "destructor"
  /\ owner' = "joining"
  /\ DoAbort

(* The clock reaches limits_.search_deadline. *)
DeadlinePasses ==
  /\ limits.timed
  /\ ~deadlinePassed
  /\ deadlinePassed' = TRUE
  /\ UNCHANGED <<fixed, flags, onlyOneMove, kldTooSmall, totalPlayouts,
                 threads, pc, gathering, owner, output>>

----------------------------------------------------------------------------
Owner == StartThreads \/ CallWait \/ Destroy \/ Join \/ WaitReturns
            \/ AbortInDestructor

Next ==
  \/ Owner
  \/ Stop
  \/ Abort
  \/ DeadlinePasses
  \/ WatchdogThread
  \/ \E w \in Workers : Worker(w)

Spec == Init /\ [][Next]_vars

(* The operating system runs every runnable thread, the network returns    *)
(* and time passes.  Nobody is obliged to stop, wait for or destroy a      *)
(* search, but who began to wait or to destroy goes on.                    *)
Fairness ==
  /\ WF_vars(WatchdogThread)
  /\ \A w \in Workers : WF_vars(Worker(w))
  /\ WF_vars(Join \/ WaitReturns \/ AbortInDestructor)
  /\ WF_vars(StartThreads)
  /\ WF_vars(DeadlinePasses)

FairSpec == Spec /\ Fairness

----------------------------------------------------------------------------
(* Properties.                                                             *)

(* best_move_callback_ runs at most once although every worker and the     *)
(* watchdog call MaybeTriggerStop() (comment at search.h:147).             *)
AtMostOneBestmove == replies <= 1

(* During `go infinite` and ponder nothing is answered until a Stop()      *)
(* (comment at search.h:143), whatever limits were reached meanwhile; and  *)
(* there is never an answer before the root was evaluated.                 *)
AnswerIsPermitted == replies > 0 => okToRespond /\ stop /\ totalPlayouts > 0

(* The bestmove is the last thing the search reports: MaybeOutputInfo()    *)
(* of a slower thread never prints an info line after it.                  *)
BestmoveIsFinal == [][lastOut = "bestmove" => lastOut' = "bestmove"]_vars

(* ~Search() frees the object only when no thread can touch it any more.   *)
NoThreadOutlivesSearch ==
  owner \in {"waited", "destroyed"} /\ (\E t \in Threads : pc[t] # "unborn")
     => \A t \in Threads : pc[t] = "exited"

(* The watchdog stays until somebody has answered or has silenced the      *)
(* search, because "search threads already all exited, and we need at      *)
(* least one thread that can do that" (search.cc:681).                     *)
WatchdogStays == pc[Watchdog] = "exited" => bestmoveSent

(* Workers that left their loop take no virtual loss with them. *)
NothingLeftBehind ==
  \A w \in Workers : pc[w] \in {"unborn", "exited"} => carried[w] = 0

(* A search with an attainable limit that is not infinite ends by itself,  *)
(* and destroying one terminates in whatever state it is destroyed.        *)
Attainable ==
  limits.playouts \in 0 .. PlayoutCap \/ limits.visits \in 0 .. PlayoutCap
     \/ limits.timed

LimitedSearchEnds ==
  /\ (owner = "started" /\ ~limits.infinite /\ Attainable) ~> bestmoveSent
  /\ (owner = "destructor") ~> (owner = "destroyed")

(* The search implements the service its caller sees. *)
Service == INSTANCE BestmoveService WITH
  answered <- replies,
  permitted <- okToRespond,
  ended <- stop,
  silenced <- bestmoveSent /\ replies = 0

ImplementsService == Service!SSafety

(* Under the fairness of the scheduler it also delivers what it owes.      *)
ImplementsFairService == Service!SSpec
=============================================================================
