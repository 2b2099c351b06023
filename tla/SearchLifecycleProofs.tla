------------------------ MODULE SearchLifecycleProofs ------------------------
(***************************************************************************)
(* Proofs about SearchLifecycle for every set of workers, every set of     *)
(* limits and every bound: type correctness, the inductive invariant IInv, *)
(* the safety invariants the runs check, and the refinement of             *)
(* BestmoveService.                                                        *)
(***************************************************************************)
EXTENDS SearchLifecycle, TLAPS

(* What MaybeTriggerStop() relies on: a search that has answered or was    *)
(* silenced is stopped, and it has answered at most once, with permission  *)
(* and after a playout.                                                    *)
AnswerInv ==
  /\ bestmoveSent => stop
  /\ \/ replies = 0 /\ lastOut # "bestmove"
     \/ /\ replies = 1
        /\ bestmoveSent
        /\ okToRespond
        /\ totalPlayouts > 0

(* The threads between their creation and their join. *)
ThreadInv ==
  /\ owner = "created" => \A t \in Threads : pc[t] = "unborn"
  /\ owner # "created" => \A t \in Threads \ threads : pc[t] = "exited"
  /\ owner # "created" => \A t \in Threads : pc[t] # "unborn"
  /\ owner \in {"waited", "destroyed"} => threads = {}
  /\ WatchdogStays
  /\ \A w \in Workers : carried[w] > 0 => pc[w] \in {"gather", "backup"}

IInv == TypeOK /\ AnswerInv /\ ThreadInv

-----------------------------------------------------------------------------
(* Every variable keeps its type in every reachable state of a search,     *)
(* whatever the limits, the workers and the bounds.                        *)
LEMMA TypeInit == Init => TypeOK
<1> SUFFICES ASSUME Init PROVE TypeOK
  OBVIOUS
<1>1. limits \in Limits
  BY LimitAssumption DEF Init
<1>2. okToRespond \in BOOLEAN
  BY DEF Init
<1>3. /\ totalPlayouts \in 0 .. PlayoutCap
      /\ carried \in [Workers -> 0 .. MiniBatchSize]
      /\ outOfOrder \in [Workers -> 0 .. MiniBatchSize]
      /\ replies \in Nat
  BY BoundAssumption DEF Init
<1> QED
  BY <1>2, <1>3, Zenon DEF Init, TypeOK, Threads, WorkerPc, WatchdogPc

(* MaybeTriggerStop() is called by two kinds of threads. *)
LEMMA TypeTrigger ==
  ASSUME TypeOK, MaybeTriggerStop
  PROVE  /\ stop' \in BOOLEAN /\ okToRespond' \in BOOLEAN
         /\ bestmoveSent' \in BOOLEAN
         /\ replies' \in Nat
         /\ lastOut' \in {"none", "info", "bestmove"}
<1>1. stop' \in BOOLEAN /\ okToRespond' \in BOOLEAN /\ bestmoveSent' \in BOOLEAN
  BY Zenon DEF MaybeTriggerStop, TypeOK, flags
<1>2. replies' \in {replies, replies + 1}
  BY Zenon DEF MaybeTriggerStop, output
<1>3. lastOut' \in {"none", "info", "bestmove"}
  BY Zenon DEF MaybeTriggerStop, output, TypeOK
<1> QED BY <1>1, <1>2, <1>3 DEF TypeOK

LEMMA TypeWorker ==
  ASSUME TypeOK, NEW w \in Workers, Worker(w)
  PROVE  TypeOK'
<1> USE BoundAssumption, WorkersAssumption
    DEF TypeOK, Threads, WorkerPc, WatchdogPc, fixed, flags, reasons,
        gathering, output, Goto, Played
<1>1. CASE GatherVisit(w)
  <2>1. carried' \in [Workers -> 0 .. MiniBatchSize]
    BY <1>1 DEF GatherVisit, BatchNotFull
  <2>2. onlyOneMove' \in BOOLEAN
    BY <1>1, Zenon DEF GatherVisit, MaybeOnlyOneMove
  <2> QED BY <1>1, <2>1, <2>2 DEF GatherVisit
<1>2. CASE BackupOutOfOrder(w)
  BY <1>2 DEF BackupOutOfOrder
<1>3. CASE GatherCollision(w)
  <2>1. onlyOneMove' \in BOOLEAN
    BY <1>3, Zenon DEF GatherCollision, MaybeOnlyOneMove
  <2> QED BY <1>3, <2>1 DEF GatherCollision
<1>4. CASE GatherEnd(w)
  BY <1>4 DEF GatherEnd
<1>5. CASE DoBackupUpdate(w)
  BY <1>5 DEF DoBackupUpdate
<1>6. CASE UpdateKLDGain(w)
  BY <1>6 DEF UpdateKLDGain
<1>7. CASE WorkerTrigger(w)
  BY <1>7, TypeTrigger DEF WorkerTrigger
<1>8. CASE WorkerOutput(w)
  BY <1>8 DEF WorkerOutput, MaybeOutputInfo
<1> QED BY <1>1, <1>2, <1>3, <1>4, <1>5, <1>6, <1>7, <1>8 DEF Worker

LEMMA TypeStep == TypeOK /\ [Next]_vars => TypeOK'
<1> SUFFICES ASSUME TypeOK, [Next]_vars PROVE TypeOK'
  OBVIOUS
<1>1. ASSUME NEW w \in Workers, Worker(w) PROVE TypeOK'
  BY <1>1, TypeWorker
<1>2. CASE WatchdogThread
  <2> USE DEF TypeOK, Threads, WorkerPc, WatchdogPc, fixed, flags, reasons,
              gathering, output, Goto
  <2>1. CASE WatchdogTrigger
    BY <2>1, TypeTrigger DEF WatchdogTrigger
  <2>2. CASE WatchdogOutput
    BY <2>2 DEF WatchdogOutput, MaybeOutputInfo
  <2>3. CASE WatchdogWait
    BY <2>3 DEF WatchdogWait
  <2>4. CASE WatchdogWake
    BY <2>4 DEF WatchdogWake
  <2> QED BY <1>2, <2>1, <2>2, <2>3, <2>4 DEF WatchdogThread
<1>3. CASE Owner
  <2> USE DEF TypeOK, Threads, WorkerPc, WatchdogPc, fixed, flags, reasons,
              gathering, output
  <2>1. CASE StartThreads
    BY <2>1 DEF StartThreads
  <2>2. CASE CallWait \/ Destroy \/ WaitReturns
    BY <2>2 DEF CallWait, Destroy, WaitReturns
  <2>3. CASE Join
    BY <2>3 DEF Join
  <2>4. CASE AbortInDestructor
    BY <2>4 DEF AbortInDestructor, DoAbort
  <2> QED BY <1>3, <2>1, <2>2, <2>3, <2>4 DEF Owner
<1>4. CASE Stop \/ Abort \/ DeadlinePasses
  <2> USE DEF TypeOK, fixed, flags, reasons, gathering, output
  <2>1. CASE Stop
    BY <2>1 DEF Stop
  <2>2. CASE Abort
    BY <2>2 DEF Abort, DoAbort
  <2>3. CASE DeadlinePasses
    BY <2>3 DEF DeadlinePasses
  <2> QED BY <1>4, <2>1, <2>2, <2>3
<1>5. CASE UNCHANGED vars
  BY <1>5 DEF vars, TypeOK, fixed, flags, reasons, gathering, output
<1> QED BY <1>1, <1>2, <1>3, <1>4, <1>5 DEF Next

THEOREM TypeCorrect == Spec => []TypeOK
<1> QED BY TypeInit, TypeStep, PTL DEF Spec

-----------------------------------------------------------------------------
(* The invariant is preserved by every critical section.                   *)

LEMMA InvInit == Init => IInv
<1> SUFFICES ASSUME Init PROVE IInv
  OBVIOUS
<1>1. AnswerInv
  BY DEF Init, AnswerInv
<1>2. ThreadInv
  BY WorkersAssumption
  DEF Init, ThreadInv, WatchdogStays, Threads
<1> QED BY <1>1, <1>2, TypeInit DEF IInv

(* A thread that calls MaybeTriggerStop() keeps AnswerInv: the early       *)
(* returns guarantee that nobody has answered and that the root has been   *)
(* evaluated.                                                              *)
LEMMA AnswerTrigger ==
  ASSUME TypeOK, AnswerInv, MaybeTriggerStop, UNCHANGED totalPlayouts
  PROVE  AnswerInv' /\ (bestmoveSent => bestmoveSent')
<1>1. CASE NothingToTrigger
  BY <1>1 DEF MaybeTriggerStop, AnswerInv, flags, output
<1>2. CASE ~NothingToTrigger
  <2>1. ~bestmoveSent /\ totalPlayouts > 0 /\ replies = 0
    BY <1>2 DEF NothingToTrigger, AnswerInv, TypeOK
  <2>2. CASE stop' /\ okToRespond
    BY <1>2, <2>1, <2>2 DEF MaybeTriggerStop, AnswerInv
  <2>3. CASE ~(stop' /\ okToRespond)
    BY <1>2, <2>1, <2>3 DEF MaybeTriggerStop, AnswerInv, output
  <2> QED BY <2>2, <2>3
<1> QED BY <1>1, <1>2

(* Steps that touch neither the flags nor the answer. *)
LEMMA AnswerPlayed ==
  ASSUME TypeOK, AnswerInv, UNCHANGED <<flags, output>>,
         totalPlayouts' = totalPlayouts \/ (\E k \in Nat : Played(k))
  PROVE  AnswerInv'
<1>1. totalPlayouts > 0 => totalPlayouts' > 0
  BY BoundAssumption DEF Played, TypeOK
<1> QED BY <1>1 DEF AnswerInv, flags, output

LEMMA AnswerOutput ==
  ASSUME AnswerInv, MaybeOutputInfo, UNCHANGED <<flags, totalPlayouts>>
  PROVE  AnswerInv'
  BY DEF AnswerInv, MaybeOutputInfo, flags

LEMMA AnswerWorker ==
  ASSUME TypeOK, AnswerInv, NEW w \in Workers, Worker(w)
  PROVE  AnswerInv'
<1>1. CASE GatherVisit(w)
  BY <1>1, AnswerPlayed DEF GatherVisit
<1>2. CASE BackupOutOfOrder(w)
  BY <1>2, AnswerPlayed DEF BackupOutOfOrder
<1>3. CASE GatherCollision(w)
  BY <1>3, AnswerPlayed DEF GatherCollision
<1>4. CASE GatherEnd(w)
  BY <1>4, AnswerPlayed DEF GatherEnd
<1>5. CASE DoBackupUpdate(w)
  <2>1. carried[w] \in Nat
    BY BoundAssumption DEF TypeOK
  <2> QED BY <1>5, <2>1, AnswerPlayed DEF DoBackupUpdate
<1>6. CASE UpdateKLDGain(w)
  BY <1>6, AnswerPlayed DEF UpdateKLDGain
<1>7. CASE WorkerTrigger(w)
  BY <1>7, AnswerTrigger DEF WorkerTrigger
<1>8. CASE WorkerOutput(w)
  BY <1>8, AnswerOutput DEF WorkerOutput
<1> QED BY <1>1, <1>2, <1>3, <1>4, <1>5, <1>6, <1>7, <1>8 DEF Worker

LEMMA AnswerStep == TypeOK /\ AnswerInv /\ [Next]_vars => AnswerInv'
<1> SUFFICES ASSUME TypeOK, AnswerInv, [Next]_vars PROVE AnswerInv'
  OBVIOUS
<1>1. ASSUME NEW w \in Workers, Worker(w) PROVE AnswerInv'
  BY <1>1, AnswerWorker
<1>2. CASE WatchdogThread
  <2>1. CASE WatchdogTrigger
    BY <2>1, AnswerTrigger DEF WatchdogTrigger
  <2>2. CASE WatchdogOutput
    BY <2>2, AnswerOutput DEF WatchdogOutput
  <2>3. CASE WatchdogWait \/ WatchdogWake
    BY <2>3, AnswerPlayed DEF WatchdogWait, WatchdogWake
  <2> QED BY <1>2, <2>1, <2>2, <2>3 DEF WatchdogThread
<1>3. CASE Owner
  <2>1. CASE AbortInDestructor
    BY <2>1 DEF AbortInDestructor, DoAbort, AnswerInv, output
  <2>2. CASE StartThreads \/ CallWait \/ Destroy \/ Join \/ WaitReturns
    BY <2>2, AnswerPlayed
    DEF StartThreads, CallWait, Destroy, Join, WaitReturns
  <2> QED BY <1>3, <2>1, <2>2 DEF Owner
<1>4. CASE Stop
  BY <1>4 DEF Stop, AnswerInv, output
<1>5. CASE Abort
  BY <1>5 DEF Abort, DoAbort, AnswerInv, output
<1>6. CASE DeadlinePasses
  BY <1>6, AnswerPlayed DEF DeadlinePasses
<1>7. CASE UNCHANGED vars
  BY <1>7, AnswerPlayed DEF vars
<1> QED BY <1>1, <1>2, <1>3, <1>4, <1>5, <1>6, <1>7 DEF Next

(* Only the watchdog, the workers and Join touch what ThreadInv speaks of. *)
LEMMA ThreadWorker ==
  ASSUME TypeOK, AnswerInv, ThreadInv, NEW w \in Workers, Worker(w)
  PROVE  ThreadInv'
<1> USE WorkersAssumption, BoundAssumption
    DEF TypeOK, Threads, ThreadInv, WatchdogStays, WorkerPc, WatchdogPc,
        fixed, flags, reasons, gathering, output, Goto
<1>1. CASE GatherVisit(w)
  BY <1>1 DEF GatherVisit
<1>2. CASE BackupOutOfOrder(w)
  BY <1>2 DEF BackupOutOfOrder
<1>3. CASE GatherCollision(w)
  BY <1>3 DEF GatherCollision
<1>4. CASE GatherEnd(w)
  BY <1>4 DEF GatherEnd
<1>5. CASE DoBackupUpdate(w)
  BY <1>5 DEF DoBackupUpdate
<1>6. CASE UpdateKLDGain(w)
  BY <1>6 DEF UpdateKLDGain
<1>7. CASE WorkerTrigger(w)
  <2>1. bestmoveSent => bestmoveSent'
    BY <1>7, AnswerTrigger DEF WorkerTrigger
  <2> QED BY <1>7, <2>1 DEF WorkerTrigger
<1>8. CASE WorkerOutput(w)
  BY <1>8 DEF WorkerOutput
<1> QED BY <1>1, <1>2, <1>3, <1>4, <1>5, <1>6, <1>7, <1>8 DEF Worker

LEMMA ThreadStep ==
  TypeOK /\ AnswerInv /\ ThreadInv /\ [Next]_vars => ThreadInv'
<1> SUFFICES ASSUME TypeOK, AnswerInv, ThreadInv, [Next]_vars
             PROVE  ThreadInv'
  OBVIOUS
<1> USE WorkersAssumption
    DEF TypeOK, Threads, ThreadInv, WatchdogStays, fixed, flags, reasons,
        gathering, output, Goto
<1>1. ASSUME NEW w \in Workers, Worker(w) PROVE ThreadInv'
  BY <1>1, ThreadWorker
<1>2. CASE WatchdogThread
  <2>1. CASE WatchdogTrigger
    <3>1. bestmoveSent => bestmoveSent'
      BY <2>1, AnswerTrigger DEF WatchdogTrigger
    <3> QED BY <2>1, <3>1 DEF WatchdogTrigger
  <2>2. CASE WatchdogOutput
    BY <2>2 DEF WatchdogOutput
  <2>3. CASE WatchdogWait
    BY <2>3 DEF WatchdogWait
  <2>4. CASE WatchdogWake
    BY <2>4 DEF WatchdogWake
  <2> QED BY <1>2, <2>1, <2>2, <2>3, <2>4 DEF WatchdogThread
<1>3. CASE Owner
  <2>1. CASE StartThreads
    BY <2>1 DEF StartThreads
  <2>2. CASE CallWait \/ Destroy
    BY <2>2 DEF CallWait, Destroy
  <2>3. CASE Join
    BY <2>3 DEF Join
  <2>4. CASE WaitReturns
    BY <2>4 DEF WaitReturns
  <2>5. CASE AbortInDestructor
    BY <2>5 DEF AbortInDestructor, DoAbort
  <2> QED BY <1>3, <2>1, <2>2, <2>3, <2>4, <2>5 DEF Owner
<1>4. CASE Stop \/ DeadlinePasses
  BY <1>4 DEF Stop, DeadlinePasses
<1>5. CASE Abort
  BY <1>5 DEF Abort, DoAbort
<1>6. CASE UNCHANGED vars
  BY <1>6 DEF vars
<1> QED BY <1>1, <1>2, <1>3, <1>4, <1>5, <1>6 DEF Next

(* IInv holds in every reachable state. *)
THEOREM Invariance == Spec => []IInv
<1>1. IInv /\ [Next]_vars => IInv'
  BY TypeStep, AnswerStep, ThreadStep DEF IInv
<1> QED BY InvInit, <1>1, PTL DEF Spec

-----------------------------------------------------------------------------
(* No interleaving of MaybeTriggerStop() calls answers twice, and no       *)
(* answer is given without permission or before the first playout.         *)
THEOREM AnsweredOnce == Spec => [](AtMostOneBestmove /\ AnswerIsPermitted)
<1>1. IInv => AtMostOneBestmove /\ AnswerIsPermitted
  BY DEF IInv, TypeOK, AnswerInv, AtMostOneBestmove, AnswerIsPermitted
<1> QED BY Invariance, <1>1, PTL

(* Nothing is reported after the bestmove. *)
THEOREM BestmoveLast == Spec => BestmoveIsFinal
<1>1. IInv /\ IInv' /\ [Next]_vars
        => [lastOut = "bestmove" => lastOut' = "bestmove"]_vars
  <2> SUFFICES ASSUME IInv, Next, lastOut = "bestmove"
               PROVE  lastOut' = "bestmove"
    BY DEF vars, output
  <2>1. bestmoveSent
    BY DEF IInv, AnswerInv
  <2>2. MaybeTriggerStop => lastOut' = lastOut
    BY <2>1 DEF MaybeTriggerStop, NothingToTrigger, output
  <2>3. MaybeOutputInfo => lastOut' = lastOut
    BY <2>1 DEF MaybeOutputInfo
  <2>4. ASSUME NEW w \in Workers, Worker(w) PROVE lastOut' = lastOut
    BY <2>4, <2>2, <2>3
    DEF Worker, GatherVisit, BackupOutOfOrder, GatherCollision, GatherEnd,
        DoBackupUpdate, UpdateKLDGain, WorkerTrigger, WorkerOutput, output
  <2>5. CASE WatchdogThread
    BY <2>5, <2>2, <2>3
    DEF WatchdogThread, WatchdogTrigger, WatchdogOutput, WatchdogWait,
        WatchdogWake, output
  <2>6. CASE Owner \/ Stop \/ Abort \/ DeadlinePasses
    BY <2>6
    DEF Owner, StartThreads, CallWait, Destroy, Join, WaitReturns,
        AbortInDestructor, DoAbort, Stop, Abort, DeadlinePasses, output
  <2> QED BY <2>4, <2>5, <2>6 DEF Next
<1> QED BY Invariance, <1>1, PTL DEF Spec, BestmoveIsFinal

(* When Wait() or the destructor is through, every thread has run to its   *)
(* end; the watchdog never left a search unanswered; and no worker left    *)
(* with visits it had started.                                             *)
THEOREM ThreadsAreDone ==
  Spec => [](NoThreadOutlivesSearch /\ WatchdogStays /\ NothingLeftBehind)
<1>1. IInv => NoThreadOutlivesSearch
  BY DEF IInv, TypeOK, ThreadInv, NoThreadOutlivesSearch
<1>2. IInv => WatchdogStays /\ NothingLeftBehind
  <2> SUFFICES ASSUME IInv PROVE WatchdogStays /\ NothingLeftBehind
    OBVIOUS
  <2>1. \A w \in Workers : carried[w] \in Nat
    BY BoundAssumption DEF IInv, TypeOK
  <2> QED BY <2>1 DEF IInv, ThreadInv, NothingLeftBehind
<1> QED BY Invariance, <1>1, <1>2, PTL

-----------------------------------------------------------------------------
(* Every step of the search is a step of BestmoveService or stutters.      *)
silencedNow == bestmoveSent /\ replies = 0

(* What the service sees of a step. *)
ServiceStutters == UNCHANGED <<flags, replies>>

LEMMA TriggerRefines ==
  ASSUME TypeOK, AnswerInv, MaybeTriggerStop
  PROVE  Service!SNext \/ ServiceStutters
<1>1. CASE NothingToTrigger
  BY <1>1 DEF MaybeTriggerStop, ServiceStutters, flags, output
<1>2. CASE ~NothingToTrigger
  <2>1. ~bestmoveSent /\ replies = 0 /\ okToRespond' = okToRespond
    BY <1>2 DEF NothingToTrigger, AnswerInv, TypeOK, MaybeTriggerStop
  <2>2. CASE stop' /\ okToRespond
    <3>1. replies' = 1 /\ bestmoveSent' /\ stop' = TRUE
      BY <1>2, <2>1, <2>2, TypeTrigger DEF MaybeTriggerStop
    <3>2. silencedNow' = silencedNow
      BY <2>1, <3>1 DEF silencedNow
    <3> QED
      BY <2>1, <2>2, <3>1, <3>2
      DEF Service!SNext, Service!Answer, silencedNow
  <2>3. CASE ~(stop' /\ okToRespond)
    <3>1. bestmoveSent' = bestmoveSent /\ replies' = replies
      BY <1>2, <2>3 DEF MaybeTriggerStop, output
    <3>2. CASE stop' = stop
      BY <2>1, <3>1, <3>2 DEF ServiceStutters, flags
    <3>3. CASE stop' # stop
      <4>1. ~stop /\ stop' = TRUE
        <5>1. stop => stop'
          BY <1>2, Zenon DEF MaybeTriggerStop
        <5>2. stop \in BOOLEAN /\ stop' \in BOOLEAN
          BY TypeTrigger DEF TypeOK
        <5> QED BY <3>3, <5>1, <5>2
      <4> QED
        BY <2>1, <3>1, <4>1 DEF Service!SNext, Service!End
    <3> QED BY <3>2, <3>3
  <2> QED BY <2>2, <2>3
<1> QED BY <1>1, <1>2

LEMMA AbortRefines ==
  ASSUME TypeOK, AnswerInv, DoAbort
  PROVE  Service!SNext \/ ServiceStutters
<1>1. CASE ~stop \/ (~bestmoveSent /\ ~okToRespond)
  <2>1. replies = 0 /\ ~bestmoveSent
    BY <1>1 DEF AnswerInv, TypeOK
  <2>2. /\ bestmoveSent' = TRUE /\ stop' = TRUE
        /\ okToRespond' = okToRespond /\ replies' = replies
    BY <1>1 DEF DoAbort, output
  <2> QED
    BY <1>1, <2>1, <2>2 DEF Service!SNext, Service!Silence
<1>2. CASE ~(~stop \/ (~bestmoveSent /\ ~okToRespond))
  BY <1>2 DEF DoAbort, ServiceStutters, flags, output
<1> QED BY <1>1, <1>2

LEMMA StepRefines ==
  ASSUME TypeOK, AnswerInv, Next
  PROVE  Service!SNext \/ ServiceStutters
<1>1. ASSUME NEW w \in Workers, Worker(w)
      PROVE  Service!SNext \/ ServiceStutters
  <2>1. CASE WorkerTrigger(w)
    BY <2>1, TriggerRefines DEF WorkerTrigger
  <2>2. CASE ~WorkerTrigger(w)
    BY <1>1, <2>2
    DEF Worker, GatherVisit, BackupOutOfOrder, GatherCollision, GatherEnd,
        DoBackupUpdate, UpdateKLDGain, WorkerOutput, MaybeOutputInfo, output,
        ServiceStutters
  <2> QED BY <2>1, <2>2
<1>2. CASE WatchdogThread
  <2>1. CASE WatchdogTrigger
    BY <2>1, TriggerRefines DEF WatchdogTrigger
  <2>2. CASE WatchdogOutput \/ WatchdogWait \/ WatchdogWake
    BY <2>2
    DEF WatchdogOutput, WatchdogWait, WatchdogWake, MaybeOutputInfo, output,
        ServiceStutters
  <2> QED BY <1>2, <2>1, <2>2 DEF WatchdogThread
<1>3. CASE AbortInDestructor \/ Abort
  BY <1>3, AbortRefines DEF AbortInDestructor, Abort
<1>4. CASE Stop
  <2>1. /\ okToRespond' = TRUE /\ stop' = TRUE
        /\ bestmoveSent' = bestmoveSent /\ replies' = replies
    BY <1>4 DEF Stop, output
  <2> QED BY <2>1 DEF Service!SNext, Service!Permit
<1>5. CASE \/ StartThreads \/ CallWait \/ Destroy \/ Join \/ WaitReturns
           \/ DeadlinePasses
  BY <1>5
  DEF StartThreads, CallWait, Destroy, Join, WaitReturns, DeadlinePasses,
      output, ServiceStutters
<1> QED BY <1>1, <1>2, <1>3, <1>4, <1>5 DEF Next, Owner

(* A search is a bestmove service: one permitted answer at most, and no    *)
(* silencing of an answer that is owed.                                    *)
THEOREM SearchIsService == Spec => ImplementsService
<1>1. Init => Service!SInit
  <2> SUFFICES ASSUME Init PROVE Service!SInit
    OBVIOUS
  <2>1. okToRespond \in BOOLEAN
    BY DEF Init
  <2> QED BY <2>1 DEF Init, Service!SInit
<1>2. IInv /\ [Next]_vars => [Service!SNext]_(Service!svars)
  <2> SUFFICES ASSUME IInv, [Next]_vars
               PROVE  [Service!SNext]_(Service!svars)
    OBVIOUS
  <2>1. ServiceStutters => UNCHANGED Service!svars
    BY DEF ServiceStutters, flags, Service!svars
  <2>2. CASE Next
    BY <2>1, <2>2, StepRefines DEF IInv
  <2>3. CASE UNCHANGED vars
    BY <2>3 DEF vars, flags, output, Service!svars
  <2> QED BY <2>2, <2>3
<1> QED
  BY <1>1, <1>2, Invariance, PTL DEF Spec, ImplementsService, Service!SSafety
=============================================================================
