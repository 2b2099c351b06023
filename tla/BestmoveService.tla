--------------------------- MODULE BestmoveService ---------------------------
(***************************************************************************)
(* What a search promises to the one who started it (the UCI host, the     *)
(* benchmark, a self-play game), with no thread, mutex or limit in sight:  *)
(*                                                                         *)
(*   - at most one bestmove is ever delivered, and only once somebody has  *)
(*     permitted an answer (an ordinary search permits it from the start,  *)
(*     `go infinite` and `go ponder` only by `stop`);                      *)
(*   - a search can be silenced, but not any more once it has both ended   *)
(*     and been permitted to answer: from then on the answer is owed.      *)
(*                                                                         *)
(* SearchLifecycle.tla implements this specification.                      *)
(***************************************************************************)
EXTENDS Naturals

VARIABLES
  answered,    \* the bestmoves delivered so far
  permitted,   \* an answer may be delivered
  ended,       \* the search has been told to end
  silenced     \* the search must not answer any more

svars == <<answered, permitted, ended, silenced>>

SInit ==
  /\ answered = 0
  /\ permitted \in BOOLEAN
  /\ ended = FALSE
  /\ silenced = FALSE

(* A limit is reached while nobody may be answered yet. *)
End ==
  /\ ~ended
  /\ ended' = TRUE
  /\ UNCHANGED <<answered, permitted, silenced>>

(* `stop`: the search ends and may answer. *)
Permit ==
  /\ permitted' = TRUE
  /\ ended' = TRUE
  /\ UNCHANGED <<answered, silenced>>

(* The bestmove is delivered; reaching a limit and answering is one step. *)
Answer ==
  /\ permitted
  /\ ~silenced
  /\ answered = 0
  /\ answered' = 1
  /\ ended' = TRUE
  /\ UNCHANGED <<permitted, silenced>>

(* The search is abandoned, unless it already owes an answer. *)
Silence ==
  /\ answered = 0
  /\ ~(ended /\ permitted)
  /\ silenced' = TRUE
  /\ ended' = TRUE
  /\ UNCHANGED <<answered, permitted>>

SNext == End \/ Permit \/ Answer \/ Silence

SSafety == SInit /\ [][SNext]_svars

(* An owed answer is delivered. *)
SSpec == SSafety /\ WF_svars(ended /\ Answer)
=============================================================================
