------------------------------ MODULE MCEngine ------------------------------
EXTENDS Engine, MCEngineController, MCUciLoop, MCChessGame
(* What stoi() and stof() make of the words of the host. *)
AllNumbers ==
  FoldSet(LAMBDA n, f : (ToString(n) :> n) @@ f, <<>>, -5..25 \cup {30, 40, 43, 96, 100})
    @@ [s \in {"", "many"} |-> Invalid] @@ ("9999999999" :> OutOfRange)
(* One part is looked at, its nodes without what was freed. *)
PartsWithoutFreed == <<part, WithoutFreed, uciVars, gameVars>>
=============================================================================
