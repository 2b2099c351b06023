------------------------- MODULE MCEngineController -------------------------
EXTENDS EngineController, TLC
CONSTANTS e4, d4, f1, f2
Symmetric == Permutations(Addresses)
(* The host goes forward, back, to another line and to another game. *)
HostPositions ==
  {[fen |-> f1, moves |-> ms] : ms \in {<<>>, <<e4, d4>>, <<d4>>}}
    \cup {[fen |-> f2, moves |-> <<>>]}
(* What freed memory holds is never read: a node is blank when its address *)
(* is used again.                                                          *)
WithoutFreed ==
  <<[x \in InTree |-> mem[x]], root, head, history, gc, engine, options, search, uci, commands>>
=============================================================================
