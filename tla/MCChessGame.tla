---------------------------- MODULE MCChessGame ----------------------------
(* Small positions in which the special cases of the move generator meet: *)
(* each is listed with the FEN it stands for and a bound on the plies.    *)
EXTENDS Integers, TLC

LOCAL On(piece, S) == [s \in S |-> piece]
LOCAL Fen(pieces, black, castlings, ep, quiet, moves) ==
  [pieces |-> pieces, black_to_move |-> black, castlings |-> castlings,
   en_passant |-> ep, no_capture_ply |-> quiet, moves |-> moves]

(* 8/2p5/3p4/KP5r/1R3p1k/8/4P1P1/8 w - - 1 1 *)
PinsAndEnPassant ==
  Fen(On("p", {29, 43, 50})
       @@ On("K", {32})
       @@ On("P", {12, 14, 33})
       @@ On("r", {39})
       @@ On("R", {25})
       @@ On("k", {31}),
      FALSE, {}, -1, 1, 1)
(* r3k2r/8/8/8/8/8/8/R3K2R w KQkq - 0 1 *)
Castlings ==
  Fen(On("r", {56, 63})
       @@ On("k", {60})
       @@ On("R", {0, 7})
       @@ On("K", {4}),
      FALSE, {"K", "Q", "k", "q"}, -1, 0, 1)
(* n1n5/PPPk4/8/8/8/8/4Kppp/5N1N b - - 0 1 *)
PromotionRace ==
  Fen(On("n", {56, 58})
       @@ On("P", {48, 49, 50})
       @@ On("k", {51})
       @@ On("K", {12})
       @@ On("p", {13, 14, 15})
       @@ On("N", {5, 7}),
      TRUE, {}, -1, 0, 1)
(* k1b5/1p1p4/1P1P4/6p1/8/1p1p2P1/1P1P4/K1B5 w - - 94 60: the kings go to *)
(* and fro, and one of two pawns may move once.                             *)
LockedKings ==
  Fen(On("k", {56})
       @@ On("b", {58})
       @@ On("p", {49, 51, 38, 17, 19})
       @@ On("P", {41, 43, 9, 11, 22})
       @@ On("K", {0})
       @@ On("B", {2}),
      FALSE, {}, -1, 94, 60)
(* 7k/8/5KQ1/8/8/8/8/8 w - - 99 225 *)
MateOrFifty ==
  Fen(On("k", {63})
       @@ On("K", {45})
       @@ On("Q", {46}),
      FALSE, {}, -1, 99, 225)
(* 4k3/4p3/8/8/4N3/8/8/4R2K w - - 0 1 *)
DoubleCheck ==
  Fen(On("k", {60})
       @@ On("p", {52})
       @@ On("N", {28})
       @@ On("R", {4})
       @@ On("K", {7}),
      FALSE, {}, -1, 0, 1)
(* 8/8/8/3bk3/8/5p2/2K3B1/8 w - - 0 1 *)
BishopsOnly ==
  Fen(On("b", {35})
       @@ On("k", {36})
       @@ On("p", {21})
       @@ On("K", {10})
       @@ On("B", {14}),
      FALSE, {}, -1, 0, 1)
(* 8/8/8/8/1pP5/8/8/k6K b - c3 0 5 *)
EnPassantAtRoot ==
  Fen(On("p", {25})
       @@ On("P", {26})
       @@ On("k", {0})
       @@ On("K", {7}),
      TRUE, {}, 18, 0, 5)
(* rnbqkbnr/pppppppp/8/8/8/8/PPPPPPPP/RNBQKBNR w KQkq - 0 1 *)
StartPosition ==
  Fen(On("r", {56, 63})
       @@ On("n", {57, 62})
       @@ On("b", {58, 61})
       @@ On("q", {59})
       @@ On("k", {60})
       @@ On("p", {48, 49, 50, 51, 52, 53, 54, 55})
       @@ On("P", {8, 9, 10, 11, 12, 13, 14, 15})
       @@ On("R", {0, 7})
       @@ On("N", {1, 6})
       @@ On("B", {2, 5})
       @@ On("Q", {3})
       @@ On("K", {4}),
      FALSE, {"K", "Q", "k", "q"}, -1, 0, 1)

MCOpenings ==
  {[fen |-> PinsAndEnPassant, plies |-> 2],
   [fen |-> Castlings, plies |-> 2],
   [fen |-> PromotionRace, plies |-> 2],
   [fen |-> LockedKings, plies |-> 14],
   [fen |-> MateOrFifty, plies |-> 2],
   [fen |-> DoubleCheck, plies |-> 2],
   [fen |-> BishopsOnly, plies |-> 2],
   [fen |-> EnPassantAtRoot, plies |-> 2],
   [fen |-> StartPosition, plies |-> 1]}
=============================================================================
