------------------------------ MODULE MCSyzygy ------------------------------
EXTENDS Syzygy, TLC

(* Tables: two keys of A and one of B share slots; the DTZ file of A is bad. *)
CONSTANTS A, B
MCKeysOf == (A :> <<"a", "a2">>) @@ (B :> <<"b">>)
MCMaterials == <<A, B>>
MCHome == [k \in {"a", "a2", "b", "c"} |-> IF k = "a2" THEN 2 ELSE 1]
MCBad == {<<A, "dtz">>}

(* Layouts: three different pieces, two like pieces beside the kings, one  *)
(* and two pawns, pawns of both colours, and symmetric material.           *)
LOCAL Of(f, default) == f @@ [pc \in Pieces |-> default]
LOCAL Kings == (6 :> 1) @@ (14 :> 1)
LOCAL Header(pieces, order, order2) == [pieces |-> pieces, order |-> order, order2 |-> order2]
LOCAL Layout(counts, enc, white, black, squares) ==
  [material |-> Of(counts @@ Kings, 0), enc |-> enc, headers |-> (FALSE :> white) @@ (TRUE :> black),
   squares |-> Of(squares, {})]
LOCAL Corner == {0, 2, 9, 10, 18, 27}
LOCAL Around == {7, 14, 28, 35, 49, 54, 56, 63}
LOCAL Mixed == {1, 8, 9, 21, 36, 42, 62}
LOCAL Pawns == {9, 14, 27, 33, 46, 48, 55}
MCLayouts ==
  {Layout(4 :> 1, PIECE_ENC, Header(<<6, 4, 14>>, 0, 15), Header(<<4, 14, 6>>, 0, 15),
          (6 :> Corner) @@ (14 :> Around) @@ (4 :> Mixed)),
   Layout(2 :> 2, PIECE_ENC, Header(<<6, 14, 2, 2>>, 0, 15), Header(<<14, 6, 2, 2>>, 1, 15),
          (6 :> {0, 9, 29}) @@ (14 :> {7, 18, 40, 63}) @@ (2 :> Mixed)),
   Layout((4 :> 1) @@ (12 :> 1), PIECE_ENC, Header(<<6, 4, 14, 12>>, 1, 15),
          Header(<<6, 4, 14, 12>>, 0, 15),
          (6 :> {0, 29, 48}) @@ (14 :> {18, 63}) @@ (4 :> Mixed) @@ (12 :> Around)),
   Layout(1 :> 1, RANK_ENC, Header(<<1, 6, 14>>, 2, 15), Header(<<1, 14, 6>>, 0, 15),
          (6 :> Corner) @@ (14 :> Around) @@ (1 :> Pawns)),
   Layout(1 :> 2, FILE_ENC, Header(<<1, 1, 6, 14>>, 1, 15), Header(<<1, 1, 14, 6>>, 0, 15),
          (6 :> {0, 29, 41}) @@ (14 :> {7, 44, 56}) @@ (1 :> Pawns)),
   Layout((1 :> 1) @@ (9 :> 1), FILE_ENC, Header(<<1, 9, 6, 14>>, 2, 0),
          Header(<<1, 9, 14, 6>>, 0, 1),
          (6 :> {0, 29, 41}) @@ (14 :> {7, 44, 56}) @@ (1 :> Pawns) @@ (9 :> Pawns))}

(* Contents: long blocks, and short ones that a step of the index skips. *)
MCPattern == (0 :> <<1, 2>>) @@ (1 :> <<"a">>) @@ (2 :> <<"b">>) @@ (3 :> <<0, 0>>)
MCCodeLengths == (0 :> 3) @@ (1 :> 3) @@ (2 :> 2) @@ (3 :> 1)
LOCAL Symbol == 0..3
MCContents ==
  {[blocks |-> bs, idxBits |-> i] : bs \in [1..3 -> [1..1 -> Symbol]], i \in {1, 3}}
  \cup {[blocks |-> <<b, c>>, idxBits |-> i] :
          b \in [1..3 -> Symbol], c \in [1..2 -> Symbol] \cup {<<3, 3, 0>>}, i \in {2, 4}}

(* Games of three positions: every way to move between them, with at most  *)
(* one zeroing move of each kind, and all plies halved in the tables.      *)
CONSTANTS w1, w2, w3, b1, b2
LOCAL Z(capture, wdl, known) == [capture |-> capture, wdl |-> wdl, known |-> known]
LOCAL Few == {<<>>, <<Z(TRUE, 0, TRUE)>>, <<Z(FALSE, -1, TRUE)>>, <<Z(TRUE, 2, FALSE)>>}
LOCAL Many == Few \cup {<<Z(TRUE, -2, TRUE)>>, <<Z(FALSE, -2, TRUE)>>,
                       <<Z(TRUE, 2, TRUE), Z(FALSE, -2, TRUE)>>}
LOCAL GamesOf(hasDtz, zs1, zs2) ==
  UNION {{[quiet |-> q @@ (w3 :> {}) @@ (b2 :> {}), zeroing |-> z @@ (w3 :> <<>>) @@ (b2 :> <<>>),
           check |-> c, stored |-> s, plies |-> {}, hasDtz |-> hasDtz] :
            c \in SUBSET {p \in {w1, w2, b1} : q[p] = {} /\ z[p] = <<>>}, s \in {"white", "black"}} :
         q \in {(w1 :> x) @@ (w2 :> y) @@ (b1 :> v) :
                  x \in SUBSET {b1}, y \in SUBSET {b1}, v \in SUBSET {w1, w2}},
         z \in {(w1 :> x) @@ (w2 :> y) @@ (b1 :> v) : x \in zs1, y \in zs1, v \in zs2}}

(* Games of five in a line, with ways back: wins of up to five plies, on   *)
(* the edge of the rule and across it, in tables that count plies or moves.*)
LOCAL Lines ==
  {[quiet |-> (w1 :> x) @@ (b1 :> {w1} \cup u) @@ (w2 :> {b1} \cup y)
              @@ (b2 :> {w2} \cup v) @@ (w3 :> {b2} \cup z),
    zeroing |-> (w1 :> <<Z(FALSE, won, TRUE)>>) @@ (b2 :> zs)
                @@ [p \in {b1, w2, w3} |-> <<>>],
    check |-> {}, stored |-> s, plies |-> ps, hasDtz |-> TRUE] :
     x \in {{}, {b2}}, u \in {{}, {w2}}, y \in {{}, {b2}}, v \in {{}, {w1}, {w3}}, z \in {{}, {b1}},
     won \in {-2, -1}, zs \in {<<>>, <<Z(TRUE, 2, TRUE)>>, <<Z(FALSE, 1, TRUE)>>},
     s \in {"white", "black"}, ps \in SUBSET {-2, 2}}

MCGames == GamesOf(TRUE, Many, Few) \cup GamesOf(FALSE, Few, {<<>>}) \cup Lines
=============================================================================
