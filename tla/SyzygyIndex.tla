----------------------------- MODULE SyzygyIndex -----------------------------
(***************************************************************************)
(* How a position becomes an index of a Syzygy table (syzygy/syzygy.cc):   *)
(* the tables of squares, the layout of a table as its header gives it,    *)
(* the encoding of a placement, and the choice of table and side.          *)
(*                                                                         *)
(* The constant tables are given by the rule that generates them.  Pieces  *)
(* are numbered as in the source: 1..6 white pawn to king, 9..14 black.    *)
(* A material key is the function of piece counts itself: that the random  *)
(* sums of the source differ for different material is assumed.            *)
(***************************************************************************)
EXTENDS Integers, Sequences, FiniteSets, SequencesExt, FiniteSetsExt

Squares == 0..63
Rank(s) == s \div 8
File(s) == s % 8
MirrorFile(s) == 8 * Rank(s) + (7 - File(s))
MirrorRank(s) == 8 * (7 - Rank(s)) + File(s)
kFlipDiag(s) == 8 * File(s) + Rank(s)
Edge(f) == IF f <= 3 THEN f ELSE 7 - f     \* kFileToFile
Smaller(a, b) == IF a < b THEN a ELSE b
Larger(a, b) == IF a < b THEN b ELSE a
MapSeq(f(_), s) == [i \in DOMAIN s |-> f(s[i])]

kOffDiag(s) == IF Rank(s) = File(s) THEN 0 ELSE IF Rank(s) > File(s) THEN 1 ELSE -1

(* The ten squares up to symmetry: six off the diagonal, then four on it. *)
kTriangle(s) ==
  LET lo == Smaller(Edge(File(s)), Edge(Rank(s)))
      hi == Larger(Edge(File(s)), Edge(Rank(s)))
  IN IF lo = hi THEN 6 + lo ELSE (lo * (5 - lo)) \div 2 + hi - 1

kLower(s) ==
  LET lo == Smaller(Rank(s), File(s))
      hi == Larger(Rank(s), File(s))
  IN IF lo = hi THEN 28 + lo ELSE lo * 7 - (lo * (lo - 1)) \div 2 + hi - lo - 1

kDiag(s) == IF Rank(s) = File(s) THEN Rank(s)
            ELSE IF Rank(s) + File(s) = 7 THEN 8 + Rank(s) ELSE 0

FILE_ENC == "file"
RANK_ENC == "rank"
PIECE_ENC == "piece"
PawnSquares == 8..55
kFlap(enc, s) ==
  IF s \notin PawnSquares THEN 0
  ELSE IF enc = FILE_ENC THEN Edge(File(s)) * 6 + Rank(s) - 1
  ELSE (Rank(s) - 1) * 4 + Edge(File(s))
kPawnTwist(enc, s) ==
  LET right == IF File(s) > 3 THEN 1 ELSE 0
  IN IF s \notin PawnSquares THEN 0
     ELSE IF enc = FILE_ENC THEN 47 - 12 * Edge(File(s)) - 2 * (Rank(s) - 1) - right
     ELSE 47 - 8 * (Rank(s) - 1) - 2 * Edge(File(s)) - right

(* Two kings: the first on one of the ten squares, the second not next to  *)
(* it and, if the first is on the diagonal, not above it; the pairs with   *)
(* both on the diagonal come last.                                         *)
KingsApart(a, b) == Larger(Larger(File(a), File(b)) - Smaller(File(a), File(b)),
                           Larger(Rank(a), Rank(b)) - Smaller(Rank(a), Rank(b))) > 1
FirstKing == <<1, 2, 3, 10, 11, 19, 0, 9, 18, 27>>
KingPairs ==
  {<<kOffDiag(FirstKing[ts[1] + 1]) = 0 /\ kOffDiag(ts[2]) = 0, ts[1], ts[2]>> :
     ts \in {p \in (0..9) \X Squares :
        /\ KingsApart(FirstKing[p[1] + 1], p[2])
        /\ p[1] >= 6 => kOffDiag(p[2]) <= 0}}
PairNumber(p) == (IF p[1] THEN 640 ELSE 0) + 64 * p[2] + p[3]
KingNumbers == {PairNumber(p) : p \in KingPairs}
kKKIdx ==
  [ts \in (0..9) \X Squares |->
     LET both == ts[1] >= 6 /\ kOffDiag(ts[2]) = 0
         nr == PairNumber(<<both, ts[1], ts[2]>>)
     IN IF nr \in KingNumbers THEN Cardinality({x \in KingNumbers : x < nr}) ELSE -1]

-----------------------------------------------------------------------------
(* Ways to choose i of j; 0 if there are fewer. *)
Binomial[i \in Nat, j \in Int] == IF i = 0 THEN 1 ELSE (Binomial[i - 1, j - 1] * j) \div i
subfactor(k, n) == Binomial[k, n]

(* The pawn squares of the left half that share the factor of square nr j: *)
(* a file, or a rank.                                                      *)
PawnBlock(enc) == IF enc = FILE_ENC THEN 6 ELSE 4
PawnSquare(enc, j) == IF enc = FILE_ENC THEN (1 + (j % 6)) * 8 + j \div 6
                      ELSE (1 + (j \div 4)) * 8 + (j % 4)
PawnSum(enc, i, from, to) ==
  MapThenSumSet(LAMBDA j : Binomial[i, kPawnTwist(enc, PawnSquare(enc, j))], from..to - 1)
PawnIdx(enc, i, j) == PawnSum(enc, i, j - (j % PawnBlock(enc)), j)
PawnFactor(enc, i, t) == PawnSum(enc, i, t * PawnBlock(enc), (t + 1) * PawnBlock(enc))

-----------------------------------------------------------------------------
(* BaseEntry, as init_tb() makes it from the material. *)
W_PAWN == 1
B_PAWN == 9
Pieces == 1..6 \cup 9..14
Swapped(pc) == IF pc > 8 THEN pc - 8 ELSE pc + 8
Entry(pcs) ==
  LET w == pcs[W_PAWN]
      b == pcs[B_PAWN]
  IN [key |-> pcs,
      symmetric |-> \A pc \in Pieces : pcs[pc] = pcs[Swapped(pc)],
      num |-> MapThenSumSet(LAMBDA pc : pcs[pc], Pieces),
      hasPawns |-> w > 0 \/ b > 0,
      kk_enc |-> Cardinality({pc \in Pieces : pcs[pc] = 1}) = 2,
      pawns |-> IF b > 0 /\ (w = 0 \/ w > b) THEN <<b, w>> ELSE <<w, b>>]

(***************************************************************************)
(* init_enc_info.  The pieces of a header form groups: the leading pieces  *)
(* (two kings, three unique pieces, or the leading pawns), the pawns of    *)
(* the other colour, then runs of one piece.  order and order2 place the   *)
(* first two among the runs; a group's factor is the product of the sizes  *)
(* of the groups placed before it.                                         *)
(***************************************************************************)
Lead(be, enc) == IF enc # PIECE_ENC THEN be.pawns[1] ELSE IF be.kk_enc THEN 2 ELSE 3
MorePawns(be, enc) == enc # PIECE_ENC /\ be.pawns[2] > 0
Runs(pieces, k) ==
  LET starts == SetToSortSeq({i \in k + 1..Len(pieces) :
                                i = k + 1 \/ pieces[i] # pieces[i - 1]}, <)
  IN [r \in DOMAIN starts |->
        (IF r = Len(starts) THEN Len(pieces) + 1 ELSE starts[r + 1]) - starts[r]]
Groups(be, pieces, enc) ==
  LET first == <<Lead(be, enc)>> \o IF MorePawns(be, enc) THEN <<be.pawns[2]>> ELSE <<>>
  IN first \o Runs(pieces, FoldLeft(+, 0, first))

GroupSize(be, enc, t, norm, g) ==
  LET before == FoldLeft(+, 0, SubSeq(norm, 1, g - 1))
  IN IF g > 1 THEN subfactor(norm[g], (IF g = 2 /\ MorePawns(be, enc) THEN 48 ELSE 64) - before)
     ELSE IF enc # PIECE_ENC THEN PawnFactor(enc, norm[1] - 1, t)
     ELSE IF be.kk_enc THEN 462 ELSE 31332

Placed(be, enc, order, order2, g) ==
  LET fixed == IF MorePawns(be, enc) THEN <<order, order2>> ELSE <<order>>
      Open(i) == {x \in 0..i - 1 : \A f \in DOMAIN fixed : fixed[f] # x}
  IN IF g \in DOMAIN fixed THEN fixed[g]
     ELSE CHOOSE i \in 0..15 : i \in Open(i + 1) /\ Cardinality(Open(i)) = g - Len(fixed) - 1

init_enc_info(be, enc, t, header) ==
  LET norm == Groups(be, header.pieces, enc)
      at == [g \in DOMAIN norm |-> Placed(be, enc, header.order, header.order2, g)]
      size == [g \in DOMAIN norm |-> GroupSize(be, enc, t, norm, g)]
      Product(S) == FoldSet(LAMBDA g, f : f * size[g], 1, S)
  IN [pieces |-> header.pieces, norm |-> norm,
      factor |-> [g \in DOMAIN norm |-> Product({h \in DOMAIN norm : at[h] < at[g]})],
      size |-> Product(DOMAIN norm)]

-----------------------------------------------------------------------------
(* encode, first part: the leading piece goes to the left half, without    *)
(* pawns also to the lower half, and the first piece that is off the       *)
(* diagonal, if it is a leading one, below it.                             *)
Normalised(p, be, enc) ==
  LET a == IF File(p[1]) > 3 THEN MapSeq(MirrorFile, p) ELSE p
      b == IF enc = PIECE_ENC /\ Rank(a[1]) > 3 THEN MapSeq(MirrorRank, a) ELSE a
      off == {i \in DOMAIN b : kOffDiag(b[i]) # 0}
  IN IF enc = PIECE_ENC /\ off # {} /\ Min(off) <= Lead(be, enc) /\ kOffDiag(b[Min(off)]) > 0
     THEN MapSeq(kFlipDiag, b) ELSE b

(* Two kings, or three different pieces by how many are on the diagonal. *)
LeadingPieces(p, be) ==
  LET s1 == IF p[2] > p[1] THEN 1 ELSE 0
      s2 == (IF p[3] > p[1] THEN 1 ELSE 0) + (IF p[3] > p[2] THEN 1 ELSE 0)
      below == 6 * 63 * 62
  IN IF be.kk_enc THEN kKKIdx[<<kTriangle(p[1]), p[2]>>]
     ELSE IF kOffDiag(p[1]) # 0
     THEN kTriangle(p[1]) * 63 * 62 + (p[2] - s1) * 62 + (p[3] - s2)
     ELSE IF kOffDiag(p[2]) # 0
     THEN below + kDiag(p[1]) * 28 * 62 + kLower(p[2]) * 62 + p[3] - s2
     ELSE IF kOffDiag(p[3]) # 0
     THEN below + 4 * 28 * 62 + kDiag(p[1]) * 7 * 28 + (kDiag(p[2]) - s1) * 28 + kLower(p[3])
     ELSE below + 4 * 28 * 62 + 4 * 7 * 28 + kDiag(p[1]) * 7 * 6
          + (kDiag(p[2]) - s1) * 6 + (kDiag(p[3]) - s2)

(* The first pawn, then the others from the largest kPawnTwist down. *)
LeadingPawns(p, k, enc) ==
  LET twists == SetToSortSeq({kPawnTwist(enc, p[i]) : i \in 2..k}, >)
  IN PawnIdx(enc, k - 1, kFlap(enc, p[1]))
     + FoldLeft(+, 0, [i \in DOMAIN twists |-> Binomial[k - i, twists[i]]])

(* Like pieces among the squares that the pieces before them leave. *)
Skips(sq, taken) == Cardinality({x \in taken : x < sq})
LikePieces(S, taken, base) ==
  LET squares == SetToSortSeq(S, <)
  IN FoldLeft(+, 0, [i \in DOMAIN squares |->
       Binomial[i, squares[i] - Skips(squares[i], taken) - base]])

Members(p, from, count) == {p[i] : i \in from + 1..from + count}
GroupIndex(p, ei, be, enc, g) ==
  LET before == FoldLeft(+, 0, SubSeq(ei.norm, 1, g - 1))
  IN IF g > 1
     THEN LikePieces(Members(p, before, ei.norm[g]), Members(p, 0, before),
                     IF g = 2 /\ MorePawns(be, enc) THEN 8 ELSE 0)
     ELSE IF enc = PIECE_ENC THEN LeadingPieces(p, be) ELSE LeadingPawns(p, ei.norm[1], enc)

encode(squares, ei, be, enc) ==
  LET p == Normalised(squares, be, enc)
  IN FoldLeft(+, 0, [g \in DOMAIN ei.norm |-> GroupIndex(p, ei, be, enc, g) * ei.factor[g]])

-----------------------------------------------------------------------------
(***************************************************************************)
(* probe_table, from the position to the index.  pos.at gives the squares  *)
(* of every piece as White sees them; pos.black says who is to move.       *)
(* headers[bside][t] is the header of the table for a side and a file.     *)
(***************************************************************************)
Material(pos) == [pc \in Pieces |-> Cardinality(pos.at[pc])]
Flip(pos, be) == IF be.symmetric THEN pos.black ELSE Material(pos) # be.key
BSide(pos, be) == ~be.symmetric /\ (~pos.black = Flip(pos, be))

TurnedSquares(S, flip, pawns) == IF flip /\ pawns THEN {MirrorRank(s) : s \in S} ELSE S

fill_squares(pos, be, pieces, flip) ==
  LET Of(pc) == TurnedSquares(pos.at[IF flip THEN Swapped(pc) ELSE pc], flip, be.hasPawns)
      kinds == SelectSeq([i \in DOMAIN pieces |->
                            IF i > 1 /\ pieces[i] = pieces[i - 1] THEN 0 ELSE pieces[i]],
                         LAMBDA pc : pc # 0)
  IN FlattenSeq([i \in DOMAIN kinds |-> SetToSortSeq(Of(kinds[i]), <)])

(* leading_pawn: the first pawn with the smallest kFlap comes first. *)
leading_pawn(p, be, enc) ==
  LET k == be.pawns[1]
      first == CHOOSE i \in 1..k : \A j \in 1..k :
                 kFlap(enc, p[i]) < kFlap(enc, p[j]) \/ (kFlap(enc, p[i]) = kFlap(enc, p[j]) /\ i <= j)
  IN [p EXCEPT ![1] = p[first], ![first] = p[1]]
TableOf(p, be, enc) ==
  IF ~be.hasPawns THEN 0 ELSE IF enc = FILE_ENC THEN Edge(File(p[1])) ELSE Rank(p[1]) - 1

IndexOf(pos, be, enc, headers) ==
  LET flip == Flip(pos, be)
      bside == BSide(pos, be)
      pieces == headers[bside].pieces
      squares == fill_squares(pos, be, pieces, flip)
      p == IF be.hasPawns THEN leading_pawn(squares, be, enc) ELSE squares
      t == TableOf(p, be, enc)
      ei == init_enc_info(be, enc, t, headers[bside])
  IN [bside |-> bside, table |-> t, index |-> encode(p, ei, be, enc), size |-> ei.size]

-----------------------------------------------------------------------------
(* What two positions of one table entry have in common: the colours may   *)
(* be exchanged with the board turned; the board may be mirrored left to   *)
(* right and, without pawns, in every other way.                           *)
OtherColours(pos) ==
  [at |-> [pc \in Pieces |-> {MirrorRank(s) : s \in pos.at[Swapped(pc)]}], black |-> ~pos.black]
Image(f(_), pos) == [pos EXCEPT !.at = [pc \in Pieces |-> {f(s) : s \in @[pc]}]]
Images(pos, pawns) ==
  LET files == {pos, Image(MirrorFile, pos)}
      ranks == files \cup {Image(MirrorRank, q) : q \in files}
  IN IF pawns THEN files ELSE ranks \cup {Image(kFlipDiag, q) : q \in ranks}
Alike(pos, pawns) == Images(pos, pawns) \cup Images(OtherColours(pos), pawns)

Placements(pcs, squares) ==   \* squares[pc]: where pieces pc may stand
  LET Free(at) == Squares \ UNION {at[pc] : pc \in Pieces}
      Add(ats, pc) == UNION {{[at EXCEPT ![pc] = S] : S \in kSubset(pcs[pc], squares[pc] \cap Free(at))}
                             : at \in ats}
      placed == FoldSet(LAMBDA pc, ats : Add(ats, pc), {[pc \in Pieces |-> {}]}, Pieces)
      Apart(at) == \A a \in at[6], b \in at[14] : KingsApart(a, b)
  IN [at : {at \in placed : Apart(at)}, black : BOOLEAN]
=============================================================================
