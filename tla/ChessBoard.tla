----------------------------- MODULE ChessBoard -----------------------------
(***************************************************************************)
(* The board of chess/board.h, chess/board.cc and chess/bitboard.h: sets   *)
(* of squares seen by the player to move ("ours" always plays upwards),    *)
(* attack tables, move generation, application of a move, legality.        *)
(* A BitBoard is a set of squares 0..63.                                   *)
(***************************************************************************)
EXTENDS Integers, FiniteSets

Squares == 0..63
Row(s) == s \div 8
Col(s) == s % 8
Square(row, col) == row * 8 + col
IsValid(row, col) == row \in 0..7 /\ col \in 0..7

(* BoardSquare::Mirror, BitBoard::Mirror. *)
MirrorSquare(s) == Square(7 - Row(s), Col(s))
MirrorSet(S) == {MirrorSquare(s) : s \in S}

kRookDirections == {<<1, 0>>, <<-1, 0>>, <<0, 1>>, <<0, -1>>}
kBishopDirections == {<<1, 1>>, <<-1, 1>>, <<1, -1>>, <<-1, -1>>}
Directions == kRookDirections \cup kBishopDirections

(* The squares met when walking from s in direction d to the border. *)
Ray == [s \in Squares |-> [d \in Directions |->
          {Square(Row(s) + n * d[1], Col(s) + n * d[2]) :
             n \in {k \in 1..7 : IsValid(Row(s) + k * d[1], Col(s) + k * d[2])}}]]

(* The squares a walk from s passes before it reaches t. *)
Between == [s \in Squares |-> [t \in Squares |->
              UNION {{u \in Ray[s][d] : t \in Ray[u][d]} :
                       d \in {e \in Directions : t \in Ray[s][e]}}]]

Leaps(s, jumps) == {Square(Row(s) + j[1], Col(s) + j[2]) :
                      j \in {k \in jumps : IsValid(Row(s) + k[1], Col(s) + k[2])}}

kKingMoves == {<<-1, -1>>, <<-1, 0>>, <<-1, 1>>, <<0, -1>>,
               <<0, 1>>, <<1, -1>>, <<1, 0>>, <<1, 1>>}
KnightJumps == {<<i, j>> \in {-2, -1, 1, 2} \X {-2, -1, 1, 2} : i * i # j * j}

kRookAttacks == [s \in Squares |-> UNION {Ray[s][d] : d \in kRookDirections}]
kBishopAttacks == [s \in Squares |-> UNION {Ray[s][d] : d \in kBishopDirections}]
kKnightAttacks == [s \in Squares |-> Leaps(s, KnightJumps)]
(* Squares of the enemy pawns that attack s; none for the last two ranks. *)
kPawnAttacks == [s \in Squares |->
                   IF Row(s) < 6 THEN Leaps(s, {<<1, -1>>, <<1, 1>>}) ELSE {}]
kPawnMask == 8..55

k00Attackers == {4, 5, 6}
k000Attackers == {2, 3, 4}

-----------------------------------------------------------------------------
(***************************************************************************)
(* BuildAttacksTable: a table indexed by the occupancy of the relevant     *)
(* squares, which leave out the last square of every direction.            *)
(***************************************************************************)
Mask(s, directions) == UNION {{t \in Ray[s][d] : Ray[t][d] # {}} : d \in directions}
RookMask == [s \in Squares |-> Mask(s, kRookDirections)]
BishopMask == [s \in Squares |-> Mask(s, kBishopDirections)]

AttacksTable(lines, s, occupancy) == {t \in lines[s] : Between[s][t] \cap occupancy = {}}

GetRookAttacks(s, pieces) == AttacksTable(kRookAttacks, s, pieces \cap RookMask[s])
GetBishopAttacks(s, pieces) == AttacksTable(kBishopAttacks, s, pieces \cap BishopMask[s])

-----------------------------------------------------------------------------
(***************************************************************************)
(* A board is a record with the fields of ChessBoard.  Pawns on the first  *)
(* and the last rank are the "fake" pawns of en passant.                   *)
(***************************************************************************)
OurRights == {"we_00", "we_000"}
TheirRights == {"they_00", "they_000"}
RookHome == [we_00 |-> 7, we_000 |-> 0, they_00 |-> 63, they_000 |-> 56]
OtherSide == [we_00 |-> "they_00", we_000 |-> "they_000",
              they_00 |-> "we_00", they_000 |-> "we_000"]

Mirror(b) ==
  [ours |-> MirrorSet(b.theirs), theirs |-> MirrorSet(b.ours),
   rooks |-> MirrorSet(b.rooks), bishops |-> MirrorSet(b.bishops),
   pawns |-> MirrorSet(b.pawns),
   our_king |-> MirrorSquare(b.their_king), their_king |-> MirrorSquare(b.our_king),
   castlings |-> {OtherSide[c] : c \in b.castlings},
   flipped |-> ~b.flipped]

RealPawns(b) == b.pawns \cap kPawnMask
EnPassant(b) == b.pawns \ RealPawns(b)
Occupied(b) == b.ours \cup b.theirs
TheirKnights(b) ==
  b.theirs \ ({b.their_king} \cup b.rooks \cup b.bishops \cup RealPawns(b))
OurKnights(b) == b.ours \ ({b.our_king} \cup b.rooks \cup b.bishops \cup RealPawns(b))

(* ChessBoard::IsUnderAttack: is the square attacked by "theirs"? *)
IsUnderAttack(b, s) ==
  \/ /\ Row(b.their_king) - Row(s) \in -1..1
     /\ Col(b.their_king) - Col(s) \in -1..1
  \/ GetRookAttacks(s, Occupied(b)) \cap b.theirs \cap b.rooks # {}
  \/ GetBishopAttacks(s, Occupied(b)) \cap b.theirs \cap b.bishops # {}
  \/ kPawnAttacks[s] \cap b.theirs \cap b.pawns # {}
  \/ kKnightAttacks[s] \cap TheirKnights(b) # {}

IsUnderCheck(b) == IsUnderAttack(b, b.our_king)

-----------------------------------------------------------------------------
kPromotions == {"Queen", "Rook", "Bishop", "Knight"}
Move(from, to) == [from |-> from, to |-> to, promotion |-> "None", castling |-> FALSE]
MovesFrom(from, S) == {Move(from, to) : to \in S}
Promotions(from, S) ==
  {[Move(from, to) EXCEPT !.promotion = p] : to \in S, p \in kPromotions}

CanCastle(b, right, free, quiet) ==
  /\ right \in b.castlings
  /\ free \cap Occupied(b) = {}
  /\ \A s \in quiet : ~IsUnderAttack(b, s)

CastlingTargets(b) ==
  {t \in {6, 2} : \/ t = 6 /\ CanCastle(b, "we_00", 5..6, k00Attackers)
                  \/ t = 2 /\ CanCastle(b, "we_000", 1..3, k000Attackers)}

KingMoves(b) ==
  MovesFrom(b.our_king, {s \in Leaps(b.our_king, kKingMoves) :
                       s \notin b.ours /\ ~IsUnderAttack(b, s)})
  \cup {[Move(b.our_king, t) EXCEPT !.castling = TRUE] : t \in CastlingTargets(b)}

PawnTargets(b, s) ==
  LET one == s + 8
      forward == {t \in {one, one + 8} : /\ one \notin Occupied(b)
                                         /\ t # one => Row(one) = 2 /\ t \notin Occupied(b)}
      captures == {t \in Leaps(s, {<<1, -1>>, <<1, 1>>}) :
                     t \in b.theirs \/ (Row(t) = 5 /\ Square(7, Col(t)) \in b.pawns)}
  IN forward \cup captures

PieceMoves(b, s) ==
  IF s \in b.rooks \cup b.bishops
  THEN MovesFrom(s, ((IF s \in b.rooks THEN GetRookAttacks(s, Occupied(b)) ELSE {})
                 \cup (IF s \in b.bishops THEN GetBishopAttacks(s, Occupied(b)) ELSE {}))
                \ b.ours)
  ELSE IF s \in RealPawns(b)
  THEN IF Row(s) = 6 THEN Promotions(s, PawnTargets(b, s)) ELSE MovesFrom(s, PawnTargets(b, s))
  ELSE MovesFrom(s, kKnightAttacks[s] \ b.ours)

GeneratePseudolegalMoves(b) ==
  KingMoves(b) \cup UNION {PieceMoves(b, s) : s \in b.ours \ {b.our_king}}

-----------------------------------------------------------------------------
IsEnPassantCapture(b, m) ==
  /\ Row(m.from) = 4 /\ m.from \in b.pawns
  /\ Col(m.from) # Col(m.to)
  /\ Square(7, Col(m.to)) \in b.pawns

(* The rights of one side after a piece left or reached a corner.          *)
RightsKept(castlings, rights, s) == {c \in castlings : c \in rights => RookHome[c] # s}

(* A double step sets the flag when an enemy pawn could take in passing.   *)
(* Mutant: it is set by every double step.                                 *)
EveryStepLeavesFlag(from, to, theirs, pawns) == from \in pawns /\ Row(to) - Row(from) = 2
LeavesEnPassantFlag(from, to, theirs, pawns) ==
  /\ from \in pawns /\ Row(to) - Row(from) = 2
  /\ kPawnAttacks[to - 8] \cap theirs \cap pawns # {}

(***************************************************************************)
(* ChessBoard::ApplyMove: the new board, and whether the move resets the   *)
(* counter of moves without capture or pawn move.                          *)
(***************************************************************************)
ApplyMove(b, m) ==
  LET from == m.from
      to == m.to
      passed == IF IsEnPassantCapture(b, m) THEN {Square(4, Col(to))} ELSE {}
      pawns == (b.pawns \ ({to} \cup passed)) \cap kPawnMask
      theirs == b.theirs \ ({to} \cup passed)
      reset == to \in b.theirs \/ from \in pawns
      b1 == [b EXCEPT !.ours = (@ \ {from}) \cup {to}, !.theirs = theirs,
                      !.rooks = @ \ {to}, !.bishops = @ \ {to}, !.pawns = pawns,
                      !.castlings = RightsKept(@, TheirRights, to)]
      Castled(corner, home) ==
        [b1 EXCEPT !.ours = (@ \ {corner}) \cup {home}, !.rooks = (@ \ {corner}) \cup {home}]
      king == IF Col(to) - Col(from) > 1 THEN Castled(7, 5)
              ELSE IF Col(from) - Col(to) > 1 THEN Castled(0, 3) ELSE b1
      Carried(S) == IF from \in S THEN (S \ {from}) \cup {to} ELSE S
      ordinary ==
        [b1 EXCEPT !.castlings = RightsKept(@, OurRights, from),
                   !.rooks = Carried(@), !.bishops = Carried(@),
                   !.pawns = Carried(@) \cup
                             (IF LeavesEnPassantFlag(from, to, theirs, pawns)
                              THEN {Square(0, Col(to))} ELSE {})]
  IN IF from = b.our_king
     THEN [board |-> [king EXCEPT !.our_king = to, !.castlings = @ \ OurRights],
           reset |-> reset]
     ELSE IF m.promotion # "None"
     THEN [board |-> [b1 EXCEPT
             !.rooks = IF m.promotion \in {"Rook", "Queen"} THEN @ \cup {to} ELSE @,
             !.bishops = IF m.promotion \in {"Bishop", "Queen"} THEN @ \cup {to} ELSE @,
             !.pawns = @ \ {from}],
           reset |-> TRUE]
     ELSE [board |-> ordinary, reset |-> reset]

-----------------------------------------------------------------------------
(***************************************************************************)
(* GenerateKingAttackInfo: the walks from our king.  A slider with none of *)
(* our pieces in between gives check along an attack line, with one of     *)
(* ours in between it pins that piece.                                     *)
(***************************************************************************)
SlidersBehindOurs(b, lines, sliders, n) ==
  {s \in lines[b.our_king] \cap b.theirs \cap sliders :
     /\ Between[b.our_king][s] \cap b.theirs = {}
     /\ Cardinality(Between[b.our_king][s] \cap b.ours) = n}
Sliders(b, n) == SlidersBehindOurs(b, kRookAttacks, b.rooks, n)
                 \cup SlidersBehindOurs(b, kBishopAttacks, b.bishops, n)

NumKingAttackers(b) ==
  Cardinality(Sliders(b, 0))
  + (IF kPawnAttacks[b.our_king] \cap b.theirs \cap b.pawns # {} THEN 1 ELSE 0)
  + (IF kKnightAttacks[b.our_king] \cap TheirKnights(b) # {} THEN 1 ELSE 0)

GenerateKingAttackInfo(b) ==
  [double_check |-> NumKingAttackers(b) = 2,
   pinned_pieces |-> UNION {Between[b.our_king][s] \cap b.ours : s \in Sliders(b, 1)},
   attack_lines |-> UNION {{s} \cup Between[b.our_king][s] : s \in Sliders(b, 0)}
                    \cup (kPawnAttacks[b.our_king] \cap b.theirs \cap b.pawns)
                    \cup (kKnightAttacks[b.our_king] \cap TheirKnights(b))]

(* A pinned piece has to stay on the line through the king. *)
StaysOnLine(b, m) ==
  LET dx_from == Col(m.from) - Col(b.our_king)
      dy_from == Row(m.from) - Row(b.our_king)
      dx_to == Col(m.to) - Col(b.our_king)
      dy_to == Row(m.to) - Row(b.our_king)
  IN IF dx_from = 0 \/ dx_to = 0 THEN dx_from = dx_to ELSE dx_from * dy_to = dx_to * dy_from

(* Mutant: a pawn that takes in passing is treated like any other piece.   *)
AppliedToDecideNoEnPassant(b, m, info) == info.attack_lines # {} /\ m.from = b.our_king
AppliedToDecide(b, m, info) ==
  IsEnPassantCapture(b, m) \/ (info.attack_lines # {} /\ m.from = b.our_king)

IsLegalMove(b, m, info) ==
  IF AppliedToDecide(b, m, info)
  THEN ~IsUnderCheck(ApplyMove(b, m).board)
  ELSE IF info.attack_lines # {}
  THEN m.from \notin info.pinned_pieces /\ ~info.double_check /\ m.to \in info.attack_lines
  ELSE m.from = b.our_king \/ m.from \notin info.pinned_pieces \/ StaysOnLine(b, m)

GenerateLegalMoves(b) ==
  LET info == GenerateKingAttackInfo(b)
  IN {m \in GeneratePseudolegalMoves(b) : IsLegalMove(b, m, info)}

-----------------------------------------------------------------------------
HasMatingMaterial(b) ==
  LET light == {s \in Squares : (Row(s) + Col(s)) % 2 = 1}
  IN \/ b.rooks # {} \/ b.pawns # {}
     \/ /\ Cardinality(Occupied(b)) >= 4
        /\ \/ OurKnights(b) \cup TheirKnights(b) # {}
           \/ b.bishops \cap light # {} /\ b.bishops \ light # {}

(***************************************************************************)
(* SetFromFen.  A FEN says which piece stands where (upper case: white),   *)
(* who moves, the castling rights, the en passant square (or none) and the *)
(* two counters.                                                           *)
(***************************************************************************)
NoSquare == -1
Letters == [K |-> "we_00", Q |-> "we_000", k |-> "they_00", q |-> "they_000"]
WhitePieces == {"K", "Q", "R", "B", "N", "P"}
SetFromFen(fen) ==
  LET At(pieces) == {s \in DOMAIN fen.pieces : fen.pieces[s] \in pieces}
      white == At(WhitePieces)
      b == [ours |-> white, theirs |-> DOMAIN fen.pieces \ white,
            rooks |-> At({"R", "r", "Q", "q"}), bishops |-> At({"B", "b", "Q", "q"}),
            pawns |-> At({"P", "p"}) \cup
              (IF fen.en_passant = NoSquare THEN {}
               ELSE {Square(IF Row(fen.en_passant) = 2 THEN 0 ELSE 7, Col(fen.en_passant))}),
            our_king |-> CHOOSE s \in At({"K"}) : TRUE,
            their_king |-> CHOOSE s \in At({"k"}) : TRUE,
            castlings |-> {Letters[c] : c \in fen.castlings},
            flipped |-> FALSE]
  IN IF fen.black_to_move THEN Mirror(b) ELSE b

-----------------------------------------------------------------------------
(***************************************************************************)
(* Move::as_nn_index.  kIdxToMove lists the moves of a queen or a knight   *)
(* and the promotions other than to a knight; a packed move that is not    *)
(* in the table gets index 0, the entry of a1b1.  The index is represented *)
(* by its entry.                                                           *)
(***************************************************************************)
Packed(from, to, promotion) ==
  [from |-> from, to |-> to, promotion |-> IF promotion = "Knight" THEN "None" ELSE promotion]

IsInTable(p) ==
  \/ /\ p.promotion = "None"
     /\ p.to \in kRookAttacks[p.from] \cup kBishopAttacks[p.from] \cup kKnightAttacks[p.from]
  \/ /\ p.promotion \in {"Queen", "Rook", "Bishop"}
     /\ Row(p.from) = 6 /\ p.to \in Leaps(p.from, {<<1, -1>>, <<1, 0>>, <<1, 1>>})

kKingCastleIndex == Packed(4, 7, "None")
kQueenCastleIndex == Packed(4, 0, "None")
FirstIndex == Packed(0, 1, "None")

AsPackedInt(m) == Packed(m.from, m.to, m.promotion)
AsNNIndex(m) ==
  IF m.castling
  THEN IF Col(m.from) < Col(m.to) THEN kKingCastleIndex ELSE kQueenCastleIndex
  ELSE IF IsInTable(AsPackedInt(m)) THEN AsPackedInt(m) ELSE FirstIndex
=============================================================================
