------------------------------ MODULE ChessGame ------------------------------
(***************************************************************************)
(* The history of a game (chess/position.h, chess/position.cc) over the    *)
(* board of ChessBoard, and what the network is shown of it                *)
(* (neural/encoder.cc).  It implements the rules of chess (ChessRules).    *)
(***************************************************************************)
EXTENDS ChessBoard, Sequences, FiniteSetsExt

CONSTANT Openings   \* FENs to start from, each with a bound on the plies played

OpeningsAssumption ==
  /\ IsFiniteSet(Openings)
  /\ \A o \in Openings : DOMAIN o = {"fen", "plies"} /\ o.plies \in Nat

VARIABLES
  opening,     \* the FEN the game began with
  positions    \* PositionHistory::positions_

vars == <<opening, positions>>

(***************************************************************************)
(* Position: us_board_ and the counters.  them_board_ is its mirror.       *)
(***************************************************************************)
RootPosition(board, no_capture_ply, game_ply) ==
  [board |-> board, no_capture_ply |-> no_capture_ply, repetitions |-> 0, ply_count |-> game_ply]

NextPosition(parent, m) ==
  LET applied == ApplyMove(parent.board, m)
  IN [board |-> Mirror(applied.board),
      no_capture_ply |-> IF applied.reset THEN 0 ELSE parent.no_capture_ply + 1,
      repetitions |-> 0, ply_count |-> parent.ply_count + 1]

Last(history) == history[Len(history)]

(* PositionHistory::ComputeLastMoveRepetitions: search backwards in steps of *)
(* two plies until an equal board or an irreversible move.                   *)
CountWith(earlier) == 1 + earlier.repetitions
ComputeLastMoveRepetitions(history) ==
  LET n == Len(history)
      Scan[idx \in -1..n] ==
        IF idx < 1 THEN 0
        ELSE IF history[idx].board = history[n].board THEN CountWith(history[idx])
        ELSE IF history[idx].no_capture_ply < 2 THEN 0
        ELSE Scan[idx - 2]
  IN IF history[n].no_capture_ply < 4 THEN 0 ELSE Scan[n - 2]

Appended(history, m) ==
  LET longer == Append(history, NextPosition(Last(history), m))
  IN [longer EXCEPT ![Len(longer)].repetitions = ComputeLastMoveRepetitions(longer)]

DidRepeatSinceLastZeroingMove(history) ==
  \E i \in DOMAIN history :
    /\ history[i].repetitions > 0
    /\ \A j \in i + 1 .. Len(history) : history[j].no_capture_ply # 0

DrawnByCount(last) ==
  last.no_capture_ply >= 100 \/ last.ply_count >= 450 \/ last.repetitions >= 2
(* Mutant: a draw by count comes before mate. *)
ComputeGameResultDrawFirst(history) ==
  LET last == Last(history)
      b == last.board
  IN IF DrawnByCount(last) \/ ~HasMatingMaterial(b) THEN "DRAW"
     ELSE IF GenerateLegalMoves(b) # {} THEN "UNDECIDED"
     ELSE IF ~IsUnderCheck(b) THEN "DRAW" ELSE IF b.flipped THEN "WHITE_WON" ELSE "BLACK_WON"
ComputeGameResult(history) ==
  LET last == Last(history)
      b == last.board
  IN IF GenerateLegalMoves(b) = {}
     THEN IF ~IsUnderCheck(b) THEN "DRAW"
          ELSE IF b.flipped THEN "WHITE_WON" ELSE "BLACK_WON"
     ELSE IF DrawnByCount(last) \/ ~HasMatingMaterial(b) THEN "DRAW" ELSE "UNDECIDED"

-----------------------------------------------------------------------------
(***************************************************************************)
(* EncodePositionForNN: up to kMoveHistory boards, the last position first, *)
(* all seen by the player to move in the last one, and the auxiliary        *)
(* planes.  A plane is the set of its squares; no planes where the history  *)
(* is too short and is not filled up.                                       *)
(***************************************************************************)
kMoveHistory == 8
kStartposBoard ==
  SetFromFen([pieces |-> [s \in 0..15 \cup 48..63 |->
                CASE s \in 8..15 -> "P" [] s \in 48..55 -> "p"
                  [] s < 8 -> <<"R", "N", "B", "Q", "K", "B", "N", "R">>[s + 1]
                  [] OTHER -> <<"r", "n", "b", "q", "k", "b", "n", "r">>[s - 55]],
              castlings |-> {"K", "Q", "k", "q"}, en_passant |-> NoSquare,
              black_to_move |-> FALSE])

PiecePlanes(b, side, king) ==
  [pawn |-> side \cap RealPawns(b), knight |-> side \cap (OurKnights(b) \cup TheirKnights(b)),
   bishop |-> side \cap (b.bishops \ b.rooks), rook |-> side \cap (b.rooks \ b.bishops),
   queen |-> side \cap b.rooks \cap b.bishops, king |-> {king}]

(* A board that stands in for the past of the first position shows the     *)
(* pawn of an en passant flag before its double step.                      *)
UndoDoubleStep(planes, ep) ==
  IF ep = {} THEN planes
  ELSE LET c == Col(Min(ep)) IN
       IF Row(Min(ep)) = 0
       THEN [planes EXCEPT !.ours.pawn = (@ \ {Square(3, c)}) \cup {Square(1, c)}]
       ELSE [planes EXCEPT !.theirs.pawn = (@ \ {Square(4, c)}) \cup {Square(6, c)}]

(* How often the perspective was changed when board i is reached.          *)
(* Mutant: also before the first position.                                 *)
FlipsAlways(history, i) == i
Flips(history, i) == IF i < Len(history) THEN i ELSE Len(history) - 1

HistoryPlanes(history, i, fill) ==
  LET idx == Len(history) - i
      position == history[IF idx < 1 THEN 1 ELSE idx]
      b == IF Flips(history, i) % 2 = 1 THEN Mirror(position.board) ELSE position.board
      planes == [ours |-> PiecePlanes(b, b.ours, b.our_king),
                 theirs |-> PiecePlanes(b, b.theirs, b.their_king),
                 repeated |-> position.repetitions >= 1]
  IN IF idx >= 1 THEN {planes}
     ELSE IF fill = "NO" \/ (fill = "FEN_ONLY" /\ position.board = kStartposBoard) THEN {}
     ELSE {UndoDoubleStep(planes, EnPassant(b))}

EncodePositionForNN(history, history_planes, fill) ==
  LET last == Last(history) IN
  [boards |-> [i \in 0 .. Min({history_planes, kMoveHistory}) - 1 |->
                 HistoryPlanes(history, i, fill)],
   castlings |-> last.board.castlings, we_are_black |-> last.board.flipped,
   fifty |-> last.no_capture_ply]

-----------------------------------------------------------------------------
(* NodeTree::ResetToPosition counts the plies of the full moves of the FEN. *)
GamePly(fen) == fen.moves * 2 - (IF fen.black_to_move THEN 1 ELSE 2)

Init ==
  /\ opening \in Openings
  /\ positions = <<RootPosition(SetFromFen(opening.fen), opening.fen.no_capture_ply,
                                GamePly(opening.fen))>>

Play(m) ==
  /\ Len(positions) <= opening.plies
  /\ positions' = Appended(positions, m)
  /\ UNCHANGED opening

Next == \E m \in GenerateLegalMoves(Last(positions).board) : Play(m)
Spec == Init /\ [][Next]_vars

-----------------------------------------------------------------------------
(* The last position as the rules of chess see it: not turned round.       *)
Turned(b) == IF b.flipped THEN Mirror(b) ELSE b
PlacementOf(b) ==
  LET a == Turned(b)
      KindOf(s) == IF s \in {a.our_king, a.their_king} THEN "king"
                   ELSE IF s \in a.rooks \cap a.bishops THEN "queen"
                   ELSE IF s \in a.rooks THEN "rook"
                   ELSE IF s \in a.bishops THEN "bishop"
                   ELSE IF s \in a.pawns THEN "pawn" ELSE "knight"
  IN [s \in Occupied(a) |->
        [colour |-> IF s \in a.ours THEN "white" ELSE "black", kind |-> KindOf(s)]]
RightOf == [we_00 |-> <<"white", "short">>, we_000 |-> <<"white", "long">>,
            they_00 |-> <<"black", "short">>, they_000 |-> <<"black", "long">>]
PassedOf(b) ==
  LET ep == EnPassant(Turned(b))
  IN IF ep = {} THEN -1 ELSE IF Row(Min(ep)) = 0 THEN Min(ep) + 16 ELSE Min(ep) - 16
KindNamed == [None |-> "none", Queen |-> "queen", Rook |-> "rook",
              Bishop |-> "bishop", Knight |-> "knight"]
MoveOf(b, m) ==
  [from |-> IF b.flipped THEN MirrorSquare(m.from) ELSE m.from,
   to |-> IF b.flipped THEN MirrorSquare(m.to) ELSE m.to, promotion |-> KindNamed[m.promotion]]

Board == Last(positions).board
Rules == INSTANCE ChessRules WITH
  placement <- PlacementOf(Board),
  turn <- (IF Board.flipped THEN "black" ELSE "white"),
  rights <- {RightOf[c] : c \in Turned(Board).castlings},
  passed <- PassedOf(Board)

(***************************************************************************)
(* Every position of a game makes sense: the piece sets agree, a fake pawn *)
(* stands for a pawn that can still be taken, and who may still castle has *)
(* king and rook at home.                                                  *)
(***************************************************************************)
PieceSetsAgree ==
  LET b == Board
      king == [we_00 |-> b.our_king, we_000 |-> b.our_king,
               they_00 |-> b.their_king, they_000 |-> b.their_king]
      side == [we_00 |-> b.ours, we_000 |-> b.ours, they_00 |-> b.theirs, they_000 |-> b.theirs]
  IN /\ b.ours \cap b.theirs = {}
     /\ b.our_king \in b.ours /\ b.their_king \in b.theirs
     /\ b.rooks \cup b.bishops \cup RealPawns(b) \subseteq Occupied(b) \ {b.our_king, b.their_king}
     /\ RealPawns(b) \cap (b.rooks \cup b.bishops) = {}
     /\ \A s \in EnPassant(b) : /\ Row(s) = 7 /\ Square(4, Col(s)) \in b.theirs \cap b.pawns
                                /\ {s - 8, s - 16} \cap Occupied(b) = {}
     /\ \A c \in b.castlings :
          /\ RookHome[c] \in b.rooks \cap side[c] /\ RookHome[c] \notin b.bishops
          /\ king[c] = IF c \in OurRights THEN 4 ELSE 60
     /\ positions[Len(positions)].repetitions \in Nat
     /\ NumKingAttackers(b) <= 2

(***************************************************************************)
(* In a position that makes sense the bitboard generator, with its pins,   *)
(* attack lines and special cases of en passant and castling, finds the    *)
(* legal moves and no other.                                               *)
(***************************************************************************)
LegalMovesFollowRules ==
  /\ PieceSetsAgree
  /\ {MoveOf(Board, m) : m \in GenerateLegalMoves(Board)} = Rules!LegalMoves

(* Appending a move is a move of the game of chess.                        *)
GameFollowsRules == Rules!RulesSpec

(* Plies since the last capture or pawn move, seen from the placements.    *)
QuietPlies ==
  LET zeroing == {i \in 2 .. Len(positions) :
                    \/ \E s \in DOMAIN PlacementOf(positions[i - 1].board) :
                         /\ s \notin DOMAIN PlacementOf(positions[i].board)
                         /\ PlacementOf(positions[i - 1].board)[s].kind = "pawn"
                    \/ Cardinality(Occupied(positions[i].board))
                       # Cardinality(Occupied(positions[i - 1].board))}
  IN IF zeroing = {} THEN opening.fen.no_capture_ply + Len(positions) - 1
     ELSE Len(positions) - Max(zeroing)

(***************************************************************************)
(* The repetitions of a position ("How many time the same position         *)
(* appeared in the game before") are the equal positions before it, and a  *)
(* repetition is remembered until the next capture or pawn move.           *)
(***************************************************************************)
RepetitionsAreTrue ==
  LET n == Len(positions)
      Earlier(j) == {i \in 1 .. j - 1 : positions[i].board = positions[j].board}
  IN /\ positions[n].repetitions = Cardinality(Earlier(n))
     /\ DidRepeatSinceLastZeroingMove(positions) =
          (\E j \in 2 .. n : Earlier(j) # {} /\ n - j <= QuietPlies)

(* A game ends by mate before any draw claim, at the third repetition, at  *)
(* the fiftieth quiet move, at ply 450 or when nobody can mate; the        *)
(* repetitions are counted to that end.                                    *)
OnlyMinorPieces ==
  \A s \in DOMAIN PlacementOf(Board) : PlacementOf(Board)[s].kind \in {"king", "bishop", "knight"}
NobodyCanMate ==
  LET minor == {s \in DOMAIN PlacementOf(Board) : PlacementOf(Board)[s].kind # "king"}
  IN OnlyMinorPieces
     /\ \/ Cardinality(minor) <= 1
        \/ /\ \A s \in minor : PlacementOf(Board)[s].kind = "bishop"
           /\ \A s, t \in minor : (Row(s) + Col(s)) % 2 = (Row(t) + Col(t)) % 2
ResultFollowsRules ==
  LET mated == Rules!LegalMoves = {} /\ Rules!InCheck(IF Board.flipped THEN "black" ELSE "white", PlacementOf(Board))
      seen == {i \in DOMAIN positions : positions[i].board = Board}
      drawn == \/ Rules!LegalMoves = {} \/ NobodyCanMate \/ QuietPlies >= 100
               \/ Len(positions) - 1 + GamePly(opening.fen) >= 450 \/ Cardinality(seen) >= 3
  IN /\ RepetitionsAreTrue
     /\ ComputeGameResult(positions) =
          IF mated THEN IF Board.flipped THEN "WHITE_WON" ELSE "BLACK_WON"
          ELSE IF drawn THEN "DRAW" ELSE "UNDECIDED"

(***************************************************************************)
(* No two legal moves of a position share an entry of the policy head, and *)
(* none falls back to the first entry because the table misses it.         *)
(***************************************************************************)
MovesHaveOwnPolicy ==
  \A m1, m2 \in GenerateLegalMoves(Board) :
    /\ m1 # m2 => AsNNIndex(m1) # AsNNIndex(m2)
    /\ AsNNIndex(m1) = FirstIndex => m1.from = 0

(***************************************************************************)
(* What the network is shown is the past of this game, seen by the player  *)
(* to move now in every step, whoever moved then; and what it answers is   *)
(* told apart by move.                                                     *)
(***************************************************************************)
NetworkSeesTheGame ==
  LET black == Board.flipped
      Shown(S) == IF black THEN MirrorSet(S) ELSE S
      Of(b, kind, mine) ==
        {s \in DOMAIN PlacementOf(b) :
           PlacementOf(b)[s] = [colour |-> IF mine = black THEN "black" ELSE "white", kind |-> kind]}
      first == positions[1].board
      around == IF PassedOf(first) = -1 THEN {} ELSE {PassedOf(first) + 8, PassedOf(first) - 8}
      BeforeStep(S) == (S \ {s \in around : Row(s) \in {3, 4}})
                       \cup {s \in around : Row(s) \in {1, 6} /\ S \cap around # {}}
      Faithful(planes, b, Past(_)) ==
        \A kind \in DOMAIN planes.ours :
          /\ Shown(planes.ours[kind]) = Past(Of(b, kind, TRUE))
          /\ Shown(planes.theirs[kind]) = Past(Of(b, kind, FALSE))
      Same(S) == S
  IN /\ MovesHaveOwnPolicy
     /\ \A fill \in {"NO", "FEN_ONLY", "ALWAYS"} :
        \A i \in 0 .. kMoveHistory - 1 :
          \A planes \in EncodePositionForNN(positions, kMoveHistory, fill).boards[i] :
           IF i < Len(positions) THEN Faithful(planes, positions[Len(positions) - i].board, Same)
           ELSE Faithful(planes, first, BeforeStep)
=============================================================================
