----------------------------- MODULE ChessRules -----------------------------
(***************************************************************************)
(* The rules of chess on a board of 64 squares that is never turned round: *)
(* the abstract specification of the board code.  Nothing here is a        *)
(* bitboard, a mirrored position, a pin or an attack line: a move is legal *)
(* when a piece can make it and the own king cannot be taken afterwards.   *)
(***************************************************************************)
EXTENDS Integers, FiniteSets

VARIABLES
  placement,  \* which piece stands on which square: a partial function
  turn,       \* "white" or "black"
  rights,     \* castling rights that are left, as <<colour, side>>
  passed      \* the square a pawn has just passed, if an enemy pawn stands by

rulesVars == <<placement, turn, rights, passed>>

Colours == {"white", "black"}
Kinds == {"king", "queen", "rook", "bishop", "knight", "pawn"}
Other(colour) == IF colour = "white" THEN "black" ELSE "white"
File(s) == s % 8
Rank(s) == s \div 8
OnBoard(file, rank) == file \in 0..7 /\ rank \in 0..7
At(file, rank) == rank * 8 + file

Straight == {<<1, 0>>, <<-1, 0>>, <<0, 1>>, <<0, -1>>}
Diagonal == {<<1, 1>>, <<1, -1>>, <<-1, 1>>, <<-1, -1>>}
Knight == {<<1, 2>>, <<2, 1>>, <<-1, 2>>, <<-2, 1>>, <<1, -2>>, <<2, -1>>, <<-1, -2>>, <<-2, -1>>}
Forward(colour) == IF colour = "white" THEN 1 ELSE -1

(* What piece p on s attacks when the pieces stand as in pl: each direction *)
(* is followed step by step until something is met.                         *)
Reach(p, s, pl) ==
  LET Walk[d \in Straight \cup Diagonal, n \in 1..7] ==
        LET f == File(s) + n * d[1]
            r == Rank(s) + n * d[2]
        IN IF ~OnBoard(f, r) THEN {}
           ELSE IF n = 7 \/ At(f, r) \in DOMAIN pl THEN {At(f, r)}
           ELSE {At(f, r)} \cup Walk[d, n + 1]
      Run(ds) == UNION {Walk[d, 1] : d \in ds}
      Jump(js) == {At(File(s) + j[1], Rank(s) + j[2]) :
                     j \in {k \in js : OnBoard(File(s) + k[1], Rank(s) + k[2])}}
  IN CASE p.kind = "rook" -> Run(Straight)
       [] p.kind = "bishop" -> Run(Diagonal)
       [] p.kind = "queen" -> Run(Straight \cup Diagonal)
       [] p.kind = "knight" -> Jump(Knight)
       [] p.kind = "king" -> Jump(Straight \cup Diagonal)
       [] p.kind = "pawn" -> Jump({<<1, Forward(p.colour)>>, <<-1, Forward(p.colour)>>})

AttackedBy(colour, s, pl) ==
  \E t \in DOMAIN pl : pl[t].colour = colour /\ s \in Reach(pl[t], t, pl)

InCheck(colour, pl) ==
  \E s \in DOMAIN pl : /\ pl[s] = [colour |-> colour, kind |-> "king"]
                       /\ AttackedBy(Other(colour), s, pl)

HomeRank(colour) == IF colour = "white" THEN 0 ELSE 7
RookSquare(right) == At(IF right[2] = "short" THEN 7 ELSE 0, HomeRank(right[1]))

(* Where the piece on s may go by its own way of moving, castling apart. *)
Targets(s) ==
  LET p == placement[s]
      enemy == {t \in DOMAIN placement : placement[t].colour # p.colour}
      own == DOMAIN placement \ enemy
      step == s + 8 * Forward(p.colour)
      leap == s + 16 * Forward(p.colour)
  IN IF p.kind = "pawn"
     THEN (Reach(p, s, placement) \cap (enemy \cup {passed}))
          \cup {t \in {step} : t \notin DOMAIN placement}
          \cup {t \in {leap} : /\ Rank(s) = HomeRank(p.colour) + Forward(p.colour)
                               /\ {step, leap} \cap DOMAIN placement = {}}
     ELSE Reach(p, s, placement) \ own

MayCastle(right) ==
  LET r == HomeRank(turn)
      empty == IF right[2] = "short" THEN {At(5, r), At(6, r)} ELSE {At(1, r), At(2, r), At(3, r)}
      safe == IF right[2] = "short" THEN {At(4, r), At(5, r), At(6, r)}
              ELSE {At(2, r), At(3, r), At(4, r)}
  IN /\ right \in rights /\ right[1] = turn
     /\ empty \cap DOMAIN placement = {}
     /\ \A s \in safe : ~AttackedBy(Other(turn), s, placement)

Candidates ==
  UNION {{[from |-> s, to |-> t, promotion |-> k] :
            t \in Targets(s),
            k \in Kinds \cup {"none"}} :
         s \in {x \in DOMAIN placement : placement[x].colour = turn}}
  \cup {[from |-> At(4, HomeRank(turn)), to |-> At(IF w = "short" THEN 6 ELSE 2, HomeRank(turn)),
         promotion |-> "none"] : w \in {x \in {"short", "long"} : MayCastle(<<turn, x>>)}}

WellFormed(m) ==
  IF placement[m.from].kind = "pawn" /\ Rank(m.to) \in {0, 7}
  THEN m.promotion \in {"queen", "rook", "bishop", "knight"}
  ELSE m.promotion = "none"

(* The pieces after a move: the captured one, also one taken in passing,   *)
(* disappears, a castling rook moves along, a promoted pawn is replaced.   *)
IsCastling(m) == placement[m.from].kind = "king" /\ File(m.from) - File(m.to) \in {-2, 2}
After(m) ==
  LET p == placement[m.from]
      gone == {m.from}
              \cup (IF p.kind = "pawn" /\ m.to = passed THEN {At(File(m.to), Rank(m.from))} ELSE {})
              \cup (IF IsCastling(m)
                    THEN {At(IF File(m.to) = 6 THEN 7 ELSE 0, Rank(m.to))} ELSE {})
      placed == [s \in {m.to} |-> IF m.promotion = "none" THEN p ELSE [p EXCEPT !.kind = m.promotion]]
      rook == [s \in (IF IsCastling(m) THEN {(m.from + m.to) \div 2} ELSE {}) |->
                 [colour |-> p.colour, kind |-> "rook"]]
      stay == (DOMAIN placement \ gone) \cup DOMAIN placed \cup DOMAIN rook
  IN [s \in stay |-> IF s \in DOMAIN placed THEN placed[s]
                     ELSE IF s \in DOMAIN rook THEN rook[s] ELSE placement[s]]

LegalMoves == {m \in Candidates : WellFormed(m) /\ ~InCheck(turn, After(m))}

(* A right is lost when the king moves, or when the rook moves or is taken. *)
RightsAfter(m) ==
  {r \in rights : /\ placement[m.from] # [colour |-> r[1], kind |-> "king"]
                  /\ RookSquare(r) \notin {m.from, m.to}}

PassedAfter(m) ==
  LET p == placement[m.from]
      mid == (m.from + m.to) \div 2
      beside == {t \in {m.to - 1, m.to + 1} : Rank(t) = Rank(m.to)}
  IN IF /\ p.kind = "pawn" /\ m.to - m.from \in {16, -16}
        /\ \E t \in beside \cap DOMAIN placement :
              placement[t] = [colour |-> Other(turn), kind |-> "pawn"]
     THEN mid ELSE -1

(* A move that takes or moves a pawn cannot be undone. *)
IsZeroing(m) == placement[m.from].kind = "pawn" \/ m.to \in DOMAIN placement

RulesPlay(m) ==
  /\ m \in LegalMoves
  /\ placement' = After(m)
  /\ turn' = Other(turn)
  /\ rights' = RightsAfter(m)
  /\ passed' = PassedAfter(m)

RulesNext == \E m \in LegalMoves : RulesPlay(m)
RulesInit == turn \in Colours /\ passed \in {-1} \cup 0..63
RulesSpec == RulesInit /\ [][RulesNext]_rulesVars
=============================================================================
