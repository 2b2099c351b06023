----------------------------- MODULE SyzygyProbe -----------------------------
(***************************************************************************)
(* What a Syzygy probe concludes (the end of syzygy/syzygy.cc): search,    *)
(* probe_wdl, probe_dtz, root_probe and root_probe_wdl, over a small game. *)
(*                                                                         *)
(* A game has positions of one material, with quiet moves between them,    *)
(* and zeroing moves (captures, pawn moves) out of it, whose result is     *)
(* known from the tables of other material.  The tables of the game store  *)
(* what the generator promises (the comments at syzygy.cc:1479, 1516 and   *)
(* 1564), and any value where it promises nothing.  The 100 plies of the   *)
(* fifty-move rule are Rule50 plies here.                                  *)
(*                                                                         *)
(* The engine then plays the moves root_probe allows against any defence.  *)
(***************************************************************************)
EXTENDS Integers, Sequences, FiniteSets, SequencesExt, FiniteSetsExt

CONSTANTS
  White, Black,  \* positions by the side to move
  Rule50,        \* plies without a zeroing move that make a draw
  Games          \* the games to be played

VARIABLES game, truth, start, at, cnt50, seen, result
probeVars == <<game, truth, start, at, cnt50, seen, result>>

Positions == White \cup Black
Side(p) == IF p \in White THEN "white" ELSE "black"
Sign(x) == IF x > 0 THEN 1 ELSE IF x < 0 THEN -1 ELSE 0
Abs(x) == IF x < 0 THEN -x ELSE x

IsGame(g) ==
  /\ g.quiet \in [Positions -> SUBSET Positions]
  /\ \A p \in Positions : \A q \in g.quiet[p] : Side(q) # Side(p)
  /\ g.zeroing \in [Positions -> Seq([capture : BOOLEAN, wdl : -2..2, known : BOOLEAN])]
  /\ g.stored \in {"white", "black"} /\ g.plies \subseteq {-2, 2}

(* The largest ranks are 1000 (MoveRank below), Rule50 is 100 in the code: *)
(* fifty moves of two plies.                                               *)
ASSUME ProbeAssumption ==
  /\ IsFiniteSet(Positions) /\ White \cap Black = {}
  /\ Rule50 \in 1..499 /\ Rule50 % 2 = 0
  /\ \A g \in Games : IsGame(g)

(* game.quiet[p]: positions; game.zeroing[p]: a sequence of [capture, wdl, *)
(* known], wdl for the side to move after it; game.check: those in check.  *)
Quiet(p) == game.quiet[p]
Zeroing(p) == game.zeroing[p]
NoMoves(p) == Quiet(p) = {} /\ Zeroing(p) = <<>>
Mated(p) == NoMoves(p) /\ p \in game.check

-----------------------------------------------------------------------------
(***************************************************************************)
(* The truth, by retrograde analysis: plies until a zeroing move or mate   *)
(* under best play, positive for the winner, 0 for a draw; beyond Rule50   *)
(* the win is a draw under the rule.  A mated side has -1, a mating or     *)
(* winning zeroing move makes 1.                                           *)
(***************************************************************************)
MaxPlies == Rule50 + Cardinality(Positions) + 1
Cost(wdl) == IF Abs(wdl) = 2 THEN 1 ELSE Rule50 + 1
WinsIn(d, p, k) ==
  \/ \E i \in DOMAIN Zeroing(p) : Zeroing(p)[i].wdl < 0 /\ Cost(Zeroing(p)[i].wdl) = k
  \/ \E q \in Quiet(p) : IF Mated(q) THEN k = 1 ELSE d[q] < 0 /\ 1 - d[q] = k
LosesIn(d, p, k) ==
  /\ ~NoMoves(p)
  /\ \A q \in Quiet(p) : d[q] > 0
  /\ \A i \in DOMAIN Zeroing(p) : Zeroing(p)[i].wdl > 0
  /\ k = Max({1 + d[q] : q \in Quiet(p)}
             \cup {Cost(Zeroing(p)[i].wdl) : i \in DOMAIN Zeroing(p)})
(* The one choice there is: TLC computes a stage once and not on every use. *)
Computed(d) == CHOOSE f \in {d} : f = d
Truth ==
  LET D[k \in 0..MaxPlies] ==
        IF k = 0 THEN [p \in Positions |-> IF Mated(p) THEN -1 ELSE 0]
        ELSE LET d == Computed(D[k - 1])
             IN [p \in Positions |-> IF d[p] # 0 THEN d[p]
                                     ELSE IF WinsIn(d, p, k) THEN k
                                     ELSE IF LosesIn(d, p, k) THEN -k ELSE 0]
  IN D[MaxPlies]
WdlOf(dtz) == Sign(dtz) * IF Abs(dtz) <= Rule50 THEN 2 ELSE 1

-----------------------------------------------------------------------------
(* The tables.  A capture that is as good as the best move frees the       *)
(* generator to store less, with captures only it may store anything: they *)
(* are taken to store the least, and the most.                             *)
FAIL == "fail"
OK == "ok"
CHANGE_STM == "change"
ZEROING_BEST_MOVE == "zeroing"

Captures(p) == {i \in DOMAIN Zeroing(p) : Zeroing(p)[i].capture}
BestCapture(p) == Max({-2} \cup {-Zeroing(p)[i].wdl : i \in Captures(p)})
probe_wdl_table(p) ==
  LET true == WdlOf(truth[p])
  IN IF Quiet(p) = {} /\ Captures(p) = DOMAIN Zeroing(p) /\ Captures(p) # {} THEN 2
     ELSE IF true = BestCapture(p) THEN -2 ELSE true

ZeroingWins(p) ==
  \E i \in DOMAIN Zeroing(p) : Zeroing(p)[i].wdl < 0 /\ Cost(Zeroing(p)[i].wdl) = truth[p]

(* The DTZ table has the values of one side, in plies for the classes in   *)
(* game.plies (of that side) and in moves, rounded down, for the others.   *)
ClassOfStored(p) == (IF Side(p) = game.stored THEN 1 ELSE -1) * WdlOf(truth[p])
CountsPlies(p) == ClassOfStored(p) \in game.plies

(* It counts plies where a position is on the edge of the fifty-move rule. *)
EdgeInPlies == \A p \in Positions : Abs(truth[p]) = Rule50 => CountsPlies(p)

Counted(p) == Abs(truth[p]) - 1 - IF Abs(truth[p]) > Rule50 THEN Rule50 ELSE 0
DtzEntry(p) ==
  IF ZeroingWins(p) THEN 50 ELSE IF CountsPlies(p) THEN Counted(p) ELSE Counted(p) \div 2

probe_dtz_table(p, wdl) ==
  IF ~game.hasDtz THEN [value |-> 0, state |-> FAIL]
  ELSE IF Side(p) # game.stored THEN [value |-> 0, state |-> CHANGE_STM]
  ELSE [state |-> OK, value |-> IF wdl \in game.plies THEN DtzEntry(p) ELSE 2 * DtzEntry(p)]

-----------------------------------------------------------------------------
kWdlToDtz == <<-1, -(Rule50 + 1), 0, Rule50 + 1, 1>>
dtz_before_zeroing(wdl) == kWdlToDtz[wdl + 3]

(***************************************************************************)
(* search<CheckZeroingMoves>: captures (and pawn moves) first, in order,   *)
(* until one fails or wins; then the table of the position, unless every   *)
(* legal move has been tried.                                              *)
(***************************************************************************)
Tried(p, checkZeroing) == IF checkZeroing THEN DOMAIN Zeroing(p) ELSE Captures(p)

Better(best, value, all) ==
  IF best >= value
  THEN [value |-> best, state |-> IF best > 0 \/ all THEN ZEROING_BEST_MOVE ELSE OK]
  ELSE [value |-> value, state |-> OK]
SearchMoves(p, tried, stops, best) ==
  IF stops # {}
  THEN IF Zeroing(p)[Min(stops)].known THEN [value |-> 2, state |-> ZEROING_BEST_MOVE]
       ELSE [value |-> 0, state |-> FAIL]
  ELSE IF Quiet(p) = {} /\ tried = DOMAIN Zeroing(p) /\ tried # {}
  THEN Better(best, best, TRUE)
  ELSE Better(best, probe_wdl_table(p), FALSE)

search(p, checkZeroing) ==
  LET tried == Tried(p, checkZeroing)
  IN SearchMoves(p, tried,
                 {i \in tried : ~Zeroing(p)[i].known \/ Zeroing(p)[i].wdl = -2},
                 Max({-2} \cup {-Zeroing(p)[i].wdl : i \in tried}))

probe_wdl(p) == search(p, FALSE)

(* After a zeroing move the probe of another table takes over. *)
AfterZeroing(z) == IF z.known THEN [value |-> z.wdl, state |-> OK] ELSE [value |-> 0, state |-> FAIL]

OnePlyMore(dtz) == dtz + Sign(dtz)

(* probe_dtz where the table has the values of the side to move ... *)
FromTable(p, wdl) ==
  [state |-> OK,
   value |-> Sign(wdl) * (probe_dtz_table(p, wdl).value + 1 + IF Abs(wdl) = 1 THEN Rule50 ELSE 0)]
FromSearch(p, s) ==
  IF s.state = FAIL \/ s.value = 0 THEN [value |-> 0, state |-> s.state]
  ELSE IF s.state = ZEROING_BEST_MOVE THEN [value |-> dtz_before_zeroing(s.value), state |-> s.state]
  ELSE IF probe_dtz_table(p, s.value).state = OK THEN FromTable(p, s.value)
  ELSE [value |-> s.value, state |-> probe_dtz_table(p, s.value).state]
Settled(p) == FromSearch(p, search(p, TRUE))

(* ... and where it has those of the other side: the best of all moves. *)
AfterQuiet(q) == IF Mated(q) THEN 1 ELSE OnePlyMore(-Settled(q).value)
BestDtz(good) == IF good = {} THEN -1 ELSE Min(good)
FromMoves(p, wdl) ==
  LET zeroing == {-dtz_before_zeroing(Zeroing(p)[i].wdl) : i \in DOMAIN Zeroing(p)}
  IN IF \/ \E q \in Quiet(p) : Settled(q).state = FAIL
        \/ \E i \in DOMAIN Zeroing(p) : ~Zeroing(p)[i].known
     THEN [value |-> 0, state |-> FAIL]
     ELSE [value |-> BestDtz({dtz \in {AfterQuiet(q) : q \in Quiet(p)} \cup zeroing :
                                Sign(dtz) = Sign(wdl)}),
           state |-> OK]
FromSide(p, here) == IF here.state # CHANGE_STM THEN here ELSE FromMoves(p, here.value)
probe_dtz(p) == FromSide(p, Settled(p))

-----------------------------------------------------------------------------
(* The moves of the root: quiet ones by their position, zeroing ones by    *)
(* their number.                                                           *)
RootMoves(p) == {[to |-> q] : q \in Quiet(p)} \cup {[zero |-> i] : i \in DOMAIN Zeroing(p)}
IsZeroing(m) == "zero" \in DOMAIN m

ZeroingDtz(after) == [value |-> dtz_before_zeroing(-after.value), state |-> after.state]
QuietDtz(q, after) ==
  LET dtz == OnePlyMore(-after.value)
  IN [value |-> IF Mated(q) /\ dtz = 2 THEN 1 ELSE dtz, state |-> after.state]
RootDtz(p, m) ==
  IF IsZeroing(m) THEN ZeroingDtz(AfterZeroing(Zeroing(p)[m.zero]))
  ELSE QuietDtz(m.to, probe_dtz(m.to))

MoveRank(dtz, counter, rep) ==
  IF dtz > 0
  THEN IF dtz + counter <= Rule50 - 1 /\ ~rep THEN 1000 ELSE 1000 - (dtz + counter)
  ELSE IF dtz < 0
  THEN IF -dtz * 2 + counter < Rule50 THEN -1000 ELSE -1000 + (-dtz + counter)
  ELSE 0

(* What both ranking functions keep: the moves of the best rank. *)
Best(rank) == {m \in DOMAIN rank : rank[m] = Max({-1000} \cup Range(rank))}

(* Mutant: the counter of the root is not added. *)
CounterForgotten(counter) == 0
Counter(counter) == counter
RootProbeFails(p) == \E m \in RootMoves(p) : RootDtz(p, m).state = FAIL
root_probe(p, rep) ==
  Best([m \in RootMoves(p) |-> MoveRank(RootDtz(p, m).value, Counter(cnt50), rep)])

RootWdl(p, m) == IF IsZeroing(m) THEN AfterZeroing(Zeroing(p)[m.zero]) ELSE probe_wdl(m.to)
RootProbeWdlFails(p) == \E m \in RootMoves(p) : RootWdl(p, m).state = FAIL
WDL_to_rank == <<-1000, -899, 0, 899, 1000>>
root_probe_wdl(p) == Best([m \in RootMoves(p) |-> WDL_to_rank[3 - RootWdl(p, m).value]])

-----------------------------------------------------------------------------
(* Play: we choose among the safe moves, the other side among all.         *)
Running == 9   \* not a result
OurMove == Side(at) = Side(start)
Result(wdl) == IF OurMove THEN wdl ELSE -wdl

ProbeInit ==
  /\ game \in Games /\ truth = Truth /\ EdgeInPlies
  /\ start \in Positions /\ at = start
  /\ cnt50 = 0 /\ seen = {at} /\ result = Running

HasRepeated == Cardinality(seen) <= cnt50
Candidates ==
  IF ~OurMove \/ RootProbeFails(at) THEN RootMoves(at) ELSE root_probe(at, HasRepeated)

PlayQuiet ==
  /\ result = Running /\ cnt50 < Rule50
  /\ \E m \in Candidates :
       ~IsZeroing(m) /\ at' = m.to /\ seen' = seen \cup {m.to}
  /\ cnt50' = cnt50 + 1
  /\ UNCHANGED <<game, truth, start, result>>

PlayZeroing ==
  /\ result = Running /\ cnt50 < Rule50
  /\ \E m \in Candidates : IsZeroing(m) /\ result' = Result(-Zeroing(at)[m.zero].wdl)
  /\ UNCHANGED <<game, truth, start, at, cnt50, seen>>

GameEnds ==
  /\ result = Running
  /\ \/ Mated(at) /\ result' = Result(-2)
     \/ ~Mated(at) /\ (NoMoves(at) \/ cnt50 = Rule50) /\ result' = 0
  /\ UNCHANGED <<game, truth, start, at, cnt50, seen>>

ProbeNext == PlayQuiet \/ PlayZeroing \/ GameEnds

-----------------------------------------------------------------------------
Complete == game.hasDtz /\ \A p \in Positions : \A i \in DOMAIN Zeroing(p) : Zeroing(p)[i].known

(* What probe_dtz may answer: the plies to the zeroing move or one less,   *)
(* never across the edge of the rule, and exactly where plies are counted. *)
TellsDtz(p, value) ==
  /\ WdlOf(value) = WdlOf(truth[p]) /\ Abs(truth[p]) - Abs(value) \in {0, 1}
  /\ CountsPlies(p) => value = truth[p]

(* A probe that does not fail tells the truth, whatever the tables hold    *)
(* where the generator promises nothing, and with complete tables none     *)
(* fails: the class of the position, and the plies as above.               *)
ProbesTellTheTruth ==
  /\ probe_wdl(at).state # FAIL => probe_wdl(at).value = WdlOf(truth[at])
  /\ probe_dtz(at).state # FAIL => TellsDtz(at, probe_dtz(at).value)
  /\ Complete => probe_wdl(at).state # FAIL /\ probe_dtz(at).state # FAIL
  /\ ~RootProbeWdlFails(at) =>
       \A m \in root_probe_wdl(at) :
         Sign(truth[at]) = -Sign(IF IsZeroing(m) THEN Zeroing(at)[m.zero].wdl ELSE truth[m.to])

(* Moves that root_probe calls safe never give away what was there when    *)
(* the counter was last reset: a win is won before the fifty-move rule     *)
(* strikes, a draw is held, a loss that the rule saves is saved.           *)
SafeMovesKeepTheResult ==
  (Complete /\ result # Running) =>
    result >= WdlOf(truth[start]) \/ (result = 0 /\ WdlOf(truth[start]) = 1)
=============================================================================
