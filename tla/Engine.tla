------------------------------- MODULE Engine -------------------------------
(***************************************************************************)
(* The engine as its host sees it, one part at a time: the controller with *)
(* its search and tree (EngineController), the command line and the loop   *)
(* that reads commands (UciLoop), and the game that is played (ChessGame). *)
(* The variables of the parts that are not looked at stay as they began,   *)
(* those of the game empty.                                                *)
(***************************************************************************)
EXTENDS EngineController

CONSTANTS Options, Hidden, Contexts, Number, Files, Invalid, OutOfRange
CONSTANTS ArgumentLists, Lines, ClockLines(_), EstimatedMoves, StartClock, Increment, Lag,
          CacheItemSize, NodeSize, Megabyte, SizeT, Sentences, OptionTexts, MaxLines
CONSTANT Openings

VARIABLES
  part,   \* the one that is looked at
  dict, hidden, outcome, args, line, going, limits, spared, clock, backend, lines,
  opening, positions

uciVars == <<dict, hidden, outcome, args, line, going, limits, spared, clock, backend, lines>>
gameVars == <<opening, positions>>
engineVars == <<part, vars, uciVars, gameVars>>

Uci == INSTANCE UciLoop
Game == INSTANCE ChessGame

ASSUME PartsAssumption == Uci!UciAssumption /\ Game!OpeningsAssumption

NoGame == opening = <<>> /\ positions = <<>>

EngineInit ==
  /\ Init /\ Uci!Init
  /\ \/ part \in {"controller", "uci"} /\ NoGame
     \/ part = "chess" /\ Game!Init

ControllerStep == part = "controller" /\ Next /\ UNCHANGED <<part, uciVars, gameVars>>
UciStep == part = "uci" /\ Uci!Next /\ UNCHANGED <<part, vars, gameVars>>
GameStep == part = "chess" /\ Game!Next /\ UNCHANGED <<part, vars, uciVars>>

EngineNext == ControllerStep \/ UciStep \/ GameStep
EngineSpec == EngineInit /\ [][EngineNext]_engineVars

-----------------------------------------------------------------------------
(* Texts mean what was written: the lines of a host, the options of a      *)
(* backend, and the listing of options given back to the program.          *)
TextsAreRead == part = "uci" => Uci!TextsAreRead

(* Options are kept as the program and the host have set them: with ranges *)
(* and precedence, each context for itself.                                *)
OptionsAreKept == Uci!OptionsAreKept

(* The limits of a search respect the memory and the clock of the game.    *)
LimitsAreKept == Uci!LimitsAreKept

(* The bitboard generator finds the legal moves and no other.              *)
LegalMovesFollowRules == part = "chess" => Game!LegalMovesFollowRules

(* A result follows from the game by the rules, and no other way.          *)
ResultFollowsRules == part = "chess" => Game!ResultFollowsRules

(* The planes that the network is shown are the past of this game.         *)
NetworkSeesTheGame == part = "chess" => Game!NetworkSeesTheGame

(* Appending a move to the history is a move of the game of chess.         *)
GameFollowsRules ==
  /\ part = "chess" => Game!Rules!RulesInit
  /\ [][part = "chess" => Game!Rules!RulesNext]_<<part, gameVars>>
=============================================================================
