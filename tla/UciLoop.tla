------------------------------- MODULE UciLoop -------------------------------
(***************************************************************************)
(* The command line of the engine and the loop that reads UCI commands     *)
(* (chess/uciloop.cc, EngineLoop of engine.cc), with the limits of a       *)
(* search (EngineController::PopulateSearchLimits) over a game of a        *)
(* clock, and the texts of backend options.                                *)
(*                                                                         *)
(* Units of time are 100 ms; tenths stand for the floats of the time       *)
(* options, and times are rounded down to a unit.                          *)
(***************************************************************************)
EXTENDS OptionsParser, OptionsText

CONSTANTS
  ArgumentLists,   \* command lines the program may be started with
  Lines,           \* lines of the host, as sequences of words
  ClockLines(_),   \* lines that depend on what is left on the clock
  EstimatedMoves,  \* values of ComputeEstimatedMovesToGo(), in tenths
  StartClock, Increment,   \* of the clock
  Lag,             \* bound: time an answer takes beyond its deadline
  CacheItemSize, NodeSize, Megabyte,   \* sizes of memory
  SizeT,            \* size_t counts modulo this, 2^64 in the code
  Sentences,       \* bound: the lines whose parts are compared
  OptionTexts,     \* lists of entries of backend options
  MaxLines         \* bound: lines of the host

UciAssumption ==
  /\ EstimatedMoves \subseteq Nat \ {0} /\ {StartClock, Increment} \subseteq Nat /\ Lag \in Nat
  /\ CacheItemSize \in Nat /\ NodeSize \in Nat \ {0} /\ Megabyte \in Nat /\ SizeT \in Nat \ {0}
  /\ MaxLines \in Nat

VARIABLES
  args,      \* the command line
  line,      \* the last line that was read
  going,     \* the parameters of the last `go` that was accepted
  limits,    \* limits of the search that runs, or NoSearch
  spared,    \* time_spared_ms_
  clock,     \* time left on the engine's clock
  backend,   \* backend options and what was read of them
  lines      \* how many lines were read

vars == <<dict, hidden, outcome, args, line, going, limits, spared, clock, backend, lines>>

NoSearch == [none |-> TRUE]
NoDeadline == -1000000
NoBackend == [entries |-> <<>>, read |-> ParseMain(<<>>)]

-----------------------------------------------------------------------------
(* ParseCommand(): the parameters that follow a keyword.  A keyword that   *)
(* comes again goes on with its value, without a space.                    *)
KnownCommands ==
  [uci |-> {}, isready |-> {}, setoption |-> {"context", "name", "value"}, ucinewgame |-> {},
   position |-> {"fen", "startpos", "moves"},
   go |-> {"infinite", "wtime", "btime", "winc", "binc", "movestogo", "depth", "nodes",
           "movetime", "searchmoves", "ponder"},
   start |-> {}, stop |-> {}, ponderhit |-> {}, quit |-> {}, xyzzy |-> {}]

Glued(words, word) ==
  IF words = <<>> THEN <<word>> ELSE Append(Front(words), Last(words) \o word)
NoKey == ""
(* Mutant: a keyword does not end the value before it. *)
KeepsItsKey(p, word) == IF p.key = NoKey THEN word ELSE p.key
NextKey(p, word) == word

TakeWord(keywords, p, word) ==
  IF word \in keywords
  THEN LET key == NextKey(p, word)
       IN [p EXCEPT !.key = key, !.glue = TRUE,
             !.params = IF key \in DOMAIN @ THEN @ ELSE (key :> <<>>) @@ @]
  ELSE IF p.key = NoKey THEN [p EXCEPT !.ok = FALSE]
  ELSE [p EXCEPT !.glue = FALSE,
          !.params[p.key] = IF p.glue THEN Glued(@, word) ELSE Append(@, word)]

NoParams == [ok |-> TRUE, key |-> NoKey, glue |-> TRUE, params |-> <<>>]
ParseCommand(words) ==
  IF words[1] \notin DOMAIN KnownCommands THEN [NoParams EXCEPT !.ok = FALSE]
  ELSE FoldLeft(LAMBDA p, w : IF p.ok THEN TakeWord(KnownCommands[words[1]], p, w) ELSE p,
                NoParams, Tail(words))

GetOrEmpty(params, key) == IF key \in DOMAIN params THEN params[key] ELSE <<>>
Sentence(words) ==
  IF words = <<>> THEN NoString ELSE FoldLeft(LAMBDA s, w : s \o " " \o w, words[1], Tail(words))

(* GetNumeric(): stoi() reads the first word. *)
NumericKeys == <<"wtime", "btime", "winc", "binc", "movestogo", "depth", "nodes", "movetime">>
GetNumeric(params, key) ==
  IF params[key] = <<>> THEN Invalid ELSE Number[params[key][1]]
GoNumbers(params) == [key \in Range(NumericKeys) \cap DOMAIN params |-> GetNumeric(params, key)]
Flags(params) == {"infinite", "ponder"} \cap DOMAIN params

-----------------------------------------------------------------------------
(* PopulateSearchLimits().  The host plays white; a deadline is counted    *)
(* from the beginning of the search and may lie before it.                 *)
Tolerance == 2                    \* kSmartPruningToleranceMs
Value(id) == GetValue(dict, "", id)
AtMost(n, m) == IF n < m THEN n ELSE m
AtLeast(n, m) == IF n < m THEN m ELSE n

(* Nodes that fit in the memory that the cache leaves.  The difference is  *)
(* a size_t: below zero it is a large number, which is then divided.       *)
RamNodes ==
  AtLeast(0, ((Value("ramlimit") * Megabyte - Value("nncache") * CacheItemSize) % SizeT) \div NodeSize)
NoVisits == -1
Visits(go) ==
  LET asked == IF "nodes" \in DOMAIN go THEN go.nodes ELSE NoVisits
  IN IF Value("ramlimit") # 0 /\ RamNodes < asked THEN RamNodes ELSE asked

MovesToGo(go, estimate) ==
  IF "movestogo" \in DOMAIN go /\ go.movestogo > 0 /\ 10 * go.movestogo < estimate
  THEN 10 * go.movestogo ELSE estimate

Squandered == IF spared > 0 THEN (spared * Value("immediate")) \div 10 ELSE 0

(* Mutant: the plan is not compared with the clock. *)
PlanOnly(plan, left) == plan
WithinClock(plan, left) == AtMost(plan, left)

Quotient(a, b) == IF a >= 0 THEN a \div b ELSE -((-a) \div b)   \* towards zero

ClockPlan(go, estimate) ==
  LET increment == IF "winc" \in DOMAIN go THEN AtLeast(0, go.winc) ELSE 0
      mtg == MovesToGo(go, estimate)
      left == go.wtime - Value("overhead")
      total == AtLeast(0, left + Quotient(increment * (mtg - 10), 10)) - Squandered
      even == Quotient(10 * total, mtg)
      slow == Value("slowmover")
      scaled == slow < 10 \/ even * slow > 10 * Tolerance
      this == IF scaled THEN Quotient(even * slow, 10) ELSE even
  IN [deadline |-> WithinClock(this + Squandered, left),
      spared |-> spared - Squandered - IF scaled THEN Quotient(this * (slow - 10), 10) ELSE 0]

(* What Go() makes of the parameters: the limits and the time spared. *)
Limits(params, estimate) ==
  LET go == GoNumbers(params)
      infinite == Flags(params) # {}
      byClock == ~infinite /\ "wtime" \in DOMAIN go
      plan == IF byClock THEN ClockPlan(go, estimate) ELSE [deadline |-> NoDeadline, spared |-> spared]
  IN [limits |->
        [infinite |-> infinite, visits |-> Visits(go),
         depth |-> IF "depth" \in DOMAIN go THEN go.depth ELSE NoVisits,
         fits |-> Value("ramlimit") * Megabyte - Value("nncache") * CacheItemSize,
         ram |-> Value("ramlimit") # 0, onClock |-> byClock, overhead |-> Value("overhead"),
         deadline |-> IF byClock THEN plan.deadline
                      ELSE IF "movetime" \in DOMAIN go /\ ~infinite
                      THEN go.movetime - Value("overhead") ELSE NoDeadline],
      spared |-> plan.spared]

-----------------------------------------------------------------------------
Init ==
  /\ dict = [c \in Contexts \cup {""} |-> <<>>] /\ hidden = Hidden
  /\ outcome = "starting"
  /\ args = <<>> /\ line = <<>>
  /\ going = <<>> /\ limits = NoSearch /\ spared = 0
  /\ clock = StartClock
  /\ backend = NoBackend
  /\ lines = 0

(* EngineLoop::RunLoop(): the options, then the loop.  Nothing catches an  *)
(* exception here.                                                         *)
Start ==
  /\ outcome = "starting"
  /\ args' \in ArgumentLists
  /\ LET s == Startup(args')
     IN dict' = s.dict /\ hidden' = s.hidden /\ outcome' = s.outcome
  /\ UNCHANGED <<line, going, limits, spared, clock, backend, lines>>

(* LoadNetwork() reads the backend options; the run ends with that. *)
ReadBackendOptions ==
  /\ outcome = "starting"
  /\ \E e \in OptionTexts : backend' = [entries |-> e, read |-> ParseMain(Text(e))]
  /\ outcome' = "done"
  /\ UNCHANGED <<dict, hidden, args, line, going, limits, spared, clock, lines>>

(* The loop goes on after an Exception; anything else ends the program. *)
Looping == outcome = "ok" \/ (lines > 0 /\ outcome = "exception")

Respond(o) == outcome' = o /\ UNCHANGED <<dict, limits, spared>>

CmdSetOption(p) ==
  LET r == SetUciOption(dict, Sentence(GetOrEmpty(p, "name")), Sentence(GetOrEmpty(p, "value")),
                        Sentence(GetOrEmpty(p, "context")))
  IN dict' = r.dict /\ outcome' = r.outcome /\ UNCHANGED <<limits, spared>>

CmdPosition(p) ==
  IF ("fen" \in DOMAIN p) = ("startpos" \in DOMAIN p) THEN Respond("exception")
  ELSE outcome' = "ok" /\ limits' = NoSearch /\ UNCHANGED <<dict, spared>>

(* The first number that is none is reported, or ends the program if it is *)
(* out of range.  The moves to search are legal ones.                      *)
Go(p) ==
  \E estimate \in EstimatedMoves :
    /\ limits' = Limits(p, estimate).limits
    /\ spared' = Limits(p, estimate).spared
    /\ outcome' = "ok"
    /\ UNCHANGED dict

CmdGo(p) ==
  LET bad == SelectSeq(NumericKeys, LAMBDA key : /\ key \in DOMAIN p
                                                 /\ GetNumeric(p, key) \in {Invalid, OutOfRange})
  IN IF \E flag \in Flags(p) : p[flag] # <<>> THEN Respond("exception")
     ELSE IF bad = <<>> THEN Go(p)
     ELSE Respond(IF GetNumeric(p, bad[1]) = Invalid THEN "exception" ELSE "std")

(* PonderHit() goes again with what the last `go` said. *)
Without(p, key) == [k \in DOMAIN p \ {key} |-> p[k]]

(* Other commands: a new game, and what only sends an answer. *)
CmdOther(command) ==
  /\ outcome' = IF command = "quit" THEN "done"
                ELSE IF command = "start" THEN "exception" ELSE "ok"
  /\ limits' = IF command = "ucinewgame" THEN NoSearch ELSE limits
  /\ spared' = IF command = "ucinewgame" THEN 0 ELSE spared
  /\ UNCHANGED dict

DispatchCommand(command, p) ==
  CASE command = "setoption" -> CmdSetOption(p)
    [] command = "position" -> CmdPosition(p)
    [] command = "go" -> CmdGo(p)
    [] command = "ponderhit" -> Go(Without(going, "ponder"))
    [] OTHER -> CmdOther(command)

ReadLine ==
  /\ Looping /\ lines < MaxLines
  /\ line' \in Lines \cup ClockLines(clock)
  /\ line' = <<"ponderhit">> => limits # NoSearch /\ "ponder" \in DOMAIN going
  /\ LET command == ParseCommand(line')
     IN IF command.ok THEN DispatchCommand(line'[1], command.params) ELSE Respond("exception")
  /\ lines' = lines + 1
  /\ going' = IF line'[1] = "go" /\ outcome' = "ok" THEN ParseCommand(line').params ELSE going
  /\ UNCHANGED <<hidden, args, clock, backend>>

(* Bound: it takes no time, half of it, all of it or more. *)
TimesUsed(time) == {0, time \div 2, time, time + Lag}
(* A search ends by smart pruning, by the host's stop, or at its deadline; *)
(* what was left of its time is spared (the callback of Go()).             *)
SearchEnds ==
  /\ Looping /\ limits # NoSearch
  /\ \E used \in TimesUsed(AtLeast(0, limits.deadline)) :
       /\ spared' = IF limits.deadline = NoDeadline THEN spared ELSE spared + limits.deadline - used
       /\ clock' = IF limits.onClock THEN clock - used + Increment ELSE clock
  /\ limits' = NoSearch
  /\ UNCHANGED <<dict, hidden, outcome, args, line, going, backend, lines>>

Next == Start \/ ReadBackendOptions \/ ReadLine \/ SearchEnds

Spec == Init /\ [][Next]_vars

-----------------------------------------------------------------------------
(* Every word of a line is in the value of the keyword before it, whatever *)
(* words came before; a word before any keyword is an error.               *)
TokensInTheirPlace ==
  outcome = "starting" =>
    \A words \in Sentences :
      LET keywords == KnownCommands[words[1]]
          keys == {i \in 2..Len(words) : words[i] \in keywords}
          ValueAt(i) == SubSeq(words, i + 1, Min({j \in keys : j > i} \cup {Len(words) + 1}) - 1)
          p == ParseCommand(words)
      IN (\A i, j \in keys : words[i] = words[j] => i = j) =>
           /\ p.ok = (Len(words) = 1 \/ 2 \in keys)
           /\ p.ok => p.params = [k \in {words[i] : i \in keys} |->
                                   ValueAt(CHOOSE i \in keys : words[i] = k)]

(* What the options of a context hold was accepted for that context: no    *)
(* value leaves its range.                                                 *)
ValuesAreAllowed ==
  \A c \in DOMAIN dict : \A id \in DOMAIN dict[c] :
    LET o == Option(id) v == dict[c][id]
    IN CASE o.kind \in {"int", "float"} -> v \in o.min..o.max
         [] o.kind = "choice" -> v \in Range(o.choices)
         [] o.kind = "bool" -> v \in BOOLEAN
         [] OTHER -> TRUE

(* A value comes from the last word about it on the command line, or else  *)
(* from the file, or else from the defaults.                               *)
CommandLineWins ==
  (lines = 0 /\ outcome = "ok") =>
    \A i \in DOMAIN args :
      LET a == args[i]
          About(b) == /\ "value" \in DOMAIN b /\ b.context = a.context /\ b.flag = a.flag
      IN ("value" \in DOMAIN a /\ \A j \in i + 1..Len(args) : args[j].dashes = 2 /\ ~About(args[j]))
         => \E id \in DOMAIN dict[a.context] :
              /\ Option(id).long = a.flag
              /\ dict[a.context][id] =
                   CASE Option(id).kind \in {"int", "float"} -> Number[a.value]
                     [] Option(id).kind = "bool" -> ~a.no /\ a.value # "false"
                     [] OTHER -> a.value

(* What `uci` lists of an option can be set again with `setoption`, and    *)
(* then `uci` lists the same.                                              *)
ListingReadsBack ==
  line = <<"uci">> =>
    \A listing \in {ListOptionsUci(dict, hidden)} :
      \A o \in {x \in Range(Options) : x.uci \in DOMAIN listing} :
        \A shown \in {listing[o.uci]} : \A s \in StringsOf(o, shown) :
          LET again == SetUciOption(dict, o.uci, s, "")
          IN again.outcome = "ok" /\ ListOptionsUci(again.dict, hidden) = listing

(* `setoption` in a context changes nothing that another context, or the   *)
(* outer one, gets to see; one that is refused changes nothing at all.     *)
ContextsAreApart ==
  [][(lines' > lines /\ line'[1] = "setoption") =>
       LET c == Sentence(GetOrEmpty(ParseCommand(line').params, "context"))
       IN /\ outcome' # "ok" => dict' = dict
          /\ c # NoString => \A other \in DOMAIN dict \ {c} : dict'[other] = dict[other]]_vars

(* Options are kept as the program and the host have set them.             *)
OptionsAreKept == [](ValuesAreAllowed /\ CommandLineWins) /\ ContextsAreApart

(* The text of backend options is read as it is meant. *)
OptionTextsAreRead ==
  LET meant == Meaning(backend.entries)
  IN backend.read.ok = meant.ok /\ (meant.ok => backend.read.dict = meant.dict)

(* Texts mean what was written: the lines of a host, the options of a      *)
(* backend, and the listing of options given back to the program.          *)
TextsAreRead == TokensInTheirPlace /\ OptionTextsAreRead /\ ListingReadsBack

(* "Maximum memory usage for the engine" (engine.cc:89), where the cache   *)
(* leaves any: nodes that are asked for are given as far as they fit.      *)
MemoryIsLimited ==
  (limits # NoSearch /\ limits.ram /\ limits.visits > 0 /\ limits.fits >= 0)
     => limits.visits * NodeSize <= limits.fits

(* A search that has the move overhead left on its clock, and answers no   *)
(* later than that after its deadline, does not lose on time.              *)
FlagStaysUp ==
  (limits # NoSearch /\ limits' = NoSearch /\ limits.onClock /\ clock' # clock
   /\ clock >= limits.overhead /\ limits.overhead >= Lag) => clock' >= 0

(* A search that keeps its limits keeps those of the host.                 *)
LimitsAreKept == []MemoryIsLimited /\ [][FlagStaysUp]_vars
=============================================================================
