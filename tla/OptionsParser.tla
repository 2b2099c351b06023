---------------------------- MODULE OptionsParser ----------------------------
(***************************************************************************)
(* Options of the program (utils/optionsparser.cc, utils/optionsdict.h,    *)
(* utils/configfile.cc, utils/commandline.cc): where a value comes from,   *)
(* which values are accepted, and what is reported of them.                *)
(*                                                                         *)
(* Strings are values of the configuration; Number says what stoi() and    *)
(* stof() make of one.  UCI shows multiples of the step of a float option  *)
(* (six decimals).  Names are compared in one case.                        *)
(***************************************************************************)
EXTENDS Integers, Sequences, FiniteSets, SequencesExt, FiniteSetsExt, TLC

CONSTANTS
  Options,    \* a sequence of [id, kind, long, uci, short, default] with
              \* min, max and step, or choices
  Hidden,     \* ids that the program hides
  Contexts,   \* names of AddContext()
  Number,     \* of each string: a number, Invalid or OutOfRange
  Files,      \* configuration files by name: a sequence of lines
  Invalid,    \* stoi() and stof() throw std::invalid_argument
  OutOfRange  \* ... or std::out_of_range

VARIABLES
  dict,       \* values set in each context, "" being the outer one
  hidden,     \* hidden_
  outcome     \* of the last call: "ok", "exception" or "std" (not an Exception)

NoString == ""
ConfigId == "config"
DefaultConfigFile == "lc0.config"
Option(id) == CHOOSE o \in Range(Options) : o.id = id

-----------------------------------------------------------------------------
(* OptionsDict: a context, then the outer one, then the defaults. *)
GetValue(d, context, id) ==
  IF id \in DOMAIN d[context] THEN d[context][id]
  ELSE IF id \in DOMAIN d[""] THEN d[""][id] ELSE Option(id).default
IsDefault(d, context, id) == id \notin DOMAIN d[""] /\ id \notin DOMAIN d[context]

Answer(d, o) == [dict |-> d, outcome |-> o]
Exception(d) == Answer(d, "exception")
Put(d, context, id, value) == Answer([d EXCEPT ![context] = (id :> value) @@ @], "ok")

(* SetVal() of the numeric options checks the range, of the choices the    *)
(* list, and then sets.  What stoi() throws is not an Exception.           *)
InRange(o, n) == o.min <= n /\ n <= o.max
SetNumber(d, context, o, value) ==
  IF Number[value] \in {Invalid, OutOfRange} THEN Answer(d, "std")
  ELSE IF ~InRange(o, Number[value]) THEN Exception(d) ELSE Put(d, context, o.id, Number[value])
SetString(d, context, o, value) ==
  IF o.kind = "choice" /\ value \notin Range(o.choices) THEN Exception(d)
  ELSE Put(d, context, o.id, value)
SetBool(d, context, o, value) ==
  IF value \notin {"true", "false"} THEN Exception(d) ELSE Put(d, context, o.id, value = "true")

(* SetValue(): from a string. *)
SetFromString(d, context, o, value) ==
  CASE o.kind \in {"int", "float"} -> SetNumber(d, context, o, value)
    [] o.kind \in {"string", "choice"} -> SetString(d, context, o, value)
    [] o.kind = "bool" -> SetBool(d, context, o, value)

(* Whatever finds no option is an error; a context must exist. *)
First(those) == LET found == SelectSeq(Options, LAMBDA o : o \in those)
                IN IF found = <<>> THEN <<>> ELSE <<found[1]>>

SetUciOption(d, name, value, context) ==
  LET option == First({o \in Range(Options) : o.uci = name})
  IN IF option = <<>> \/ context \notin DOMAIN d THEN Exception(d)
     ELSE SetFromString(d, context, option[1], value)

-----------------------------------------------------------------------------
(* ProcessFlags().  Arguments are [dashes |-> 2, context, flag, no, value] *)
(* for --context.flag=value (no: the flag after "no-"), [dashes |-> 1,     *)
(* flag], or [dashes |-> 0, word]; [dashes |-> 2, help], [dashes |-> 2,    *)
(* show] for --help and --show-hidden.  FALSE is the outcome "refused".    *)
LongFlag(d, o, a) ==
  IF o.kind # "bool" THEN IF a.no THEN Answer(d, "refused") ELSE SetFromString(d, a.context, o, a.value)
  ELSE IF a.no THEN Put(d, a.context, o.id, FALSE)
  ELSE IF a.value = NoString THEN Put(d, a.context, o.id, TRUE)
  ELSE SetBool(d, a.context, o, a.value)

ProcessLongFlag(d, a) ==
  LET option == First({o \in Range(Options) : o.long = a.flag})
  IN IF option = <<>> THEN Answer(d, "refused")
     ELSE IF a.context \notin DOMAIN d THEN Exception(d)
     ELSE LongFlag(d, option[1], a)

(* A short flag of a boolean turns it over; others take the next argument. *)
ProcessShortFlag(d, a, value) ==
  LET option == First({o \in Range(Options) : o.short = a.flag})
  IN IF option = <<>> THEN Answer(d, "refused")
     ELSE IF option[1].kind = "bool" THEN Put(d, "", option[1].id, ~GetValue(d, "", option[1].id))
     ELSE SetFromString(d, "", option[1], value)
TakesNext(a) == \E o \in Range(Options) : o.short = a.flag /\ o.kind # "bool"

Word(a) == IF a.dashes = 0 THEN a.word ELSE "-"   \* an argument as a value

RECURSIVE ProcessFlags(_, _)
ProcessFlags(s, args) ==   \* s: [dict, hidden, outcome]
  LET a == args[1]
      value == IF Len(args) > 1 THEN Word(args[2]) ELSE NoString
      r == IF a.dashes = 2 THEN ProcessLongFlag(s.dict, a) ELSE ProcessShortFlag(s.dict, a, value)
      used == IF a.dashes = 1 /\ TakesNext(a) /\ value # NoString THEN 2 ELSE 1
      next == [s EXCEPT !.dict = r.dict, !.outcome = r.outcome]
  IN IF args = <<>> THEN [s EXCEPT !.outcome = "ok"]
     ELSE IF "help" \in DOMAIN a \/ a.dashes = 0 THEN [s EXCEPT !.outcome = "refused"]
     ELSE IF "show" \in DOMAIN a THEN ProcessFlags([s EXCEPT !.hidden = {}], Tail(args))
     ELSE IF r.outcome = "ok" THEN ProcessFlags(next, SubSeq(args, used + 1, Len(args)))
     ELSE next

-----------------------------------------------------------------------------
(* ConfigFile: the name of the file is looked for among the arguments ... *)
RECURSIVE ProcessConfigFlag(_, _)
ProcessConfigFlag(args, name) ==
  IF args = <<>> THEN name
  ELSE LET a == args[1]
           long == a.dashes = 2 /\ "value" \in DOMAIN a /\ a.context = "" /\ ~a.no
                     /\ a.flag = Option(ConfigId).long
           short == a.dashes = 1 /\ a.flag = Option(ConfigId).short /\ Len(args) > 1
       IN IF long THEN ProcessConfigFlag(Tail(args), a.value)
          ELSE IF short THEN ProcessConfigFlag(SubSeq(args, 3, Len(args)), Word(args[2]))
          ELSE ProcessConfigFlag(Tail(args), name)

(* ... and read.  A line is [comment], [blank] or an argument; one without *)
(* dashes gets them, one with a single dash is refused.                    *)
LineRefused(line) == "dashes" \in DOMAIN line /\ line.dashes = 1
Argument(line) == IF line.dashes = 0 THEN line.with ELSE line

ParseFile(d, name) ==
  IF name \notin DOMAIN Files
  THEN [ok |-> IsDefault(d, "", ConfigId), args |-> <<>>]
  ELSE LET lines == SelectSeq(Files[name], LAMBDA l : "dashes" \in DOMAIN l)
       IN [ok |-> \A i \in DOMAIN lines : ~LineRefused(lines[i]),
           args |-> [i \in DOMAIN lines |-> IF LineRefused(lines[i]) THEN lines[i] ELSE Argument(lines[i])]]

ConfigInit(d, args) ==
  LET name == ProcessConfigFlag(args, DefaultConfigFile)
  IN IF name = NoString THEN [ok |-> TRUE, args |-> <<>>] ELSE ParseFile(d, name)

(* ProcessAllFlags(): the file first, then the command line. *)
(* Mutant: the file is processed last. *)
FileLast(file, args) == args \o file
InOrder(file, args) == file \o args
AllFlags(s, file, args) ==
  LET first == ProcessFlags(s, SubSeq(InOrder(file, args), 1, Len(file)))
  IN IF first.outcome # "ok" THEN first
     ELSE ProcessFlags(first, SubSeq(InOrder(file, args), Len(file) + 1, Len(file) + Len(args)))

Startup(args) ==
  LET empty == [c \in Contexts \cup {""} |-> <<>>]
      start == [dict |-> empty, hidden |-> Hidden, outcome |-> "refused"]
      file == ConfigInit(empty, args)
  IN IF file.ok THEN AllFlags(start, file.args, args) ELSE start

-----------------------------------------------------------------------------
(* What UCI shows of an option, and the string that stands for it. *)
Shown(o, value) ==
  IF o.kind = "float" THEN o.step * ((2 * value + o.step) \div (2 * o.step)) ELSE value
ListOptionsUci(d, h) ==
  LET Listed(o) == o.uci # NoString /\ o.id \notin h
      Named(name) == CHOOSE o \in Range(Options) : o.uci = name
  IN [name \in {o.uci : o \in {x \in Range(Options) : Listed(x)}} |->
        Shown(Named(name), GetValue(d, "", Named(name).id))]
StringsOf(o, shown) ==
  CASE o.kind \in {"int", "float"} -> {s \in DOMAIN Number : Number[s] = shown}
    [] o.kind = "bool" -> {IF shown THEN "true" ELSE "false"}
    [] OTHER -> {shown}
=============================================================================
