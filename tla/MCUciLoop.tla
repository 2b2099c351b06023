------------------------------ MODULE MCUciLoop ------------------------------
(* Options, command lines, files, lines of the host and texts of options. *)
EXTENDS Integers, Sequences, FiniteSetsExt, TLC
Opt(id, kind, long, uci, short, default) ==
  [id |-> id, kind |-> kind, long |-> long, uci |-> uci, short |-> short, default |-> default]
Num(o, min, max, step) == o @@ [min |-> min, max |-> max, step |-> step]
AllOptions ==
  <<Opt("backend", "choice", "backend", "Backend", "b", "blas") @@ [choices |-> <<"blas", "cuda">>],
    Num(Opt("nncache", "int", "nncache", "NNCacheSize", "", 2), 0, 9, 1),
    Num(Opt("cpuct", "float", "cpuct", "CPuct", "", 20), 0, 100, 10),
    Opt("noise", "bool", "noise", "DirichletNoise", "n", FALSE),
    Num(Opt("slowmover", "float", "slowmover", "Slowmover", "", 10), 0, 20, 1),
    Num(Opt("overhead", "int", "move-overhead", "MoveOverheadMs", "", 2), 0, 9, 1),
    Num(Opt("immediate", "float", "immediate-time-use", "ImmediateTimeUse", "", 10), 0, 10, 1),
    Num(Opt("ramlimit", "int", "ramlimit-mb", "RamLimitMb", "", 0), 0, 9, 1),
    Opt("config", "string", "config", "ConfigFile", "c", "lc0.config")>>
AllHidden == {"slowmover"}

(* Command lines and files. *)
Flag(context, flag, no, value) ==
  [dashes |-> 2, context |-> context, flag |-> flag, no |-> no, value |-> value]
Short(flag) == [dashes |-> 1, flag |-> flag]
Bare(word, with) == [dashes |-> 0, word |-> word, with |-> with]
AllFiles ==
  ("lc0.config" :> <<[comment |-> TRUE], Flag("", "nncache", FALSE, "5"),
                     Bare("backend=cuda", Flag("", "backend", FALSE, "cuda"))>>)
  @@ ("a.config" :> <<Flag("", "noise", FALSE, ""), Flag("p1", "cpuct", FALSE, "43")>>)
  @@ ("bad.config" :> <<Short("n")>>)
AllArguments ==
  {<<>>, <<Flag("", "nncache", FALSE, "4"), Flag("", "nncache", FALSE, "9")>>,
   <<Flag("", "config", FALSE, "a.config"), Flag("p1", "cpuct", FALSE, "15")>>,
   <<Short("c"), Bare("a.config", <<>>), Flag("", "noise", TRUE, ""), Flag("", "cpuct", FALSE, "96")>>,
   <<Flag("", "config", FALSE, "bad.config")>>, <<Flag("", "config", FALSE, "")>>,
   <<Short("n"), Short("b"), Bare("cuda", <<>>)>>, <<Short("b")>>, <<Short("z")>>,
   <<Flag("", "noise", FALSE, "many")>>, <<Flag("", "move-overhead", FALSE, "many")>>,
   <<Flag("p2", "noise", FALSE, "")>>, <<Flag("", "backend", TRUE, "")>>,
   <<Flag("", "ramlimit-mb", FALSE, "10")>>, <<Bare("word", <<>>)>>,
   <<[dashes |-> 2, show |-> TRUE], Flag("", "slowmover", FALSE, "20")>>,
   <<[dashes |-> 2, help |-> TRUE]>>}

(* Lines of the host. *)
AllLines ==
  {<<"uci">>, <<"ucinewgame">>, <<"start">>, <<"quit">>, <<"castle">>, <<"ponderhit">>,
   <<"position", "startpos", "moves", "m1">>, <<"position", "moves", "m1">>,
   <<"setoption", "name", "NNCacheSize", "value", "9">>, <<"go", "nodes", "20">>,
   <<"setoption", "name", "CPuct", "value", "96", "context", "p1">>,
   <<"setoption", "name", "Backend", "value", "cuda", "context", "p2">>,
   <<"setoption", "name", "Backend", "value", "cu", "context", "p1">>,
   <<"setoption", "name", "RamLimitMb", "value", "3">>,
   <<"setoption", "name", "DirichletNoise", "value", "true", "context", "p1">>,
   <<"setoption", "name", "NNCacheSize", "value", "many">>,
   <<"go", "nodes", "9999999999">>, <<"go", "nodes", "many">>, <<"go", "infinite", "now">>,
   <<"go", "nodes", "1", "nodes", "2", "depth", "3">>, <<"go", "movetime", "20">>}
LinesOn(left) ==
  {<<"go", "wtime", ToString(left), "winc", "1">>,
   <<"go", "ponder", "wtime", ToString(left), "movestogo", "2">>}
AllSentences ==
  {<<"setoption">> \o ws : ws \in UNION {[1..n -> {"name", "value", "context", "x", "y"}] : n \in 0..5}}

(* Entries of backend options. *)
LOCAL True == <<"t", "r", "u", "e">>
LOCAL False == <<"f", "a", "l", "s", "e">>
Value1(key, type, value) == [key |-> key, type |-> type, value |-> value]
Simple ==
  {Value1(<<"a">>, "int", <<"1", "2">>), Value1(<<"a">>, "int", <<"-", "1">>),
   Value1(<<"a">>, "float", <<"1", ".">>), Value1(<<"x", "2">>, "string", <<"a", ",", " ">>),
   Value1(<<"x", "2">>, "bool", False), Value1(<<"a">>, "string", True)}
List(name, entries) == [name |-> name, entries |-> entries]
AtMostTwo(S) == {<<>>} \cup {<<e>> : e \in S} \cup {<<e, f>> : e, f \in S}
Nested == Simple \cup {List(<<"e">>, <<>>), List(<<>>, <<Value1(<<"t">>, "bool", True)>>),
                       List(<<"a">>, <<Value1(<<"a">>, "int", <<"0">>), List(<<>>, <<>>)>>)}
AllTexts ==
  AtMostTwo(Nested) \cup {<<List(<<>>, es), List(<<"e">>, <<>>)>> : es \in AtMostTwo(Nested)}
=============================================================================
