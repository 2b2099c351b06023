----------------------------- MODULE OptionsText -----------------------------
(***************************************************************************)
(* The text of backend options, such as a=1,(b='x'),sub(c), and how it is  *)
(* read into an OptionsDict (utils/optionsdict.cc: Lexer, Parser).         *)
(*                                                                         *)
(* A text is a sequence of characters, and a value is its text.  A         *)
(* dictionary keeps integers, floats, strings and booleans apart, so that  *)
(* values has pairs of a type and a key as its domain.                     *)
(***************************************************************************)
EXTENDS Integers, Sequences, FiniteSets, SequencesExt, FiniteSetsExt, Functions, TLC

EmptyDict == [values |-> <<>>, subdicts |-> <<>>]
SetValue(dict, type, key, value) ==
  [dict EXCEPT !.values = (<<type, key>> :> value) @@ @]

-----------------------------------------------------------------------------
(* The lexer. *)
Digits == {"0", "1", "2"}
Letters == {"a", "e", "f", "l", "r", "s", "t", "u", "x"}
Quotes == {"'", "\""}
SingleCharacters == {",", "(", ")", "="}
NumberChars == Digits \cup {"-", "."}
MoreNumberChars == NumberChars \cup {"+", "e", "x"}
MoreIdentifierChars == Letters \cup Digits \cup {"_", "-", ".", "/"}
EndOfText == [type |-> "eof", text |-> <<>>]

(* The length of the longest beginning of s made of these characters. *)
Span(s, chars) == Max({n \in 0..Len(s) : \A i \in 1..n : s[i] \in chars})
From(s, n) == SubSeq(s, n, Len(s))

(* Next(): a token and what follows it. *)
StartsANumber(text) ==   \* what stoi() and stof() ask for
  LET digits == IF text[1] = "-" THEN Tail(text) ELSE text
      start == IF digits # <<>> /\ digits[1] = "." THEN Tail(digits) ELSE digits
  IN start # <<>> /\ start[1] \in Digits
ReadNumber(s) ==
  LET n == Span(s, MoreNumberChars)
      text == SubSeq(s, 1, n)
  IN [token |-> [type |-> IF ~StartsANumber(text) THEN "error"
                          ELSE IF \E i \in 1..n : text[i] \in {".", "e"} THEN "float" ELSE "int",
                 text |-> text],
      rest |-> From(s, n + 1)]
ReadString(s) ==
  LET ends == {i \in 2..Len(s) : s[i] = s[1]}
  IN IF ends = {} THEN [token |-> [type |-> "error", text |-> s], rest |-> <<>>]
     ELSE [token |-> [type |-> "string", text |-> SubSeq(s, 2, Min(ends) - 1)],
           rest |-> From(s, Min(ends) + 1)]
ReadIdentifier(s) ==
  LET n == Span(s, MoreIdentifierChars)
  IN [token |-> [type |-> "identifier", text |-> SubSeq(s, 1, n)], rest |-> From(s, n + 1)]

NextToken(str) ==
  LET s == From(str, Span(str, {" "}) + 1)
  IN IF s = <<>> THEN [token |-> EndOfText, rest |-> <<>>]
     ELSE IF s[1] \in SingleCharacters
     THEN [token |-> [type |-> s[1], text |-> <<>>], rest |-> Tail(s)]
     ELSE IF s[1] \in NumberChars THEN ReadNumber(s)
     ELSE IF s[1] \in Quotes THEN ReadString(s)
     ELSE IF s[1] \in Letters THEN ReadIdentifier(s)
     ELSE [token |-> [type |-> "error", text |-> s], rest |-> <<>>]

RECURSIVE Lex(_)
Lex(s) == LET n == NextToken(s)
          IN IF n.token.type \in {"eof", "error"} THEN <<n.token>> ELSE <<n.token>> \o Lex(n.rest)

-----------------------------------------------------------------------------
(* The parser.  A result is a dictionary and the tokens that are left, or  *)
(* an exception; tokens always end with "eof" or "error".                  *)
Failed == [ok |-> FALSE, dict |-> EmptyDict, rest |-> <<EndOfText>>]
Parsed(dict, rest) == [ok |-> TRUE, dict |-> dict, rest |-> rest]
Type(tokens) == tokens[1].type
True == <<"t", "r", "u", "e">>
False == <<"f", "a", "l", "s", "e">>
IsName(tokens) == Type(tokens) \in {"identifier", "string"}

GetFreeSubdictName(dict) ==
  <<"[", Min({i \in 0..Cardinality(DOMAIN dict.subdicts) : <<"[", i, "]">> \notin DOMAIN dict.subdicts}), "]">>

ReadVal(tokens, dict, key) ==
  LET v == tokens[1].text
  IN CASE Type(tokens) \in {"float", "int", "string"} ->
            Parsed(SetValue(dict, Type(tokens), key, v), Tail(tokens))
       [] Type(tokens) = "identifier" /\ v \in {True, False} ->
            Parsed(SetValue(dict, "bool", key, v), Tail(tokens))
       [] Type(tokens) = "identifier" /\ v \notin {True, False} ->
            Parsed(SetValue(dict, "string", key, v), Tail(tokens))
       [] OTHER -> Failed

RECURSIVE ParseList(_, _)
ReadSubDict(tokens, dict, name) ==
  LET Added(d) == [dict EXCEPT !.subdicts = (name :> d) @@ @]
      inner == ParseList(Tail(tokens), EmptyDict)
  IN IF name \in DOMAIN dict.subdicts THEN Failed
     ELSE IF Type(tokens) # "(" THEN Parsed(Added(EmptyDict), tokens)
     ELSE IF ~inner.ok \/ Type(inner.rest) # ")" THEN Failed
     ELSE Parsed(Added(inner.dict), Tail(inner.rest))

ParseList(tokens, dict) ==
  LET unnamed == Type(tokens) = "("
      name == IF unnamed THEN GetFreeSubdictName(dict) ELSE tokens[1].text
      after == IF unnamed THEN tokens ELSE Tail(tokens)
      entry == IF Type(after) = "=" THEN ReadVal(Tail(after), dict, name)
               ELSE ReadSubDict(after, dict, name)
  IN IF ~unnamed /\ ~IsName(tokens) THEN Parsed(dict, tokens)
     ELSE IF ~entry.ok THEN Failed
     ELSE IF Type(entry.rest) # "," THEN entry
     ELSE ParseList(Tail(entry.rest), entry.dict)

(* AddSubdictFromString(): everything has been read, or an exception. *)
ParseMain(s) ==
  LET all == ParseList(Lex(s), EmptyDict)
  IN IF all.ok /\ Type(all.rest) = "eof" THEN all ELSE Failed

-----------------------------------------------------------------------------
(***************************************************************************)
(* What such a text means.  An entry is [key, type, value] or              *)
(* [name, entries], name being <<>> for a list without a name.             *)
(***************************************************************************)
RECURSIVE Text(_), Meaning(_)
Text(entries) ==
  LET Written(e) == IF e.type = "string" THEN <<"'">> \o e.value \o <<"'">> ELSE e.value
      One(e) == IF "key" \in DOMAIN e THEN e.key \o <<" ", "=">> \o Written(e)
                ELSE e.name \o IF e.name # <<>> /\ e.entries = <<>> THEN <<" ">>
                               ELSE <<"(">> \o Text(e.entries) \o <<")">>
  IN FlattenSeq([i \in DOMAIN entries |-> IF i = 1 THEN One(entries[i]) ELSE <<",">> \o One(entries[i])])

(* The last value of a key and type counts; names of lists are different,  *)
(* and the lists without one are numbered past the numbers in use.         *)
Meaning(entries) ==
  LET IsList(e) == "name" \in DOMAIN e
      lists == {i \in DOMAIN entries : IsList(entries[i])}
      unnamed == {i \in lists : entries[i].name = <<>>}
      NameOf(i) == IF i \in unnamed THEN <<"[", Cardinality({j \in unnamed : j < i}), "]">>
                   ELSE entries[i].name
      pairs == {<<entries[i].type, entries[i].key>> : i \in DOMAIN entries \ lists}
      ValueOf(p) == entries[Max({i \in DOMAIN entries \ lists :
                                   <<entries[i].type, entries[i].key>> = p})].value
      inner == [i \in lists |-> Meaning(entries[i].entries)]
      ok == /\ \A i, j \in lists : NameOf(i) = NameOf(j) => i = j
            /\ \A i \in lists : inner[i].ok
      subs == [n \in {NameOf(i) : i \in lists} |-> inner[CHOOSE i \in lists : NameOf(i) = n].dict]
  IN [ok |-> ok, dict |-> IF ok THEN [values |-> [p \in pairs |-> ValueOf(p)], subdicts |-> subs]
                          ELSE EmptyDict]
=============================================================================
