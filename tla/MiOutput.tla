------------------------------ MODULE MiOutput ------------------------------
(***************************************************************************)
(* The grammar of gdb's output (output.cpp 60-420): what the parser makes  *)
(* of a line that gdb printed.                                             *)
(*                                                                         *)
(* A line is a sequence of tokens: punctuation, names and quoted strings.  *)
(* The grammar is a parsing expression grammar: alternatives are tried in  *)
(* their order and a failed one gives back the tokens it took, but not     *)
(* what its actions did to last_var_name, which is thread_local and so     *)
(* outlives the line.                                                      *)
(*                                                                         *)
(* A value is tagged with what it is.  A list holds values or results, and *)
(* a result is a name with a value.  The text of a string is a pair: its   *)
(* form (a decimal or hexadecimal number, an id such as "i1", a word, or   *)
(* single characters) and its content.                                     *)
(***************************************************************************)
EXTENDS Naturals, Sequences

Mark(c)   == <<"mark", c>>
Name(n)   == <<"name", n>>
Quoted(t) == <<"quoted", t>>

Number(n) == <<"number", n>>
Hex(n)    == <<"hex", n>>
Ident(n)  == <<"ident", n>>
Word(w)   == <<"word", w>>
Chars(s)  == <<"chars", s>>

Text(t)     == <<"string", t>>
Tuple(rs)   == <<"tuple", rs>>
Braced(vs)  == <<"braced", vs>>         \* values in braces, as gdb prints scripts
Values(vs)  == <<"values", vs>>
Results(rs) == <<"results", rs>>

Unnamed == ""           \* a result that gdb prints without a name
Garbled == "?"          \* a name that spans several tokens

-----------------------------------------------------------------------------
(* What gdb prints (external): the MI syntax.                              *)

RECURSIVE Printed(_), PrintedAll(_, _)

Printed(v) ==
    CASE v[1] = "string"  -> <<Quoted(v[2])>>
      [] v[1] = "tuple"   -> <<Mark("{")>> \o PrintedAll("result", v[2]) \o <<Mark("}")>>
      [] v[1] = "braced"  -> <<Mark("{")>> \o PrintedAll("value", v[2]) \o <<Mark("}")>>
      [] v[1] = "results" -> <<Mark("[")>> \o PrintedAll("result", v[2]) \o <<Mark("]")>>
      [] v[1] = "values"  -> <<Mark("[")>> \o PrintedAll("value", v[2]) \o <<Mark("]")>>

PrintedAll(kind, vs) ==
    IF vs = <<>> THEN <<>>
    ELSE LET one == IF kind = "value" THEN Printed(vs[1])
                    ELSE IF vs[1][1] = Unnamed THEN Printed(vs[1][2])
                    ELSE <<Name(vs[1][1]), Mark("=")>> \o Printed(vs[1][2])
         IN  IF Len(vs) = 1 THEN one
             ELSE one \o <<Mark(",")>> \o PrintedAll(kind, Tail(vs))

\* The line behind "^done" or "*stopped".
Line(rs) == IF rs = <<>> THEN <<>> ELSE <<Mark(",")>> \o PrintedAll("result", rs)

-----------------------------------------------------------------------------
(* Quoted strings.  gdb writes a backslash before each quote and backslash.*)

RECURSIVE Escaped(_), Closes(_), Replaced(_, _, _)

Escaped(s) ==
    IF s = <<>> THEN <<>>
    ELSE (IF s[1] \in {"q", "\\"} THEN <<"\\", s[1]>> ELSE <<s[1]>>) \o Escaped(Tail(s))

\* star<sor<\" , not ">>: a backslash and a quote are taken together, whatever
\* is before the backslash.  s is what follows the opening quote.
Closes(s) ==
    IF s = <<>> THEN FALSE
    ELSE IF Len(s) > 1 /\ s[1] = "\\" /\ s[2] = "q" THEN Closes(SubSeq(s, 3, Len(s)))
    ELSE IF s[1] = "q" THEN Len(s) = 1
    ELSE Closes(Tail(s))

\* boost::replace_all
Replaced(s, what, by) ==
    IF Len(s) < Len(what) THEN s
    ELSE IF SubSeq(s, 1, Len(what)) = what
         THEN by \o Replaced(SubSeq(s, Len(what) + 1, Len(s)), what, by)
         ELSE <<s[1]>> \o Replaced(Tail(s), what, by)

\* Mutant: only the quotes that follow a backslash of the text are restored.
cstring_OneReplace(text) ==
    LET s == Escaped(text)
    IN  [ok  |-> Closes(Append(s, "q")),
         val |-> Replaced(s, <<"\\", "\\", "q">>, <<"\\", "q">>)]

cstring(text) ==
    LET s == Escaped(text)
    IN  [ok  |-> Closes(Append(s, "q")),
         val |-> Replaced(Replaced(s, <<"\\", "q">>, <<"q">>),
                          <<"\\", "\\", "q">>, <<"\\", "q">>)]

-----------------------------------------------------------------------------
(* The rules.  A match says whether the rule matched, where it ended,      *)
(* last_var_name after it and the value it made.                           *)

Found(at, last, val)  == [ok |-> TRUE,  at |-> at, last |-> last, val |-> val]
Failed(at, last, val) == [ok |-> FALSE, at |-> at, last |-> last, val |-> val]

Is(t, at, c) == at <= Len(t) /\ t[at] = Mark(c)

\* plus<not_one<'='>>: everything up to the next '=', which may be far.
variable(t, at, last) ==
    LET stop == CHOOSE j \in at..(Len(t) + 1) :
                    /\ j > Len(t) \/ Is(t, j, "=")
                    /\ \A i \in at..(j - 1) : ~Is(t, i, "=")
        name == IF stop = at + 1 /\ t[at][1] = "name" THEN t[at][2] ELSE Garbled
    IN  IF at > Len(t) \/ stop = at THEN Failed(at, last, Unnamed) ELSE Found(stop, name, name)

\* The match m with its value made into a result or tagged.
Tagged(tag, m) == [m EXCEPT !.val = <<tag, m.val>>]

RECURSIVE value_rule(_, _, _), Listed(_, _, _, _)

Assigned(t, name) ==
    IF name.ok /\ Is(t, name.at, "=")
    THEN Tagged(name.val, value_rule(t, name.at + 1, name.last))
    ELSE Failed(name.at, name.last, <<name.val, Text(Word(""))>>)

result_rule(t, at, last) == Assigned(t, variable(t, at, last))

\* A value without a name takes the name that was read last.
anonym_result_rule(t, at, last) == Tagged(last, value_rule(t, at, last))

\* list<push_back<rule>, one<','>>: the comma before an element that does not
\* match is given back.
Joined(first, rest) ==
    IF rest.ok THEN [rest EXCEPT !.val = <<first.val>> \o rest.val]
    ELSE Found(first.at, rest.last, <<first.val>>)

ListedFrom(rule, t, first) ==
    IF ~first.ok THEN Failed(first.at, first.last, <<>>)
    ELSE IF ~Is(t, first.at, ",") THEN [first EXCEPT !.val = <<first.val>>]
    ELSE Joined(first, Listed(rule, t, first.at + 1, first.last))

Listed(rule, t, at, last) ==
    ListedFrom(rule, t, IF rule = "result" THEN result_rule(t, at, last)
                        ELSE value_rule(t, at, last))

Closed(t, inside, close, tag) ==
    IF inside.ok /\ Is(t, inside.at, close) THEN Found(inside.at + 1, inside.last, <<tag, inside.val>>)
    ELSE Failed(inside.at, inside.last, <<tag, <<>>>>)

\* A value of this rule between two marks.
Enclosed(open, rule, close, tag, t, at, last) ==
    IF Is(t, at, open) THEN Closed(t, Listed(rule, t, at + 1, last), close, tag)
    ELSE Failed(at, last, <<tag, <<>>>>)

tuple_rule(t, at, last) == Enclosed("{", "result", "}", "tuple", t, at, last)

OrValues(t, at, results) ==
    IF results.ok THEN results ELSE Enclosed("[", "value", "]", "values", t, at, results.last)

\* Mutant: "[]" has no rule of its own.
list_rule_NoEmpty(t, at, last) ==
    OrValues(t, at, Enclosed("[", "result", "]", "results", t, at, last))

list_rule(t, at, last) ==
    IF Is(t, at, "[") /\ Is(t, at + 1, "]") THEN Found(at + 2, last, Values(<<>>))
    ELSE OrValues(t, at, Enclosed("[", "result", "]", "results", t, at, last))

\* A string that does not close takes the rest of the line with it, or all up
\* to the next quote, behind which no rule goes on: the value does not match.
string_rule(t, at, last) ==
    LET text == t[at][2]
        read == cstring(text[2])
    IN  IF text[1] # "chars" THEN Found(at + 1, last, Text(text))
        ELSE IF read.ok THEN Found(at + 1, last, Text(Chars(read.val)))
        ELSE Failed(at, last, Values(<<>>))

OrList(t, at, tuple) == IF tuple.ok THEN tuple ELSE list_rule(t, at, tuple.last)

value_rule(t, at, last) ==
    IF at <= Len(t) /\ t[at][1] = "quoted" THEN string_rule(t, at, last)
    ELSE OrList(t, at, tuple_rule(t, at, last))

-----------------------------------------------------------------------------
(* Records.  push_back keeps the element of a rule that did not match, so  *)
(* in a result record each comma before a named result leaves one behind.  *)

RECURSIVE Named(_, _, _, _), Followed(_, _, _, _)

NamedFrom(t, next, results) ==
    IF next.ok THEN Followed(t, next.at, next.last, Append(results, next.val))
    ELSE Failed(next.at, next.last, results)

Named(t, at, last, results) ==
    IF Is(t, at, ",") THEN NamedFrom(t, result_rule(t, at + 1, last), results)
    ELSE Found(at, last, results)

FollowedFrom(t, at, next, results) ==
    IF next.ok THEN Followed(t, next.at, next.last, Append(results, next.val))
    ELSE Named(t, at, next.last, Append(results, next.val))

Followed(t, at, last, results) ==
    IF Is(t, at, ",") THEN FollowedFrom(t, at, anonym_result_rule(t, at + 1, last), results)
    ELSE Named(t, at, last, results)

\* eof
Whole(t, m) == [m EXCEPT !.ok = m.ok /\ m.at > Len(t)]

\* Mutant: the first result needs no name either.
result_record_rule_Anonymous(t, last) == Whole(t, Followed(t, 1, last, <<>>))

result_record_rule(t, last) == Whole(t, Named(t, 1, last, <<>>))

\* Only named results follow an asynchronous class.
async_output_rule(t, last) ==
    IF t = <<>> THEN Found(1, last, <<>>)
    ELSE IF Is(t, 1, ",") THEN Whole(t, Listed("result", t, 2, last))
    ELSE Failed(1, last, <<>>)

\* Mutant: '=' makes a notify.
async_output_type_Notify(c) == IF c = "=" THEN "notify" ELSE "exec"

\* '=' makes a status, as '+' does: no output is ever a notify.
async_output_type(c) == IF c = "*" THEN "exec" ELSE "status"

-----------------------------------------------------------------------------
(* types.cpp 34-57: the first result of that name.                         *)

Has(results, id)  == \E i \in DOMAIN results : results[i][1] = id
find(results, id) ==
    results[CHOOSE i \in DOMAIN results :
                /\ results[i][1] = id
                /\ \A j \in 1..(i - 1) : results[j][1] # id][2]
=============================================================================
