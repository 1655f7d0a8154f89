------------------------------- MODULE MiTypes -------------------------------
(***************************************************************************)
(* The result types of the MI2 interpreter (types.hpp) and how each one is *)
(* read from the results of a record: the specializations of parse_result  *)
(* in types.cpp.                                                           *)
(*                                                                         *)
(* A type is a set of rows, one per member.  A row names the result it is  *)
(* found under, how its value is read, and which results must be there, or *)
(* must not, for it to be looked up at all.  The member bears gdb's name   *)
(* for what it is meant to hold: where the code looks under another name,  *)
(* the row says so with As.                                                *)
(*                                                                         *)
(* What has been read is again a text, or <<"struct", members>>, or        *)
(* <<"vector", elements>>, or Threw: the exceptions are not told apart.    *)
(***************************************************************************)
EXTENDS MiOutput

Struct(members)  == <<"struct", members>>
Vector(elements) == <<"vector", elements>>
Threw            == <<"threw">>

\* find, which throws when there is none, and find_if.
Req(id, form)   == [member |-> id, id |-> id, form |-> form, if |-> {}, unless |-> {}]
Opt(id, form)   == [Req(id, form) EXCEPT !.if = {id}]
If(other, row)  == [row EXCEPT !.if = @ \union {other}]
Unless(id, row) == [row EXCEPT !.unless = {id}]
As(member, row) == [row EXCEPT !.member = member]

String        == <<"string">>           \* as_string
Stoi          == <<"stoi">>             \* std::stoi and std::stoll, base 10
Stoull        == <<"stoull">>           \* my_stoull, base 10 unless it is told
Stoull16      == <<"stoull16">>         \* ... told 16
Address       == <<"address">>          \* ... or 0 for "<MULTIPLE>"
Flag(y, n)    == <<"flag", y, n>>       \* == "y"
Bool          == <<"bool">>             \* "true", "false" or left unset
Present       == <<"present">>          \* there or not
FirstDigits   == <<"digits">>           \* of two hexadecimal digits only one is kept
Of(T)         == <<"of", T>>            \* as_tuple
ListOf(form)  == <<"list of", form>>    \* as_list().as_values()
ResultsOf(T)  == <<"results of", T>>    \* as_list().as_results(), each a tuple
First(id, T)  == <<"first", id, T>>     \* ... the first of that name
Ids(id)       == <<"ids", id>>          \* ... each a number of that name
Held(T)       == <<"held", T>>          \* ... the results of one T
Pairs         == <<"pairs">>            \* ... each a name with a text
Arguments     == <<"arguments">>        \* the args of a frame
Doubled(form) == <<"doubled", form>>    \* resize to the size, then push_back

-----------------------------------------------------------------------------
(* The conversions of a text.  A decimal conversion of "0x1f" stops at the *)
(* x; a hexadecimal one reads "16" as 22 (bound: numbers of two digits).   *)

stoull(text, base) ==
    CASE text[1] = "number" /\ base = 10 -> text
      [] text[1] = "number" /\ base = 16 -> Hex(text[2] + 6 * (text[2] \div 10))
      [] text[1] = "hex" /\ base = 10    -> Number(0)
      [] text[1] = "hex" /\ base = 16    -> text
      [] text[1] = "part"                -> Number(text[2])     \* "2.1"
      [] OTHER                           -> Threw               \* invalid_argument

RECURSIVE parse_result(_, _), Read(_, _)

\* What std::transform and the loops make of a list.
Each(form, vs) ==
    LET all == [i \in DOMAIN vs |-> Read(form, vs[i])]
    IN  IF \E i \in DOMAIN all : all[i] = Threw THEN Threw ELSE Vector(all)

\* as_string and the conversions of a text.
ReadText(form, text) ==
    CASE form[1] = "string"   -> text
      [] form[1] \in {"stoi", "stoull"} -> stoull(text, 10)
      [] form[1] = "stoull16" -> stoull(text, 16)
      [] form[1] = "address"  -> IF text = Word("<MULTIPLE>") THEN Hex(0) ELSE stoull(text, 16)
      [] form[1] = "flag"     -> IF text = form[2] THEN form[2] ELSE form[3]
      [] form[1] = "bool"     -> IF text \in {Word("true"), Word("false")} THEN text
                                 ELSE Word("unset")
      [] form[1] = "digits"   -> Word("first digits")
      [] OTHER                -> Threw

\* as_list().as_results()
ReadResults(form, rs) ==
    LET values == [i \in DOMAIN rs |-> rs[i][2]]
        named  == SelectSeq(rs, LAMBDA r : r[1] = form[2])
    IN  CASE form[1] = "results of" -> Each(Of(form[2]), values)
          [] form[1] = "first"      -> IF named = <<>> THEN Threw
                                       ELSE Each(Of(form[3]), <<named[1][2]>>)
          [] form[1] = "held"       -> parse_result(form[2], rs)
          [] form[1] = "ids"        -> IF named # rs THEN Threw ELSE Each(Stoi, values)
          [] form[1] \in {"pairs", "arguments"} -> Each(String, values)
          [] OTHER                  -> Threw

\* as_list().as_values()
ReadValues(form, vs) ==
    CASE form[1] = "list of"   -> Each(form[2], vs)
      [] form[1] = "arguments" -> Each(Of({Req("name", String), Req("value", String)}), vs)
      [] OTHER                 -> Threw

Read(form, v) ==
    LET once == Read(form[2], v)
    IN  CASE form[1] = "present" -> Word("present")
          [] form[1] = "doubled" ->
                IF once = Threw THEN Threw
                ELSE Vector([i \in DOMAIN once[2] |-> Number(0)] \o once[2])
          [] v[1] = "string"  -> ReadText(form, v[2])
          [] v[1] = "tuple"   -> IF form[1] = "of" THEN parse_result(form[2], v[2]) ELSE Threw
          [] v[1] = "results" -> ReadResults(form, v[2])
          [] v[1] = "values"  -> ReadValues(form, v[2])

\* The rows that are looked up.
Rows(type, results) ==
    {row \in type : /\ \A id \in row.if : Has(results, id)
                    /\ \A id \in row.unless : ~Has(results, id)}

parse_result(type, results) ==
    LET rows       == Rows(type, results)
        value(row) == Read(row.form, find(results, row.id))
    IN  IF \E row \in rows : ~Has(results, row.id) \/ value(row) = Threw THEN Threw
        ELSE Struct([m \in {row.member : row \in rows} |->
                        value(CHOOSE row \in rows : row.member = m)])

-----------------------------------------------------------------------------
(* Breakpoints.                                                            *)

error_ == {Req("msg", String), Opt("code", String)}

\* "<MULTIPLE>" is read as 0.  The file is looked up as "filename".
breakpoint ==
    {Req("number", Stoi), Req("type", String), Req("disp", String),
     Req("addr", Address), Req("enabled", Flag(Word("y"), Word("n"))), Req("times", Stoi),
     As("file", Opt("filename", String)), Opt("installed", Flag(Word("y"), Word("n"))),
     Opt("thread-groups", ListOf(String))}
    \union {Opt(id, String) : id \in
               {"evaluated-by", "catch-type", "func", "fullname", "at", "pending", "thread",
                "task", "cond", "traceframe-usage", "static-tracepoint-marker-string-id",
                "mask", "original-location", "what"}}
    \union {Opt(id, Stoi) : id \in {"enable", "line", "ignore", "pass"}}

watchpoint == {Req("number", Stoi), Req("exp", String)}

-----------------------------------------------------------------------------
(* Frames and threads.                                                     *)

arg == {Req("name", String), Opt("value", String), Opt("type", String)}

\* The level is 0 when gdb gives none.
frame == {Opt("level", Stoi), Opt("func", String), Opt("addr", Stoull16), Opt("file", String),
          Opt("line", Stoi), Opt("from", String), Opt("args", Arguments)}

thread == {Req("id", Stoi), Req("target-id", String), Opt("frames", ListOf(Of(frame))),
           Req("state", String)}

\* The ids of gdb's groups are not numbers; the cores are looked up as
\* "exit_code", which is read as a number too.
groups == {Req("id", Stoi), Req("type", String), Opt("pid", Stoi),
           As("exit-code", Opt("exit_code", Stoi)),
           Opt("num_children", Stoi), Opt("threads", ListOf(Of(thread))),
           As("cores", Opt("exit_code", ListOf(Stoi))), Opt("executable", String)}

thread_info == {Req("id", Stoi), Req("target-id", String),
                Req("state", Flag(Word("stopped"), Word("running"))),
                Opt("details", String), Opt("core", Stoi), Opt("frame", Of(frame))}

thread_state == {Req("threads", ListOf(Of(thread_info))), Req("current-thread-id", Stoi)}

\* gdb encloses the ids in braces; here they are a list.
thread_id_list == {Req("thread-ids", Ids("thread-id")), Req("current-thread-id", Stoi),
                   Req("number-of-threads", Stoi)}

thread_select == {Req("new-thread-id", Stoi), Opt("frame", Of(frame)),
                  Opt("args", Pairs)}

ada_task_info == {Opt("current", String), Req("id", Stoi), Req("task-id", Stoi),
                  Opt("thread-id", Stoi), Opt("parent-id", Stoi), Req("priority", Stoi),
                  Req("state", String), Req("name", String)}

-----------------------------------------------------------------------------
(* Variable objects.                                                       *)

varobj == {Req("name", String), Req("numchild", Stoi), Req("value", String),
           Req("type", String), Opt("thread-id", Stoi), Opt("has_more", Stoi),
           Opt("dynamic", Present), Opt("displayhint", String), Opt("exp", String),
           As("frozen", Opt("dynamic", Present))}

varobj_update == {Req("name", String), Req("value", String), Opt("in_scope", Bool),
                  Opt("type_changed", Bool), Opt("has_more", Stoi), Opt("new_type", String),
                  Opt("new_num_children", Stoi), Opt("dynamic", Present),
                  Opt("displayhint", String), Opt("new_children", Doubled(ListOf(String)))}

-----------------------------------------------------------------------------
(* Code, registers and memory.                                             *)

line_asm_insn == {Req("address", Stoull16), Req("func-name", String), Req("offset", Stoi),
                  Req("inst", String), Opt("opcodes", String)}

src_and_asm_line == {Req("line", Stoi), Req("file", String), Opt("fullname", String),
                     Opt("line_asm_insn", ListOf(Of(line_asm_insn)))}

register_value == {Req("number", Stoi), Req("value", String)}

memory_entry == {Req("addr", Stoull16), Req("data", Doubled(ListOf(Stoull16))), Opt("ascii", String)}

read_memory == {Req("addr", Stoull16), Req("nr-bytes", Stoull), Req("total-bytes", Stoull),
                Req("next-row", Stoull16), Req("prev-row", Stoull16),
                Req("next-page", Stoull16), Req("prev-page", Stoull16),
                Req("memory", Doubled(ListOf(Of(memory_entry))))}

\* The contents are kept as they are here; TargetFrame looks into them.
read_memory_bytes == {Req("begin", Stoull16), Req("offset", Stoull), Req("end", Stoull),
                      Req("contents", String)}

-----------------------------------------------------------------------------
(* Tracepoints.                                                            *)

\* boost::none when "found" is not there, which "found" stands for here.
found_tracepoint ==
    {Opt("found", String)} \union
    {If("found", row) : row \in {Req("traceframe", Stoi), Req("tracepoint", Stoi),
                                 Opt("frame", Of(frame))}}

memory_region == {Req("address", Stoull16), As("length", Req("value", Stoull)),
                     Opt("contents", FirstDigits)}

traceframe_collection ==
    {Opt(id, ListOf(Of(register_value))) :
        id \in {"explicit-variables", "computed-expressions", "registers", "tvars"}}
    \union {As("memory", Opt("tvars", ListOf(Of(memory_region))))}

trace_variable == {Req("name", Stoull), Req("initial", Stoull), Opt("current", Stoi)}

trace_status ==
    {Req("supported", Flag(Number(1), Number(0)))}
    \union {Opt(id, Flag(Number(1), Number(0))) : id \in {"running", "circular", "disconnected"}}
    \union {Opt(id, String) : id \in {"stop-reason", "trace-file"}}
    \union {Opt("stopping-tracepoint", Stoi)}
    \union {Opt(id, Stoull) : id \in {"frames", "frames-created", "buffer-size", "buffer-free"}}

-----------------------------------------------------------------------------
(* Symbols, files and targets.                                             *)

symbol_line == {Req("pc", Stoull), Req("line", String)}

source_info == {Req("file", String), Opt("line", Stoi), As("fullname", Opt("line", String)),
                Opt("macro-info", String)}

download_info == {Req("address", Stoull16), Req("load-size", Stoull),
                  Req("transfer-rate", Stoull), Req("write-rate", Stoull)}

\* Two lookups name the sections in the plural.
download_status == {Req("section", String),
                    As("section-sent", If("section-sent", Req("sections-sent", Stoull))),
                    Opt("total-sent", Stoull), As("section-size", Req("sections-size", Stoull)),
                    Req("total-size", Stoull)}

connection_notification == {Opt("addr", Stoull16), Opt("func", String), Opt("args", ListOf(String))}

info_ada_exception == {Req("name", String), Req("address", Stoull16)}

-----------------------------------------------------------------------------
(* What notifications carry.                                               *)

thread_group_added   == {Req("id", Stoi)}
thread_group_removed == {Req("id", Stoi)}
thread_group_started == {Req("id", Stoi), Req("pid", Stoi)}
thread_group_exited  == {Req("id", Stoi), As("exit-code", Opt("exited", Stoi))}
thread_created       == {Req("id", Stoi), As("group-id", Req("gid", Stoi))}
thread_exited        == {Req("id", Stoi), As("group-id", Req("gid", Stoi))}
thread_selected      == {Req("id", Stoi), As("group-id", Req("gid", Stoi))}
library_loaded       == {Req("id", Stoi), Req("host-name", String), Req("target-name", String),
                         Opt("symbols-loaded", String)}
traceframe_changed   == {Unless("end", Req("num", Stoi)),
                         Unless("end", Req("tracepoint", String))}
tsv_frame            == {Opt("name", String), Opt("initial", String)}
tsv_modified         == {Req("name", String), Req("initial", String), Opt("current", String)}
breakpoint_created   == {Req("bkpt", Of(breakpoint))}
breakpoint_modified  == {Req("bkpt", Of(breakpoint))}
breakpoint_deleted   == {As("id", Req("number", Stoi))}
record_started       == {Req("thread-group", Stoi), Req("method", String), Opt("format", String)}
record_stopped       == {Req("thread-group", Stoi)}
cmd_param_changed    == {Req("param", String), Req("value", String)}
memory_changed       == {Req("thread-group", Stoi), Req("len", Stoi), Req("addr", Stoull16),
                         As("type", Opt("code", String))}
=============================================================================
