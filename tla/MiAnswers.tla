------------------------------ MODULE MiAnswers ------------------------------
(***************************************************************************)
(* The interpreter asks gdb and reads the answer: gdb prints a record, the *)
(* grammar of MiOutput parses the line, and the function takes its results *)
(* apart with the types of MiTypes.  Between the answers gdb prints        *)
(* notifications, which go to async_record_handler.                        *)
(*                                                                         *)
(* What gdb answers a command is external: the records of the GDB/MI       *)
(* manual, without the results that no member is meant to hold.  A result  *)
(* that gdb may leave out is optional.                                     *)
(***************************************************************************)
EXTENDS MiTypes

VARIABLES
    lastVarName,    \* last_var_name, thread_local
    asked,          \* the function whose answer was read, or the class of a notification
    said,           \* the results gdb printed
    record,         \* what the parser made of the line
    value           \* what the function returned

vars == <<lastVarName, asked, said, record, value>>

Nothing == ""
Silent  == <<"silent">>
NoRecord == <<"no record">>

-----------------------------------------------------------------------------
(* Answers.                                                                *)

R(id, v)  == <<id, v>>
T(id, t)  == <<id, Text(t)>>
O(result) == Append(result, "optional")
Texts(ts) == Values([i \in DOMAIN ts |-> Text(ts[i])])

RECURSIVE Optional(_), KeptValue(_, _), Kept(_, _), Said(_)

\* The names of the optional results of some results, at any depth.
Optional(rs) ==
    UNION {(IF Len(rs[i]) = 3 THEN {rs[i][1]} ELSE {})
           \union (CASE rs[i][2][1] \in {"tuple", "results"} -> Optional(rs[i][2][2])
                     [] rs[i][2][1] = "values" -> Optional([j \in DOMAIN rs[i][2][2] |->
                                                              <<"", rs[i][2][2][j]>>])
                     [] OTHER -> {}) : i \in DOMAIN rs}

\* The results gdb prints when it leaves out the optional ones not in keep.
KeptValue(v, keep) ==
    CASE v[1] \in {"tuple", "results"} -> <<v[1], Kept(v[2], keep)>>
      [] v[1] = "values" -> Values([i \in DOMAIN v[2] |-> KeptValue(v[2][i], keep)])
      [] OTHER -> v

Kept(rs, keep) ==
    IF rs = <<>> THEN <<>>
    ELSE (IF Len(rs[1]) = 2 \/ rs[1][1] \in keep
          THEN <<<<rs[1][1], KeptValue(rs[1][2], keep)>>>> ELSE <<>>) \o Kept(Tail(rs), keep)

\* All of them, none, and all but one.
Choices(rs) == {{}, Optional(rs)} \union {Optional(rs) \ {id} : id \in Optional(rs)}

\* Results no reader finds: the file of a breakpoint, looked up as "filename".
Lost(rs) == IF Has(rs, "disp") THEN {"file"} ELSE {}

\* What a reader should make of a value.
Said(v) ==
    CASE v[1] = "string"  -> v[2]
      [] v[1] = "tuple"   -> Struct([id \in {v[2][i][1] : i \in DOMAIN v[2]} \ Lost(v[2]) |->
                                        Said(find(v[2], id))])
      [] v[1] = "results" -> Vector([i \in DOMAIN v[2] |-> Said(v[2][i][2])])
      [] v[1] \in {"values", "braced"} -> Vector([i \in DOMAIN v[2] |-> Said(v[2][i])])

-----------------------------------------------------------------------------
(* Tuples that many answers hold (external).                               *)

Bkpt ==
    Tuple(<<T("number", Number(1)), T("type", Word("breakpoint")), T("disp", Word("keep")),
            T("enabled", Word("y")), T("addr", Hex(16)),
            O(T("func", Word("f"))), O(T("file", Word("f.cpp"))),
            O(T("fullname", Word("/f.cpp"))), O(T("line", Number(34))),
            O(R("thread-groups", Texts(<<Ident(1)>>))), O(T("cond", Word("a"))),
            T("times", Number(12)), O(T("original-location", Word("f")))>>)

\* A catchpoint has no address.
Catchpoint ==
    Tuple(<<T("number", Number(1)), T("type", Word("catchpoint")), T("disp", Word("keep")),
            T("enabled", Word("y")), T("what", Word("load")), T("catch-type", Word("load")),
            T("times", Number(0))>>)

Arg(n) == Tuple(<<T("name", Word(n)), T("value", Number(11))>>)
TypedArg(n) == Tuple(<<T("name", Word(n)), O(T("type", Word("int"))), O(T("value", Number(11)))>>)

AnyFrame(level, args) ==
    Tuple(<<T("level", Number(level)), O(T("addr", Hex(16))), O(T("func", Word("f"))),
            O(R("args", args)), O(T("file", Word("f.cpp"))), O(T("line", Number(34))),
            O(T("from", Word("lib")))>>)

AnyThread(n) ==
    Tuple(<<T("id", Number(n)), T("target-id", Word("Thread")), O(T("details", Word("d"))),
            O(R("frame", AnyFrame(0, Values(<<Arg("a")>>)))), T("state", Word("stopped")),
            O(T("core", Number(3)))>>)

Instruction(n) ==
    Tuple(<<T("address", Hex(n)), T("func-name", Word("f")), T("offset", Number(4)),
            O(T("opcodes", Word("90"))), T("inst", Word("nop"))>>)

RegisterValue(n) == Tuple(<<T("number", Number(n)), T("value", Hex(5))>>)

-----------------------------------------------------------------------------
(* The functions with their readers, beside the answers of gdb.            *)

Fn(name, reads, answer) == [name |-> name, reads |-> reads, answer |-> answer]

BreakTable == <<R("BreakpointTable", Tuple(<<R("body", Results(<<R("bkpt", Bkpt)>>))>>))>>

BreakAnswers ==
    {Fn("break_info", {Req("BreakpointTable", Of({Req("body", First("bkpt", breakpoint))}))},
        BreakTable),
     Fn("break_info with commands",
        {Req("BreakpointTable", Of({Req("body", First("bkpt", breakpoint))}))},
        <<R("BreakpointTable", Tuple(<<R("body", Results(<<R("bkpt", Tuple(
            Append(Bkpt[2], R("script", Braced(<<Text(Word("silent"))>>)))))>>))>>))>>),
     Fn("break_list", {Req("body", ResultsOf({Req("bkpt", Held(breakpoint))}))}, BreakTable),
     Fn("dprintf_insert", {Req("bpkt", Of(breakpoint))}, <<R("bkpt", Bkpt)>>),
     Fn("break_watch", {Req("wpt", Of(watchpoint))},
        <<R("wpt", Tuple(<<T("number", Number(2)), T("exp", Word("x"))>>))>>),
     Fn("break_watch -a", {Req("wpt", Of(watchpoint))},
        <<R("hw-awpt", Tuple(<<T("number", Number(2)), T("exp", Word("x"))>>))>>)}
    \union
    {Fn(f[1], {Req("bkpt", Of(breakpoint))}, <<R("bkpt", f[2])>>) :
        f \in {<<"catch_load", Catchpoint>>, <<"catch_unload", Catchpoint>>,
               <<"catch_assert", Bkpt>>, <<"catch_exception", Bkpt>>}}

\* Functions that return the text of one result.  Strings may hold quotes.
TextAnswers ==
    {Fn(f[1], {Req(f[2], String)}, <<T(f[3], f[4])>>) : f \in
        {<<"environment_directory", "source-path", "source-path", Word("/src")>>,
         <<"environment_path", "path", "path", Word("/bin")>>,
         <<"stack_info_depth", "depth", "depth", Number(12)>>,
         <<"var_show_format", "format", "format", Word("natural")>>,
         <<"var_info_num_children", "numchild", "numchild", Number(12)>>,
         <<"var_info_type", "type", "type", Word("int")>>,
         <<"var_info_path_expression", "path_expr", "path_expr", Word("x")>>,
         <<"var_evaluate_expression", "value", "value", Number(12)>>,
         <<"var_assign", "value", "value", Number(12)>>,
         <<"gdb_show", "value", "value", Word("on")>>,
         <<"add_inferior", "inferior", "inferior", Ident(2)>>,
         <<"inferior_tty_show", "inferior_tty_terminal", "inferior_tty_terminal", Word("tty")>>}}
    \union
    {Fn("info_gdb_mi_command", {Req("exists", Flag(Word("true"), Word("false")))},
        <<R("command", Tuple(<<T("exists", Word("true"))>>))>>),
     Fn("var_info_expression", {Req("lang", String), Req("exp", String)},
        <<T("lang", Word("C")), T("exp", Word("x"))>>)}
    \union
    {Fn("data_evaluate_expression", {Req("value", String)}, <<T("value", Chars(s))>>) :
        s \in {<<>>, <<"a">>, <<"q">>, <<"q", "q">>, <<"a", "q", "b", "q">>}}
    \union
    {Fn("data_evaluate_expression of a backslash", {Req("value", String)},
        <<T("value", Chars(s))>>) : s \in {<<"a", "\\">>, <<"a", "\\", "b">>, <<"\\", "q">>}}

\* Functions that return a vector of texts.
ListAnswers ==
    {Fn(f[1], {Req(f[2], ListOf(String))}, <<R(f[3], Texts(ts))>>) : f \in
        {<<"data_list_changed_registers", "changed-registers", "changed-registers">>,
         <<"data_list_register_names", "register-names", "register-names">>,
         <<"var_show_attributes", "status", "attr">>,
         <<"list_features", "result", "features">>,
         <<"list_target_features", "result", "features">>},
        ts \in {<<>>, <<Word("r0")>>, <<Word("r0"), Word("r1")>>}}

ThreadAnswers ==
    {Fn("thread_info_", thread_state,
        <<R("threads", Values(ts)), T("current-thread-id", Number(1))>>) :
        ts \in {<<>>, <<AnyThread(1)>>, <<AnyThread(2), AnyThread(1)>>}}
    \union
    {Fn("thread_list_ids", thread_id_list,
        <<R("thread-ids", Tuple(<<T("thread-id", Number(2)), T("thread-id", Number(1))>>)),
          T("current-thread-id", Number(1)), T("number-of-threads", Number(2))>>),
     Fn("thread_list_ids without threads", thread_id_list,
        <<R("thread-ids", Tuple(<<>>)), T("number-of-threads", Number(0))>>),
     Fn("thread_select", thread_select,
        <<T("new-thread-id", Number(2)), R("frame", AnyFrame(0, Values(<<Arg("a"), Arg("b")>>)))>>),
     Fn("ada_task_info", {Req("body", ListOf(Of(ada_task_info)))},
        <<R("tasks", Tuple(<<R("body", Values(<<>>))>>))>>),
     Fn("list_thread_groups", {Opt("groups", ListOf(Of(groups)))},
        <<R("groups", Values(<<Tuple(<<T("id", Ident(1)), T("type", Word("process")),
                                       O(T("pid", Number(12))),
                                       O(R("cores", Texts(<<Number(0)>>)))>>)>>))>>)}

StackAnswers ==
    {Fn("exec_return", {Req("frame", Of(frame))}, <<R("frame", AnyFrame(0, Values(<<Arg("a")>>)))>>),
     Fn("stacke_info_frame", {Req("frame", Of(frame))}, <<R("frame", AnyFrame(1, Values(<<>>)))>>),
     Fn("stack_list_frames", {Req("stack", ResultsOf(frame))},
        <<R("stack", Results(<<R("frame", AnyFrame(0, Values(<<Arg("a")>>))),
                               R("frame", AnyFrame(1, Values(<<>>)))>>))>>)}
    \union
    {Fn("stack_list_arguments", {Req("stack-args", ResultsOf(frame))},
        <<R("stack-args", Results(<<R("frame", Tuple(<<T("level", Number(0)),
                                                       R("args", args)>>))>>))>>) :
        args \in {Values(<<>>), Values(<<Arg("a"), Arg("b")>>),
                  Results(<<T("name", Word("a")), T("name", Word("b"))>>)}}
    \union
    {Fn(f[1], {Req(f[2], form[1])}, <<R(f[2], form[2])>>) :
        f \in {<<"stack_list_locals", "locals">>, <<"stack_list_variables", "variables">>},
        form \in {<<ListOf(Of(arg)), Values(<<>>)>>,
                  <<ListOf(Of(arg)), Values(<<TypedArg("a"), TypedArg("b")>>)>>,
                  <<Pairs, Results(<<T("name", Word("a")), T("name", Word("b"))>>)>>}}

VarAnswers ==
    {Fn(name, varobj,
        <<T("name", Word("var1")), T("numchild", Number(0)), T("value", Number(12)),
          T("type", Word("int")), O(T("thread-id", Number(1))), O(T("has_more", Number(0))),
          O(T("displayhint", Word("map")))>>) :
        name \in {"var_create", "var_create_floating"}}
    \union
    {Fn("var_list_children", {Req("chlidren", ListOf(Of({Req("child", Of(varobj))})))},
        <<R("children", Results(<<>>))>>),
     Fn("var_update", {Req("status", ListOf(Of(varobj_update)))},
        <<R("changelist", Values(<<Tuple(<<T("name", Word("var1")), T("value", Number(3)),
                                           T("in_scope", Word("true"))>>)>>))>>)}

Lines == R("src_and_asm_line", Tuple(<<T("line", Number(34)), T("file", Word("f.cpp")),
                                       O(T("fullname", Word("/f.cpp"))),
                                       R("line_asm_insn", Values(<<Instruction(16)>>))>>))

DataAnswers ==
    {Fn("data_disassemble", {Req("asm_insns", First("src_and_asm_line", src_and_asm_line))},
        <<R("asm_insns", Results(<<Lines>>))>>),
     Fn("data_disassemble without lines",
        {Req("asm_insns", First("src_and_asm_line", src_and_asm_line))},
        <<R("asm_insns", Values(<<Instruction(16)>>))>>),
     Fn("data_list_register_values", {Req("register-values", ListOf(Of(register_value)))},
        <<R("register-values", Values(<<RegisterValue(0), RegisterValue(1)>>))>>),
     Fn("data_read_memory", read_memory,
        <<T("addr", Hex(16)), T("nr-bytes", Number(2)), T("total-bytes", Number(2)),
          T("next-row", Hex(18)), T("prev-row", Hex(14)), T("next-page", Hex(18)),
          T("prev-page", Hex(14)),
          R("memory", Values(<<Tuple(<<T("addr", Hex(16)), R("data", Texts(<<Hex(1), Hex(2)>>)),
                                       O(T("ascii", Word("xx")))>>)>>))>>),
     Fn("data_read_memory_bytes", {Req("memory", ListOf(Of(read_memory_bytes)))},
        <<R("memory", Values(<<Tuple(<<T("begin", Hex(16)), T("offset", Hex(0)),
                                       T("end", Hex(18)), T("contents", Word("0102"))>>)>>))>>)}

TraceAnswers ==
    {Fn("trace_find", found_tracepoint,
        <<T("found", Number(1)), T("tracepoint", Number(1)), T("traceframe", Number(12)),
          O(R("frame", AnyFrame(0, Values(<<>>))))>>),
     Fn("trace_find of nothing", found_tracepoint, <<T("found", Number(0))>>),
     Fn("trace_frame_collected", traceframe_collection,
        <<R("explicit-variables", Values(<<>>)), R("computed-expressions", Values(<<>>)),
          R("registers", Values(<<RegisterValue(0)>>)), R("tvars", Values(<<>>)),
          R("memory", Values(<<Tuple(<<T("address", Hex(16)), T("length", Number(2))>>)>>))>>),
     Fn("trace_list_variables", {Req("body", ResultsOf(trace_variable))},
        <<R("trace-variables",
            Tuple(<<R("body", Results(<<R("variable", Tuple(<<T("name", Word("$v")),
                                           T("initial", Number(0))>>))>>))>>))>>),
     Fn("trace_status", trace_status,
        <<T("supported", Number(1)), O(T("running", Number(1))), O(T("frames", Number(12))),
          O(T("frames-created", Number(12))), O(T("buffer-size", Number(50))),
          O(T("buffer-free", Number(49))), O(T("disconnected", Number(0))),
          O(T("circular", Number(0))), O(T("trace-file", Word("t")))>>)}

\* wait_for_stop looks for the reason, and _handle_bps for what it needs of the
\* rest.  gdb gives no reason when it has connected to a target.
Stops == {"wait_for_stop", "wait_for_stop without a reason"}

StopAnswers ==
    {Fn(answer[1], {Req("reason", String), Opt("bkptno", Stoi), Opt("frame", Of(frame)),
                    Opt("exit-code", String)}, answer[2]) : answer \in
        {<<"wait_for_stop",
           <<T("reason", Word("breakpoint-hit")), T("bkptno", Number(1)),
             R("frame", AnyFrame(0, Values(<<Arg("a"), Arg("a@entry")>>)))>>>>,
         <<"wait_for_stop", <<T("reason", Word("exited")), T("exit-code", Number(1))>>>>,
         <<"wait_for_stop", <<T("reason", Word("exited-normally"))>>>>,
         <<"wait_for_stop without a reason", <<R("frame", AnyFrame(0, Values(<<>>)))>>>>}}

FileAnswers ==
    {Fn("symbol_list_lines", {Req("lines", ListOf(Of(symbol_line)))},
        <<R("lines", Values(<<Tuple(<<T("pc", Hex(16)), T("line", Number(34))>>)>>))>>),
     Fn("file_list_exec_source_file", source_info,
        <<T("line", Number(1)), T("file", Word("f.cpp")), O(T("fullname", Word("/f.cpp"))),
          O(T("macro-info", Number(0)))>>),
     Fn("file_list_exec_source_files", {Req("files", ListOf(Of(source_info)))},
        <<R("files", Values(<<Tuple(<<T("file", Word("f.cpp")),
                                      O(T("fullname", Word("/f.cpp")))>>)>>))>>),
     Fn("target_download", download_info,
        <<T("address", Hex(16)), T("load-size", Number(98)), T("transfer-rate", Number(65)),
          T("write-rate", Number(42))>>),
     Fn("target_select", connection_notification,
        <<T("addr", Hex(16)), T("func", Word("f")), R("args", Values(<<>>))>>),
     Fn("info_ada_exceptions", {Req("body", ListOf(Of(info_ada_exception)))},
        <<R("ada-exceptions", Tuple(<<R("body", Values(<<>>))>>))>>),
     Fn("info_os", {Req("hdr", ListOf(Of({Req("col_name", String), Req("colhdr", String)})))},
        <<R("OSDataTable", Tuple(<<R("hdr", Values(<<>>))>>))>>),
     Fn("an error", error_, <<T("msg", Word("No symbol")), O(T("code", Word("undefined")))>>)}

Functions == BreakAnswers \union TextAnswers \union ListAnswers \union ThreadAnswers
    \union StackAnswers \union VarAnswers \union DataAnswers \union TraceAnswers \union FileAnswers
    \union StopAnswers

\* The rule for the line of an answer: "^done" with results or "*stopped" with them.
parsedLine(name, results, last) ==
    IF name \in Stops THEN async_output_rule(Line(results), last)
    ELSE result_record_rule(Line(results), last)

-----------------------------------------------------------------------------
(* async_record_handler: a signal for each class, whose slots are told.    *)

\* Two of the classes are not gdb's: it prints library-loaded and -unloaded.
Handlers ==
    {[class |-> h[1], reads |-> h[2]] : h \in
        {<<"thread-group-added", thread_group_added>>,
         <<"thread-group-removed", thread_group_removed>>,
         <<"thread-group-started", thread_group_started>>,
         <<"thread-group-exited", thread_group_exited>>,
         <<"thread-created", thread_created>>, <<"thread-exited", thread_exited>>,
         <<"thread-selected", thread_selected>>, <<"thread-loaded", library_loaded>>,
         <<"thread-unloaded", library_loaded>>, <<"traceframe-changed", traceframe_changed>>,
         <<"traceframe-changed-end", traceframe_changed>>, <<"tsv-created", tsv_frame>>,
         <<"tsv-deleted", tsv_frame>>, <<"tsv-modified", tsv_modified>>,
         <<"breakpoint-created", breakpoint_created>>,
         <<"breakpoint-modified", breakpoint_modified>>,
         <<"breakpoint-deleted", breakpoint_deleted>>, <<"record-started", record_started>>,
         <<"record-stopped", record_stopped>>, <<"cmd-param-changed", cmd_param_changed>>,
         <<"memory-changed", memory_changed>>}}

\* Lines that gdb prints between the answers (external).
Notifications ==
    {<<"thread-group-added", <<T("id", Ident(1))>>>>,
     <<"thread-group-started", <<T("id", Ident(1)), T("pid", Number(12))>>>>,
     <<"thread-created", <<T("id", Number(1)), T("group-id", Ident(1))>>>>,
     <<"library-loaded", <<T("id", Word("lib")), T("target-name", Word("lib")),
                           T("host-name", Word("lib")), T("symbols-loaded", Number(0)),
                           T("thread-group", Ident(1))>>>>,
     <<"breakpoint-modified", <<R("bkpt", Kept(<<R("bkpt", Bkpt)>>, {"thread-groups"})[1][2])>>>>,
     <<"breakpoint-deleted", <<T("id", Number(1))>>>>,
     <<"cmd-param-changed", <<T("param", Word("p")), T("value", Word("on"))>>>>,
     <<"memory-changed", <<T("thread-group", Ident(1)), T("addr", Hex(16)), T("len", Hex(4))>>>>}

\* _make_adapter reads the results for the slots, and calls none of them.
handled(connected, type, class, results) ==
    LET adapters == {h \in Handlers : /\ type = "notify"
                                      /\ h.class \in connected
                                      /\ h.class = class}
    IN  IF \E h \in adapters : parse_result(h.reads, results) = Threw THEN Threw ELSE Silent

-----------------------------------------------------------------------------
Init ==
    /\ lastVarName = Unnamed
    /\ asked = Nothing
    /\ said = <<>>
    /\ record = Found(1, Unnamed, <<>>)
    /\ value = Silent

\* A function sends its command, gdb answers, and the function returns what it
\* read or throws.  A line that no rule matches is passed over: at the prompt
\* behind it the function throws, because no record was received, and
\* wait_for_stop, which does not need one, returns as if there was no stop.
Ask ==
    /\ asked = Nothing
    /\ \E f \in Functions : \E keep \in Choices(f.answer) :
        LET results == Kept(f.answer, keep)
            parsed  == parsedLine(f.name, results, lastVarName)
        IN  /\ asked' = f.name
            /\ said' = results
            /\ record' = parsed
            /\ lastVarName' = parsed.last
            /\ value' = IF parsed.ok THEN parse_result(f.reads, parsed.val) ELSE NoRecord

\* A line "=class,results" among those a command reads, with slots connected to
\* none of the signals or to all.
Notify ==
    /\ asked = Nothing
    /\ \E n \in Notifications, connected \in {{}, {h.class : h \in Handlers}} :
        LET parsed == async_output_rule(Line(n[2]), lastVarName)
        IN  /\ asked' = n[1]
            /\ said' = n[2]
            /\ record' = parsed
            /\ lastVarName' = parsed.last
            /\ value' = IF parsed.ok THEN handled(connected, async_output_type("="), n[1], parsed.val)
                        ELSE Silent

\* The caller has what it asked for; only last_var_name stays.
Return ==
    /\ asked # Nothing
    /\ asked' = Nothing
    /\ said' = <<>>
    /\ record' = Found(1, Unnamed, <<>>)
    /\ value' = Silent
    /\ UNCHANGED lastVarName

Next == Ask \/ Notify \/ Return

Spec == Init /\ [][Next]_vars

-----------------------------------------------------------------------------
(* Properties.                                                             *)

\* Answers that are passed over: values in braces, braces around nothing, and a
\* text that ends in a backslash, are not in the grammar.
Unparsed == {"break_info with commands", "thread_list_ids without threads",
             "data_evaluate_expression of a backslash"}

\* Answers that are read wrongly, or with an exception.
Misread ==
    \* looked up under another name, or on another level, than gdb's
    {"break_list", "dprintf_insert", "break_watch -a", "var_show_attributes",
     "list_features", "list_target_features", "info_gdb_mi_command", "ada_task_info",
     "var_list_children", "var_update", "trace_list_variables", "info_ada_exceptions",
     "info_os", "trace_frame_collected",
     "file_list_exec_source_file", "file_list_exec_source_files"}
    \union
    \* taken for a list, a number or decimal where gdb prints another thing
    {"thread_list_ids", "list_thread_groups", "data_disassemble without lines",
     "data_read_memory_bytes", "symbol_list_lines"}
    \union
    \* elements pushed behind as many empty ones; a trace_find that finds nothing;
    \* catchpoints without an address; a stop without a reason
    {"data_read_memory", "trace_find of nothing", "catch_load", "catch_unload",
     "wait_for_stop without a reason"}

Names == {f.name : f \in Functions}

\* A function returns what gdb said: each member holds the value that gdb printed
\* for it, and the optional ones are there exactly when gdb printed them, whatever
\* else is in the record (types.cpp, and the ends of interpreter.cpp 336-2664).
ReadAsSaid ==
    asked \in Names \ (Misread \union Unparsed) => value = Said(Tuple(said))

\* No command that gdb executed is reported as one without an answer, and no stop
\* overlooked, because the line is not in the grammar of the parser (output.cpp
\* 311-360; interpreter.cpp 109 and 126).
AnswersParse ==
    asked \in Names \ Unparsed => value # NoRecord

\* A line is read the same whatever was read before it, although the name that
\* values without one inherit is kept from line to line (output.cpp 248).
NothingLingers ==
    [][asked' \in Names =>
        record'.val = parsedLine(asked', said', Unnamed).val]_vars

\* No notification makes the command fail among whose lines it comes, although
\* some of their types throw at what gdb prints: they are never told, since the
\* parser makes a status of them (output.cpp 234, async_record_handler_t.hpp 114).
NotificationsHarmless ==
    asked \in {n[1] : n \in Notifications} => value = Silent
=============================================================================
