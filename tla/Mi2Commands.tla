----------------------------- MODULE Mi2Commands -----------------------------
(***************************************************************************)
(* The functions of mw::gdb::mi2::interpreter (interpreter.cpp 225-2684):  *)
(* the line each one puts together in _in_buf, the class of result it      *)
(* waits for, and what becomes of it when gdb reads it.                    *)
(*                                                                         *)
(* A line is a sequence of atoms: words, blanks and the newline.  Two      *)
(* words without a blank between them are one word to gdb.  A part of a    *)
(* line is the set of forms it may have; a loop over parameters appends    *)
(* one at a time.  Of the results in gdb's answer the model knows whether  *)
(* there are any: a function that waits for a class alone takes none.      *)
(* What the others read from them is in MiAnswers.                         *)
(***************************************************************************)
EXTENDS Naturals, Sequences

CONSTANTS
    Called,     \* the functions that are called
    MaxMany     \* bound: the parameters a loop appends

ASSUME CommandsAssumption == MaxMany \in Nat

VARIABLES
    pc,         \* "idle", "build" a line, or "wait" for gdb's answer
    function,   \* the row of the function under way
    parts,      \* the parts of the line not yet appended
    rounds,     \* the parameters its loop has appended
    inBuf,      \* _in_buf
    gdbBuf,     \* what gdb has read of a line that has not ended
    outcome,    \* how the last call ended
    timings     \* gdb adds the time a command took to its answer (external)

vars == <<pc, function, parts, rounds, inBuf, gdbBuf, outcome, timings>>

Blank   == " "
Newline == "\n"
Rest    == "..."        \* what a string holds after a blank

-----------------------------------------------------------------------------
(* Parts of lines.                                                         *)

Word(w) == {<<w>>}
Number  == Word("number")
String  == {<<"string">>, <<"string", Blank, Rest>>}    \* as it is
Quoted  == Word("\"string\"")

\* quote_if: quoted when it holds a blank, unless it is already.
QuoteIf == Word("string") \union Quoted

\* "x += part": the second follows the first without a blank.
Cat(first, second) == {f \o s : f \in first, s \in second}

\* Mutant: the blank is forgotten.
Arg_Glued(part) == part

\* " " + part, and part + " ".
Arg(part)   == Cat(Word(Blank), part)
Ahead(part) == Cat(part, Word(Blank))

\* if (part)
Opt(part) == {<<>>} \union part

Flag(name)        == Opt(Arg(Word(name)))
FlagAhead(name)   == Opt(Ahead(Word(name)))
Value(name, part) == Opt(Ahead(Cat(Ahead(Word(name)), part)))

-----------------------------------------------------------------------------
(* A row of the table: the parts that are appended one by one, what a loop *)
(* behind them appends in each round, and how the line ends.  The function *)
(* waits by _work(token, class), or by _work(token, callback) and a look   *)
(* at the class afterwards, or not at all.  Mi2Interpreter calls these     *)
(* "set", "resume" and "exit", "query" and "script".                       *)

\* Mutant: a command without arguments is sent without its newline.
Row_NoNewline(name, command, line, wait, class) ==
    [name |-> name, wait |-> wait, class |-> class,
     parts |-> <<Word(command)>> \o line, many |-> {},
     ending |-> IF line = <<>> THEN {<<>>} ELSE Word(Newline)]

Row(name, command, line, wait, class) ==
    [name |-> name, wait |-> wait, class |-> class,
     parts |-> <<Word(command)>> \o line, many |-> {}, ending |-> Word(Newline)]

\* for (part : parts), the last but for the newline in each line that has one.
Many(row, part) == [row EXCEPT !.many = part]

\* Mutant: the functions that set the program going wait for "done".
Resume_Done(name, command, line) == Row(name, command, line, "class", "done")

Set(name, command, line)    == Row(name, command, line, "class", "done")
Resume(name, command, line) == Row(name, command, line, "class", "running")
Ask(name, command, line)    == Row(name, command, line, "callback", "done")

BreakControl ==
    {Set("break_after", "-break-after", <<Arg(Number), Arg(Number)>>),
     Many(Set("break_commands", "-break-commands", <<Arg(Number)>>), Arg(Quoted)),
     Set("break_condition", "-break-condition", <<Arg(Number), Arg(String)>>)}
    \union
    UNION {{Set(f[1], f[2], <<Arg(Number)>>),
            Many(Set(f[1], f[2], <<Word(Blank)>>), Arg(Number))} :
           f \in {<<"break_delete", "-break-delete">>,
                  <<"break_disable", "-break-disable">>,
                  <<"break_enable", "-break-enable">>}}

\* loc_for_break: a linespec is one string or nothing, an explicit location has
\* the options --source, --function, --label and --line, an address is a string.
Linespec == Opt(String)
Explicit ==
    LET option == Value("--option", String)
    IN  Cat(Cat(Cat(option, option), option), Opt(Cat(Ahead(Word("--line")), Number)))
Address == String
Location == Linespec \union Explicit \union Address

BreakInsert ==
    {Ask("break_info", "-break-info", <<Arg(Number)>>),
     Ask("break_insert", "-break-insert",
         <<Word(Blank), FlagAhead("-t"), FlagAhead("-h"), FlagAhead("-f"),
           FlagAhead("-d"), FlagAhead("-a"), Value("-c", QuoteIf),
           Value("-i", Number), Value("-p", Number), Location>>)}

DprintfInsert ==
    {Many(Ask("dprintf_insert", "-dprintf-insert",
         <<Word(Blank), FlagAhead("-t"), FlagAhead("-f"), FlagAhead("-d"),
           Value("-c", String), Value("-i", Number), Value("-p", Number),
           Opt(Ahead(Location)), String>>), Arg(String))}

BreakWatch ==
    {Ask("break_list", "-break-list", <<>>),
     Set("break_passcount", "-break-passcount", <<Arg(Number), Arg(Number)>>),
     Ask("break_watch", "-break-watch",
         <<Word(Blank), FlagAhead("-a"), FlagAhead("-r"), String>>)}

CatchPoints ==
    {Ask(f[1], f[2], <<Word(Blank), FlagAhead("-t"), FlagAhead("-d"), String>>) :
        f \in {<<"catch_load", "-catch-load">>, <<"catch_unload", "-catch-unload">>}}
    \union
    {Ask(f[1], f[2], <<Opt(Cat(Arg(Word("-c")), Arg(String))), Flag("-t"), Flag("-d")>>) :
        f \in {<<"catch_assert", "-catch-assert">>,
               <<"catch_exception", "-catch-exception">>}}

Environment ==
    {Many(Set("exec_arguments", "-exec-arguments", <<>>), Arg(String)),
     Set("environment_cd", "-environment-cd", <<Arg(String)>>),
     Many(Ask("environment_directory", "-environment-directory", <<Flag("-r")>>),
          Arg(String)),
     Many(Ask("environment_path", "-environment-path", <<Flag("-r")>>), Arg(String)),
     Ask("environment_pwd", "-environment-pwd", <<>>)}

Threads ==
    {Ask("thread_info_", "-thread-info", <<Opt(Arg(Number))>>),
     Ask("thread_list_ids", "-thread-list-ids", <<>>),
     Ask("thread_select", "-thread-select", <<Arg(Number)>>),
     Ask("ada_task_info", "-ada-task-info", <<Opt(Arg(Number))>>)}

ThreadGroup == Opt(Cat(Arg(Word("--thread-group")), Arg(Number)))

ExecContinue ==
    {Resume(f[1], f[2], <<Flag("--reverse")>> \o f[3]) :
        f \in {<<"exec_continue", "-exec-continue", <<Flag("--all")>>>>,
               <<"exec_continue", "-exec-continue", <<ThreadGroup>>>>,
               <<"exec_finish", "-exec-finish", <<>>>>}}
    \union
    {Resume("exec_interrupt", "-exec-interrupt", <<f>>) :
        f \in {Flag("--all"), ThreadGroup}}

\* exec_jump to exec_until, and enable_frame_filters.
ExecStep ==
    {Resume(f[1], f[2], <<Arg(Location)>>) :
        f \in {<<"exec_jump", "-exec-jump">>, <<"exec_until", "-exec-until">>}}
    \union
    {Resume(f[1], f[2], <<Flag("--reverse")>>) :
        f \in {<<"exec_next", "-exec-next">>,
               <<"exec_next_instruction", "-exec-next-instruction">>,
               <<"exec_step", "-exec-step">>,
               <<"exec_step_instruction", "-exec-step-instruction">>}}
    \union
    {Ask("exec_return", "-exec-return", <<Opt(Arg(String))>>),
     Resume("exec_run", "-exec-run", <<Flag("--start"), Flag("--all")>>),
     Resume("exec_run", "-exec-run",
            <<Flag("--start"), Arg(Word("thread-group")), Arg(Number)>>),
     Resume("enable_frame_filters", "-enable-frame-filters", <<>>)}

FromTo == Opt(Cat(Arg(Number), Arg(Number)))

Stack ==
    {Ask("stacke_info_frame", "-stack-info-frame", <<>>),
     Ask("stack_info_depth", "-stack-info-depth", <<>>),
     Ask("stack_list_arguments", "-stack-list-arguments",
         <<Word(Blank), FlagAhead("--no-frame-filters"),
           FlagAhead("--skip-unavailable"), Number, FromTo>>),
     Ask("stack_list_frames", "-stack-list-frames",
         <<Word(Blank), Flag("--no-frame-filters"), FromTo>>)}

StackLists ==
    {Ask(f[1], f[2], <<Word(Blank), FlagAhead("--no-frame-filters"),
                       FlagAhead("--skip-unavailable"), Number>>) :
        f \in {<<"stack_list_locals", "-stack-list-locals">>,
               <<"stack_list_variables", "-stack-list-variables">>}}
    \union
    {Set("stack_select_frame", "-stack-select-frame", <<Arg(Number)>>),
     Set("enable_pretty_printing", "-enable-pretty-printing", <<>>)}

\* var_set_format ends the line with the format, and has none for raw.
VarObjects ==
    LET name == Ahead(String \union Word("-"))
    IN  {Ask("var_create", "-var-create",
             <<Word(Blank), name, Ahead(Number \union Word("*")), String>>),
         Ask("var_create", "-var-create",
             <<Word(Blank), name, Ahead(Word("@")), String>>),
         Set("var_delete", "-var-delete", <<Word(Blank), FlagAhead("-c"), String>>),
         [Set("var_set_format", "-var-set-format", <<Arg(String)>>) EXCEPT
             !.ending = Opt(Cat(Arg(Word("format")), Word(Newline)))]}

VarInfo ==
    {Ask(f[1], f[2], <<Arg(String)>>) :
        f \in {<<"var_show_format", "-var-show-format">>,
               <<"var_info_num_children", "-var-info-num-children">>,
               <<"var_info_type", "-var-info-type">>,
               <<"var_info_expression", "-var-info-expression">>,
               <<"var_info_path_expression", "-var-info-path-expression">>,
               <<"var_show_attributes", "-var-show-attributes">>}}
    \union
    {Ask("var_list_children", "-var-list-children",
         <<Word(Blank), Opt(Ahead(Number)), String, FromTo>>)}

\* var_set_frozen appends '1' or '0' to the name.
VarUpdate ==
    {Ask("var_evaluate_expression", "-var-evaluate-expression",
         <<Word(Blank), Value("-f", String), String>>),
     Ask("var_assign", "-var-assign", <<Arg(String), Arg(String)>>),
     Ask("var_update", "-var-update",
         <<Word(Blank), Opt(Ahead(Number)), String \union Word("*")>>),
     Set("var_set_frozen", "-var-set-frozen", <<Arg(String), Number>>),
     Set("var_set_update_range", "-var-set-update-range",
         <<Arg(String), Arg(Number), Arg(Number)>>),
     Set("var_set_visualizer", "-var-set-visualizer",
         <<Arg(String), Arg(Quoted) \union Ahead(Arg(Word("None")))>>),
     Set("var_set_default_visualizer", "-var-set-visualizer",
         <<Arg(String), Arg(Word("gdb.default_visualizer"))>>)}

Disassemble ==
    {Ask("data_disassemble", "-data-disassemble", f \o <<Arg(Word("--")), Arg(Number)>>) :
        f \in {<<>>,
               <<Arg(Word("-s")), Arg(Number), Arg(Word("-e")), Arg(Number)>>,
               <<Word(Blank), Arg(Word("-f")), Arg(String), Arg(Word("-l")), Arg(Number),
                 Opt(Cat(Arg(Word("-n")), Arg(Number)))>>}}

DataRegisters ==
    {Ask("data_evaluate_expression", "-data-evaluate-expression", <<Arg(QuoteIf)>>),
     Ask("data_list_changed_registers", "-data-list-changed-registers", <<>>),
     Ask("data_list_register_names", "-data-list-register-names", <<>>),
     Many(Ask("data_list_register_values", "-data-list-register-values",
              <<Word(Blank), FlagAhead("--skip-unavailable"), Opt(Word("format"))>>),
          Arg(Number))}

DataMemory ==
    LET offset == Opt(Cat(Arg(Word("-o")), Arg(Number)))
    IN  {Ask("data_read_memory", "-data-read-memory",
             <<offset, Arg(String), Arg(Word("x")), Arg(Number), Arg(Number),
               Arg(Number), Opt(Arg(Word("char")))>>),
         Ask("data_read_memory_bytes", "-data-read-memory-bytes",
             <<offset, Arg(Number), Arg(Number)>>),
         Set("data_write_memory_bytes", "-data-write-memory-bytes",
             <<Arg(Number), Word(Blank), Opt(Word("bytes")), Opt(Arg(Number))>>)}

TraceFind ==
    {Set("trace_find(none)", "-trace-find", <<Arg(Word("none"))>>),
     Ask("trace_find", "-trace-find", <<Arg(String)>>)}
    \union
    {Ask("trace_find", "-trace-find", <<Arg(Word(how)), Arg(Number)>>) :
        how \in {"frame-number", "tracepoint-number", "pc"}}
    \union
    {Ask("trace_find", "-trace-find", <<Arg(Word(how)), Arg(Number), Arg(Number)>>) :
        how \in {"pc-inside-range", "pc-outside-range"}}
    \union
    {Ask("trace_find", "-trace-find", <<Arg(Word("line")), Arg(Number \union String)>>)}

Trace ==
    {Set("trace_define_variable", "-trace-define-variable",
         <<Arg(String), Opt(Arg(String))>>),
     Ask("trace_frame_collected", "-trace-find",
         <<Ahead(Arg(Word("line"))),
           Opt(Cat(Ahead(Word("--var-print-values")), String)),
           Opt(Cat(Ahead(Word("--comp-print-valuess")), String)),
           Opt(Cat(Ahead(Word("--registers-format")), String)),
           Opt(Word("--memory-contents"))>>),
     Ask("trace_list_variables", "-trace-list-variable", <<>>),
     Set("trace_save", "-trace-save", <<Word(Blank), FlagAhead("-r"), String>>),
     Set("trace_start", "-trace-start", <<>>),
     Ask("trace_status", "-trace-status", <<>>),
     Set("trace_stop", "-trace-stop", <<>>)}

Files ==
    {Set(f[1], f[2], <<Arg(String)>>) :
        f \in {<<"file_exec_and_symbols", "-file-exec-and-symbols">>,
               <<"file_exec_file", "-file-exec-file">>,
               <<"file_symbol_file", "-file-symbol-file">>}}
    \union
    {Ask("symbol_list_lines", "-trace-status", <<>>),
     Ask("file_list_exec_source_file", "-file-list-exec-source-file", <<>>),
     Ask("file_list_exec_source_files", "-file-list-exec-source-files", <<>>)}

Target ==
    {Ask("target_download", "-target-download", <<>>),
     Many(Row("target_select", "-target-select", <<Arg(String)>>, "callback", "connected"),
          Arg(String)),
     Set("target_file_put", "-target-file-put", <<Arg(String), Arg(String)>>),
     Set("target_file_get", "-target-file-get", <<Arg(String), Arg(String)>>),
     Set("target_file_delete", "-target-file-delete", <<Arg(String)>>)}

Info ==
    {Ask(f[1], f[2], <<Arg(String)>>) :
        f \in {<<"info_ada_exceptions", "-info-ada-exceptions">>,
               <<"info_gdb_mi_command", "-info-gdb-mi-command">>}}
    \union
    {Ask("list_features", "-list-features", <<>>),
     Ask("list_target_features", "-list-target-features", <<>>)}

GdbControl ==
    {Row("gdb_exit", "-gdb-exit", <<>>, "class", "exit"),
     Set("gdb_set", "-gdb-set", <<Arg(String), Arg(String)>>),
     Ask("gdb_show", "-gdb-show", <<Arg(String)>>),
     Set("gdb_version", "-gdb-version", <<>>)}

ThreadGroups ==
    {Many(Ask("list_thread_groups", "-list-thread-groups",
              <<Flag("--available"), Opt(Cat(Arg(Word("--recurse")), Arg(Number)))>>),
          Arg(Number)),
     Ask("info_os", "-info-os", <<Opt(Arg(String))>>)}

Inferior ==
    {Ask("add_inferior", "-add-inferior", <<>>),
     Row("interpreter_exec", "-interpreter-exec", <<Arg(String), Arg(QuoteIf)>>,
         "ignore", "any"),
     Set("inferior_tty_set", "-inferior-tty-set", <<Arg(String)>>),
     Ask("inferior_tty_show", "-inferior-tty-show", <<>>),
     Set("enable_timings", "-enable-timings",
         <<Word(Blank), Word("yes") \union Word("no")>>)}

Functions ==
    UNION {BreakControl, BreakInsert, DprintfInsert, BreakWatch, CatchPoints,
           Environment, Threads, ExecContinue, ExecStep, Stack, StackLists,
           VarObjects, VarInfo, VarUpdate, Disassemble, DataRegisters, DataMemory,
           TraceFind, Trace, Files, Target, Info, GdbControl, ThreadGroups, Inferior}

-----------------------------------------------------------------------------
(* A call.                                                                 *)

NoFunction == [name |-> "none", wait |-> "ignore", class |-> "any", parts |-> <<>>,
               many |-> {}, ending |-> {}]

Init ==
    /\ pc = "idle" /\ function = NoFunction /\ parts = <<>>
    /\ rounds = 0 /\ inBuf = <<>> /\ gdbBuf = <<>> /\ outcome = "none"
    /\ timings = FALSE

Call(f) ==
    /\ pc = "idle" /\ pc' = "build"
    /\ function' = f /\ parts' = f.parts /\ rounds' = 0
    /\ outcome' = "none"
    /\ UNCHANGED <<inBuf, gdbBuf, timings>>

AppendPart ==
    /\ pc = "build" /\ parts # <<>>
    /\ \E form \in Head(parts) : inBuf' = inBuf \o form
    /\ parts' = Tail(parts)
    /\ UNCHANGED <<pc, function, rounds, gdbBuf, outcome, timings>>

AppendMore ==
    /\ pc = "build" /\ parts = <<>> /\ rounds < MaxMany
    /\ \E form \in function.many : inBuf' = inBuf \o form
    /\ rounds' = rounds + 1
    /\ UNCHANGED <<pc, function, parts, gdbBuf, outcome, timings>>

\* The line is ended.  _work: it goes to gdb, behind what gdb has of a line
\* already.
Write ==
    /\ pc = "build" /\ parts = <<>>
    /\ \E end \in function.ending : inBuf' = inBuf \o end
    /\ pc' = "wait" /\ gdbBuf' = gdbBuf \o inBuf'
    /\ UNCHANGED <<function, parts, rounds, outcome, timings>>

\* The class gdb answers a command it executes with (external).
ClassOf(command) ==
    CASE command \in {"-exec-continue", "-exec-finish", "-exec-jump", "-exec-next",
                      "-exec-next-instruction", "-exec-run", "-exec-step",
                      "-exec-step-instruction", "-exec-until"} -> "running"
      [] command = "-target-select" -> "connected"
      [] command = "-gdb-exit"      -> "exit"
      [] OTHER                      -> "done"

\* Whether it has results as well (external).  Of the commands whose functions
\* wait for a class, three are answered with fields of their own, and a fourth
\* with the frame it finds, if there is one.
FieldsOf(command) ==
    CASE command \in {"-var-delete", "-var-set-format", "-trace-stop"} -> {TRUE}
      [] command = "-trace-find" -> BOOLEAN
      [] OTHER                   -> {FALSE}

\* The time is a field of every command that is done, but for the one that asks
\* for it first (external).
Timed(class) == class = "done" /\ timings /\ timings'

\* What the function makes of the answer: _handle_record for a class, which takes
\* no results with it, the function itself after a callback.
Outcome(f, class, fields) ==
    IF \/ f.wait = "ignore"
       \/ class = f.class /\ (f.wait = "class" => ~fields)
    THEN "ok"
    ELSE IF class = "error" THEN "gdbError" ELSE "unexpected"

\* gdb reads a line that has ended, and executes the command.
Execute ==
    LET command == gdbBuf[1]
        class   == ClassOf(command)
    IN  /\ timings' = IF command = "-enable-timings" THEN gdbBuf[3] = "yes" ELSE timings
        /\ \E fields \in FieldsOf(command) :
             outcome' = Outcome(function, class, fields \/ Timed(class))

\* Or it refuses it, and says why.
Refuse == outcome' = Outcome(function, "error", TRUE) /\ UNCHANGED timings

Answer ==
    /\ pc = "wait" /\ gdbBuf[Len(gdbBuf)] = Newline
    /\ pc' = "idle" /\ gdbBuf' = <<>>
    /\ Execute \/ Refuse
    /\ function' = NoFunction /\ inBuf' = <<>>     \* nobody looks at it again
    /\ UNCHANGED <<parts, rounds>>

CallAny == \E f \in Functions : f.name \in Called /\ Call(f)

Next == CallAny \/ AppendPart \/ AppendMore \/ Write \/ Answer

\* The program goes on with a call it has begun, and gdb answers.
Spec == Init /\ [][Next]_vars /\ WF_vars(AppendPart \/ Write) /\ WF_vars(Answer)

-----------------------------------------------------------------------------
\* Every call returns: whatever options are chosen, the line that is put
\* together is one gdb can read, so that an answer comes (_work_impl waits for
\* one without a limit of its own).
CallReturns == pc = "build" ~> pc = "idle"

\* The words of a line stay apart, in every combination of the options: no
\* option or parameter is glued to the one before (each function appends its
\* blanks ahead of or behind its options, in a style of its own).
WordsApart ==
    pc = "wait" =>
        \A i \in 1 .. Len(inBuf) - 1 :
            {inBuf[i], inBuf[i + 1]} \intersect {Blank, Newline} # {}

\* A command gdb executes is taken for a failure only when timings were asked for:
\* otherwise the class the function waits for is the one gdb has for the command
\* it was sent, and comes without the results _handle_record does not take.
AnswerExpected == outcome = "unexpected" => timings
=============================================================================
