----------------------------- MODULE GdbProcess -----------------------------
(***************************************************************************)
(* One run of mw::gdb::process (src/mw/gdb/process.cpp) and of its base    *)
(* class (src/mw/debug/process.cpp), up to the exit status main returns.   *)
(*                                                                         *)
(* The coroutine _run_impl is suspended in one call of the interpreter at  *)
(* a time (at); when the call ends it runs to its next call, in one step.  *)
(* Between the two the io_service may run the other handlers: that of the  *)
(* deadline timer and that of the child's exit.  How a call may end is the *)
(* promise of DebugSession, which Mi2Interpreter implements.               *)
(***************************************************************************)
EXTENDS Integers, Sequences, FiniteSets

CONSTANTS
    BreakPoints,    \* the break_point objects of the plugins
    Location,       \* the place of the program each of them names
    NoBp,           \* stands for no break_point
    Settings,       \* the option sets that are tried
    TimeOuts,       \* whether _time_out > 0: the choices that are tried
    MaxStops,       \* bound: breakpoints the program hits
    MaxFrameOps     \* bound: values read and frame functions called at one stop

ASSUME ProcessAssumption ==
    /\ IsFiniteSet(BreakPoints) /\ NoBp \notin BreakPoints
    /\ DOMAIN Location = BreakPoints
    /\ TimeOuts \subseteq BOOLEAN /\ MaxStops \in Nat /\ MaxFrameOps \in Nat
    /\ \A s \in Settings :
         /\ s.options \subseteq {"file_exec_and_symbols", "exec_arguments",
                                 "target_select_remote"}
         /\ s.breaks \in Seq(BreakPoints)
         /\ s.scripts \in Seq({"script", "scriptBreak", "scriptRun"})

VARIABLES
    at,         \* the interpreter call _run_impl is suspended in
    plan,       \* the calls that follow it without a decision
    numbers,    \* gdb's breakpoints: number n is at the place numbers[n]
    bpMap,      \* _break_point_map: from gdb's numbers to break_points
    told,       \* the break_points set_at was called for
    target,     \* the program: "loaded", "running", "stopped" or "gone"
    bkptno,     \* the number gdb gave with the last breakpoint stop, or 0
    invoked,    \* the break_points invoked for this stop
    hits, ops,  \* counters of MaxStops and MaxFrameOps
    status,     \* what the program or its _exit breakpoint left, or NoStatus
    exited,     \* _exited
    exitCode,   \* _exit_code
    child,      \* gdb: "running", "exited", or "reaped" once on_exit has run
    outOpen,    \* _out is not closed
    timeOut,    \* _time_out > 0
    armed,      \* a wait of _timer is pending
    expired,    \* the handler of an expired wait, too late to cancel: "no",
                \* "queued" behind another ready handler, or "next" to run
    ended       \* how run() ended: "no", "returned", "timeout", "thrown", "crashed"

bpVars     == <<numbers, bpMap, told>>
targetVars == <<target, bkptno, invoked, hits, ops, status>>
exitVars   == <<exited, exitCode>>
childVars  == <<child, outOpen>>
timerVars  == <<timeOut, armed, expired>>
vars == <<at, plan, bpVars, targetVars, exitVars, childVars, timerVars,
          ended>>

Fn(name) == [fn |-> name, bp |-> NoBp]
Insert(bp) == [fn |-> "break_insert", bp |-> bp]
NoCall == Fn("none")

\* The functions of the interpreter and the frame that a run calls.
CallNames ==
    {"none", "read_header", "file_exec_and_symbols", "exec_arguments",
     "target_select_remote", "break_insert", "script", "scriptBreak", "scriptRun",
     "exec_run", "exec_continue", "wait_for_stop", "stack_list_arguments",
     "parse_var", "set", "print", "gdb_exit"}
AnyCall == [fn : CallNames, bp : BreakPoints \union {NoBp}]

NoStatus == -1      \* the initial _exit_code
Codes == {0, 3}     \* exit statuses of the program

\* What DebugSession calls the functions of the interpreter.
Kind(fn) ==
    CASE fn \in {"read_header"}                  -> "header"
      [] fn \in {"file_exec_and_symbols", "exec_arguments"} -> "set"
      [] fn \in {"exec_run", "exec_continue"}    -> "resume"
      [] fn = "wait_for_stop"                    -> "wait"
      [] fn = "gdb_exit"                         -> "exit"
      [] fn \in {"script", "scriptBreak"}        -> "script"
      [] fn = "scriptRun"                        -> "scriptRun"
      [] OTHER                                   -> "query"

Session == INSTANCE DebugSession WITH
    busy <- Kind(at.fn), asked <- 0, gdbAlive <- (child = "running"), answer <- 0

\* Mutant: the init scripts are executed before the break_points are set.
Setup_ScriptsFirst(s) ==
    [i \in DOMAIN s.scripts |-> Fn(s.scripts[i])]
    \o [i \in DOMAIN s.breaks |-> Insert(s.breaks[i])]
    \o (IF s.scripts = <<>> THEN <<Fn("exec_run")>> ELSE <<>>)
    \o <<Fn("wait_for_stop")>>

\* Mutant: a remote target is not continued.
Setup_NotContinued(s) ==
    [i \in DOMAIN s.breaks |-> Insert(s.breaks[i])]
    \o (IF s.scripts = <<>> /\ "target_select_remote" \notin s.options
        THEN <<Fn("exec_run")>> ELSE [i \in DOMAIN s.scripts |-> Fn(s.scripts[i])])
    \o <<Fn("wait_for_stop")>>

\* The calls of _run_impl up to the first wait_for_stop (51-75, 152-161).
Setup(s) ==
    LET option(o) == IF o \in s.options THEN <<Fn(o)>> ELSE <<>>
        start == CASE s.scripts # <<>> ->
                        [i \in DOMAIN s.scripts |-> Fn(s.scripts[i])]
                   [] s.scripts = <<>> /\ "target_select_remote" \in s.options ->
                        <<Fn("exec_continue")>>
                   [] OTHER -> <<Fn("exec_run")>>
    IN  option("file_exec_and_symbols") \o option("exec_arguments")
        \o option("target_select_remote")
        \o [i \in DOMAIN s.breaks |-> Insert(s.breaks[i])]
        \o start \o <<Fn("wait_for_stop")>>

\* Mutant: the exit code is success until something else is known.
Init_Success ==
    /\ \E s \in Settings : plan = Setup(s)
    /\ at = Fn("read_header")
    /\ numbers = <<>> /\ bpMap = <<>> /\ told = {}
    /\ target = "loaded" /\ bkptno = 0 /\ invoked = {}
    /\ hits = 0 /\ ops = 0 /\ status = NoStatus
    /\ exited = FALSE /\ exitCode = 0
    /\ child = "running" /\ outOpen = TRUE
    /\ timeOut \in TimeOuts /\ armed = timeOut /\ expired = "no"
    /\ ended = "no"

\* run(): the timer is set and the coroutine spawned.
Init ==
    /\ \E s \in Settings : plan = Setup(s)
    /\ at = Fn("read_header")
    /\ numbers = <<>> /\ bpMap = <<>> /\ told = {}
    /\ target = "loaded" /\ bkptno = 0 /\ invoked = {}
    /\ hits = 0 /\ ops = 0 /\ status = NoStatus
    /\ exited = FALSE /\ exitCode = NoStatus
    /\ child = "running" /\ outOpen = TRUE
    /\ timeOut \in TimeOuts /\ armed = timeOut /\ expired = "no"
    /\ ended = "no"

-----------------------------------------------------------------------------
\* A ready handler of the io_service runs, before the one that is next.
HandlerRuns ==
    /\ expired # "next" /\ timeOut' = timeOut
    /\ expired' = IF expired = "queued" THEN "next" ELSE expired

\* Mutant: the pending wait is cancelled, but no new one begun.
reset_timer_CancelOnly == armed' = FALSE /\ HandlerRuns

\* reset_timer(): a pending wait is cancelled and a new one begun; a handler
\* that is queued already cannot be cancelled (267-283).
reset_timer == armed' = (armed \/ timeOut) /\ HandlerRuns
keep_timer  == armed' = armed /\ HandlerRuns

Suspended(fn) == ended = "no" /\ at.fn = fn
GoTo(name) == at' = Fn(name) /\ plan' = plan
Advance    == at' = Head(plan) /\ plan' = Tail(plan)

\* The call ends the way result says: one of those the session promises.
Ends(result) ==
    IF child = "running" THEN result \in Session!Promised(Kind(at.fn)) ELSE TRUE

\* The exception leaves _run_impl, and with it run() and main's try block.
Throw ==
    /\ at' = NoCall /\ plan' = <<>> /\ ended' = "thrown"
    /\ keep_timer
    /\ UNCHANGED <<bpVars, targetVars, exitVars, childVars>>

\* A call fails, and nobody catches it: anything but gdb's error for
\* break_insert, or for a function of the frame whose plugin catches it.
CallThrows ==
    /\ ended = "no" /\ at # NoCall
    /\ \E result \in {"gdbError", "unexpected", "asyncToken", "io"} :
         Ends(result) /\ (result = "gdbError" => at.fn # "break_insert")
    /\ Throw

\* What fails whatever gdb does: the pipe is closed, or gdb and all who hold
\* its end of the pipe are gone.
Broken == child # "running" /\ (~outOpen \/ target # "running")

\* read_header and the options.
SetupReply ==
    /\ ended = "no"
    /\ at.fn \in {"read_header", "file_exec_and_symbols", "exec_arguments",
                  "target_select_remote"}
    /\ Ends("ok") /\ Advance
    /\ keep_timer
    /\ UNCHANGED <<bpVars, targetVars, exitVars, childVars, ended>>

\* Mutant: the pointer is moved from before it is stored.
BreakSet_MovedFrom ==
    /\ Suspended("break_insert") /\ Ends("ok") /\ Advance
    /\ numbers' = Append(numbers, Location[at.bp])
    /\ bpMap' = [n \in DOMAIN bpMap \union {Len(numbers')} |->
                    IF n = Len(numbers') THEN NoBp ELSE bpMap[n]]
    /\ told' = told \union {at.bp}
    /\ keep_timer
    /\ UNCHANGED <<targetVars, exitVars, childVars, ended>>

\* _init_bps: gdb sets the breakpoint, the object is told and found by number.
BreakSet ==
    /\ Suspended("break_insert") /\ Ends("ok") /\ Advance
    /\ numbers' = Append(numbers, Location[at.bp])
    /\ bpMap' = [n \in DOMAIN bpMap \union {Len(numbers')} |->
                    IF n = Len(numbers') THEN at.bp ELSE bpMap[n]]
    /\ told' = told \union {at.bp}
    /\ keep_timer
    /\ UNCHANGED <<targetVars, exitVars, childVars, ended>>

\* Mutant: the break_point is kept under the next number whether it was set or not.
BreakError_Stored ==
    /\ Suspended("break_insert") /\ Ends("gdbError") /\ Advance
    /\ bpMap' = [n \in DOMAIN bpMap \union {Len(numbers) + 1} |->
                    IF n = Len(numbers) + 1 THEN at.bp ELSE bpMap[n]]
    /\ keep_timer
    /\ UNCHANGED <<numbers, told, targetVars, exitVars, childVars, ended>>

\* _init_bps: gdb's error, an unexpected_result_class that is ignored.
BreakError ==
    /\ Suspended("break_insert") /\ Ends("gdbError") /\ Advance
    /\ keep_timer
    /\ UNCHANGED <<bpVars, targetVars, exitVars, childVars, ended>>

\* A line of an init script: interpreter_exec takes any record for an answer,
\* so a line that should set the program going may also have failed to.
ScriptReply ==
    /\ ended = "no" /\ at.fn \in {"script", "scriptBreak", "scriptRun"}
    /\ Ends("ok") /\ Advance
    /\ \/ UNCHANGED <<numbers, target>>
       \/ at.fn = "scriptRun" /\ target' = "running" /\ UNCHANGED numbers
       \/ /\ at.fn = "scriptBreak" /\ UNCHANGED target
          /\ \E bp \in BreakPoints : numbers' = Append(numbers, Location[bp])
    /\ keep_timer
    /\ UNCHANGED <<bpMap, told, bkptno, invoked, hits, ops, status,
                   exitVars, childVars, ended>>

\* Mutant: _handle_bps does not wait after it has continued.
Resumed_NoWait ==
    /\ ended = "no" /\ at.fn \in {"exec_run", "exec_continue"} /\ Ends("ok")
    /\ target' = "running" /\ ops' = 0
    /\ IF plan # <<>> THEN Advance ELSE GoTo("stack_list_arguments")
    /\ keep_timer
    /\ UNCHANGED <<bpVars, bkptno, invoked, hits, status, exitVars,
                   childVars, ended>>

\* exec_run and exec_continue of _start, exec_continue of _handle_bps.
Resumed ==
    /\ ended = "no" /\ at.fn \in {"exec_run", "exec_continue"} /\ Ends("ok")
    /\ target' = "running" /\ ops' = 0
    /\ IF plan # <<>> THEN Advance ELSE GoTo("wait_for_stop")
    /\ keep_timer
    /\ UNCHANGED <<bpVars, bkptno, invoked, hits, status, exitVars,
                   childVars, ended>>

-----------------------------------------------------------------------------
\* set_exit of the process (debug/process.hpp 82-87).
set_exit(code) == exited' = TRUE /\ exitCode' = code

FrameFns == {"set", "print"}    \* those that reset the timer, those that do not

\* invoke(): the break_point calls functions of the frame, and returns, or sets
\* the exit code as mw-exitcode does; resets tells whether reset_timer was
\* called on the way here.  _handle_bps leaves its loop if _exited is set.
Invoke(resets) ==
    \/ /\ \/ /\ ops < MaxFrameOps /\ ops' = ops + 1
             /\ \E fn \in FrameFns : GoTo(fn)
          \/ ops' = ops /\ GoTo("exec_continue")
       /\ IF resets THEN reset_timer ELSE keep_timer
       /\ UNCHANGED <<exitVars, status>>
    \/ \E code \in Codes :
         /\ set_exit(code) /\ status' = code /\ ops' = ops
         /\ GoTo("gdb_exit") /\ reset_timer

\* _break_point_map[num]->invoke: an unknown number is a null pointer.
FindAndInvoke(num, resets) ==
    IF num \in DOMAIN bpMap
    THEN /\ invoked' = {bpMap[num]} /\ ended' = ended /\ Invoke(resets)
    ELSE /\ at' = NoCall /\ ended' = "crashed" /\ invoked' = {}
         /\ keep_timer
         /\ UNCHANGED <<plan, ops, status, exitVars>>

\* The number gdb reports at a place: it prints the first breakpoint there.
Reported(place) ==
    CHOOSE n \in DOMAIN numbers :
        /\ numbers[n] = place
        /\ \A m \in 1 .. n - 1 : numbers[m] # place

\* wait_for_stop returns "breakpoint-hit": the names of the frame's arguments
\* are read unless they are known, and the value of each that is a reference;
\* where neither is read the break_point is invoked at once.
StopAtBreakpoint ==
    /\ Suspended("wait_for_stop") /\ Ends("ok")
    /\ target = "running" /\ target' = "stopped"
    /\ hits < MaxStops /\ hits' = hits + 1
    /\ \E n \in DOMAIN numbers :
         /\ bkptno' = Reported(numbers[n])
         /\ \/ /\ \E fn \in {"stack_list_arguments", "parse_var"} : GoTo(fn)
               /\ reset_timer /\ ops' = ops /\ invoked' = {}
               /\ UNCHANGED <<exitVars, status, ended>>
            \/ FindAndInvoke(bkptno', TRUE)
    /\ UNCHANGED <<bpVars, childVars>>

\* An argument call returns, up to the next argument that is a reference or to the
\* break_point.  Each parse_var is followed by a reset of the timer, also that of
\* an argument which is no reference and asks gdb nothing.
ArgumentReply ==
    /\ ended = "no" /\ at.fn \in {"stack_list_arguments", "parse_var"}
    /\ Ends("ok")
    /\ \E resets \in IF at.fn = "parse_var" THEN {TRUE} ELSE BOOLEAN :
         \/ /\ ops < MaxFrameOps /\ ops' = ops + 1
            /\ GoTo("parse_var")
            /\ IF resets THEN reset_timer ELSE keep_timer
            /\ UNCHANGED <<invoked, status, exitVars, ended>>
         \/ FindAndInvoke(bkptno, resets)
    /\ UNCHANGED <<bpVars, target, bkptno, hits, childVars>>

\* A function of the frame returns, or throws what the break_point catches.
FrameReply ==
    /\ ended = "no" /\ at.fn \in FrameFns
    /\ \/ Ends("ok") /\ Invoke(at.fn = "set")
       \/ Ends("gdbError") /\ Invoke(FALSE)
    /\ UNCHANGED <<bpVars, target, bkptno, invoked, hits, childVars, ended>>

\* wait_for_stop returns another reason: the program has exited, or something
\* _handle_bps does not know.  Every way out leads to gdb_exit.
StopAtEnd ==
    /\ Suspended("wait_for_stop") /\ Ends("ok") /\ target = "running"
    /\ \/ /\ target' = "gone"           \* "exited-normally", or "exited"
          /\ \E code \in Codes : status' = code /\ set_exit(code)
       \/ /\ target' = "stopped"        \* "signal-received", or another
          /\ UNCHANGED <<status, exitVars>>
    /\ reset_timer /\ GoTo("gdb_exit")
    /\ UNCHANGED <<bpVars, bkptno, invoked, hits, ops, childVars, ended>>

\* "^exit": _run_impl returns.
QuitReply ==
    /\ Suspended("gdb_exit") /\ Ends("ok")
    /\ at' = NoCall /\ plan' = <<>>
    /\ keep_timer
    /\ UNCHANGED <<bpVars, targetVars, exitVars, childVars, ended>>

-----------------------------------------------------------------------------
(* The other handlers of the io_service, and the world.                    *)

\* Time passes: the wait is over and its handler queued.
TimerExpires ==
    /\ ended = "no" /\ armed /\ expired = "no"
    /\ armed' = FALSE /\ expired' \in {"queued", "next"}
    /\ UNCHANGED <<at, plan, bpVars, targetVars, exitVars, childVars, timeOut, ended>>

\* The handler of an expired wait: gdb is terminated and the io_service
\* stopped; _run_impl never runs again (273-281).
TimerHandler ==
    /\ ended = "no" /\ expired # "no"
    /\ ended' = "timeout"
    /\ child' = IF child = "running" THEN "exited" ELSE child
    /\ UNCHANGED <<at, plan, bpVars, targetVars, exitVars, outOpen,
                   timerVars>>

\* gdb ends, of itself or by a crash; a program it was debugging may live on.
ChildExits ==
    /\ ended = "no" /\ child = "running" /\ child' = "exited"
    /\ UNCHANGED <<at, plan, bpVars, targetVars, exitVars, outOpen,
                   timerVars, ended>>

\* Mutant: on_exit leaves the pipes open.
OnExit_PipesOpen ==
    /\ ended = "no" /\ child = "exited" /\ child' = "reaped"
    /\ armed' = FALSE /\ outOpen' = outOpen /\ HandlerRuns
    /\ UNCHANGED <<at, plan, bpVars, targetVars, exitVars, ended>>

\* on_exit: the timer is cancelled, _out and _err are closed.
OnExit ==
    /\ ended = "no" /\ child = "exited" /\ child' = "reaped"
    /\ armed' = FALSE /\ outOpen' = FALSE /\ HandlerRuns
    /\ UNCHANGED <<at, plan, bpVars, targetVars, exitVars, ended>>

\* _io_service.run() has nothing left to do.
RunReturns ==
    /\ ended = "no" /\ at = NoCall /\ child = "reaped" /\ ~armed /\ expired = "no"
    /\ ended' = "returned"
    /\ UNCHANGED <<at, plan, bpVars, targetVars, exitVars, childVars,
                   timerVars>>

\* What main returns (debug-runner.cpp 363, 366-377).
Result == IF ended = "thrown" THEN 1 ELSE exitCode

Replies == SetupReply \/ BreakSet \/ BreakError \/ ScriptReply \/ Resumed
           \/ StopAtBreakpoint \/ ArgumentReply \/ FrameReply \/ StopAtEnd
           \/ QuitReply \/ CallThrows
Next == Replies \/ TimerExpires \/ TimerHandler \/ ChildExits \/ OnExit \/ RunReturns

Spec == Init /\ [][Next]_vars

\* The io_service runs the handlers that are ready and time passes; gdb and the
\* program need not answer, ever.  A call on a broken pipe is ready.
Fairness ==
    /\ WF_vars(TimerExpires) /\ WF_vars(TimerHandler)
    /\ WF_vars(OnExit) /\ WF_vars(RunReturns)
    /\ WF_vars(Broken /\ CallThrows)
FairSpec == Spec /\ Fairness

-----------------------------------------------------------------------------
\* The shape of the state.
TypeOK ==
    /\ at \in AnyCall /\ plan \in Seq(AnyCall)
    /\ numbers \in Seq({Location[b] : b \in BreakPoints})
    /\ \E D \in SUBSET DOMAIN numbers : bpMap \in [D -> BreakPoints]
    /\ told \subseteq BreakPoints /\ invoked \subseteq BreakPoints
    /\ target \in {"loaded", "running", "stopped", "gone"}
    /\ bkptno \in Nat /\ hits \in 0 .. MaxStops /\ ops \in 0 .. MaxFrameOps
    /\ status \in Codes \union {NoStatus}
    /\ exited \in BOOLEAN /\ exitCode \in Codes \union {NoStatus}
    /\ child \in {"running", "exited", "reaped"} /\ outOpen \in BOOLEAN
    /\ timeOut \in TimeOuts /\ armed \in BOOLEAN /\ expired \in {"no", "queued", "next"}
    /\ ended \in {"no", "returned", "timeout", "thrown", "crashed"}

\* No call of the run can wait for ever unseen: as long as run() goes on, the
\* timer is set, its handler is queued, or the pipe under the call is closed.
NeverUnwatched == timeOut /\ ended = "no" => armed \/ expired # "no" \/ ~outOpen

\* No command is sent while the program runs, when gdb would not read it: the
\* protocol Mi2Interpreter assumes of its callers.
KeepsProtocol == target = "running" => at.fn \in {"wait_for_stop", "none"}

\* The run calls what a session allows next, whatever fails and wherever a
\* break_point leaves it: the banner once, a wait behind each call that set the
\* program going and behind the scripts, nothing after gdb_exit.
CallsInTurn ==
    [][~UNCHANGED <<at, plan, ops>> /\ at # NoCall /\ at' # NoCall =>
           Session!InTurn(Kind(at.fn), "ok", Kind(at'.fn))]_vars

\* The break_point that is invoked is set at the place the program stopped at,
\* also when some of the insertions failed before.
RightBreakPoint == \A bp \in invoked : Location[bp] = numbers[bkptno]

\* The runner crashes on a number it does not know only at a place where no
\* break_point was set, but a line of an init script set a breakpoint: scripts
\* run after the break_points are set, and gdb reports the first number.
OnlyForeignCrash ==
    ended = "crashed" => \A bp \in told : Location[bp] # numbers[bkptno]

\* An exit status that was seen is what main returns, unless run() throws; and
\* success is never reported of a program that was not seen to succeed.
HonestStatus ==
    /\ ended \in {"returned", "timeout"} /\ status # NoStatus => Result = status
    /\ ended # "no" /\ Result = 0 => status = 0

\* With a time-out run() ends by itself, whatever gdb and the program do.
RunEnds == timeOut => <>(ended # "no")

\* When gdb is gone run() ends, with a time out or without one.
GdbGoneEnds == child # "running" ~> ended # "no"

\* "The maximal time between two breakpoint occurrences": a run is ended by the
\* timer only if no later wait was begun since the one that expired.
TimeOutMeansSilence ==
    [][ended = "no" /\ ended' = "timeout" => ~armed]_vars

\* set_at, set_multiple or set_not_found is called for every break_point before
\* the program is waited for.
EveryBreakPointTold == at.fn = "wait_for_stop" => told = BreakPoints

\* invoke "will be called when the breakpoint is reached": the program goes on
\* from a place only after every break_point set there was invoked.
HitMeansInvoked ==
    at.fn = "exec_continue" /\ bkptno # 0 =>
        \A n \in DOMAIN bpMap : numbers[n] = numbers[bkptno] => bpMap[n] \in invoked
=============================================================================
