---------------------------- MODULE DebugSession ----------------------------
(***************************************************************************)
(* What the interpreter promises gdb::process (src/mw/gdb/process.cpp): a  *)
(* call at a time; each ends by itself; while gdb lives it ends in one of  *)
(* the ways its function has, with gdb's record for this very command, and *)
(* a wait ends with a stop.  Once gdb is gone a call may fail in any way,  *)
(* but it never returns what gdb said to another command.                  *)
(***************************************************************************)
EXTENDS Naturals

VARIABLES
    busy,       \* the call under way, "none" between calls
    asked,      \* commands sent so far
    gdbAlive,
    answer      \* how the last call ended, and the command it is about

sessionVars == <<busy, asked, gdbAlive, answer>>

Bare     == {"header", "wait"}
Commands == {"set", "query", "resume", "interrupt", "script", "scriptRun", "exit"}
Failures == {"gdbError", "unexpected", "mismatch", "asyncToken", "noRecord",
             "noStop", "io"}

\* How a call may end while gdb lives.  A record with an async token ends any
\* command; a class the function does not expect ends "interrupt" only, and
\* interpreter_exec takes an error for an answer.
Promised(op) ==
    CASE op \in {"set", "query", "resume"} -> {"ok", "gdbError", "asyncToken"}
      [] op \in {"script", "scriptRun"}    -> {"ok", "asyncToken"}
      [] op = "interrupt"                  -> {"unexpected", "gdbError", "asyncToken"}
      [] OTHER                             -> {"ok"}

-----------------------------------------------------------------------------
(* What the session asks of its callers in return.  gdb::process reads the *)
(* banner first, waits for a stop after each call that set the program     *)
(* going and behind the init scripts, and goes on after an                 *)
(* interpreter_error only where some caller catches it (process.cpp 141,   *)
(* frame_impl.cpp 471, mw-newlib.cpp 84).                                  *)

\* Mutant: no wait after an init script has set the program going.
MustWait_RunOnly(op, result) == op = "resume" /\ result = "ok"

\* The program was set going, or may have been: a stop is waited for.
MustWait(op, result) == op \in {"resume", "scriptRun"} /\ result = "ok"

\* The call ended in a way after which some caller makes another.
MayGoOn(op, result) ==
    \/ result = "ok" /\ op # "exit"
    \/ result = "gdbError" /\ op # "scriptRun"
    \/ /\ result \in {"unexpected", "mismatch", "asyncToken"}
       /\ op \in {"set", "query", "script", "interrupt"}

\* The call next may follow the call op, which ended with result.
InTurn(op, result, next) ==
    CASE next = "header" -> op = "none"
      [] next = "wait"   -> MustWait(op, result) \/ (op = "script" /\ result = "ok")
      [] next = "exit"   -> \/ MayGoOn(op, result) /\ ~MustWait(op, result)
                            \/ result = "noStop"
      [] OTHER           -> MayGoOn(op, result) /\ ~MustWait(op, result)

-----------------------------------------------------------------------------
SessionInit ==
    /\ busy = "none" /\ asked = 0 /\ gdbAlive = TRUE
    /\ answer = [op |-> "none", about |-> 0, result |-> "none"]

Begin(op) ==
    /\ busy = "none" /\ busy' = op
    /\ asked' = IF op \in Commands THEN asked + 1 ELSE asked
    /\ UNCHANGED <<gdbAlive, answer>>

End ==
    /\ busy # "none" /\ busy' = "none"
    /\ \E result \in IF gdbAlive THEN Promised(busy) ELSE {"ok"} \union Failures :
         answer' = [op     |-> busy,
                    about  |-> IF result \in {"ok", "gdbError"} /\ busy \in Commands
                               THEN asked ELSE 0,
                    result |-> result]
    /\ UNCHANGED <<asked, gdbAlive>>

GdbGone == gdbAlive /\ gdbAlive' = FALSE /\ UNCHANGED <<busy, asked, answer>>

SessionNext == (\E op \in Bare \union Commands : Begin(op)) \/ End \/ GdbGone

SessionSpec == SessionInit /\ [][SessionNext]_sessionVars
=============================================================================
