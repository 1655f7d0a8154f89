--------------------------- MODULE Mi2Interpreter ---------------------------
(***************************************************************************)
(* The gdb/MI2 interpreter (src/mw/gdb/mi2/interpreter.cpp): one coroutine *)
(* that writes a command to gdb's stdin, reads gdb's stdout up to the next *)
(* "(gdb)" prompt, and deals with the lines of that batch one by one.      *)
(*                                                                         *)
(* gdb and the program it debugs are external: they answer each command    *)
(* with one batch that ends in a prompt, say "running" when the command    *)
(* sets the program going, read no command while it runs, and report the   *)
(* stop in a batch of its own.  gdb may die at any time.                   *)
(*                                                                         *)
(* A line is a record; a result record carries the number of the command   *)
(* it answers, and what the interpreter sees of that number is Token.  A   *)
(* read may end anywhere, also inside a line (cut, or a left-over " \n").  *)
(* "inner" is a line that holds "(gdb)", but not at its start.             *)
(***************************************************************************)
EXTENDS Integers, Sequences, FiniteSets

CONSTANTS
    MaxCalls,       \* bound: calls made in one session
    TokenMod,       \* _token_gen is a std::uint32_t: its number of values
    Ops,            \* the kinds of call the callers make, a subset of AllOps
    Noise,          \* the kinds of line that may come before a record
    Disciplined     \* callers keep to the protocol of gdb::process

NoiseKinds == {"stream", "async", "tokenAsync", "text", "inner"}

\* The calls, by how they wait for an answer.  "header" is read_header and
\* "wait" is wait_for_stop: _work() without a command.  "interrupt" stands for
\* the commands whose function waits for another class than gdb answers with, or
\* that gdb answers with results beside it.
BareOps  == {"header", "wait"}
ClassOps == {"set", "resume", "interrupt", "exit"}
FuncOps  == {"query", "script", "scriptRun"}
CmdOps   == ClassOps \union FuncOps
AllOps   == BareOps \union CmdOps

ASSUME ParametersAssumption ==
    /\ MaxCalls \in Nat /\ TokenMod \in Nat \ {0}
    /\ Ops \subseteq AllOps
    /\ Noise \subseteq NoiseKinds
    /\ Disciplined \in BOOLEAN

VARIABLES
    toGdb,      \* commands in gdb's stdin pipe
    fromGdb,    \* lines in gdb's stdout pipe
    outBuf,     \* _out_buf: the lines read and not yet taken
    cut,        \* the first part of Head(fromGdb) is in _out_buf already
    gdb,        \* the gdb process: "up", "dead", or "closed" after on_exit
    target,     \* the debugged program: "stopped" or "running"
    pc,         \* where the coroutine is
    call,       \* the call under way, or the last one
    issued,     \* commands issued so far; _token_gen is Token(issued)
    got,        \* the record (or stop) the call under way has taken
    last,       \* how the last call ended
    stops,      \* stops of the debugged program so far
    heard       \* stops wait_for_stop has taken

vars == <<toGdb, fromGdb, outBuf, cut, gdb, target, pc, call, issued, got,
          last, stops, heard>>
streams == <<toGdb, fromGdb, outBuf, cut>>
gdbVars == <<gdb, target, stops>>

\* "filled" is "done" with results, where no callback reads them.
Classes == {"done", "filled", "running", "exit", "error"}
Line(kind)           == [kind |-> kind, serial |-> 0, class |-> "none"]
Result(serial, class) == [kind |-> "result", serial |-> serial, class |-> class]
Prompt == Line("prompt")
Text   == Line("text")
LineKinds == Noise \union {"stream", "async", "tokenAsync", "text", "prompt",
                           "stopped", "result"}
Lines  == [kind : LineKinds, serial : Nat, class : Classes \union {"none"}]

Outcomes == {"none", "ok", "noStop", "gdbError", "unexpected", "mismatch",
             "asyncToken", "noRecord", "io"}
Calls == [op : AllOps \union {"none"}, serial : Nat]
NoReply == [serial |-> 0, class |-> "none"]
Replies == [serial : Nat, class : Classes \union {"none", "stopped"}]

\* The token a command is sent with and its result record comes back with.
Token(n) == n % TokenMod

\* The result class a command's caller expects; "any" for interpreter_exec,
\* whose callback ignores the record.
Expected(op) ==
    CASE op \in {"set", "query"}        -> "done"
      [] op \in {"resume", "interrupt"} -> "running"
      [] op = "exit"                    -> "exit"
      [] OTHER                          -> "any"

\* The classes gdb answers a command with (external).
Answers(op) ==
    CASE op \in {"set", "query", "script"} -> {"done", "error"}
      [] op \in {"resume", "scriptRun"}    -> {"running", "error"}
      [] op = "interrupt"                  -> {"done", "filled", "error"}
      [] OTHER                             -> {"exit"}

Init ==
    /\ toGdb = <<>> /\ outBuf = <<>> /\ cut = FALSE
    /\ fromGdb = <<Line("stream"), Prompt>>     \* gdb's banner
    /\ gdb = "up" /\ target = "stopped"
    /\ pc = "idle" /\ call = [op |-> "none", serial |-> 0]
    /\ issued = 0 /\ got = NoReply
    /\ last = [op |-> "none", serial |-> 0, reply |-> NoReply, result |-> "none"]
    /\ stops = 0 /\ heard = 0

-----------------------------------------------------------------------------
\* What the callers see of the interpreter: a call ends when it leaves the loop
\* over the lines; draining the buffer is its own business.
Session == INSTANCE DebugSession WITH
    busy     <- IF pc \in {"idle", "drain"} THEN "none" ELSE call.op,
    asked    <- issued,
    gdbAlive <- (gdb = "up"),
    answer   <- [op     |-> last.op,
                 about  |-> IF last.result \in {"ok", "gdbError"}
                            THEN last.reply.serial ELSE 0,
                 result |-> last.result]

\* The callers make the calls a session allows them.
CallerAllows(op) == Disciplined => Session!InTurn(last.op, last.result, op)

\* A call: a command takes the next token, a bare read takes none.
Call(op) ==
    /\ pc = "idle" /\ CallerAllows(op)
    /\ IF op \in CmdOps
       THEN /\ issued < MaxCalls
            /\ issued' = issued + 1 /\ pc' = "write"
       ELSE /\ issued' = issued /\ pc' = "read"
    /\ call' = [op |-> op, serial |-> issued']
    /\ got' = NoReply
    /\ UNCHANGED <<streams, gdbVars, last, heard>>

\* The call ends: it returns, or throws what result names.
Finish(result) ==
    /\ pc' = "idle"
    /\ last' = [op |-> call.op, serial |-> call.serial, reply |-> got,
                result |-> result]

\* async_write of the command; a broken pipe throws.
Write ==
    /\ pc = "write"
    /\ IF gdb = "up"
       THEN toGdb' = Append(toGdb, call) /\ pc' = "read" /\ last' = last
       ELSE toGdb' = toGdb /\ Finish("io")
    /\ UNCHANGED <<fromGdb, outBuf, cut, gdbVars, call, issued, got, heard>>

\* "(gdb)" is looked for anywhere in the text.
Delimits(line) == line = Prompt \/ line.kind = "inner"
HasPrompt(buf) == \E i \in DOMAIN buf : Delimits(buf[i])

\* async_read_until(_out, _out_buf, "(gdb)"): one chunk of n whole lines, that
\* may end within the line after them, also right behind its "(gdb)".
ReadChunk ==
    /\ pc = "read" /\ ~HasPrompt(outBuf)
    /\ \E n \in 0 .. Len(fromGdb) :
         LET taken == outBuf \o SubSeq(fromGdb, 1, n)
             rest  == SubSeq(fromGdb, n + 1, Len(fromGdb))
         IN  \/ /\ n > 0
                /\ outBuf' = taken /\ fromGdb' = rest /\ cut' = FALSE
             \/ /\ n < Len(fromGdb) /\ (n > 0 \/ ~cut)
                /\ outBuf' = taken /\ fromGdb' = rest /\ cut' = TRUE
             \/ /\ n < Len(fromGdb) /\ Delimits(rest[1])
                /\ outBuf' = Append(taken, rest[1])
                /\ fromGdb' = <<Text>> \o Tail(rest)
                /\ cut' = FALSE
    /\ UNCHANGED <<toGdb, gdbVars, pc, call, issued, got, last, heard>>

\* The delimiter is in the buffer: the lines of the batch are next.
ReadDone ==
    /\ pc = "read" /\ HasPrompt(outBuf)
    /\ pc' = "lines"
    /\ UNCHANGED <<streams, gdbVars, call, issued, got, last, heard>>

\* Mutant: a read that fails with nothing read is tried again.
ReadEof_Retried ==
    /\ pc = "read" /\ ~HasPrompt(outBuf)
    /\ gdb # "up" /\ fromGdb = <<>>
    /\ pc' = (IF outBuf = <<>> THEN "read" ELSE "lines") /\ last' = last
    /\ UNCHANGED <<streams, gdbVars, call, issued, got, heard>>

\* The read fails at the end of the stream.  What was read before counts as
\* the last batch; with nothing read the error is thrown.
ReadEof ==
    /\ pc = "read" /\ ~HasPrompt(outBuf)
    /\ gdb # "up" /\ fromGdb = <<>>
    /\ IF outBuf = <<>> THEN Finish("io") ELSE pc' = "lines" /\ last' = last
    /\ UNCHANGED <<streams, gdbVars, call, issued, got, heard>>

-----------------------------------------------------------------------------
(* The lines of a batch: the getline loop of _work_impl.  Each error leaves *)
(* through the catch block, which drains the buffer and throws again.       *)

AtLine(kind) == pc = "lines" /\ outBuf # <<>> /\ Head(outBuf).kind = kind

TakeLine == outBuf' = Tail(outBuf)
Throw(result) ==
    /\ pc' = "drain"
    /\ last' = [op |-> call.op, serial |-> call.serial, reply |-> got',
                result |-> result]

\* Stream records go to the sinks, async records without a token to the slots
\* of _async_sink (nobody here), any other line to the log.  Only at the start of
\* a line "(gdb)" ends the batch.
SkipLine ==
    /\ \E kind \in {"stream", "async", "text", "inner"} : AtLine(kind)
    /\ TakeLine
    /\ UNCHANGED <<toGdb, fromGdb, cut, gdbVars, pc, call, issued, got, last, heard>>

\* Mutant: wait_for_stop connects its slot after its batch was read.
StoppedLine_Unconnected ==
    /\ AtLine("stopped") /\ TakeLine
    /\ UNCHANGED <<got, heard>>
    /\ UNCHANGED <<toGdb, fromGdb, cut, gdbVars, pc, call, issued, last>>

\* "*stopped": only wait_for_stop has a slot connected, for its own batch.
StoppedLine ==
    /\ AtLine("stopped") /\ TakeLine
    /\ IF call.op = "wait"
       THEN got' = [serial |-> 0, class |-> "stopped"] /\ heard' = heard + 1
       ELSE UNCHANGED <<got, heard>>
    /\ UNCHANGED <<toGdb, fromGdb, cut, gdbVars, pc, call, issued, last>>

\* An async record with a token: _pending_asyncs is always empty.
TokenAsyncLine ==
    /\ AtLine("tokenAsync") /\ TakeLine
    /\ got' = got /\ Throw("asyncToken")
    /\ UNCHANGED <<toGdb, fromGdb, cut, gdbVars, call, issued, heard>>

\* Mutant: the token is not compared.
RecordOutcome_AnyToken(r) ==
    IF call.op \in BareOps THEN "unexpected"
    ELSE IF call.op \in FuncOps \/ r.class = Expected(call.op) THEN "ok"
    ELSE IF r.class = "error" THEN "gdbError"
    ELSE "unexpected"

\* What _handle_record makes of the result record r: a class without results
\* checked here for _work(token, rc), a callback for _work(token, func).
RecordOutcome(r) ==
    IF call.op \in BareOps THEN "unexpected"
    ELSE IF Token(r.serial) # Token(call.serial) THEN "mismatch"
    ELSE IF call.op \in FuncOps \/ r.class = Expected(call.op) THEN "ok"
    ELSE IF r.class = "error" THEN "gdbError"
    ELSE "unexpected"

ResultLine ==
    /\ AtLine("result") /\ TakeLine
    /\ LET r == Head(outBuf)
           o == RecordOutcome(r)
       IN  /\ got' = IF o \in {"ok", "gdbError"}
                     THEN [serial |-> r.serial, class |-> r.class] ELSE got
           /\ IF o = "ok" THEN UNCHANGED <<pc, last>> ELSE Throw(o)
    /\ UNCHANGED <<toGdb, fromGdb, cut, gdbVars, call, issued, heard>>

\* Mutant: interpreter_exec returns the class of its record.
BatchOutcome_Class ==
    CASE call.op = "header" -> "ok"
      [] call.op = "wait"   -> IF got.class = "stopped" THEN "ok" ELSE "noStop"
      [] call.op \in {"script", "scriptRun"} -> got.class
      [] OTHER -> IF got.class = Expected(call.op) THEN "ok"
                  ELSE IF got.class = "error" THEN "gdbError" ELSE "unexpected"

\* What the call returns once its batch is complete: the caller of a callback
\* looks at the class now, wait_for_stop's at the reason.
BatchOutcome ==
    CASE call.op = "header" -> "ok"
      [] call.op = "wait"   -> IF got.class = "stopped" THEN "ok" ELSE "noStop"
      [] call.op \in {"script", "scriptRun"} -> "ok"
      [] OTHER -> IF got.class = Expected(call.op) THEN "ok"
                  ELSE IF got.class = "error" THEN "gdbError" ELSE "unexpected"

\* getline takes what was read of a line for the line when the buffer ends within
\* it: some text, or as much of the record as it needs.  The rest is left for the
\* next batch.
PartOfLine ==
    /\ pc = "lines" /\ outBuf = <<>> /\ cut
    /\ \E part \in {Text} \union ({Head(fromGdb)} \ {Prompt}) : outBuf' = <<part>>
    /\ fromGdb' = <<Text>> \o Tail(fromGdb) /\ cut' = FALSE
    /\ UNCHANGED <<toGdb, gdbVars, pc, call, issued, got, last, heard>>

\* The prompt, or the end of the buffer: after a failed read, or one that ended at
\* a "(gdb)" within a line.
EndOfBatch ==
    /\ pc = "lines" /\ ~(outBuf = <<>> /\ cut)
    /\ outBuf # <<>> => Head(outBuf) = Prompt
    /\ outBuf' = IF outBuf = <<>> THEN outBuf ELSE Tail(outBuf)
    /\ got' = got
    /\ IF call.op \in CmdOps /\ got = NoReply
       THEN Throw("noRecord")
       ELSE Finish(BatchOutcome)
    /\ UNCHANGED <<toGdb, fromGdb, cut, gdbVars, call, issued, heard>>

\* Mutant: the error is thrown again without dropping the rest of the batch.
Drain_Nothing ==
    /\ pc = "drain" /\ pc' = "idle"
    /\ UNCHANGED <<streams, gdbVars, call, issued, got, last, heard>>

\* The catch block: lines are dropped up to the next prompt of the buffer, or
\* to its end; then a line read in part loses that part.
Drain ==
    /\ pc = "drain"
    /\ \/ /\ outBuf # <<>> /\ TakeLine
          /\ pc' = IF Head(outBuf) = Prompt THEN "idle" ELSE "drain"
          /\ UNCHANGED <<fromGdb, cut>>
       \/ /\ outBuf = <<>> /\ outBuf' = outBuf
          /\ pc' = "idle" /\ cut' = FALSE
          /\ fromGdb' = IF cut THEN <<Text>> \o Tail(fromGdb) ELSE fromGdb
    /\ UNCHANGED <<toGdb, gdbVars, call, issued, got, last, heard>>

-----------------------------------------------------------------------------
(* gdb and the debugged program (external).                                *)

\* gdb reads a command and answers it in one batch; "^running" is followed by
\* "*running", "^exit" by the end of the process.
GdbAnswers ==
    /\ gdb = "up" /\ target = "stopped" /\ toGdb # <<>>
    /\ toGdb' = Tail(toGdb)
    /\ \E class \in Answers(Head(toGdb).op),
          noise \in {<<>>} \union {<<Line(k)>> : k \in Noise} :
         LET answer == noise \o <<Result(Head(toGdb).serial, class)>>
         IN  /\ fromGdb' = fromGdb \o answer \o
                   CASE class = "running" -> <<Line("async"), Prompt>>
                     [] class = "exit"    -> <<>>
                     [] OTHER             -> <<Prompt>>
             /\ target' = IF class = "running" THEN "running" ELSE "stopped"
             /\ gdb' = IF class = "exit" THEN "dead" ELSE "up"
    /\ UNCHANGED <<outBuf, cut, pc, call, issued, got, last, stops, heard>>

\* The program hits a breakpoint, exits or is killed by a signal.  Ahead of the
\* stop, lines of gdb's and of the program's own, which shares gdb's stdout.
TargetStops ==
    /\ gdb = "up" /\ target = "running"
    /\ target' = "stopped" /\ stops' = stops + 1
    /\ \E noise \in {<<>>} \union {<<Line(k)>> : k \in Noise \ {"tokenAsync"}} :
         fromGdb' = fromGdb \o noise \o <<Line("stopped"), Prompt>>
    /\ UNCHANGED <<toGdb, outBuf, cut, gdb, pc, call, issued, got, last, heard>>

\* gdb is killed or crashes, perhaps in the middle of a batch.
GdbDies ==
    /\ gdb = "up" /\ gdb' = "dead"
    /\ \E partial \in {<<>>, <<Text>>} : fromGdb' = fromGdb \o partial
    /\ UNCHANGED <<toGdb, outBuf, cut, target, pc, call, issued, got, last,
                   stops, heard>>

\* on_exit closes the pipes: what was not read yet is lost.
OnExit ==
    /\ gdb = "dead" /\ gdb' = "closed"
    /\ fromGdb' = <<>> /\ cut' = FALSE
    /\ outBuf' = IF cut THEN Append(outBuf, Text) ELSE outBuf
    /\ UNCHANGED <<toGdb, target, pc, call, issued, got, last, stops, heard>>

-----------------------------------------------------------------------------
Read  == ReadChunk \/ ReadDone \/ ReadEof
Batch == SkipLine \/ StoppedLine \/ TokenAsyncLine \/ ResultLine \/ PartOfLine
         \/ EndOfBatch \/ Drain
Gdb   == GdbAnswers \/ TargetStops \/ GdbDies \/ OnExit
Next  == (\E op \in Ops : Call(op)) \/ Write \/ Read \/ Batch \/ Gdb

Spec == Init /\ [][Next]_vars

\* The io_service runs the coroutine's handlers; gdb answers while it lives,
\* and the debugged program comes to a stop.
Fairness ==
    /\ WF_vars(Write \/ Read \/ Batch)
    /\ WF_vars(GdbAnswers) /\ WF_vars(TargetStops) /\ WF_vars(OnExit)
FairSpec == Spec /\ Fairness
-----------------------------------------------------------------------------
(* Properties.                                                             *)

\* The shape of the state: the pipes and the buffer hold lines and commands.
TypeOK ==
    /\ toGdb \in Seq(Calls) /\ fromGdb \in Seq(Lines) /\ outBuf \in Seq(Lines)
    /\ cut \in BOOLEAN
    /\ gdb \in {"up", "dead", "closed"} /\ target \in {"stopped", "running"}
    /\ pc \in {"idle", "write", "read", "lines", "drain"}
    /\ call \in Calls /\ issued \in 0 .. MaxCalls
    /\ got \in Replies
    /\ last \in [op : AllOps \union {"none"}, serial : Nat, reply : Replies,
                 result : Outcomes]
    /\ stops \in Nat /\ heard \in Nat

\* A command never returns, or throws gdb's error, on the record of another
\* command, however the callers behave after errors and wherever reads are cut:
\* the token check of _handle_record (interpreter.cpp 165-169, 187-191).
OwnReply ==
    /\ last.op \in CmdOps /\ last.result \in {"ok", "gdbError"}
           => last.reply.serial = last.serial
    /\ got.serial # 0 => got.serial = call.serial

\* Why replies are never mixed up.  The commands and records under way are not
\* newer than the last command issued, so with fewer commands than tokens their
\* tokens tell them apart; what a call has taken is its own; so is what it
\* returned.  The three parts and TypeOK together are inductive.
Asked == {c \in Calls : c.serial <= issued}
Sent  == {l \in Lines : l.serial <= issued}
NothingNewer ==
    /\ toGdb \in Seq(Asked) /\ fromGdb \in Seq(Sent) /\ outBuf \in Seq(Sent)
    /\ call \in Asked
    /\ cut => fromGdb # <<>>
GotOwn ==
    /\ got.serial # 0 => got.serial = call.serial
    /\ call.op \in CmdOps => got = NoReply \/ got.serial = call.serial
LastOwn ==
    last.op \in CmdOps /\ last.result \in {"ok", "gdbError"}
        => last.reply.serial = last.serial
RepliesInv == TypeOK /\ NothingNewer /\ GotOwn /\ LastOwn

\* The lines of kind k the interpreter has not taken yet.
Unread == outBuf \o fromGdb
Pending(kind) == Cardinality({i \in DOMAIN Unread : Unread[i].kind = kind})

\* Between calls the stream stays in step, also after errors in the middle of a
\* batch: nothing of an answered command is left over, and the only batch that
\* may wait is that of a stop (the catch block of _work_impl, 120-128).
Synchronised ==
    pc = "idle" /\ last.op # "none" /\ gdb = "up" =>
        /\ toGdb = <<>>
        /\ Pending("result") = 0
        /\ Pending("prompt") = stops - heard

\* A stop is either still in the streams or was returned by wait_for_stop: no
\* other call takes its batch (the scoped connection of wait_for_stop, 136-154).
NoStopLost == gdb = "up" => stops = heard + Pending("stopped")

\* Every command returns or throws, whether gdb answers, dies in the middle or
\* is closed under the read (interpreter.cpp 62-78).
CommandReturns == pc = "write" ~> pc = "idle"

\* A wait for the stop of a program that was set going ends.
StopArrives ==
    call.op = "wait" /\ last.op = "resume" /\ last.result = "ok" ~> pc = "idle"

\* With callers that keep to the protocol, the coroutine, its buffer and the
\* pipes implement the call-by-call interface gdb::process is written against.
ImplementsSession == Session!SessionSpec
=============================================================================
