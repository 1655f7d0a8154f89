-------------------------- MODULE Mi2Implements_proof --------------------------
(***************************************************************************)
(* With callers that keep to the protocol of gdb::process the interpreter, *)
(* its buffer and the pipes implement the call-by-call interface of        *)
(* DebugSession, for every number of calls and tokens.                     *)
(***************************************************************************)
EXTENDS Mi2Session_proof

\* The lines that answer no other command than the call under way.
Own == {l \in Lines : l.kind = "result" => l.serial = call.serial}

\* What a session has to remember to tell its caller the truth: which command
\* the call is about, that what it has taken is about it, and that the stream
\* has no other answer while it is read, also once gdb is gone.
Called == call.serial = issued /\ (pc # "idle" => call.op \in AllOps)
GotIs ==
    /\ call.op \in BareOps => got.serial = 0
    /\ call.op \in CmdOps => got = NoReply \/ got.serial = call.serial
OwnStream ==
    pc \in {"read", "lines"} /\ call.op \in CmdOps
        => fromGdb \in Seq(Own) /\ outBuf \in Seq(Own)
Truthful == Called /\ GotIs /\ OwnStream

\* A stream without marks answers nothing.
LEMMA NoMarksNoAnswer ==
    ASSUME TypeOK, Shows(Unread, <<>>)
    PROVE  fromGdb \in Seq(Own) /\ outBuf \in Seq(Own)
  <1> DEFINE e == <<>>
             u == Unread
             U == Len(u)
  <1>1. Len(e) = 0 /\ 1 .. 0 = {} /\ Shows(u, e)
    BY EmptySeq
  <1>2. /\ outBuf \in Seq(Lines) /\ fromGdb \in Seq(Lines)
        /\ Len(outBuf) \in Nat /\ Len(fromGdb) \in Nat
    BY LenProperties DEF TypeOK
  <1>3. /\ U = Len(outBuf) + Len(fromGdb)
        /\ \A i \in 1 .. Len(outBuf) + Len(fromGdb) :
             u[i] = IF i <= Len(outBuf) THEN outBuf[i] ELSE fromGdb[i - Len(outBuf)]
    BY <1>2, ConcatProperties DEF Unread
  <1> HIDE DEF u, e
  <1>4. \A i \in 1 .. U : Plain(u[i])
    BY <1>1 DEF Shows
  <1> HIDE DEF U
  <1>5. ASSUME NEW i \in 1 .. Len(outBuf) PROVE outBuf[i] \in Own
    <2>1. i \in 1 .. U /\ u[i] = outBuf[i]
      BY <1>2, <1>3
    <2>2. outBuf[i] \in Lines /\ outBuf[i].kind # "result"
      BY <1>2, <1>4, <2>1, ElementOfSeq DEF Plain
    <2> QED
      BY <2>2 DEF Own
  <1>6. ASSUME NEW i \in 1 .. Len(fromGdb) PROVE fromGdb[i] \in Own
    <2>1. /\ i + Len(outBuf) \in 1 .. U /\ ~(i + Len(outBuf) <= Len(outBuf))
          /\ (i + Len(outBuf)) - Len(outBuf) = i
      BY <1>2, <1>3
    <2>2. u[i + Len(outBuf)] = fromGdb[i]
      BY <1>3, <2>1
    <2>3. fromGdb[i] \in Lines /\ fromGdb[i].kind # "result"
      BY <1>2, <1>4, <2>1, <2>2, ElementOfSeq DEF Plain
    <2> QED
      BY <2>3 DEF Own
  <1>7. outBuf \in Seq(Own)
    <2>1. outBuf = [i \in 1 .. Len(outBuf) |-> outBuf[i]]
      BY <1>2, LenProperties
    <2> QED
      BY <1>2, <1>5, <2>1, SeqDef
  <1>8. fromGdb \in Seq(Own)
    <2>1. fromGdb = [i \in 1 .. Len(fromGdb) |-> fromGdb[i]]
      BY <1>2, LenProperties
    <2> QED
      BY <1>2, <1>6, <2>1, SeqDef
  <1> QED
    BY <1>7, <1>8

\* The lines that gdb and the interpreter make up answer nothing.
LEMMA OwnLines ==
    /\ {Prompt, Text, Line("stopped")} \subseteq Own
    /\ \A k \in Noise \union {"async"} : Line(k) \in Own
    /\ \A class \in Classes : call.serial \in Nat => Result(call.serial, class) \in Own
  <1>1. {Prompt, Text, Line("stopped")} \subseteq Own
    BY DEF Own, Lines, Line, Prompt, Text, LineKinds
  <1>2. \A k \in Noise \union {"async"} : Line(k) \in Own
    BY ParametersAssumption DEF Own, Lines, Line, LineKinds, NoiseKinds
  <1>3. \A class \in Classes : call.serial \in Nat => Result(call.serial, class) \in Own
    BY DEF Own, Lines, Result, LineKinds
  <1> QED
    BY <1>1, <1>2, <1>3

-----------------------------------------------------------------------------
(* Every step keeps what is told true.                                     *)

\* Before the first call there is nothing to tell.
LEMMA TruthfulInit == Init => Truthful
  BY DEF Init, Truthful, Called, GotIs, OwnStream, NoReply, BareOps, CmdOps, ClassOps, FuncOps

\* A call is about the command it issues, the last one when it issues none.
LEMMA TruthfulCall ==
    ASSUME Truthful, NEW op \in Ops, Call(op)
    PROVE  Truthful'
  <1>1. call' = [op |-> op, serial |-> issued'] /\ got' = NoReply /\ op \in AllOps
    BY ParametersAssumption DEF Call
  <1>2. pc' = IF op \in CmdOps THEN "write" ELSE "read"
    BY DEF Call
  <1>3. Called' /\ GotIs'
    BY <1>1 DEF Called, GotIs, NoReply
  <1>4. OwnStream'
    BY <1>1, <1>2 DEF OwnStream
  <1> QED
    BY <1>3, <1>4 DEF Truthful

\* A step within a call that takes no record, or ends the call.
LEMMA TruthfulStep ==
    ASSUME Truthful, call' = call, issued' = issued,
           got' = got \/ got'.serial = (IF call.op \in CmdOps THEN call.serial ELSE 0),
           pc' \in {"idle", "drain"} \/ pc' = pc \/ (pc = "read" /\ pc' = "lines"),
           pc = "idle" => pc' = "idle",
           /\ pc \in {"read", "lines"} /\ pc' \in {"read", "lines"} /\ call.op \in CmdOps
                /\ fromGdb \in Seq(Own) /\ outBuf \in Seq(Own)
             => fromGdb' \in Seq(Own) /\ outBuf' \in Seq(Own)
    PROVE  Truthful'
  <1>1. Own' = Own
    BY DEF Own
  <1>2. Called'
    BY DEF Truthful, Called
  <1>3. GotIs'
    BY DEF Truthful, GotIs, BareOps, CmdOps, ClassOps, FuncOps
  <1>4. OwnStream'
    BY <1>1 DEF Truthful, OwnStream
  <1> QED
    BY <1>2, <1>3, <1>4 DEF Truthful

\* A command is written to a stream that holds no answer, or fails.
LEMMA TruthfulWrite ==
    ASSUME TypeOK, Staged, Truthful, Write
    PROVE  Truthful'
  <1>1. /\ pc = "write" /\ call' = call /\ got' = got /\ issued' = issued
        /\ fromGdb' = fromGdb /\ outBuf' = outBuf
    BY DEF Write
  <1>2. CASE gdb = "up"
    <2>1. PICK m \in Seq(Lines) : Shows(Unread, m) /\ Stage(m)
      BY <1>2 DEF Staged
    <2>2. m = <<>>
      BY <1>1, <2>1, StageAt DEF Writing, Calm
    <2>3. fromGdb \in Seq(Own) /\ outBuf \in Seq(Own)
      BY <2>1, <2>2, NoMarksNoAnswer
    <2>4. Own' = Own
      BY <1>1 DEF Own
    <2>5. OwnStream'
      BY <1>1, <2>3, <2>4 DEF OwnStream
    <2> QED
      BY <1>1, <2>5 DEF Truthful, Called, GotIs
  <1>3. CASE gdb # "up"
    BY <1>1, <1>3, TruthfulStep DEF Write, Finish
  <1> QED
    BY <1>2, <1>3

\* Reading moves lines.
LEMMA TruthfulRead ==
    ASSUME TypeOK, Truthful, Read
    PROVE  Truthful'
  <1>1. CASE ReadChunk
    <2>1. Prompt \in Own /\ Text \in Own
      BY OwnLines
    <2>2. ASSUME fromGdb \in Seq(Own), outBuf \in Seq(Own)
          PROVE  fromGdb' \in Seq(Own) /\ outBuf' \in Seq(Own)
      BY <1>1, <2>1, <2>2, ReadChunkLines
    <2> QED
      BY <1>1, <2>2, TruthfulStep DEF ReadChunk
  <1>2. CASE ReadDone
    BY <1>2, TruthfulStep DEF ReadDone, streams
  <1>3. CASE ReadEof
    BY <1>3, TruthfulStep DEF ReadEof, Finish, streams
  <1> QED
    BY <1>1, <1>2, <1>3 DEF Read

\* A record that is taken answers the call.
LEMMA TakenIsOwn ==
    ASSUME Truthful, outBuf # <<>>, pc = "lines", Head(outBuf).kind = "result",
           RecordOutcome(Head(outBuf)) \in {"ok", "gdbError"}
    PROVE  Head(outBuf).serial = call.serial /\ call.op \in CmdOps
  <1>1. call.op \in CmdOps
    BY DEF Truthful, Called, RecordOutcome, AllOps
  <1>2. outBuf \in Seq(Own)
    BY <1>1 DEF Truthful, OwnStream
  <1>3. Head(outBuf) \in Own
    BY <1>2, TakenLines
  <1> QED
    BY <1>1, <1>3 DEF Own

\* The lines of a batch.
LEMMA TruthfulBatch ==
    ASSUME Typing, Truthful, Batch
    PROVE  Truthful'
  <1>1. ASSUME outBuf # <<>>, outBuf' = Tail(outBuf), fromGdb' = fromGdb,
               fromGdb \in Seq(Own), outBuf \in Seq(Own)
        PROVE  fromGdb' \in Seq(Own) /\ outBuf' \in Seq(Own)
    BY <1>1, TakenLines
  <1>2. CASE SkipLine
    BY <1>1, <1>2, TruthfulStep DEF SkipLine, AtLine, TakeLine
  <1>3. CASE StoppedLine
    <2>1. got' = got \/ got'.serial = IF call.op \in CmdOps THEN call.serial ELSE 0
      <3>1. call.op = "wait" => call.op \notin CmdOps
        BY DEF CmdOps, ClassOps, FuncOps
      <3> QED
        BY <1>3, <3>1 DEF StoppedLine
    <2> QED
      BY <1>1, <1>3, <2>1, TruthfulStep DEF StoppedLine, AtLine, TakeLine
  <1>4. CASE TokenAsyncLine
    BY <1>4, TruthfulStep DEF TokenAsyncLine, AtLine, Throw
  <1>5. CASE ResultLine
    <2>1. got' = got \/ got'.serial = IF call.op \in CmdOps THEN call.serial ELSE 0
      BY <1>5, TakenIsOwn DEF ResultLine, AtLine
    <2>2. pc' = pc \/ pc' = "drain"
      BY <1>5 DEF ResultLine, Throw
    <2> QED
      BY <1>1, <1>5, <2>1, <2>2, TruthfulStep DEF ResultLine, AtLine, TakeLine
  <1>6. CASE PartOfLine
    <2>1. fromGdb \in Seq(Lines) /\ fromGdb # <<>>
      BY <1>6 DEF PartOfLine, Typing, TypeOK, NothingNewer
    <2>2. ASSUME fromGdb \in Seq(Own)
          PROVE  fromGdb' \in Seq(Own) /\ outBuf' \in Seq(Own)
      <3>1. Head(fromGdb) \in Own /\ Tail(fromGdb) \in Seq(Own) /\ Text \in Own
        BY <2>1, <2>2, OwnLines, HeadTailProperties
      <3>2. <<Text>> \in Seq(Own)
        BY <3>1
      <3>3. fromGdb' \in Seq(Own)
        BY <1>6, <3>1, <3>2, ConcatProperties DEF PartOfLine
      <3>4. outBuf' \in Seq(Own)
        BY <1>6, <3>1 DEF PartOfLine
      <3> QED
        BY <3>3, <3>4
    <2> QED
      BY <1>6, <2>2, TruthfulStep DEF PartOfLine
  <1>7. CASE EndOfBatch
    BY <1>7, TruthfulStep DEF EndOfBatch, Throw, Finish
  <1>8. CASE Drain
    BY <1>8, TruthfulStep DEF Drain
  <1> QED
    BY <1>2, <1>3, <1>4, <1>5, <1>6, <1>7, <1>8 DEF Batch

\* What gdb says while a command is under way answers that command.
LEMMA TruthfulGdb ==
    ASSUME TypeOK, Staged, Truthful, Gdb
    PROVE  Truthful'
  <1>1. CASE GdbAnswers
    <2>1. toGdb = <<call>> /\ call.serial \in Nat
      BY <1>1 DEF GdbAnswers, Staged, Stage, TypeOK, Calls
    <2>2. Head(toGdb) = call
      <3>1. Head(<<call>>) = call
        OBVIOUS
      <3> QED
        BY <2>1, <3>1
    <2>3. PICK class \in Answers(call.op), noise \in {<<>>} \union {<<Line(k)>> : k \in Noise} :
            fromGdb' = fromGdb \o (noise \o <<Record(class)>>) \o
                CASE class = "running" -> <<Line("async"), Prompt>>
                  [] class = "exit"    -> <<>>
                  [] OTHER             -> <<Prompt>>
      BY <1>1, <2>2, Zenon DEF GdbAnswers, Record
    <2> DEFINE tail == CASE class = "running" -> <<Line("async"), Prompt>>
                         [] class = "exit"    -> <<>>
                         [] OTHER             -> <<Prompt>>
               answer == noise \o <<Record(class)>>
    <2>4. tail \in Seq(Own)
      <3>1. Line("async") \in Own /\ Prompt \in Own
        BY OwnLines
      <3> QED
        BY <3>1
    <2>5. answer \in Seq(Own)
      <3>1. noise \in Seq(Own)
        <4>1. \A k \in Noise : <<Line(k)>> \in Seq(Own)
          BY OwnLines
        <4> QED
          BY <4>1, EmptySeq
      <3>2. class \in Classes
        BY DEF Answers, Classes
      <3>3. <<Record(class)>> \in Seq(Own)
        BY <2>1, <3>2, OwnLines DEF Record
      <3> QED
        BY <3>1, <3>3, ConcatProperties
    <2>6. fromGdb \in Seq(Own) => fromGdb' \in Seq(Own)
      <3>1. fromGdb' = fromGdb \o answer \o tail
        BY <2>3
      <3> HIDE DEF answer, tail
      <3> SUFFICES ASSUME fromGdb \in Seq(Own) PROVE fromGdb' \in Seq(Own)
        OBVIOUS
      <3>2. fromGdb \o answer \in Seq(Own)
        BY <2>5, ConcatProperties
      <3> QED
        BY <2>4, <3>1, <3>2, ConcatProperties
    <2> QED
      BY <1>1, <2>6, TruthfulStep DEF GdbAnswers
  <1>2. CASE TargetStops
    <2>1. <<Line("stopped"), Prompt>> \in Seq(Own)
      BY OwnLines
    <2>2. PICK noise \in {<<>>} \union {<<Line(k)>> : k \in Noise \ {"tokenAsync"}} :
            fromGdb' = (fromGdb \o noise) \o <<Line("stopped"), Prompt>>
      BY <1>2 DEF TargetStops
    <2>3. noise \in Seq(Own)
      <3>1. \A k \in Noise : <<Line(k)>> \in Seq(Own)
        BY OwnLines
      <3> QED
        BY <3>1, EmptySeq
    <2>4. fromGdb \in Seq(Own) => fromGdb' \in Seq(Own)
      <3> SUFFICES ASSUME fromGdb \in Seq(Own) PROVE fromGdb' \in Seq(Own)
        OBVIOUS
      <3>1. fromGdb \o noise \in Seq(Own)
        BY <2>3, ConcatProperties
      <3> QED
        BY <2>1, <2>2, <3>1, ConcatProperties
    <2> QED
      BY <1>2, <2>4, TruthfulStep DEF TargetStops
  <1>3. CASE GdbDies
    <2>1. <<Text>> \in Seq(Own) /\ <<>> \in Seq(Own)
      BY OwnLines
    <2>2. fromGdb \in Seq(Own) => fromGdb' \in Seq(Own)
      BY <1>3, <2>1, ConcatProperties DEF GdbDies
    <2> QED
      BY <1>3, <2>2, TruthfulStep DEF GdbDies
  <1>4. CASE OnExit
    <2>1. fromGdb' \in Seq(Own)
      BY <1>4, EmptySeq DEF OnExit
    <2>2. outBuf \in Seq(Own) => outBuf' \in Seq(Own)
      BY <1>4, OwnLines, AppendProperties DEF OnExit
    <2> QED
      BY <1>4, <2>1, <2>2, TruthfulStep DEF OnExit
  <1> QED
    BY <1>1, <1>2, <1>3, <1>4 DEF Gdb

\* Every step.
LEMMA TruthfulNext ==
    ASSUME Typing, Staged, Truthful, [Next]_vars
    PROVE  Truthful'
  <1>1. CASE UNCHANGED vars
    BY <1>1, TruthfulStep DEF vars
  <1> QED
    BY <1>1, TruthfulCall, TruthfulWrite, TruthfulRead, TruthfulBatch, TruthfulGdb DEF Next, Typing

-----------------------------------------------------------------------------
(* The refinement: what the caller sees of each step.                      *)

busy == IF pc \in {"idle", "drain"} THEN "none" ELSE call.op
answer == [op     |-> last.op,
           about  |-> IF last.result \in {"ok", "gdbError"} THEN last.reply.serial ELSE 0,
           result |-> last.result]

\* The interpreter's commands are those of the interface.
LEMMA SameCommands == Session!Commands = CmdOps /\ Session!Bare = BareOps
  BY DEF Session!Commands, Session!Bare, CmdOps, ClassOps, FuncOps, BareOps

\* A step that the caller does not see.
LEMMA Unseen ==
    ASSUME busy' = busy, issued' = issued, last' = last, (gdb' = "up") = (gdb = "up")
    PROVE  UNCHANGED Session!sessionVars
  BY DEF Session!sessionVars, busy

\* A call ends, in a way it promises and with what it is about.
LEMMA Ends ==
    ASSUME Called, call' = call, issued' = issued, gdb' = gdb,
           pc \in {"write", "read", "lines"}, pc' \in {"idle", "drain"},
           NEW o, o \in (IF gdb = "up" THEN Session!Promised(call.op) ELSE {"ok"} \union Session!Failures),
           last'.op = call.op, last'.result = o,
           o \in {"ok", "gdbError"} =>
               last'.reply.serial = IF call.op \in CmdOps THEN call.serial ELSE 0
    PROVE  Session!End
  <1> DEFINE about == IF o \in {"ok", "gdbError"} THEN last'.reply.serial ELSE 0
  <1>1. busy = call.op /\ busy' = "none" /\ call.op # "none"
    BY DEF busy, Called, AllOps, BareOps, CmdOps, ClassOps, FuncOps
  <1>2. about = IF o \in {"ok", "gdbError"} /\ call.op \in CmdOps THEN issued ELSE 0
    BY DEF Called
  <1>3. answer' = [op |-> call.op, about |-> about, result |-> o]
    BY DEF answer
  <1> HIDE DEF about
  <1>4. answer' = [op |-> call.op, result |-> o,
                   about |-> IF o \in {"ok", "gdbError"} /\ call.op \in Session!Commands
                             THEN issued ELSE 0]
    BY <1>2, <1>3, SameCommands
  <1> QED
    BY <1>1, <1>4 DEF Session!End, busy, answer

\* The caller's calls begin.
LEMMA CallBegins ==
    ASSUME TypeOK, NEW op \in Ops, Call(op)
    PROVE  \E c \in Session!Bare \union Session!Commands : Session!Begin(c)
  <1>1. op \in Session!Bare \union Session!Commands /\ op # "none"
    BY ParametersAssumption, SameCommands DEF AllOps, BareOps, CmdOps, ClassOps, FuncOps
  <1>2. /\ pc = "idle" /\ pc' \in {"write", "read"} /\ call'.op = op
        /\ issued' = IF op \in CmdOps THEN issued + 1 ELSE issued
        /\ last' = last /\ gdb' = gdb
    BY DEF Call, gdbVars
  <1>3. Session!Begin(op)
    BY <1>2, SameCommands DEF Session!Begin
  <1> QED
    BY <1>1, <1>3

\* What a call may end in while gdb lives.
LEMMA PromisedIs ==
    /\ \A op \in {"header", "wait", "exit", "set", "query", "resume", "script", "scriptRun"} :
         "ok" \in Session!Promised(op)
    /\ \A op \in CmdOps \ {"exit"} : "asyncToken" \in Session!Promised(op)
    /\ \A op \in {"set", "query", "resume"} : "gdbError" \in Session!Promised(op)
    /\ {"unexpected", "gdbError"} \subseteq Session!Promised("interrupt")
  <1>1. \A op \in {"set", "query", "resume"} :
          Session!Promised(op) = {"ok", "gdbError", "asyncToken"}
    BY DEF Session!Promised
  <1>2. \A op \in {"script", "scriptRun"} : Session!Promised(op) = {"ok", "asyncToken"}
    BY DEF Session!Promised
  <1>3. Session!Promised("interrupt") = {"unexpected", "gdbError", "asyncToken"}
    BY DEF Session!Promised
  <1>4. \A op \in {"header", "wait", "exit"} : Session!Promised(op) = {"ok"}
    BY DEF Session!Promised
  <1>5. CmdOps \ {"exit"} = {"set", "query", "resume", "script", "scriptRun", "interrupt"}
    BY DEF CmdOps, ClassOps, FuncOps
  <1> QED
    BY <1>1, <1>2, <1>3, <1>4, <1>5

Seen == Session!SessionNext \/ UNCHANGED Session!sessionVars

\* A write to a gdb that is gone fails, and so does a read.
LEMMA SeenIo ==
    ASSUME TypeOK, Staged, Truthful, Write \/ Read
    PROVE  Seen
  <1>1. ASSUME pc \in {"write", "read"}, Finish("io"), gdb # "up", gdb' = gdb,
               call' = call, issued' = issued
        PROVE  Session!End
    <2>1. pc' = "idle" /\ last'.op = call.op /\ last'.result = "io" /\ "io" \in Session!Failures
      BY <1>1 DEF Finish, Session!Failures
    <2> QED
      BY <1>1, <2>1, Ends DEF Truthful
  <1>2. CASE Write
    <2>1. CASE gdb = "up"
      <3>1. pc = "write" /\ pc' = "read" /\ UNCHANGED <<call, issued, last, gdb>>
        BY <1>2, <2>1 DEF Write, gdbVars
      <3>2. UNCHANGED Session!sessionVars
        BY <3>1, Unseen DEF busy
      <3> QED
        BY <3>2 DEF Seen
    <2>2. CASE gdb # "up"
      BY <1>1, <1>2, <2>2 DEF Write, gdbVars, Seen, Session!SessionNext
    <2> QED
      BY <2>1, <2>2
  <1>3. CASE ReadChunk \/ ReadDone \/ (ReadEof /\ pc' = "lines")
    <2>1. pc = "read" /\ pc' \in {"read", "lines"} /\ UNCHANGED <<call, issued, last, gdb>>
      BY <1>3 DEF ReadChunk, ReadDone, ReadEof, Finish, gdbVars
    <2>2. UNCHANGED Session!sessionVars
      BY <2>1, Unseen DEF busy
    <2> QED
      BY <2>2 DEF Seen
  <1>4. CASE ReadEof /\ pc' # "lines"
    <2>1. pc = "read" /\ Finish("io") /\ gdb # "up" /\ UNCHANGED <<call, issued, gdb>>
      BY <1>4 DEF ReadEof, gdbVars
    <2> QED
      BY <1>1, <2>1 DEF Seen, Session!SessionNext
  <1> QED
    BY <1>2, <1>3, <1>4 DEF Read

\* The answer to a command, while gdb lives: the class decides how it ends.
LEMMA AnswerPromised ==
    ASSUME call.op \in CmdOps, NEW class \in Given
    PROVE  /\ RecordOutcome(Record(class)) # "ok"
                => RecordOutcome(Record(class)) \in Session!Promised(call.op)
           /\ "asyncToken" \in Session!Promised(call.op)
           /\ got.class = class /\ (call.op \in FuncOps \/ class = Expected(call.op))
                => BatchOutcome \in Session!Promised(call.op)
  <1> DEFINE o == RecordOutcome(Record(class))
  <1>1. /\ o = IF call.op \in FuncOps \/ class = Expected(call.op) THEN "ok"
               ELSE IF class = "error" THEN "gdbError" ELSE "unexpected"
    <2>1. call.op \notin BareOps /\ Record(class).serial = call.serial /\ Record(class).class = class
      BY MarkKinds DEF Record, CmdOps, ClassOps, FuncOps, BareOps
    <2> QED
      BY <2>1 DEF RecordOutcome
  <1>2. /\ call.op \in {"set", "resume", "interrupt", "query", "script", "scriptRun"}
        /\ call.op \in {"set", "query", "script"} => class \in {"done", "error"}
        /\ call.op = "resume" => class \in {"running", "error"}
        /\ call.op = "interrupt" => class \in {"done", "filled", "error"}
    BY GivenIs DEF CmdOps, ClassOps, FuncOps
  <1> HIDE DEF o
  <1>3. CASE call.op = "set"
    <2>1. Expected(call.op) = "done" /\ call.op \notin FuncOps
      BY <1>3 DEF Expected, FuncOps
    <2>2. got.class = class /\ class = "done" => BatchOutcome = "ok"
      BY <1>3, <2>1 DEF BatchOutcome
    <2> QED
      BY <1>1, <1>2, <1>3, <2>1, <2>2, PromisedIs DEF o
  <1>4. CASE call.op = "resume"
    <2>1. Expected(call.op) = "running" /\ call.op \notin FuncOps
      BY <1>4 DEF Expected, FuncOps
    <2>2. got.class = class /\ class = "running" => BatchOutcome = "ok"
      BY <1>4, <2>1 DEF BatchOutcome
    <2> QED
      BY <1>1, <1>2, <1>4, <2>1, <2>2, PromisedIs DEF o
  <1>5. CASE call.op = "interrupt"
    <2>1. Expected(call.op) = "running" /\ call.op \notin FuncOps
      BY <1>5 DEF Expected, FuncOps
    <2> QED
      BY <1>1, <1>2, <1>5, <2>1, PromisedIs DEF o
  <1>6. CASE call.op = "query"
    <2>1. Expected(call.op) = "done" /\ call.op \in FuncOps
      BY <1>6 DEF Expected, FuncOps
    <2>2. got.class = class => BatchOutcome \in {"ok", "gdbError"}
      BY <1>2, <1>6, <2>1 DEF BatchOutcome
    <2> QED
      BY <1>1, <1>6, <2>1, <2>2, PromisedIs DEF o
  <1>7. CASE call.op \in {"script", "scriptRun"}
    <2>1. BatchOutcome = "ok" /\ call.op \in FuncOps
      BY <1>7 DEF BatchOutcome, FuncOps
    <2> QED
      BY <1>1, <1>7, <2>1, PromisedIs DEF o
  <1> QED
    BY <1>2, <1>3, <1>4, <1>5, <1>6, <1>7

\* While gdb lives, the line at hand is one that the call is about.
LEMMA LineFits ==
    ASSUME TypeOK, Staged, gdb = "up", pc = "lines", outBuf # <<>>, TakeLine, fromGdb' = fromGdb
    PROVE  /\ Head(outBuf).kind = "tokenAsync" => call.op \in CmdOps /\ Given # {}
           /\ Head(outBuf).kind = "result"
                => call.op \in CmdOps /\ \E class \in Given : Head(outBuf) = Record(class)
           /\ Head(outBuf) = Prompt
                => \/ call.op = "header"
                   \/ call.op = "wait" /\ got.class = "stopped"
                   \/ /\ call.op \in CmdOps /\ got # NoReply
                      /\ \E class \in Given : /\ got.class = class
                                              /\ call.op \in FuncOps \/ class = Expected(call.op)
  <1>1. PICK m \in Seq(Lines) : Shows(Unread, m) /\ Stage(m)
    BY DEF Staged
  <1>2. ~Plain(Head(outBuf)) => m # <<>> /\ Head(m) = Head(outBuf)
    BY <1>1, MarkTaken
  <1>3. ASSUME Answering(m) PROVE call.op \in CmdOps /\ Given # {}
    BY <1>3 DEF Answering
  <1>4. CASE Head(outBuf).kind = "tokenAsync"
    <2>1. ~Plain(Head(outBuf)) /\ Head(outBuf) # Prompt /\ Head(outBuf) # Stopped
          /\ Head(outBuf).kind # "result"
      BY <1>4, MarkKinds DEF Plain
    <2>2. \A class : Head(outBuf) # Record(class)
      BY <2>1, MarkKinds DEF Record
    <2>3. Answering(m)
      BY <1>1, <1>2, <2>1, <2>2, FirstMark
    <2> QED
      BY <1>3, <1>4, <2>1, <2>3
  <1>5. CASE Head(outBuf).kind = "result"
    <2>1. ~Plain(Head(outBuf)) /\ Head(outBuf) # Prompt /\ Head(outBuf) # Stopped
          /\ Head(outBuf) # TokenAsync
      BY <1>5, MarkKinds DEF Plain
    <2>2. Answering(m) /\ \E class \in Given : Head(outBuf) = Record(class)
      BY <1>1, <1>2, <2>1, FirstMark
    <2> QED
      BY <1>3, <1>5, <2>1, <2>2
  <1>6. CASE Head(outBuf) = Prompt
    <2>1. ~Plain(Head(outBuf)) /\ Head(outBuf).kind = "prompt" /\ Head(outBuf) # Stopped
          /\ Head(outBuf) # TokenAsync
      BY <1>6, MarkKinds
    <2>2. \A class : Head(outBuf) # Record(class)
      BY <2>1, MarkKinds DEF Record
    <2>3. Heading(m) \/ Waited(m) \/ Answered(m)
      BY <1>1, <1>2, <2>1, <2>2, FirstMark
    <2>4. CASE Heading(m) \/ Waited(m)
      BY <2>1, <2>4 DEF Heading, Waited
    <2>5. CASE Answered(m)
      <3>1. PICK class \in Given : /\ got = [serial |-> call.serial, class |-> class]
                                   /\ call.op \in FuncOps \/ class = Expected(call.op)
        BY <2>5 DEF Answered
      <3>2. call.op \in CmdOps /\ class \in Classes
        BY <2>5, GivenIs DEF Answered
      <3>3. got # NoReply /\ got.class = class
        BY <3>1, <3>2 DEF NoReply, Classes
      <3> QED
        BY <2>1, <3>1, <3>2, <3>3
    <2> QED
      BY <2>3, <2>4, <2>5
  <1> QED
    BY <1>4, <1>5, <1>6

\* The lines of a batch: the call ends at an error or at the prompt, in a way
\* it promises.
LEMMA SeenBatch ==
    ASSUME TypeOK, "inner" \notin Noise, Staged, Truthful, Batch
    PROVE  Seen
  <1>1. call' = call /\ issued' = issued /\ gdb' = gdb
    BY DEF Batch, SkipLine, StoppedLine, TokenAsyncLine, ResultLine, PartOfLine,
       EndOfBatch, Drain, gdbVars
  <1>2. CASE SkipLine \/ StoppedLine \/ PartOfLine
    <2>1. pc' = pc /\ last' = last
      BY <1>2 DEF SkipLine, StoppedLine, PartOfLine
    <2>2. UNCHANGED Session!sessionVars
      BY <1>1, <2>1, Unseen DEF busy
    <2> QED
      BY <2>2 DEF Seen
  <1>3. CASE TokenAsyncLine
    <2>1. /\ pc = "lines" /\ outBuf # <<>> /\ Head(outBuf).kind = "tokenAsync" /\ TakeLine
          /\ fromGdb' = fromGdb
          /\ pc' = "drain" /\ last'.op = call.op /\ last'.result = "asyncToken"
      BY <1>3 DEF TokenAsyncLine, AtLine, Throw
    <2>2. "asyncToken" \in IF gdb = "up" THEN Session!Promised(call.op)
                           ELSE {"ok"} \union Session!Failures
      <3>1. CASE gdb = "up"
        BY <2>1, <3>1, LineFits, AnswerPromised
      <3>2. CASE gdb # "up"
        BY <3>2 DEF Session!Failures
      <3> QED
        BY <3>1, <3>2
    <2>3. Session!End
      BY <1>1, <2>1, <2>2, Ends DEF Truthful
    <2> QED
      BY <2>3 DEF Seen, Session!SessionNext
  <1>4. CASE ResultLine
    <2> DEFINE o == RecordOutcome(Head(outBuf))
    <2>1. /\ pc = "lines" /\ outBuf # <<>> /\ Head(outBuf).kind = "result" /\ TakeLine
          /\ fromGdb' = fromGdb
      BY <1>4 DEF ResultLine, AtLine
    <2>2. CASE o = "ok"
      <3>1. pc' = pc /\ last' = last
        BY <1>4, <2>2 DEF ResultLine
      <3>2. UNCHANGED Session!sessionVars
        BY <1>1, <3>1, Unseen DEF busy
      <3> QED
        BY <3>2 DEF Seen
    <2>3. CASE o # "ok"
      <3>1. pc' = "drain" /\ last'.op = call.op /\ last'.result = o /\ last'.reply = got'
        BY <1>4, <2>3 DEF ResultLine, Throw
      <3>2. o = "gdbError" => got'.serial = call.serial /\ call.op \in CmdOps
        <4>1. o = "gdbError" => got'.serial = Head(outBuf).serial
          BY <1>4 DEF ResultLine
        <4> QED
          BY <2>1, <4>1, TakenIsOwn
      <3>3. o \in IF gdb = "up" THEN Session!Promised(call.op) ELSE {"ok"} \union Session!Failures
        <4>1. CASE gdb = "up"
          <5>1. call.op \in CmdOps /\ \E class \in Given : Head(outBuf) = Record(class)
            BY <2>1, <4>1, LineFits
          <5>2. PICK class \in Given : Head(outBuf) = Record(class)
            BY <5>1
          <5> QED
            BY <2>3, <4>1, <5>1, <5>2, AnswerPromised
        <4>2. CASE gdb # "up"
          BY <2>3, <4>2 DEF RecordOutcome, Session!Failures
        <4> QED
          BY <4>1, <4>2
      <3> HIDE DEF o
      <3>4. Session!End
        BY <1>1, <2>1, <2>3, <3>1, <3>2, <3>3, Ends DEF Truthful
      <3> QED
        BY <3>4 DEF Seen, Session!SessionNext
    <2> QED
      BY <2>2, <2>3
  <1>5. CASE EndOfBatch
    <2>1. pc = "lines" /\ got' = got /\ fromGdb' = fromGdb
      BY <1>5 DEF EndOfBatch
    <2>2. CASE call.op \in CmdOps /\ got = NoReply
      <3>1. pc' = "drain" /\ last'.op = call.op /\ last'.result = "noRecord"
        BY <1>5, <2>2 DEF EndOfBatch, Throw
      <3>2. gdb # "up"
        <4> SUFFICES ASSUME gdb = "up" PROVE FALSE
          OBVIOUS
        <4>1. outBuf # <<>>
          BY <2>1, PromptShown DEF Staged
        <4>2. Head(outBuf) = Prompt /\ TakeLine
          BY <1>5, <4>1 DEF EndOfBatch, TakeLine
        <4> QED
          BY <2>1, <2>2, <4>1, <4>2, LineFits DEF CmdOps, ClassOps, FuncOps
      <3>3. Session!End
        BY <1>1, <2>1, <3>1, <3>2, Ends DEF Truthful, Session!Failures
      <3> QED
        BY <3>3 DEF Seen, Session!SessionNext
    <2>3. CASE ~(call.op \in CmdOps /\ got = NoReply)
      <3>1. pc' = "idle" /\ last'.op = call.op /\ last'.result = BatchOutcome /\ last'.reply = got
        BY <1>5, <2>3 DEF EndOfBatch, Finish
      <3>2. got.serial = IF call.op \in CmdOps THEN call.serial ELSE 0
        BY <2>1, <2>3 DEF Truthful, GotIs, Called, AllOps
      <3>3. BatchOutcome \in IF gdb = "up" THEN Session!Promised(call.op)
                             ELSE {"ok"} \union Session!Failures
        <4>1. CASE gdb = "up"
          <5>1. outBuf # <<>>
            BY <2>1, <4>1, PromptShown DEF Staged
          <5>2. Head(outBuf) = Prompt /\ TakeLine
            BY <1>5, <5>1 DEF EndOfBatch, TakeLine
          <5>3. \/ call.op = "header"
                \/ call.op = "wait" /\ got.class = "stopped"
                \/ /\ call.op \in CmdOps
                   /\ \E class \in Given : /\ got.class = class
                                           /\ call.op \in FuncOps \/ class = Expected(call.op)
            BY <2>1, <4>1, <5>1, <5>2, LineFits
          <5>4. CASE call.op = "header" \/ (call.op = "wait" /\ got.class = "stopped")
            BY <4>1, <5>4, PromisedIs DEF BatchOutcome
          <5>5. CASE /\ call.op \in CmdOps
                     /\ \E class \in Given : /\ got.class = class
                                             /\ call.op \in FuncOps \/ class = Expected(call.op)
            <6>1. PICK class \in Given : /\ got.class = class
                                         /\ call.op \in FuncOps \/ class = Expected(call.op)
              BY <5>5
            <6> QED
              BY <4>1, <5>5, <6>1, AnswerPromised
          <5> QED
            BY <5>3, <5>4, <5>5
        <4>2. CASE gdb # "up"
          <5>1. BatchOutcome \in {"ok", "noStop", "gdbError", "unexpected"}
            BY DEF BatchOutcome
          <5> QED
            BY <4>2, <5>1 DEF Session!Failures
        <4> QED
          BY <4>1, <4>2
      <3>4. Session!End
        BY <1>1, <2>1, <3>1, <3>2, <3>3, Ends DEF Truthful
      <3> QED
        BY <3>4 DEF Seen, Session!SessionNext
    <2> QED
      BY <2>2, <2>3
  <1>6. CASE Drain
    <2>1. pc = "drain" /\ pc' \in {"idle", "drain"} /\ last' = last
      BY <1>6 DEF Drain
    <2>2. UNCHANGED Session!sessionVars
      BY <1>1, <2>1, Unseen DEF busy
    <2> QED
      BY <2>2 DEF Seen
  <1> QED
    BY <1>2, <1>3, <1>4, <1>5, <1>6 DEF Batch

\* gdb's own steps show only when it is gone.
LEMMA SeenGdb ==
    ASSUME TypeOK, Gdb
    PROVE  Seen
  <1>1. UNCHANGED <<pc, call, issued, last>>
    BY DEF Gdb, GdbAnswers, TargetStops, GdbDies, OnExit
  <1>2. busy' = busy /\ answer' = answer
    BY <1>1 DEF busy, answer
  <1>3. gdb' = "up" => gdb = "up"
    BY DEF Gdb, GdbAnswers, TargetStops, GdbDies, OnExit
  <1>4. CASE gdb = "up" /\ gdb' # "up"
    <2>1. Session!GdbGone
      BY <1>1, <1>2, <1>4 DEF Session!GdbGone, busy, answer
    <2> QED
      BY <2>1 DEF Seen, Session!SessionNext
  <1>5. CASE (gdb' = "up") = (gdb = "up")
    <2>1. UNCHANGED Session!sessionVars
      BY <1>1, <1>2, <1>5, Unseen
    <2> QED
      BY <2>1 DEF Seen
  <1> QED
    BY <1>3, <1>4, <1>5

\* Every step of the session is one of the interface, or is not seen.
LEMMA SeenNext ==
    ASSUME TypeOK, "inner" \notin Noise, Staged, Truthful, [Next]_vars
    PROVE  Seen
  <1>1. CASE \E op \in Ops : Call(op)
    BY <1>1, CallBegins DEF Seen, Session!SessionNext
  <1>2. CASE UNCHANGED vars
    <2>1. UNCHANGED Session!sessionVars
      BY <1>2, Unseen DEF vars, busy
    <2> QED
      BY <2>1 DEF Seen
  <1> QED
    BY <1>1, <1>2, SeenIo, SeenBatch, SeenGdb DEF Next

\* With callers that keep to the protocol of gdb::process, each call ends in one
\* of the ways its function has, with gdb's record for this very command and a
\* wait with a stop; once gdb is gone a call may fail, but never tells what gdb
\* said to another command, as long as no line holds "(gdb)" inside
\* (interpreter.cpp 40-154, 165-191).
THEOREM CallsAsPromised ==
    ASSUME Disciplined, "inner" \notin Noise
    PROVE  Spec => ImplementsSession
  <1>1. Init => Session!SessionInit
    BY DEF Init, Session!SessionInit
  <1>2. Init => Truthful
    BY TruthfulInit
  <1>3. Typing /\ Staged /\ Truthful /\ [Next]_vars => Truthful'
    BY TruthfulNext
  <1>4. Typing /\ Staged /\ Truthful /\ [Next]_vars
          => [Session!SessionNext]_(Session!sessionVars)
    BY SeenNext DEF Seen, Typing
  <1> QED
    BY <1>1, <1>2, <1>3, <1>4, AlwaysStaged, PTL DEF Spec, ImplementsSession, Session!SessionSpec
=============================================================================
