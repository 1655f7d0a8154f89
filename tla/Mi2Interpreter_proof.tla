------------------------ MODULE Mi2Interpreter_proof ------------------------
(***************************************************************************)
(* Theorems about Mi2Interpreter for every bound and every set of calls:   *)
(* its type invariant, and that no call takes the reply to another one as  *)
(* long as fewer commands are issued than there are tokens.                *)
(***************************************************************************)
EXTENDS Mi2Interpreter, SequenceTheorems, TLAPS

\* Token tells apart the numbers below TokenMod.
LEMMA TokenOfSmall ==
    ASSUME NEW a \in 0 .. TokenMod - 1, NEW b \in 0 .. TokenMod - 1,
           Token(a) = Token(b)
    PROVE  a = b
  <1>1. TokenMod \in Nat \ {0}
    BY ParametersAssumption
  <1>2. a % TokenMod = a /\ b % TokenMod = b
    BY <1>1, SMT
  <1> QED
    BY <1>2 DEF Token

\* What a read chunk does with lines of any set S that has the prompt and text.
LEMMA ReadChunkLines ==
    ASSUME NEW S, Prompt \in S, Text \in S,
           fromGdb \in Seq(S), outBuf \in Seq(S), ReadChunk
    PROVE  /\ fromGdb' \in Seq(S) /\ outBuf' \in Seq(S) /\ cut' \in BOOLEAN
           /\ cut' => fromGdb' # <<>>
  <1>1. PICK n \in 0 .. Len(fromGdb) :
          LET taken == outBuf \o SubSeq(fromGdb, 1, n)
              rest  == SubSeq(fromGdb, n + 1, Len(fromGdb))
          IN  \/ n > 0 /\ outBuf' = taken /\ fromGdb' = rest /\ cut' = FALSE
              \/ /\ n < Len(fromGdb) /\ outBuf' = taken /\ fromGdb' = rest
                 /\ cut' = TRUE
              \/ /\ n < Len(fromGdb) /\ outBuf' = Append(taken, rest[1])
                 /\ fromGdb' = <<Text>> \o Tail(rest) /\ cut' = FALSE
    BY DEF ReadChunk
  <1> DEFINE taken == outBuf \o SubSeq(fromGdb, 1, n)
             rest  == SubSeq(fromGdb, n + 1, Len(fromGdb))
  <1>2. \A i \in 1 .. Len(fromGdb) : fromGdb[i] \in S
    BY ElementOfSeq
  <1>3. Len(fromGdb) \in Nat /\ n \in Nat
    BY LenProperties
  <1>4. SubSeq(fromGdb, 1, n) \in Seq(S) /\ rest \in Seq(S)
    BY <1>2, <1>3, SubSeqProperties
  <1>5. taken \in Seq(S)
    BY <1>4, ConcatProperties
  <1>6. n < Len(fromGdb) => rest # <<>>
    <2>1. n < Len(fromGdb) => Len(rest) = Len(fromGdb) - n
      BY <1>2, <1>3, SubSeqProperties
    <2>2. rest = <<>> => Len(rest) = 0
      BY EmptySeq
    <2> HIDE DEF rest
    <2> QED
      BY <1>3, <2>1, <2>2
  <1>7. n < Len(fromGdb) => Tail(rest) \in Seq(S)
    BY <1>4, <1>6, HeadTailProperties
  <1>8. n < Len(fromGdb) => <<Text>> \o Tail(rest) \in Seq(S)
    BY <1>7, ConcatProperties
  <1>9. n < Len(fromGdb) => Append(taken, rest[1]) \in Seq(S)
    <2>1. rest # <<>> => rest[1] \in S
      BY <1>4, HeadTailProperties
    <2> QED
      BY <1>5, <1>6, <2>1, AppendProperties
  <1>10. \/ outBuf' = taken /\ fromGdb' = rest /\ cut' = FALSE
         \/ /\ n < Len(fromGdb) /\ outBuf' = taken /\ fromGdb' = rest
            /\ cut' = TRUE
         \/ /\ n < Len(fromGdb) /\ outBuf' = Append(taken, rest[1])
            /\ fromGdb' = <<Text>> \o Tail(rest) /\ cut' = FALSE
    BY <1>1
  <1> HIDE DEF taken, rest
  <1> QED
    BY <1>4, <1>5, <1>6, <1>8, <1>9, <1>10

\* Taking a line leaves lines of the same set.
LEMMA TakenLines ==
    ASSUME NEW S, outBuf \in Seq(S), outBuf # <<>>
    PROVE  Tail(outBuf) \in Seq(S) /\ Head(outBuf) \in S
  BY HeadTailProperties

\* The lines the interpreter and gdb make up are lines, and answer no command.
LEMMA MadeUpLines ==
    ASSUME issued \in Nat
    PROVE  /\ {Prompt, Text, Line("stopped"), Line("stream")} \subseteq Sent
           /\ \A k \in LineKinds : Line(k) \in Sent
  BY DEF Sent, Lines, LineKinds, Line, Prompt, Text

-----------------------------------------------------------------------------
(* Typing: TypeOK is inductive together with the part of the invariant that *)
(* bounds the serial numbers under way.                                     *)

Typing == TypeOK /\ NothingNewer

\* The session starts well typed, with gdb's banner answering no command.
LEMMA TypingInit == Init => Typing
  <1> SUFFICES ASSUME Init PROVE Typing
    OBVIOUS
  <1> USE DEF Init
  <1>1. issued \in 0 .. MaxCalls /\ issued = 0
    BY ParametersAssumption
  <1>2. fromGdb \in Seq(Sent) /\ fromGdb \in Seq(Lines)
    <2>1. Line("stream") \in Sent /\ Prompt \in Sent
      BY <1>1, MadeUpLines
    <2>2. <<Line("stream"), Prompt>> \in Seq(Sent)
      BY <2>1
    <2>3. <<Line("stream"), Prompt>> \in Seq(Lines)
      BY <2>1 DEF Sent
    <2> QED
      BY <2>2, <2>3
  <1>3. call \in Asked
    BY <1>1 DEF Asked, Calls
  <1>4. NothingNewer
    BY <1>2, <1>3, EmptySeq DEF NothingNewer
  <1>5. TypeOK
    <2>1. NoReply \in Replies /\ "none" \in Outcomes
      BY DEF NoReply, Replies, Outcomes
    <2>2. last \in [op : AllOps \union {"none"}, serial : Nat, reply : Replies,
                   result : Outcomes]
      BY <2>1
    <2>3. call \in Calls /\ issued \in 0 .. MaxCalls /\ got \in Replies
      BY <1>1, <1>3, <2>1 DEF Asked
    <2> QED
      BY <1>2, <2>2, <2>3, EmptySeq DEF TypeOK
  <1> QED
    BY <1>4, <1>5 DEF Typing

\* The first line of the buffer, and the rest, are lines of commands issued.
LEMMA HeadLine ==
    ASSUME Typing, outBuf # <<>>
    PROVE  Head(outBuf) \in Sent /\ Tail(outBuf) \in Seq(Sent)
  BY TakenLines DEF Typing, NothingNewer

\* A new call raises issued, so what was under way is not newer than it.
LEMMA TypingCall ==
    ASSUME Typing, NEW op \in Ops, Call(op)
    PROVE  Typing'
  <1> USE DEF Typing
  <1>1. op \in AllOps
    BY ParametersAssumption
  <1>2. issued' \in 0 .. MaxCalls /\ issued <= issued' /\ issued \in Nat
    BY ParametersAssumption DEF Call, TypeOK
  <1>3. Asked \subseteq Asked' /\ Sent \subseteq Sent'
    BY <1>2 DEF Asked, Sent, Calls, Lines
  <1>4. call' \in Asked'
    BY <1>1, <1>2 DEF Call, Asked, Calls
  <1>5. NothingNewer'
    BY <1>3, <1>4, SeqMonotonic DEF NothingNewer, Call, streams
  <1>6. TypeOK'
    BY <1>2, <1>4 DEF TypeOK, Call, streams, gdbVars, Asked, Replies, NoReply
  <1> QED
    BY <1>5, <1>6

\* Every other step issues nothing: the sets of lines and commands stay, and
\* what is left to show is where the sequences and the small variables go.
Endings == [op : AllOps \union {"none"}, serial : Nat, reply : Replies,
            result : Outcomes]
\* Where the variables may go in a step that issues no command.
LEMMA TypingStep ==
    ASSUME Typing, issued' = issued, call' = call,
           toGdb' \in Seq(Asked), fromGdb' \in Seq(Sent), outBuf' \in Seq(Sent),
           cut' \in BOOLEAN, cut' => fromGdb' # <<>>, gdb' \in {"up", "dead", "closed"},
           target' \in {"stopped", "running"},
           pc' \in {"idle", "write", "read", "lines", "drain"},
           got' \in Replies, last' \in Endings, stops' \in Nat, heard' \in Nat
    PROVE  Typing'
  <1>1. Asked' = Asked /\ Sent' = Sent
    BY DEF Asked, Sent
  <1>2. Asked \subseteq Calls /\ Sent \subseteq Lines
    BY DEF Asked, Sent
  <1>3. toGdb' \in Seq(Calls) /\ fromGdb' \in Seq(Lines) /\ outBuf' \in Seq(Lines)
    BY <1>2, SeqMonotonic
  <1>4. NothingNewer'
    BY <1>1 DEF NothingNewer, Typing
  <1>5. TypeOK'
    BY <1>3 DEF TypeOK, Typing, Endings
  <1> QED
    BY <1>4, <1>5 DEF Typing

\* How a call can end is an ending.
LEMMA EndingTypes ==
    ASSUME Typing, NEW r \in Replies, NEW o \in Outcomes
    PROVE  [op |-> call.op, serial |-> call.serial, reply |-> r, result |-> o]
             \in Endings
  BY DEF Typing, TypeOK, Calls, Endings

\* Writing puts the call's own command in gdb's pipe, or throws.
LEMMA TypingWrite == Typing /\ Write => Typing'
  <1> SUFFICES ASSUME Typing, Write PROVE Typing'
    OBVIOUS
  <1>1. call \in Asked /\ toGdb \in Seq(Asked)
    BY DEF Typing, NothingNewer
  <1>2. toGdb' \in Seq(Asked)
    BY <1>1, AppendProperties DEF Write
  <1>3. last' \in Endings
    <2>1. "io" \in Outcomes /\ got \in Replies /\ last \in Endings
      BY DEF Outcomes, Typing, TypeOK, Endings
    <2> QED
      BY <2>1, EndingTypes DEF Write, Finish
  <1>4. pc' \in {"idle", "read"}
    BY DEF Write, Finish
  <1> QED
    BY <1>2, <1>3, <1>4, TypingStep DEF Write, Typing, TypeOK, NothingNewer, gdbVars

\* Reading moves lines from the pipe to the buffer and makes up a rest of text.
LEMMA TypingRead == Typing /\ Read => Typing'
  <1> SUFFICES ASSUME Typing, Read PROVE Typing'
    OBVIOUS
  <1>1. CASE ReadChunk
    <2>1. Prompt \in Sent /\ Text \in Sent
      BY MadeUpLines DEF Typing, TypeOK
    <2>2. /\ fromGdb' \in Seq(Sent) /\ outBuf' \in Seq(Sent)
          /\ cut' \in BOOLEAN /\ cut' => fromGdb' # <<>>
      BY <1>1, <2>1, ReadChunkLines DEF Typing, NothingNewer
    <2> QED
      BY <1>1, <2>2, TypingStep
      DEF ReadChunk, Typing, TypeOK, NothingNewer, gdbVars, Endings
  <1>2. CASE ReadDone
    BY <1>2, TypingStep
    DEF ReadDone, Typing, TypeOK, NothingNewer, streams, gdbVars, Endings
  <1>3. CASE ReadEof
    <2>1. last' \in Endings
      <3>1. "io" \in Outcomes /\ got \in Replies /\ last \in Endings
        BY DEF Outcomes, Typing, TypeOK, Endings
      <3> QED
        BY <1>3, <3>1, EndingTypes DEF ReadEof, Finish
    <2>2. pc' \in {"idle", "lines"}
      BY <1>3 DEF ReadEof, Finish
    <2> QED
      BY <1>3, <2>1, <2>2, TypingStep
      DEF ReadEof, Typing, TypeOK, NothingNewer, streams, gdbVars
  <1> QED
    BY <1>1, <1>2, <1>3 DEF Read

\* Dealing with a line of the batch takes it from the buffer; what is read in part
\* is taken from the pipe.
LEMMA TypingBatch == Typing /\ Batch => Typing'
  <1> SUFFICES ASSUME Typing, Batch PROVE Typing'
    OBVIOUS
  <1>0. got \in Replies /\ last \in Endings /\ outBuf \in Seq(Sent)
    BY DEF Typing, TypeOK, NothingNewer, Endings
  <1>1. outBuf # <<>> => Head(outBuf) \in Sent /\ Tail(outBuf) \in Seq(Sent)
    BY HeadLine
  <1>2. CASE SkipLine
    BY <1>0, <1>1, <1>2, TypingStep
    DEF SkipLine, AtLine, TakeLine, gdbVars, Typing, TypeOK, NothingNewer
  <1>3. CASE StoppedLine
    <2>1. got' \in Replies /\ heard' \in Nat
      BY <1>3 DEF StoppedLine, Replies, Typing, TypeOK
    <2> QED
      BY <1>0, <1>1, <1>3, <2>1, TypingStep
      DEF StoppedLine, AtLine, TakeLine, gdbVars, Typing, TypeOK, NothingNewer
  <1>4. CASE TokenAsyncLine
    <2>1. last' \in Endings /\ pc' = "drain"
      BY <1>0, <1>4, EndingTypes DEF TokenAsyncLine, Throw, Outcomes
    <2> QED
      BY <1>0, <1>1, <1>4, <2>1, TypingStep
      DEF TokenAsyncLine, AtLine, TakeLine, gdbVars, Typing, TypeOK, NothingNewer
  <1>5. CASE ResultLine
    <2> DEFINE r == Head(outBuf)
               o == RecordOutcome(r)
    <2>1. r \in Sent /\ outBuf' \in Seq(Sent)
      BY <1>1, <1>5 DEF ResultLine, AtLine, TakeLine
    <2>2. [serial |-> r.serial, class |-> r.class] \in Replies
      BY <2>1 DEF Sent, Lines, Replies
    <2>3. got' \in Replies
      BY <1>0, <1>5, <2>2 DEF ResultLine
    <2>4. o \in Outcomes
      BY DEF RecordOutcome, Outcomes
    <2>5. last' \in Endings /\ pc' \in {"lines", "drain"}
      <3>1. CASE o = "ok"
        BY <1>0, <1>5, <3>1 DEF ResultLine, AtLine
      <3>2. CASE o # "ok"
        <4>1. Throw(o)
          BY <1>5, <3>2 DEF ResultLine
        <4> QED
          BY <2>3, <2>4, <4>1, EndingTypes DEF Throw
      <3> QED
        BY <3>1, <3>2
    <2> QED
      BY <1>0, <1>5, <2>1, <2>3, <2>5, TypingStep
      DEF ResultLine, gdbVars, Typing, TypeOK, NothingNewer
  <1>6. CASE PartOfLine
    <2>1. fromGdb # <<>> /\ fromGdb \in Seq(Sent) /\ Text \in Sent
      BY <1>6, MadeUpLines DEF PartOfLine, Typing, TypeOK, NothingNewer
    <2>2. Head(fromGdb) \in Sent /\ Tail(fromGdb) \in Seq(Sent)
      BY <2>1, HeadTailProperties
    <2>3. outBuf' \in Seq(Sent)
      BY <1>6, <2>1, <2>2 DEF PartOfLine
    <2>4. fromGdb' \in Seq(Sent)
      <3>1. <<Text>> \in Seq(Sent)
        BY <2>1
      <3> QED
        BY <1>6, <2>2, <3>1, ConcatProperties DEF PartOfLine
    <2> QED
      BY <1>0, <1>6, <2>3, <2>4, TypingStep
      DEF PartOfLine, gdbVars, Typing, TypeOK, NothingNewer
  <1>7. CASE EndOfBatch
    <2>1. outBuf' \in Seq(Sent)
      BY <1>0, <1>1, <1>7 DEF EndOfBatch
    <2>2. BatchOutcome \in Outcomes /\ "noRecord" \in Outcomes
      BY DEF BatchOutcome, Outcomes
    <2>3. last' \in Endings /\ pc' \in {"idle", "drain"}
      BY <1>0, <1>7, <2>2, EndingTypes DEF EndOfBatch, Throw, Finish
    <2> QED
      BY <1>0, <1>7, <2>1, <2>3, TypingStep
      DEF EndOfBatch, gdbVars, Typing, TypeOK, NothingNewer
  <1>8. CASE Drain
    <2>1. outBuf' \in Seq(Sent) /\ cut' \in BOOLEAN /\ pc' \in {"idle", "drain"}
      BY <1>0, <1>1, <1>8 DEF Drain, TakeLine, Typing, TypeOK
    <2>2. fromGdb' \in Seq(Sent)
      <3>1. CASE cut /\ outBuf = <<>>
        <4>1. Tail(fromGdb) \in Seq(Sent) /\ Text \in Sent
          BY <3>1, HeadTailProperties, MadeUpLines DEF Typing, TypeOK, NothingNewer
        <4>2. fromGdb' = <<Text>> \o Tail(fromGdb)
          BY <1>8, <3>1 DEF Drain
        <4> QED
          BY <4>1, <4>2, ConcatProperties
      <3>2. CASE ~(cut /\ outBuf = <<>>)
        BY <1>8, <3>2 DEF Drain, Typing, NothingNewer
      <3> QED
        BY <3>1, <3>2
    <2> QED
      BY <1>0, <1>8, <2>1, <2>2, TypingStep
      DEF Drain, gdbVars, Typing, TypeOK, NothingNewer
  <1> QED
    BY <1>2, <1>3, <1>4, <1>5, <1>6, <1>7, <1>8 DEF Batch

\* gdb answers the commands it was sent, with their serial numbers.
LEMMA TypingGdb == Typing /\ Gdb => Typing'
  <1> SUFFICES ASSUME Typing, Gdb PROVE Typing'
    OBVIOUS
  <1>0. got \in Replies /\ last \in Endings /\ fromGdb \in Seq(Sent)
    BY DEF Typing, TypeOK, NothingNewer, Endings
  <1>1. {Prompt, Text, Line("stopped")} \subseteq Sent
        /\ \A k \in LineKinds : Line(k) \in Sent
    BY MadeUpLines DEF Typing, TypeOK
  <1>2. CASE GdbAnswers
    <2>1. Head(toGdb) \in Asked /\ Tail(toGdb) \in Seq(Asked)
      BY <1>2, HeadTailProperties DEF GdbAnswers, Typing, NothingNewer
    <2>2. PICK class \in Answers(Head(toGdb).op),
               noise \in {<<>>} \union {<<Line(k)>> : k \in Noise} :
            /\ fromGdb' = fromGdb
                          \o (noise \o <<Result(Head(toGdb).serial, class)>>)
                          \o CASE class = "running" -> <<Line("async"), Prompt>>
                               [] class = "exit"    -> <<>>
                               [] OTHER             -> <<Prompt>>
            /\ target' = IF class = "running" THEN "running" ELSE "stopped"
            /\ gdb' = IF class = "exit" THEN "dead" ELSE "up"
      BY <1>2 DEF GdbAnswers
    <2>3. class \in Classes
      BY DEF Answers, Classes
    <2>4. Result(Head(toGdb).serial, class) \in Sent
      BY <2>1, <2>3 DEF Asked, Sent, Calls, Lines, LineKinds, Result
    <2>5. noise \in Seq(Sent)
      <3>1. \A k \in Noise : Line(k) \in Sent
        BY <1>1 DEF LineKinds
      <3>2. \A k \in Noise : <<Line(k)>> \in Seq(Sent)
        BY <3>1
      <3> QED
        BY <3>2, EmptySeq
    <2> DEFINE tail == CASE class = "running" -> <<Line("async"), Prompt>>
                         [] class = "exit"    -> <<>>
                         [] OTHER             -> <<Prompt>>
               answer == noise \o <<Result(Head(toGdb).serial, class)>>
    <2>6. tail \in Seq(Sent)
      BY <1>1 DEF LineKinds
    <2>7. answer \in Seq(Sent)
      BY <2>4, <2>5, ConcatProperties
    <2>8. fromGdb' \in Seq(Sent)
      <3>1. fromGdb' = fromGdb \o answer \o tail
        BY <2>2
      <3> HIDE DEF answer, tail
      <3>2. fromGdb \o answer \in Seq(Sent)
        BY <1>0, <2>7, ConcatProperties
      <3> QED
        BY <2>6, <3>1, <3>2, ConcatProperties
    <2> QED
      BY <1>0, <1>2, <2>1, <2>2, <2>8, TypingStep
      DEF GdbAnswers, Typing, TypeOK, NothingNewer
  <1>3. CASE TargetStops
    <2>1. PICK noise \in {<<>>} \union {<<Line(k)>> : k \in Noise \ {"tokenAsync"}} :
            fromGdb' = fromGdb \o noise \o <<Line("stopped"), Prompt>>
      BY <1>3 DEF TargetStops
    <2>2. fromGdb' \in Seq(Sent)
      <3>1. \A k \in Noise : <<Line(k)>> \in Seq(Sent)
        BY <1>1 DEF LineKinds
      <3>2. noise \in Seq(Sent) /\ <<Line("stopped"), Prompt>> \in Seq(Sent)
        <4>1. noise = <<>> \/ \E k \in Noise : noise = <<Line(k)>>
          OBVIOUS
        <4>2. noise \in Seq(Sent)
          BY <3>1, <4>1, EmptySeq
        <4>3. <<Line("stopped"), Prompt>> \in Seq(Sent)
          BY <1>1
        <4> QED
          BY <4>2, <4>3
      <3>3. fromGdb \o noise \in Seq(Sent)
        BY <1>0, <3>2, ConcatProperties
      <3> QED
        BY <2>1, <3>2, <3>3, ConcatProperties
    <2> QED
      BY <1>0, <1>3, <2>2, TypingStep DEF TargetStops, Typing, TypeOK, NothingNewer
  <1>4. CASE GdbDies
    <2>1. <<Text>> \in Seq(Sent) /\ <<>> \in Seq(Sent)
      BY <1>1
    <2>2. fromGdb' \in Seq(Sent)
      BY <1>0, <1>4, <2>1, ConcatProperties DEF GdbDies
    <2> QED
      BY <1>0, <1>4, <2>2, TypingStep DEF GdbDies, Typing, TypeOK, NothingNewer
  <1>5. CASE OnExit
    <2>1. outBuf' \in Seq(Sent)
      BY <1>1, <1>5, AppendProperties DEF OnExit, Typing, NothingNewer
    <2>2. fromGdb' \in Seq(Sent)
      BY <1>5, EmptySeq DEF OnExit
    <2> QED
      BY <1>0, <1>5, <2>1, <2>2, TypingStep DEF OnExit, Typing, TypeOK, NothingNewer
  <1> QED
    BY <1>2, <1>3, <1>4, <1>5 DEF Gdb

\* Every step of the session keeps the types and the bound on serial numbers.
LEMMA TypingNext == Typing /\ [Next]_vars => Typing'
  <1> SUFFICES ASSUME Typing, [Next]_vars PROVE Typing'
    OBVIOUS
  <1>1. CASE \E op \in Ops : Call(op)
    BY <1>1, TypingCall
  <1>2. CASE Write
    BY <1>2, TypingWrite
  <1>3. CASE Read
    BY <1>3, TypingRead
  <1>4. CASE Batch
    BY <1>4, TypingBatch
  <1>5. CASE Gdb
    BY <1>5, TypingGdb
  <1>6. CASE UNCHANGED vars
    BY <1>6 DEF vars, Typing, TypeOK, NothingNewer, Asked, Sent
  <1> QED
    BY <1>1, <1>2, <1>3, <1>4, <1>5, <1>6 DEF Next

\* The state of the interpreter, its pipes and its buffer keep their shape, and
\* nothing under way is newer than the last command issued.
THEOREM TypeCorrect == Spec => []TypeOK
  <1>1. Spec => []Typing
    BY TypingInit, TypingNext, PTL DEF Spec
  <1>2. Typing => TypeOK
    BY DEF Typing
  <1> QED
    BY <1>1, <1>2, PTL

-----------------------------------------------------------------------------
(* OwnReply: what a call takes answers it, by the token check alone.       *)

Owning == GotOwn /\ LastOwn

\* The token check accepts only the record of the call's own command.
LEMMA AcceptedIsOwn ==
    ASSUME MaxCalls < TokenMod, Typing, outBuf # <<>>,
           RecordOutcome(Head(outBuf)) \in {"ok", "gdbError"}
    PROVE  Head(outBuf).serial = call.serial
  <1> DEFINE r == Head(outBuf)
  <1>1. r \in Sent /\ call \in Asked /\ issued \in 0 .. MaxCalls
    BY HeadLine DEF Typing, NothingNewer, TypeOK
  <1>2. r.serial \in 0 .. TokenMod - 1 /\ call.serial \in 0 .. TokenMod - 1
    BY <1>1, ParametersAssumption DEF Sent, Asked, Lines, Calls
  <1>3. Token(r.serial) = Token(call.serial)
    BY DEF RecordOutcome
  <1> QED
    BY <1>2, <1>3, TokenOfSmall

\* Before the first call nothing was taken or returned.
LEMMA OwningInit == Init => Owning
  BY DEF Init, Owning, GotOwn, LastOwn, NoReply, CmdOps, ClassOps, FuncOps

\* A call that begins has taken nothing; what the last one returned stays.
LEMMA OwningCall ==
    ASSUME Owning, NEW op \in Ops, Call(op)
    PROVE  Owning'
  BY DEF Call, Owning, GotOwn, LastOwn, NoReply

\* A step that touches neither got, call nor last.
LEMMA OwningIdle ==
    ASSUME Owning, UNCHANGED <<got, call, last>>
    PROVE  Owning'
  BY DEF Owning, GotOwn, LastOwn

\* A step that ends the call with got keeps what is owned.
LEMMA OwningEnding ==
    ASSUME Owning, call' = call, got' = got, NEW o,
           last' = [op |-> call.op, serial |-> call.serial, reply |-> got,
                    result |-> o],
           o \in {"ok", "gdbError"} /\ call.op \in CmdOps => got # NoReply
    PROVE  Owning'
  BY DEF Owning, GotOwn, LastOwn

\* Writing and reading take no record; they may end the call with an i/o error.
LEMMA OwningRead == Owning /\ (Write \/ Read) => Owning'
  <1> SUFFICES ASSUME Owning, Write \/ Read PROVE Owning'
    OBVIOUS
  <1>1. CASE UNCHANGED <<got, call, last>>
    BY <1>1, OwningIdle
  <1>2. CASE Finish("io") /\ UNCHANGED <<got, call>>
    BY <1>2, OwningEnding DEF Finish
  <1>3. UNCHANGED <<got, call>> /\ (last' = last \/ Finish("io"))
    BY DEF Write, Read, ReadChunk, ReadDone, ReadEof
  <1> QED
    BY <1>1, <1>2, <1>3

\* A line is taken as an answer only by the token check, so it is the call's own.
LEMMA OwningBatch ==
    ASSUME MaxCalls < TokenMod, Typing, Owning, Batch
    PROVE  Owning'
  <1>1. CASE SkipLine
    BY <1>1, OwningIdle DEF SkipLine
  <1>2. CASE StoppedLine
    <2>1. CASE call.op = "wait"
      BY <1>2, <2>1
      DEF StoppedLine, Owning, GotOwn, LastOwn, CmdOps, ClassOps, FuncOps
    <2>2. CASE call.op # "wait"
      BY <1>2, <2>2, OwningIdle DEF StoppedLine
    <2> QED
      BY <2>1, <2>2
  <1>3. CASE TokenAsyncLine
    BY <1>3, OwningEnding DEF TokenAsyncLine, Throw
  <1>4. CASE ResultLine
    <2> DEFINE r == Head(outBuf)
               o == RecordOutcome(r)
    <2>1. call' = call
      BY <1>4 DEF ResultLine
    <2>2. CASE o \in {"ok", "gdbError"}
      <3>1. r.serial = call.serial
        BY <1>4, <2>2, AcceptedIsOwn DEF ResultLine, AtLine
      <3>2. got' = [serial |-> r.serial, class |-> r.class]
        BY <1>4, <2>2 DEF ResultLine
      <3>3. GotOwn'
        BY <2>1, <3>1, <3>2 DEF GotOwn
      <3>4. \/ last' = last
            \/ last' = [op |-> call.op, serial |-> call.serial, reply |-> got',
                        result |-> o]
        BY <1>4 DEF ResultLine, Throw
      <3>5. LastOwn'
        BY <3>1, <3>2, <3>4 DEF LastOwn, Owning
      <3> QED
        BY <3>3, <3>5 DEF Owning
    <2>3. CASE o \notin {"ok", "gdbError"}
      <3>1. got' = got /\ Throw(o)
        BY <1>4, <2>3 DEF ResultLine
      <3> QED
        BY <2>1, <2>3, <3>1, OwningEnding DEF Throw
    <2> QED
      BY <2>2, <2>3
  <1>5. CASE EndOfBatch
    <2>1. CASE call.op \in CmdOps /\ got = NoReply
      BY <1>5, <2>1, OwningEnding DEF EndOfBatch, Throw
    <2>2. CASE ~(call.op \in CmdOps /\ got = NoReply)
      <3>1. Finish(BatchOutcome) /\ got' = got /\ call' = call
        BY <1>5, <2>2 DEF EndOfBatch
      <3> QED
        BY <2>2, <3>1, OwningEnding DEF Finish
    <2> QED
      BY <2>1, <2>2
  <1>6. CASE PartOfLine \/ Drain
    BY <1>6, OwningIdle DEF PartOfLine, Drain
  <1> QED
    BY <1>1, <1>2, <1>3, <1>4, <1>5, <1>6 DEF Batch

\* Every step keeps that what is taken and returned is the call's own.
LEMMA OwningNext ==
    ASSUME MaxCalls < TokenMod, Typing, Owning, [Next]_vars
    PROVE  Owning'
  <1>1. CASE \E op \in Ops : Call(op)
    BY <1>1, OwningCall
  <1>2. CASE Write \/ Read
    BY <1>2, OwningRead
  <1>3. CASE Batch
    BY <1>3, OwningBatch
  <1>4. CASE Gdb
    BY <1>4, OwningIdle DEF Gdb, GdbAnswers, TargetStops, GdbDies, OnExit
  <1>5. CASE UNCHANGED vars
    BY <1>5, OwningIdle DEF vars
  <1> QED
    BY <1>1, <1>2, <1>3, <1>4, <1>5 DEF Next

\* No call returns or throws on the record of another command, whatever the
\* callers do, wherever a read is cut and whenever gdb dies, in a session of
\* fewer commands than there are tokens.
THEOREM RepliesAreOwn ==
    ASSUME MaxCalls < TokenMod
    PROVE  Spec => []OwnReply
  <1>1. Init => Typing /\ Owning
    BY TypingInit, OwningInit
  <1>2. Typing /\ Owning /\ [Next]_vars => (Typing /\ Owning)'
    BY TypingNext, OwningNext
  <1>3. Typing /\ Owning => OwnReply
    BY DEF Owning, GotOwn, LastOwn, OwnReply
  <1> QED
    BY <1>1, <1>2, <1>3, PTL DEF Spec
=============================================================================
