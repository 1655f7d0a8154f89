-------------------------- MODULE GdbProcess_proof --------------------------
(***************************************************************************)
(* Theorems about GdbProcess for every set of break_points, every setting  *)
(* and every bound: a run is never left without something that ends it,    *)
(* and the exit status it returns is the one that was seen.                *)
(***************************************************************************)
EXTENDS GdbProcess, SequenceTheorems, WellFoundedInduction, TLAPS

\* What the other handlers may do to the timer in a step of the coroutine: a
\* pending wait stays or is begun again, an expired one is not forgotten.
LEMMA TimerKept ==
    ASSUME reset_timer \/ keep_timer
    PROVE  /\ armed' = armed \/ armed' = (armed \/ timeOut)
           /\ expired # "no" => expired' # "no"
           /\ timeOut' = timeOut
  BY DEF reset_timer, keep_timer, HandlerRuns

\* Invoking a break_point leaves the timer set or its handler queued.
LEMMA TimerInvoke ==
    ASSUME NEW num, NEW resets, FindAndInvoke(num, resets)
    PROVE  reset_timer \/ keep_timer
  BY DEF FindAndInvoke, Invoke

\* The coroutine's step after a call is one of a continuing or a failing call;
\* in each the timer is kept or reset, and the pipes are not touched.
LEMMA TimerReplies ==
    ASSUME Replies
    PROVE  (reset_timer \/ keep_timer) /\ UNCHANGED outOpen
  <1>1. CASE SetupReply \/ BreakSet \/ BreakError \/ ScriptReply \/ Resumed
    BY <1>1
    DEF SetupReply, BreakSet, BreakError, ScriptReply, Resumed, childVars
  <1>2. CASE StopAtBreakpoint
    BY <1>2, TimerInvoke DEF StopAtBreakpoint, childVars
  <1>3. CASE ArgumentReply
    BY <1>3, TimerInvoke DEF ArgumentReply, childVars
  <1>4. CASE FrameReply
    BY <1>4 DEF FrameReply, Invoke, childVars
  <1>5. CASE StopAtEnd \/ QuitReply
    BY <1>5 DEF StopAtEnd, QuitReply, childVars
  <1>6. CASE CallThrows
    BY <1>6 DEF CallThrows, Throw, childVars
  <1> QED
    BY <1>1, <1>2, <1>3, <1>4, <1>5, <1>6 DEF Replies

\* A run that goes on with a time-out is watched by a pending wait or an
\* expired one, until gdb's exit has closed the pipe (process.cpp 267-283,
\* debug/process.cpp 31).
THEOREM RunIsWatched == Spec => []NeverUnwatched
  <1>1. Init => NeverUnwatched
    BY DEF Init, NeverUnwatched
  <1>2. NeverUnwatched /\ [Next]_vars => NeverUnwatched'
    <2> SUFFICES ASSUME NeverUnwatched, [Next]_vars,
                        timeOut', ended' = "no"
                 PROVE  armed' \/ expired' # "no" \/ ~outOpen'
      BY DEF NeverUnwatched
    <2>1. CASE Replies
      <3>1. (reset_timer \/ keep_timer) /\ UNCHANGED outOpen
        BY <2>1, TimerReplies
      <3>2. ended = "no"
        BY <2>1 DEF Replies, SetupReply, BreakSet, BreakError, ScriptReply,
                    Resumed, StopAtBreakpoint, ArgumentReply, FrameReply,
                    StopAtEnd, QuitReply, CallThrows, Suspended
      <3> QED
        BY <3>1, <3>2, TimerKept DEF NeverUnwatched
    <2>2. CASE TimerExpires
      BY <2>2 DEF TimerExpires
    <2>3. CASE TimerHandler
      BY <2>3 DEF TimerHandler
    <2>4. CASE ChildExits
      BY <2>4 DEF ChildExits, timerVars, NeverUnwatched
    <2>5. CASE OnExit
      BY <2>5 DEF OnExit
    <2>6. CASE RunReturns
      BY <2>6 DEF RunReturns
    <2>7. CASE UNCHANGED vars
      BY <2>7 DEF vars, timerVars, childVars, NeverUnwatched
    <2> QED
      BY <2>1, <2>2, <2>3, <2>4, <2>5, <2>6, <2>7 DEF Next
  <1> QED
    BY <1>1, <1>2, PTL DEF Spec

-----------------------------------------------------------------------------
(* The exit status.                                                        *)

\* Why the status is honest: _exit_code is written only where a status is seen.
StatusKept == exitCode = status

\* Invoking a break_point sets the code and the status together, or neither.
LEMMA StatusInvoke ==
    ASSUME NEW resets, Invoke(resets), StatusKept
    PROVE  StatusKept'
  BY DEF Invoke, set_exit, exitVars, StatusKept

\* Every step of the coroutine keeps the code at the status.
LEMMA StatusReplies ==
    ASSUME Replies, StatusKept
    PROVE  StatusKept'
  <1>1. CASE SetupReply \/ BreakSet \/ BreakError \/ ScriptReply \/ Resumed
    BY <1>1 DEF SetupReply, BreakSet, BreakError, ScriptReply, Resumed,
                exitVars, targetVars, StatusKept
  <1>2. CASE StopAtBreakpoint
    BY <1>2, StatusInvoke DEF StopAtBreakpoint, FindAndInvoke, exitVars, StatusKept
  <1>3. CASE ArgumentReply
    BY <1>3, StatusInvoke DEF ArgumentReply, FindAndInvoke, exitVars, StatusKept
  <1>4. CASE FrameReply
    BY <1>4, StatusInvoke DEF FrameReply
  <1>5. CASE StopAtEnd
    BY <1>5 DEF StopAtEnd, set_exit, exitVars, StatusKept
  <1>6. CASE QuitReply \/ CallThrows
    BY <1>6 DEF QuitReply, CallThrows, Throw, exitVars, targetVars, StatusKept
  <1> QED
    BY <1>1, <1>2, <1>3, <1>4, <1>5, <1>6 DEF Replies

\* main returns the exit status that was seen, of the program or of its _exit
\* breakpoint, unless run() throws; and it returns success only if that was seen
\* (debug/process.hpp 82-87, process.cpp 255-262, debug-runner.cpp 363-377).
THEOREM StatusIsHonest == Spec => []HonestStatus
  <1>1. Init => StatusKept
    BY DEF Init, StatusKept
  <1>2. StatusKept /\ [Next]_vars => StatusKept'
    <2> SUFFICES ASSUME StatusKept, [Next]_vars PROVE StatusKept'
      OBVIOUS
    <2>1. CASE Replies
      BY <2>1, StatusReplies
    <2>2. CASE TimerExpires \/ TimerHandler \/ ChildExits \/ OnExit \/ RunReturns
      BY <2>2 DEF TimerExpires, TimerHandler, ChildExits, OnExit, RunReturns,
                  exitVars, targetVars, StatusKept
    <2>3. CASE UNCHANGED vars
      BY <2>3 DEF vars, exitVars, targetVars, StatusKept
    <2> QED
      BY <2>1, <2>2, <2>3 DEF Next
  <1>3. StatusKept => HonestStatus
    BY DEF StatusKept, HonestStatus, Result
  <1> QED
    BY <1>1, <1>2, <1>3, PTL DEF Spec

-----------------------------------------------------------------------------
(* The order of the calls.  What _run_impl has still to call begins with    *)
(* what it is suspended in: the options, then the break_points, then the    *)
(* scripts, then at most one call that sets the program going, and a wait;  *)
(* or the two calls that read the arguments at a stop.                      *)

\* The stages of a run; a stop has two of its own, the names and the values.
Stage(fn) ==
    IF fn = "read_header" THEN 0
    ELSE IF fn \in {"file_exec_and_symbols", "exec_arguments",
                   "target_select_remote"} THEN 1
    ELSE IF fn = "break_insert" THEN 2
    ELSE IF fn \in {"script", "scriptBreak", "scriptRun"} THEN 3
    ELSE IF fn \in {"exec_run", "exec_continue"} THEN 4
    ELSE 5

\* Call c is made before d; the stages 1 to 3 may have several calls.
Before(c, d) ==
    \/ Stage(c.fn) < Stage(d.fn)
    \/ Stage(c.fn) = Stage(d.fn) /\ Stage(c.fn) \in 1 .. 3

Ordered(calls) == \A i, j \in DOMAIN calls : i < j => Before(calls[i], calls[j])

CallSet == {c \in AnyCall : c.fn = "break_insert" => c.bp \in BreakPoints}

\* Where a plan ends.
PlanEnd == Fn("wait_for_stop")

PlanInOrder ==
    /\ at \in CallSet /\ plan \in Seq(CallSet)
    /\ Ordered(plan)
    /\ \A i \in DOMAIN plan : Before(at, plan[i])
    /\ Stage(at.fn) <= 3 => plan # <<>>
    /\ plan # <<>> => plan[Len(plan)] = PlanEnd

\* gdb's numbers and _break_point_map: the map has the first numbers, as the
\* scripts come later, and each at the place of its break_point.
NumbersAgree ==
    /\ numbers \in Seq({Location[b] : b \in BreakPoints})
    /\ DOMAIN bpMap \subseteq DOMAIN numbers
    /\ bpMap \in [DOMAIN bpMap -> BreakPoints]
    /\ \A n \in DOMAIN bpMap : numbers[n] = Location[bpMap[n]]
    /\ \A n \in DOMAIN bpMap, m \in DOMAIN numbers : m < n => m \in DOMAIN bpMap
    /\ Stage(at.fn) <= 2 => DOMAIN bpMap = DOMAIN numbers
    /\ told \subseteq BreakPoints
    /\ \A bp \in told : \E n \in DOMAIN bpMap : bpMap[n] = bp

\* The number n is the first at its place: the one that gdb reports.
FirstThere(n) == n \in DOMAIN numbers /\ \A m \in 1 .. n - 1 : numbers[m] # numbers[n]

\* What is known of the stop that is dealt with.
StopKnown ==
    /\ bkptno \in Nat /\ (bkptno # 0 => FirstThere(bkptno))
    /\ at.fn \in {"stack_list_arguments", "parse_var"} => bkptno # 0
    /\ invoked # {} => bkptno \in DOMAIN bpMap /\ invoked = {bpMap[bkptno]}
    /\ ended = "crashed" => bkptno # 0 /\ bkptno \notin DOMAIN bpMap

RunInv == PlanInOrder /\ NumbersAgree /\ StopKnown

\* Only the last line of a script may set the program going.
RunsLast(calls, n) == \A i \in DOMAIN calls : calls[i].fn = "scriptRun" => i = n
Obedient ==
    /\ at.fn = "scriptRun" => Len(plan) = 1
    /\ RunsLast(plan, Len(plan) - 1)

-----------------------------------------------------------------------------
(* How a plan is put together (_run_impl 51-75 and 152-161).               *)

\* A part of a plan whose calls are of stage k, and one with calls up to k.
Part(calls, k) ==
    /\ calls \in Seq(CallSet) /\ Ordered(calls)
    /\ \A i \in DOMAIN calls : Stage(calls[i].fn) = k
UpTo(calls, k) ==
    /\ calls \in Seq(CallSet) /\ Ordered(calls)
    /\ \A i \in DOMAIN calls : Stage(calls[i].fn) \in 1 .. k

\* There are five stages behind the banner.
LEMMA StageType == ASSUME NEW fn PROVE Stage(fn) \in 0 .. 5
  BY DEF Stage

\* A part of a later stage, or of the same one of the first three, follows.
LEMMA UpToConcat ==
    ASSUME NEW k \in 1 .. 5, NEW m \in 1 .. 5, NEW p, NEW q, UpTo(p, k), Part(q, m),
           k < m \/ (k = m /\ m <= 3)
    PROVE  UpTo(p \o q, m)
  <1>1. p \in Seq(CallSet) /\ q \in Seq(CallSet)
    BY DEF UpTo, Part
  <1>2. /\ p \o q \in Seq(CallSet) /\ Len(p \o q) = Len(p) + Len(q)
        /\ \A i \in 1 .. Len(p) + Len(q) :
             (p \o q)[i] = IF i <= Len(p) THEN p[i] ELSE q[i - Len(p)]
    BY <1>1, ConcatProperties
  <1>3. /\ Len(p) \in Nat /\ Len(q) \in Nat
        /\ DOMAIN p = 1 .. Len(p) /\ DOMAIN q = 1 .. Len(q)
        /\ DOMAIN (p \o q) = 1 .. Len(p) + Len(q)
    BY <1>1, <1>2, LenProperties
  <1>4. \A i \in 1 .. Len(p), j \in 1 .. Len(q) : Before(p[i], q[j])
    BY <1>3, StageType, SMTT(20) DEF Before, UpTo, Part
  <1> DEFINE r == p \o q
  <1>5. \A i \in DOMAIN r :
          \/ i \in 1 .. Len(p) /\ r[i] = p[i]
          \/ /\ i > Len(p) /\ i - Len(p) \in 1 .. Len(q) /\ r[i] = q[i - Len(p)]
    BY <1>2, <1>3
  <1>6. ASSUME NEW i \in DOMAIN r, NEW j \in DOMAIN r, i < j
        PROVE  Before(r[i], r[j])
    <2>1. i \in Int /\ j \in Int
      BY <1>3
    <2> HIDE DEF r
    <2>2. CASE j \in 1 .. Len(p)
      <3>1. i \in 1 .. Len(p) /\ r[i] = p[i] /\ r[j] = p[j]
        BY <1>3, <1>5, <1>6, <2>1, <2>2
      <3> QED
        BY <1>3, <1>6, <2>2, <3>1 DEF UpTo, Ordered
    <2>3. CASE j \notin 1 .. Len(p)
      <3>1. j - Len(p) \in 1 .. Len(q) /\ r[j] = q[j - Len(p)]
        BY <1>5, <2>3
      <3>2. CASE i \in 1 .. Len(p)
        <4>1. r[i] = p[i]
          BY <1>3, <1>5, <2>1, <3>2
        <4> QED
          BY <1>4, <3>1, <3>2, <4>1
      <3>3. CASE i \notin 1 .. Len(p)
        <4>1. i - Len(p) \in 1 .. Len(q) /\ r[i] = q[i - Len(p)]
          BY <1>5, <3>3
        <4>2. i - Len(p) < j - Len(p)
          BY <1>3, <1>6, <2>1
        <4> QED
          BY <1>3, <3>1, <4>1, <4>2 DEF Part, Ordered
      <3> QED
        BY <3>2, <3>3
    <2> QED
      BY <2>2, <2>3
  <1>7. \A i \in DOMAIN r : Stage(r[i].fn) \in 1 .. m
    <2> HIDE DEF r
    <2>1. \A i \in 1 .. Len(p) : Stage(p[i].fn) \in 1 .. m
      BY <1>3, StageType DEF UpTo
    <2> QED
      BY <1>3, <1>5, <2>1 DEF UpTo, Part
  <1> QED
    BY <1>2, <1>6, <1>7 DEF UpTo, Ordered

\* Nothing, and one call, are parts.
LEMMA SmallParts ==
    /\ \A k \in 1 .. 5 : Part(<<>>, k)
    /\ \A c \in CallSet : Part(<<c>>, Stage(c.fn))
  <1>1. \A k \in 1 .. 5 : Part(<<>>, k)
    BY EmptySeq DEF Part, Ordered
  <1>2. ASSUME NEW c \in CallSet
        PROVE  Part(<<c>>, Stage(c.fn))
    <2>1. <<c>> \in Seq(CallSet) /\ DOMAIN <<c>> = {1} /\ <<c>>[1] = c
      OBVIOUS
    <2> QED
      BY <1>2, <2>1 DEF Part, Ordered
  <1> QED
    BY <1>1, <1>2

\* A call without a break_point is one of the calls.
LEMMA PlainCall ==
    ASSUME NEW fn \in CallNames, fn # "break_insert"
    PROVE  Fn(fn) \in CallSet /\ Fn(fn).fn = fn
  BY DEF Fn, CallSet, AnyCall

\* An insertion is one of them.
LEMMA InsertCall == ASSUME NEW bp \in BreakPoints PROVE Insert(bp) \in CallSet
  BY DEF Insert, CallSet, AnyCall, CallNames

\* The insertions of the break_points, and the lines of the init scripts.
LEMMA RowParts ==
    ASSUME NEW s \in Settings
    PROVE  /\ Part([i \in DOMAIN s.breaks |-> Insert(s.breaks[i])], 2)
           /\ Part([i \in DOMAIN s.scripts |-> Fn(s.scripts[i])], 3)
  <1>1. s.breaks \in Seq(BreakPoints)
        /\ s.scripts \in Seq({"script", "scriptBreak", "scriptRun"})
    BY ProcessAssumption
  <1>2. /\ DOMAIN s.breaks = 1 .. Len(s.breaks) /\ Len(s.breaks) \in Nat
        /\ \A i \in DOMAIN s.breaks : s.breaks[i] \in BreakPoints
        /\ DOMAIN s.scripts = 1 .. Len(s.scripts) /\ Len(s.scripts) \in Nat
        /\ \A i \in DOMAIN s.scripts : s.scripts[i] \in {"script", "scriptBreak", "scriptRun"}
    BY <1>1, LenProperties, ElementOfSeq
  <1> DEFINE inserts == [i \in DOMAIN s.breaks |-> Insert(s.breaks[i])]
             lines   == [i \in DOMAIN s.scripts |-> Fn(s.scripts[i])]
  <1>3. \A i \in DOMAIN s.breaks : Insert(s.breaks[i]) \in CallSet
    BY <1>2, InsertCall
  <1>4. \A i \in DOMAIN s.scripts : Fn(s.scripts[i]) \in CallSet
    BY <1>2, PlainCall DEF CallNames
  <1>5. inserts \in Seq(CallSet) /\ lines \in Seq(CallSet)
    BY <1>2, <1>3, <1>4
  <1>6. \A i \in DOMAIN inserts : Stage(inserts[i].fn) = 2 /\ inserts[i].fn = "break_insert"
    BY DEF Insert, Stage
  <1>7. \A i \in DOMAIN lines :
          Stage(lines[i].fn) = 3 /\ lines[i].fn \in {"script", "scriptBreak", "scriptRun"}
    BY <1>2 DEF Fn, Stage
  <1> HIDE DEF inserts, lines
  <1>8. Part(inserts, 2)
    BY <1>5, <1>6 DEF Part, Ordered, Before
  <1>9. Part(lines, 3)
    BY <1>5, <1>7 DEF Part, Ordered, Before
  <1> QED
    BY <1>8, <1>9 DEF inserts, lines

\* What is of a stage up to k is of one up to a later one.
LEMMA UpToLater ==
    ASSUME NEW k \in 1 .. 5, NEW m \in k .. 5, NEW p, UpTo(p, k) \/ Part(p, k)
    PROVE  UpTo(p, m)
  BY StageType DEF UpTo, Part

\* How _start sets the program going.
Start(s) ==
    IF s.scripts # <<>> THEN [i \in DOMAIN s.scripts |-> Fn(s.scripts[i])]
    ELSE IF "target_select_remote" \in s.options THEN <<Fn("exec_continue")>>
    ELSE <<Fn("exec_run")>>

\* The plan of a run is a front with the options and the break_points, the start
\* and a wait.
LEMMA SetupParts ==
    ASSUME NEW s \in Settings
    PROVE  \E front : /\ UpTo(front, 2)
                      /\ UpTo(front \o Start(s), 4)
                      /\ Start(s) # <<>> /\ (Part(Start(s), 3) \/ Part(Start(s), 4))
                      /\ Setup(s) = front \o Start(s) \o <<Fn("wait_for_stop")>>
  <1> DEFINE option(o) == IF o \in s.options THEN <<Fn(o)>> ELSE <<>>
             inserts == [i \in DOMAIN s.breaks |-> Insert(s.breaks[i])]
             options == option("file_exec_and_symbols") \o option("exec_arguments")
                        \o option("target_select_remote")
             front == options \o inserts
  <1>1. Setup(s) = front \o Start(s) \o <<Fn("wait_for_stop")>>
    BY DEF Setup, Start
  <1>2. ASSUME NEW o \in {"file_exec_and_symbols", "exec_arguments", "target_select_remote"}
        PROVE  Part(option(o), 1)
    <2>1. Fn(o) \in CallSet /\ Fn(o).fn = o /\ Stage(o) = 1
      BY PlainCall DEF Stage, CallNames
    <2> QED
      BY <2>1, SmallParts
  <1>3. UpTo(option("file_exec_and_symbols"), 1)
    BY <1>2, UpToLater
  <1>4. UpTo(option("file_exec_and_symbols") \o option("exec_arguments"), 1)
    BY <1>2, <1>3, UpToConcat
  <1>5. UpTo(options, 1)
    BY <1>2, <1>4, UpToConcat
  <1>6. UpTo(front, 2)
    <2>1. Part(inserts, 2)
      BY RowParts
    <2> HIDE DEF inserts, options
    <2> QED
      BY <1>5, <2>1, UpToConcat
  <1> HIDE DEF front
  <1>7. Part(Start(s), 3) \/ Part(Start(s), 4)
    <2>1. CASE s.scripts # <<>>
      BY <2>1, RowParts DEF Start
    <2>2. CASE s.scripts = <<>>
      <3>1. \A fn \in {"exec_run", "exec_continue"} : Part(<<Fn(fn)>>, 4)
        BY PlainCall, SmallParts DEF Stage, CallNames
      <3> QED
        BY <2>2, <3>1 DEF Start
    <2> QED
      BY <2>1, <2>2
  <1>8. UpTo(front \o Start(s), 4)
    <2>1. CASE Part(Start(s), 3)
      <3>1. UpTo(front \o Start(s), 3)
        BY <1>6, <2>1, UpToConcat
      <3> QED
        BY <3>1, UpToLater
    <2>2. CASE Part(Start(s), 4)
      BY <1>6, <2>2, UpToConcat
    <2> QED
      BY <1>7, <2>1, <2>2
  <1>9. Start(s) # <<>>
    <2>1. CASE s.scripts # <<>>
      <3>1. /\ Start(s) = [i \in DOMAIN s.scripts |-> Fn(s.scripts[i])]
            /\ s.scripts \in Seq({"script", "scriptBreak", "scriptRun"})
        BY <2>1, ProcessAssumption DEF Start
      <3>2. DOMAIN Start(s) # {}
        BY <2>1, <3>1, EmptySeq, LenProperties
      <3> QED
        BY <3>2, EmptySeq
    <2>2. CASE s.scripts = <<>>
      BY <2>2 DEF Start
    <2> QED
      BY <2>1, <2>2
  <1> QED
    BY <1>1, <1>6, <1>7, <1>8, <1>9

\* The run begins with its calls in order.
LEMMA PlanInit == Init => PlanInOrder
  <1> SUFFICES ASSUME Init PROVE PlanInOrder
    OBVIOUS
  <1>1. PICK s \in Settings : plan = Setup(s)
    BY DEF Init
  <1>2. PICK front : /\ UpTo(front, 2)
                     /\ UpTo(front \o Start(s), 4)
                     /\ Setup(s) = front \o Start(s) \o <<Fn("wait_for_stop")>>
    BY SetupParts
  <1> DEFINE wait == Fn("wait_for_stop")
             calls == front \o Start(s)
  <1>3. wait \in CallSet /\ Stage(wait.fn) = 5
    BY PlainCall DEF CallNames, Stage
  <1>4. Part(<<wait>>, 5)
    BY <1>3, SmallParts
  <1>5. calls \in Seq(CallSet) /\ UpTo(calls, 4)
    BY <1>2 DEF UpTo
  <1>6. at = Fn("read_header") /\ at \in CallSet /\ Stage(at.fn) = 0
    BY PlainCall DEF Init, CallNames, Stage
  <1> HIDE DEF wait, calls
  <1>7. plan = calls \o <<wait>>
    BY <1>1, <1>2 DEF calls, wait
  <1>8. UpTo(plan, 5)
    BY <1>4, <1>5, <1>7, UpToConcat
  <1>9. plan # <<>> /\ Len(plan) = Len(calls) + 1 /\ plan[Len(plan)] = wait
    <2>1. <<wait>> \in Seq(CallSet) /\ Len(<<wait>>) = 1 /\ <<wait>>[1] = wait
      BY <1>3
    <2>2. Len(calls) \in Nat
      BY <1>5, LenProperties
    <2>3. Len(plan) = Len(calls) + 1 /\ plan[Len(calls) + 1] = wait
      BY <1>5, <1>7, <2>1, <2>2, ConcatProperties
    <2> QED
      BY <1>8, <2>2, <2>3, EmptySeq DEF UpTo
  <1>10. PlanEnd = wait
    BY <1>6, PlainCall DEF PlanEnd, wait, CallNames
  <1>11. \A i \in DOMAIN plan : Before(at, plan[i])
    BY <1>6, <1>8 DEF Before, UpTo
  <1> QED
    BY <1>6, <1>8, <1>9, <1>10, <1>11 DEF PlanInOrder, UpTo

\* What a plan in order says of its first call.
LEMMA FirstCall ==
    ASSUME PlanInOrder, plan # <<>>
    PROVE  /\ Len(plan) \in Nat \ {0} /\ DOMAIN plan = 1 .. Len(plan)
           /\ Head(plan) = plan[1] /\ Head(plan) \in CallSet
           /\ Before(at, plan[1]) /\ Stage(at.fn) # 5
           /\ Tail(plan) \in Seq(CallSet) /\ Len(Tail(plan)) = Len(plan) - 1
           /\ DOMAIN Tail(plan) = 1 .. Len(plan) - 1
           /\ \A i \in 1 .. Len(plan) - 1 : Tail(plan)[i] = plan[i + 1]
           /\ Tail(plan) = <<>> <=> Len(plan) = 1
  <1>1. plan \in Seq(CallSet)
    BY DEF PlanInOrder
  <1>2. Len(plan) \in Nat \ {0} /\ DOMAIN plan = 1 .. Len(plan)
    BY <1>1, EmptySeq, LenProperties
  <1>3. /\ Head(plan) \in CallSet /\ Tail(plan) \in Seq(CallSet)
        /\ Len(Tail(plan)) = Len(plan) - 1
        /\ \A i \in 1 .. Len(Tail(plan)) : Tail(plan)[i] = plan[i + 1]
    BY <1>1, HeadTailProperties
  <1>4. Head(plan) = plan[1]
    BY <1>1
  <1>5. DOMAIN Tail(plan) = 1 .. Len(plan) - 1
    BY <1>3, LenProperties
  <1>6. Tail(plan) = <<>> <=> Len(plan) = 1
    <2>1. Tail(plan) # <<>> => Len(Tail(plan)) # 0
      BY <1>3, EmptySeq
    <2>2. Tail(plan) = <<>> => Len(Tail(plan)) = 0
      BY EmptySeq
    <2> QED
      BY <1>2, <1>3, <2>1, <2>2
  <1>7. Before(at, plan[1])
    BY <1>2 DEF PlanInOrder
  <1>8. Stage(at.fn) # 5
    BY <1>7, StageType DEF Before
  <1> QED
    BY <1>2, <1>3, <1>4, <1>5, <1>6, <1>7, <1>8

\* The next call of the plan is made: what is left is in order.
LEMMA PlanAdvance ==
    ASSUME PlanInOrder, plan # <<>>, Advance
    PROVE  PlanInOrder' /\ Before(at, at')
  <1>1. at' = plan[1] /\ plan' = Tail(plan)
    BY FirstCall DEF Advance
  <1>2. /\ at' \in CallSet /\ plan' \in Seq(CallSet)
        /\ Len(plan) \in Nat \ {0} /\ DOMAIN plan = 1 .. Len(plan)
        /\ DOMAIN plan' = 1 .. Len(plan) - 1 /\ Len(plan') = Len(plan) - 1
        /\ \A i \in DOMAIN plan' : plan'[i] = plan[i + 1]
        /\ plan' = <<>> <=> Len(plan) = 1
    BY <1>1, FirstCall
  <1>3. Ordered(plan')
    BY <1>2 DEF PlanInOrder, Ordered
  <1>4. \A i \in DOMAIN plan' : Before(at', plan'[i])
    BY <1>1, <1>2, SMTT(20) DEF PlanInOrder, Ordered
  <1>5. plan[Len(plan)] = PlanEnd /\ Stage(PlanEnd.fn) = 5
    BY DEF PlanInOrder, PlanEnd, Fn, Stage
  <1>6. Stage(at'.fn) <= 3 => plan' # <<>>
    BY <1>1, <1>2, <1>5
  <1>7. plan' # <<>> => plan'[Len(plan')] = PlanEnd'
    <2> SUFFICES ASSUME plan' # <<>> PROVE plan'[Len(plan')] = PlanEnd'
      OBVIOUS
    <2>1. plan'[Len(plan')] = PlanEnd
      BY <1>2, <1>5
    <2> QED
      BY <2>1 DEF PlanEnd
  <1> QED
    BY <1>1, <1>2, <1>3, <1>4, <1>6, <1>7, FirstCall DEF PlanInOrder

\* A call that follows nothing in a plan is followed by nothing.
LEMMA PlanGo ==
    ASSUME PlanInOrder, plan' = <<>>, NEW name \in CallNames,
           name # "break_insert", Stage(name) > 3, at' = Fn(name)
    PROVE  PlanInOrder'
  <1>1. at' \in CallSet /\ at'.fn = name
    BY PlainCall
  <1>2. ~(Stage(name) <= 3)
    BY StageType
  <1>3. plan' \in Seq(CallSet) /\ DOMAIN plan' = {}
    BY EmptySeq
  <1> QED
    BY <1>1, <1>2, <1>3 DEF PlanInOrder, Ordered

\* In the last stage, and in a frame function, nothing is planned.
LEMMA NothingPlanned ==
    ASSUME PlanInOrder, Stage(at.fn) = 5
    PROVE  plan = <<>>
  BY FirstCall

\* Invoking a break_point, or not finding it, leaves the plan empty.
LEMMA PlanInvoke ==
    ASSUME PlanInOrder, plan = <<>>, NEW num, NEW resets,
           FindAndInvoke(num, resets) \/ Invoke(resets)
    PROVE  PlanInOrder'
  <1>1. plan' = <<>> /\ \E name \in {"set", "print", "exec_continue", "gdb_exit", "none"} :
                          at' = Fn(name)
    BY DEF FindAndInvoke, Invoke, GoTo, FrameFns, NoCall
  <1>2. \A name \in {"set", "print", "exec_continue", "gdb_exit", "none"} :
          name \in CallNames /\ name # "break_insert" /\ Stage(name) > 3
    BY DEF CallNames, Stage
  <1> QED
    BY <1>1, <1>2, PlanGo

\* Nor does reading an argument plan anything.
LEMMA PlanArgument ==
    ASSUME PlanInOrder, plan = <<>>,
           \E fn \in {"stack_list_arguments", "parse_var"} : GoTo(fn)
    PROVE  PlanInOrder'
  <1>1. \A name \in {"stack_list_arguments", "parse_var"} :
          name \in CallNames /\ name # "break_insert" /\ Stage(name) > 3
    BY DEF CallNames, Stage
  <1> QED
    BY <1>1, PlanGo DEF GoTo

\* Every step of the coroutine keeps the plan in order.
LEMMA PlanReplies ==
    ASSUME PlanInOrder, Replies
    PROVE  PlanInOrder'
  <1>1. \A name \in {"wait_for_stop", "gdb_exit", "none"} :
          name \in CallNames /\ name # "break_insert" /\ Stage(name) > 3
    BY DEF CallNames, Stage
  <1>2. CASE SetupReply \/ BreakSet \/ BreakError \/ ScriptReply
    <2>1. Stage(at.fn) <= 3 /\ Advance
      BY <1>2 DEF SetupReply, BreakSet, BreakError, ScriptReply, Suspended, Stage
    <2> QED
      BY <2>1, PlanAdvance DEF PlanInOrder
  <1>3. CASE Resumed
    <2>1. CASE plan # <<>>
      BY <1>3, <2>1, PlanAdvance DEF Resumed
    <2>2. CASE plan = <<>>
      BY <1>1, <1>3, <2>2, PlanGo DEF Resumed, GoTo
    <2> QED
      BY <2>1, <2>2
  <1>4. CASE StopAtBreakpoint
    <2>1. plan = <<>>
      BY <1>4, NothingPlanned DEF StopAtBreakpoint, Suspended, Stage
    <2>2. \/ \E fn \in {"stack_list_arguments", "parse_var"} : GoTo(fn)
          \/ FindAndInvoke(bkptno', TRUE)
      BY <1>4 DEF StopAtBreakpoint
    <2> QED
      BY <2>1, <2>2, PlanArgument, PlanInvoke
  <1>5. CASE ArgumentReply
    <2>1. plan = <<>>
      BY <1>5, NothingPlanned DEF ArgumentReply, Stage
    <2>2. GoTo("parse_var") \/ \E resets : FindAndInvoke(bkptno, resets)
      BY <1>5 DEF ArgumentReply
    <2> QED
      BY <2>1, <2>2, PlanArgument, PlanInvoke
  <1>6. CASE FrameReply
    <2>1. plan = <<>>
      BY <1>6, NothingPlanned DEF FrameReply, FrameFns, Stage
    <2>2. Invoke(at.fn = "set") \/ Invoke(FALSE)
      BY <1>6 DEF FrameReply
    <2> QED
      BY <2>1, <2>2, PlanInvoke
  <1>7. CASE StopAtEnd
    <2>1. plan = <<>>
      BY <1>7, NothingPlanned DEF StopAtEnd, Suspended, Stage
    <2> QED
      BY <1>1, <1>7, <2>1, PlanGo DEF StopAtEnd, GoTo
  <1>8. CASE QuitReply \/ CallThrows
    BY <1>1, <1>8, PlanGo DEF QuitReply, CallThrows, Throw, NoCall
  <1> QED
    BY <1>2, <1>3, <1>4, <1>5, <1>6, <1>7, <1>8 DEF Replies

\* The other handlers leave the coroutine and the breakpoints alone.
LEMMA OtherHandlers ==
    ASSUME TimerExpires \/ TimerHandler \/ ChildExits \/ OnExit \/ RunReturns
    PROVE  UNCHANGED <<at, plan, numbers, bpMap, told, targetVars, exitVars>>
           /\ ended = "no" /\ ended' \in {"no", "timeout", "returned"}
  BY DEF TimerExpires, TimerHandler, ChildExits, OnExit, RunReturns, bpVars

\* Every step keeps the plan in order.
LEMMA PlanNext ==
    ASSUME PlanInOrder, [Next]_vars
    PROVE  PlanInOrder'
  <1>1. CASE Replies
    BY <1>1, PlanReplies
  <1>2. CASE UNCHANGED <<at, plan>>
    BY <1>2 DEF PlanInOrder, PlanEnd
  <1> QED
    BY <1>1, <1>2, OtherHandlers DEF Next, vars

\* The first stages are not come back to, and the arguments are read at a stop.
LEMMA StagesPass ==
    ASSUME PlanInOrder, [Next]_vars
    PROVE  /\ Stage(at'.fn) <= 3 => Stage(at.fn) <= Stage(at'.fn)
           /\ at'.fn \in {"stack_list_arguments", "parse_var"} =>
                at.fn \in {"stack_list_arguments", "parse_var"} \/ StopAtBreakpoint
  <1>1. CASE plan # <<>> /\ Advance
    <2>1. Before(at, plan[1]) /\ at' = plan[1] /\ Len(plan) \in Nat \ {0}
          /\ DOMAIN plan = 1 .. Len(plan)
      BY <1>1, FirstCall DEF Advance
    <2>2. CASE at'.fn \in {"stack_list_arguments", "parse_var"}
      <3>1. Len(plan) = 1
        <4> SUFFICES ASSUME Len(plan) # 1 PROVE FALSE
          OBVIOUS
        <4>1. Before(plan[1], plan[2])
          BY <2>1 DEF PlanInOrder, Ordered
        <4>2. Stage(plan[1].fn) = 5
          BY <2>1, <2>2 DEF Stage
        <4> QED
          BY <4>1, <4>2, StageType DEF Before
      <3>2. at' = PlanEnd
        BY <1>1, <2>1, <3>1 DEF PlanInOrder
      <3> QED
        BY <2>2, <3>2 DEF PlanEnd, Fn
    <2> QED
      BY <2>1, <2>2, StageType DEF Before
  <1>2. CASE at' = at
    BY <1>2, StageType
  <1>3. CASE \E name \in {"set", "print", "exec_continue", "gdb_exit", "none", "wait_for_stop"} :
               at' = Fn(name)
    BY <1>3 DEF Fn, Stage
  <1>4. CASE StopAtBreakpoint
    <2>1. \/ at' \in {Fn("stack_list_arguments"), Fn("parse_var")}
          \/ FindAndInvoke(bkptno', TRUE)
      BY <1>4 DEF StopAtBreakpoint, GoTo
    <2>2. Stage(at'.fn) > 3
      BY <2>1 DEF FindAndInvoke, Invoke, GoTo, FrameFns, NoCall, Fn, Stage
    <2> QED
      BY <1>4, <2>2, StageType
  <1>5. CASE SetupReply \/ BreakSet \/ BreakError \/ ScriptReply
    <2>1. Stage(at.fn) <= 3 /\ Advance
      BY <1>5 DEF SetupReply, BreakSet, BreakError, ScriptReply, Suspended, Stage
    <2> QED
      BY <1>1, <2>1 DEF PlanInOrder
  <1>6. CASE Resumed
    BY <1>1, <1>3, <1>6 DEF Resumed, GoTo
  <1>7. CASE ArgumentReply
    <2>1. at' = Fn("parse_var") \/ \E resets : FindAndInvoke(bkptno, resets)
      BY <1>7 DEF ArgumentReply, GoTo
    <2>2. Stage(at'.fn) > 3
      BY <2>1 DEF FindAndInvoke, Invoke, GoTo, FrameFns, NoCall, Fn, Stage
    <2> QED
      BY <1>7, <2>2, StageType DEF ArgumentReply
  <1>8. CASE FrameReply \/ StopAtEnd \/ QuitReply \/ CallThrows
    BY <1>3, <1>8 DEF FrameReply, StopAtEnd, QuitReply, CallThrows, Throw, Invoke, GoTo,
                      FrameFns, NoCall
  <1>9. CASE UNCHANGED vars
    BY <1>2, <1>9 DEF vars
  <1> QED
    BY <1>2, <1>4, <1>5, <1>6, <1>8, <1>9, <1>7, OtherHandlers DEF Next, Replies

-----------------------------------------------------------------------------
(* The numbers, the map and the stop.                                      *)

\* A set of numbers has a least one.
LEMMA LeastNumber ==
    ASSUME NEW T, T \subseteq Nat, T # {}
    PROVE  \E m \in T : \A n \in T : ~(n < m)
  <1> DEFINE R == OpToRel(<, Nat)
  <1>1. \A a, b \in Nat : <<a, b>> \in R <=> a < b
    BY DEF OpToRel
  <1>2. IsWellFoundedOn(R, Nat)
    BY NatLessThanWellFounded
  <1> HIDE DEF R
  <1>3. PICK m \in T : \A n \in T : <<n, m>> \notin R
    BY <1>2, WFMin
  <1> QED
    BY <1>1, <1>3, Zenon

\* gdb's numbers are those up to the last.
LEMMA NumbersCount ==
    ASSUME NumbersAgree
    PROVE  Len(numbers) \in Nat /\ DOMAIN numbers = 1 .. Len(numbers)
  BY LenProperties DEF NumbersAgree

\* gdb reports the first number at a place that has one.
LEMMA ReportedFirst ==
    ASSUME NumbersAgree, NEW n \in DOMAIN numbers
    PROVE  FirstThere(Reported(numbers[n]))
  <1> DEFINE here == {m \in DOMAIN numbers : numbers[m] = numbers[n]}
             first(m) == /\ numbers[m] = numbers[n]
                         /\ \A k \in 1 .. m - 1 : numbers[k] # numbers[n]
  <1>1. DOMAIN numbers \subseteq Nat /\ DOMAIN numbers = 1 .. Len(numbers) /\ Len(numbers) \in Nat
    BY NumbersCount
  <1>2. here \subseteq Nat /\ here # {}
    BY <1>1
  <1>3. PICK m \in here : \A k \in here : ~(k < m)
    BY <1>2, LeastNumber
  <1>4. m \in DOMAIN numbers /\ first(m)
    BY <1>1, <1>3
  <1>5. Reported(numbers[n]) \in DOMAIN numbers /\ first(Reported(numbers[n]))
    BY <1>4 DEF Reported
  <1> QED
    BY <1>5 DEF FirstThere

\* The run begins without breakpoints.
LEMMA NumbersInit == Init => NumbersAgree
  <1> SUFFICES ASSUME Init PROVE NumbersAgree
    OBVIOUS
  <1>1. numbers = <<>> /\ bpMap = <<>> /\ told = {}
    BY DEF Init
  <1>2. DOMAIN bpMap = {} /\ DOMAIN numbers = {} /\ bpMap \in [{} -> BreakPoints]
    BY <1>1
  <1> QED
    BY <1>1, <1>2 DEF NumbersAgree

\* A break_point that is set gets the next number, behind all others' numbers.
LEMMA NumbersBreakSet ==
    ASSUME PlanInOrder, NumbersAgree, BreakSet
    PROVE  NumbersAgree'
  <1> DEFINE L == Len(numbers)
             new == Location[at.bp]
             places == {Location[b] : b \in BreakPoints}
  <1>1. at.bp \in BreakPoints /\ DOMAIN bpMap = 1 .. L /\ L \in Nat
        /\ DOMAIN numbers = 1 .. L
    BY NumbersCount DEF BreakSet, Suspended, PlanInOrder, CallSet, NumbersAgree, Stage
  <1>2. numbers' = Append(numbers, new)
    BY DEF BreakSet
  <1>3. /\ numbers' \in Seq(places) /\ Len(numbers') = L + 1
        /\ \A i \in 1 .. L : numbers'[i] = numbers[i]
        /\ numbers'[L + 1] = new
    BY <1>1, <1>2, AppendProperties DEF NumbersAgree
  <1>4. DOMAIN numbers' = 1 .. L + 1
    BY <1>3, LenProperties
  <1>5. bpMap' = [n \in 1 .. L + 1 |-> IF n = L + 1 THEN at.bp ELSE bpMap[n]]
    <2>1. DOMAIN bpMap \union {Len(numbers')} = 1 .. L + 1
      BY <1>1, <1>3
    <2> QED
      BY <1>3, <2>1 DEF BreakSet
  <1> HIDE DEF L, new, places
  <1>6. /\ DOMAIN bpMap' = 1 .. L + 1
        /\ \A n \in 1 .. L + 1 : bpMap'[n] = IF n = L + 1 THEN at.bp ELSE bpMap[n]
    BY <1>5
  <1>7. bpMap' \in [DOMAIN bpMap' -> BreakPoints]
    BY <1>1, <1>5, <1>6 DEF NumbersAgree
  <1>8. \A n \in DOMAIN bpMap' : numbers'[n] = Location[bpMap'[n]]
    BY <1>1, <1>3, <1>6 DEF NumbersAgree, new
  <1>9. told' \subseteq BreakPoints /\ \A bp \in told' : \E n \in DOMAIN bpMap' : bpMap'[n] = bp
    <2>1. told' = told \union {at.bp}
      BY DEF BreakSet
    <2>2. \A bp \in told : \E n \in DOMAIN bpMap' : bpMap'[n] = bp
      BY <1>1, <1>6 DEF NumbersAgree
    <2>3. L + 1 \in DOMAIN bpMap' /\ bpMap'[L + 1] = at.bp
      BY <1>1, <1>6
    <2> QED
      BY <1>1, <2>1, <2>2, <2>3 DEF NumbersAgree
  <1> QED
    BY <1>3, <1>4, <1>6, <1>7, <1>8, <1>9 DEF NumbersAgree, places

\* A script may add a number of its own; the break_points were set before.
LEMMA NumbersScript ==
    ASSUME PlanInOrder, NumbersAgree, ScriptReply, Stage(at'.fn) > 2
    PROVE  NumbersAgree'
  <1> DEFINE L == Len(numbers)
             places == {Location[b] : b \in BreakPoints}
  <1>1. UNCHANGED <<bpMap, told>>
    BY DEF ScriptReply
  <1>2. L \in Nat /\ DOMAIN numbers = 1 .. L
    BY NumbersCount
  <1>3. ~(Stage(at'.fn) <= 2)
    BY StageType
  <1>4. CASE numbers' = numbers
    BY <1>1, <1>3, <1>4 DEF NumbersAgree
  <1>5. CASE \E bp \in BreakPoints : numbers' = Append(numbers, Location[bp])
    <2>1. /\ numbers' \in Seq(places) /\ Len(numbers') = L + 1
          /\ \A i \in 1 .. L : numbers'[i] = numbers[i]
      BY <1>5, AppendProperties DEF NumbersAgree
    <2>2. DOMAIN numbers' = 1 .. L + 1
      BY <2>1, LenProperties
    <2>3. \A n \in DOMAIN bpMap, m \in DOMAIN numbers' : m < n => m \in DOMAIN numbers
      BY <1>2, <2>2 DEF NumbersAgree
    <2>4. \A n \in DOMAIN bpMap : n \in 1 .. L
      BY <1>2 DEF NumbersAgree
    <2>5. \A n \in DOMAIN bpMap' : numbers'[n] = Location[bpMap'[n]]
      BY <1>1, <2>1, <2>4 DEF NumbersAgree
    <2>6. DOMAIN bpMap' \subseteq DOMAIN numbers'
      BY <1>1, <1>2, <2>2, <2>4
    <2> QED
      BY <1>1, <1>3, <2>1, <2>3, <2>5, <2>6 DEF NumbersAgree
  <1> QED
    BY <1>4, <1>5 DEF ScriptReply

\* Every step keeps the map at one with gdb's numbers.
LEMMA NumbersNext ==
    ASSUME PlanInOrder, NumbersAgree, [Next]_vars
    PROVE  NumbersAgree'
  <1>1. CASE BreakSet
    BY <1>1, NumbersBreakSet
  <1>2. CASE ScriptReply
    <2>1. Stage(at.fn) = 3
      BY <1>2 DEF ScriptReply, Stage
    <2>2. Stage(at'.fn) > 2
      BY <2>1, StagesPass, StageType
    <2> QED
      BY <1>2, <2>2, NumbersScript
  <1>3. CASE UNCHANGED <<numbers, bpMap, told>>
    <2>1. Stage(at'.fn) <= 2 => Stage(at.fn) <= 2
      BY StagesPass, StageType
    <2> QED
      BY <1>3, <2>1 DEF NumbersAgree
  <1>4. \/ BreakSet \/ ScriptReply \/ UNCHANGED <<numbers, bpMap, told>>
    BY OtherHandlers DEF Next, vars, bpVars, Replies, SetupReply, BreakError, Resumed,
       StopAtBreakpoint, ArgumentReply, FrameReply, StopAtEnd, QuitReply, CallThrows, Throw
  <1> QED
    BY <1>1, <1>2, <1>3, <1>4

\* Breakpoints are only added, and the map keeps what it has.
LEMMA NumbersGrow ==
    ASSUME NumbersAgree, [Next]_vars
    PROVE  /\ \A n : FirstThere(n) => FirstThere(n)'
           /\ \A n \in DOMAIN bpMap : n \in DOMAIN bpMap' /\ bpMap'[n] = bpMap[n]
  <1>1. Len(numbers) \in Nat /\ DOMAIN numbers = 1 .. Len(numbers)
    BY NumbersCount
  <1>2. \/ UNCHANGED numbers
        \/ \E b \in BreakPoints \union {at.bp} : numbers' = Append(numbers, Location[b])
    BY OtherHandlers DEF Next, vars, bpVars, Replies, SetupReply, BreakSet, BreakError,
       ScriptReply, Resumed, StopAtBreakpoint, ArgumentReply, FrameReply, StopAtEnd,
       QuitReply, CallThrows, Throw
  <1>3. DOMAIN numbers \subseteq DOMAIN numbers'
        /\ \A n \in DOMAIN numbers : numbers'[n] = numbers[n]
    <2> SUFFICES ASSUME NEW place, numbers' = Append(numbers, place)
                 PROVE  DOMAIN numbers \subseteq DOMAIN numbers'
                        /\ \A n \in DOMAIN numbers : numbers'[n] = numbers[n]
      BY <1>2
    <2>1. numbers \in Seq({numbers[n] : n \in DOMAIN numbers} \union {place})
      BY <1>1 DEF NumbersAgree
    <2> QED
      BY <1>1, <2>1, AppendProperties, LenProperties
  <1>4. \A n : FirstThere(n) => FirstThere(n)'
    <2> SUFFICES ASSUME NEW n, FirstThere(n) PROVE FirstThere(n)'
      OBVIOUS
    <2>1. n \in DOMAIN numbers /\ \A m \in 1 .. n - 1 : m \in DOMAIN numbers
      BY <1>1 DEF FirstThere
    <2> QED
      BY <1>3, <2>1 DEF FirstThere
  <1>5. \A n \in DOMAIN bpMap : n \in DOMAIN bpMap' /\ bpMap'[n] = bpMap[n]
    <2>1. CASE BreakSet
      <3>1. Len(numbers') = Len(numbers) + 1
        BY <2>1 DEF BreakSet, NumbersAgree
      <3>2. \A n \in DOMAIN bpMap : n # Len(numbers')
        BY <1>1, <3>1 DEF NumbersAgree
      <3> QED
        BY <2>1, <3>2 DEF BreakSet
    <2>2. CASE UNCHANGED bpMap
      BY <2>2
    <2> QED
      BY <2>1, <2>2, OtherHandlers DEF Next, vars, bpVars, Replies, SetupReply, BreakError,
         ScriptReply, Resumed, StopAtBreakpoint, ArgumentReply, FrameReply, StopAtEnd,
         QuitReply, CallThrows, Throw
  <1> QED
    BY <1>4, <1>5

\* The break_point of the reported number is the one that is invoked; without
\* one the runner crashes.
LEMMA StopInvoke ==
    ASSUME NEW resets, FindAndInvoke(bkptno', resets), UNCHANGED bpMap, bkptno' # 0,
           ended = "no"
    PROVE  /\ invoked' # {} => bkptno' \in DOMAIN bpMap' /\ invoked' = {bpMap'[bkptno']}
           /\ ended' = "crashed" => bkptno' # 0 /\ bkptno' \notin DOMAIN bpMap'
  BY DEF FindAndInvoke

\* What is known of a stop stays true.
LEMMA StopNext ==
    ASSUME PlanInOrder, NumbersAgree, StopKnown, [Next]_vars
    PROVE  StopKnown'
  <1>1. /\ \A n : FirstThere(n) => FirstThere(n)'
        /\ \A n \in DOMAIN bpMap : n \in DOMAIN bpMap' /\ bpMap'[n] = bpMap[n]
    BY NumbersGrow
  <1>2. at'.fn \in {"stack_list_arguments", "parse_var"} =>
          at.fn \in {"stack_list_arguments", "parse_var"} \/ StopAtBreakpoint
    BY StagesPass
  <1>3. CASE /\ UNCHANGED <<bkptno, invoked>> /\ ~StopAtBreakpoint
             /\ ended' = "crashed" => ended = "crashed" /\ UNCHANGED bpMap
    BY <1>1, <1>2, <1>3 DEF StopKnown
  <1>4. CASE StopAtBreakpoint
    <2>1. PICK n \in DOMAIN numbers :
            /\ bkptno' = Reported(numbers[n])
            /\ \/ invoked' = {} /\ ended' = ended
               \/ FindAndInvoke(bkptno', TRUE)
      BY <1>4 DEF StopAtBreakpoint
    <2>2. FirstThere(bkptno')
      BY <2>1, ReportedFirst
    <2>3. bkptno' \in Nat /\ bkptno' # 0
      BY <2>2, NumbersCount DEF FirstThere
    <2>4. UNCHANGED <<bpMap, numbers>> /\ ended = "no"
      BY <1>4 DEF StopAtBreakpoint, bpVars, Suspended
    <2>5. FirstThere(bkptno)'
      BY <2>2, <2>4 DEF FirstThere
    <2>6. /\ invoked' # {} => bkptno' \in DOMAIN bpMap' /\ invoked' = {bpMap'[bkptno']}
          /\ ended' = "crashed" => bkptno' # 0 /\ bkptno' \notin DOMAIN bpMap'
      BY <2>1, <2>3, <2>4, StopInvoke
    <2> QED
      BY <2>3, <2>5, <2>6 DEF StopKnown
  <1>5. CASE ArgumentReply
    <2>1. UNCHANGED <<bpMap, numbers, bkptno>> /\ ended = "no" /\ bkptno # 0
      BY <1>5 DEF ArgumentReply, bpVars, StopKnown
    <2>2. CASE UNCHANGED <<invoked, ended>>
      BY <1>1, <1>2, <2>1, <2>2 DEF StopKnown
    <2>3. CASE \E resets : FindAndInvoke(bkptno, resets)
      BY <1>1, <2>1, <2>3, StopInvoke DEF StopKnown
    <2> QED
      BY <1>5, <2>2, <2>3 DEF ArgumentReply
  <1>6. CASE ~StopAtBreakpoint /\ ~ArgumentReply
    <2>1. UNCHANGED <<bkptno, invoked>>
          /\ (ended' = "crashed" => ended = "crashed" /\ UNCHANGED bpMap)
      BY <1>6, OtherHandlers DEF Next, vars, bpVars, targetVars, Replies, Suspended,
         SetupReply, BreakSet, BreakError, ScriptReply, Resumed, FrameReply, StopAtEnd,
         QuitReply, CallThrows, Throw
    <2> QED
      BY <1>3, <1>6, <2>1
  <1> QED
    BY <1>4, <1>5, <1>6

\* The order of the calls, the numbers and the stop keep one another.
LEMMA RunInvariant == Spec => []RunInv
  <1>1. Init => RunInv
    BY PlanInit, NumbersInit DEF Init, RunInv, StopKnown, Fn
  <1>2. RunInv /\ [Next]_vars => RunInv'
    BY PlanNext, NumbersNext, StopNext DEF RunInv
  <1> QED
    BY <1>1, <1>2, PTL DEF Spec

\* The break_point that is invoked was set at the place the program stopped at,
\* whichever insertions failed: the map has the number and place of each, and
\* gdb reports a number of that place (process.cpp 83-110, 163-192).
THEOREM InvokedIsRight == Spec => []RightBreakPoint
  <1>1. RunInv => RightBreakPoint
    BY DEF RunInv, NumbersAgree, StopKnown, RightBreakPoint
  <1> QED
    BY <1>1, RunInvariant, PTL

\* The runner crashes on a number it does not know only where none of the
\* break_points was set: theirs are the first numbers, and gdb reports the first
\* number at a place (process.cpp 56-74, 163-192).
THEOREM CrashIsForeign == Spec => []OnlyForeignCrash
  <1>1. RunInv => OnlyForeignCrash
    <2> SUFFICES ASSUME RunInv, ended = "crashed", NEW bp \in told,
                        Location[bp] = numbers[bkptno]
                 PROVE  FALSE
      BY DEF OnlyForeignCrash
    <2>1. PICK n \in DOMAIN bpMap : bpMap[n] = bp
      BY DEF RunInv, NumbersAgree
    <2>2. FirstThere(bkptno) /\ bkptno \notin DOMAIN bpMap
      BY DEF RunInv, StopKnown
    <2>3. n \in DOMAIN numbers /\ numbers[n] = numbers[bkptno]
      BY <2>1 DEF RunInv, NumbersAgree
    <2>4. DOMAIN numbers \subseteq Nat /\ bkptno \in DOMAIN numbers /\ 0 \notin DOMAIN numbers
      BY <2>2, NumbersCount DEF RunInv, FirstThere
    <2>5. ~(n < bkptno)
      BY <2>2, <2>3, <2>4 DEF FirstThere
    <2>6. ~(bkptno < n)
      BY <2>1, <2>2, <2>4 DEF RunInv, NumbersAgree
    <2> QED
      BY <2>1, <2>2, <2>3, <2>4, <2>5, <2>6
  <1> QED
    BY <1>1, RunInvariant, PTL

-----------------------------------------------------------------------------
(* The shape of the state.                                                 *)

\* The parts of it that no other part matters for.
Shape ==
    /\ target \in {"loaded", "running", "stopped", "gone"}
    /\ hits \in 0 .. MaxStops /\ ops \in 0 .. MaxFrameOps
    /\ status \in Codes \union {NoStatus}
    /\ exited \in BOOLEAN /\ exitCode \in Codes \union {NoStatus}
    /\ child \in {"running", "exited", "reaped"} /\ outOpen \in BOOLEAN
    /\ timeOut \in TimeOuts /\ armed \in BOOLEAN /\ expired \in {"no", "queued", "next"}
    /\ ended \in {"no", "returned", "timeout", "thrown", "crashed"}

\* The timer, set again or not, has its shape.
LEMMA ShapeTimer ==
    ASSUME Shape, reset_timer \/ keep_timer
    PROVE  timeOut' \in TimeOuts /\ armed' \in BOOLEAN /\ expired' \in {"no", "queued", "next"}
  BY ProcessAssumption DEF Shape, reset_timer, keep_timer, HandlerRuns

\* Invoking a break_point keeps the shape of what it may change.
LEMMA ShapeInvoke ==
    ASSUME Shape, NEW num, NEW resets,
           FindAndInvoke(num, resets) \/ (Invoke(resets) /\ UNCHANGED ended)
    PROVE  /\ ops' \in 0 .. MaxFrameOps
           /\ status' \in Codes \union {NoStatus}
           /\ exited' \in BOOLEAN /\ exitCode' \in Codes \union {NoStatus}
           /\ ended' \in {"no", "returned", "timeout", "thrown", "crashed"}
  <1>1. MaxFrameOps \in Nat
    BY ProcessAssumption
  <1>2. \/ UNCHANGED <<ops, exitVars, status>>
        \/ Invoke(resets)
    BY DEF FindAndInvoke
  <1>3. ended' = ended \/ ended' = "crashed"
    BY DEF FindAndInvoke
  <1>4. ops' = ops \/ (ops < MaxFrameOps /\ ops' = ops + 1)
    BY <1>2 DEF Invoke
  <1>5. UNCHANGED <<exitVars, status>>
        \/ \E code \in Codes : exited' = TRUE /\ exitCode' = code /\ status' = code
    BY <1>2 DEF Invoke, set_exit
  <1>6. exited' \in BOOLEAN
    BY <1>5, Zenon DEF Shape, exitVars
  <1>7. ops' \in 0 .. MaxFrameOps
    BY <1>1, <1>4 DEF Shape
  <1>8. status' \in Codes \union {NoStatus} /\ exitCode' \in Codes \union {NoStatus}
    BY <1>5 DEF Shape, exitVars
  <1> QED
    BY <1>3, <1>6, <1>7, <1>8 DEF Shape

\* Every step of the coroutine keeps the shape.
LEMMA ShapeReplies ==
    ASSUME Shape, Replies
    PROVE  Shape'
  <1>1. timeOut' \in TimeOuts /\ armed' \in BOOLEAN /\ expired' \in {"no", "queued", "next"}
    BY TimerReplies, ShapeTimer
  <1>2. MaxStops \in Nat /\ MaxFrameOps \in Nat
    BY ProcessAssumption
  <1>3. CASE SetupReply \/ BreakSet \/ BreakError \/ ScriptReply \/ Resumed
    BY <1>1, <1>2, <1>3 DEF SetupReply, BreakSet, BreakError, ScriptReply, Resumed,
       exitVars, targetVars, childVars, Shape
  <1>4. CASE StopAtBreakpoint
    <2>1. hits' \in 0 .. MaxStops /\ target' = "stopped" /\ UNCHANGED childVars
      BY <1>2, <1>4 DEF StopAtBreakpoint, Shape
    <2>2. UNCHANGED <<ops, exitVars, status, ended>> \/ FindAndInvoke(bkptno', TRUE)
      BY <1>4 DEF StopAtBreakpoint
    <2> QED
      BY <1>1, <2>1, <2>2, ShapeInvoke DEF exitVars, childVars, Shape
  <1>5. CASE ArgumentReply
    <2>1. UNCHANGED <<target, hits, childVars>>
      BY <1>5 DEF ArgumentReply
    <2>2. \/ /\ UNCHANGED <<exitVars, status, ended>>
             /\ ops < MaxFrameOps /\ ops' = ops + 1
          \/ \E resets : FindAndInvoke(bkptno, resets)
      BY <1>5 DEF ArgumentReply
    <2> QED
      BY <1>1, <1>2, <2>1, <2>2, ShapeInvoke DEF exitVars, childVars, Shape
  <1>6. CASE FrameReply
    <2>1. UNCHANGED <<target, hits, childVars, ended>> /\ \E resets : Invoke(resets)
      BY <1>6 DEF FrameReply
    <2> QED
      BY <1>1, <2>1, ShapeInvoke DEF childVars, Shape
  <1>7. CASE StopAtEnd
    BY <1>1, <1>7 DEF StopAtEnd, set_exit, exitVars, childVars, Shape
  <1>8. CASE QuitReply \/ CallThrows
    BY <1>1, <1>8 DEF QuitReply, CallThrows, Throw, exitVars, targetVars, childVars, Shape
  <1> QED
    BY <1>3, <1>4, <1>5, <1>6, <1>7, <1>8 DEF Replies

\* The state of a run has its shape: the calls of a plan, the map from gdb's
\* numbers, the counters within their bounds.
THEOREM ProcessType == Spec => []TypeOK
  <1>1. Init => Shape
    <2>1. MaxStops \in Nat /\ MaxFrameOps \in Nat /\ TimeOuts \subseteq BOOLEAN
      BY ProcessAssumption
    <2>2. Init => /\ target = "loaded" /\ hits = 0 /\ ops = 0 /\ status = NoStatus
                  /\ exited \in BOOLEAN /\ exitCode = NoStatus
                  /\ child = "running" /\ outOpen \in BOOLEAN
                  /\ timeOut \in TimeOuts /\ armed \in BOOLEAN
                  /\ expired = "no" /\ ended = "no"
      BY <2>1, Zenon DEF Init
    <2> QED
      BY <2>1, <2>2 DEF Shape
  <1>2. Shape /\ [Next]_vars => Shape'
    <2> SUFFICES ASSUME Shape, [Next]_vars PROVE Shape'
      OBVIOUS
    <2>1. CASE Replies
      BY <2>1, ShapeReplies
    <2>2. CASE TimerExpires \/ TimerHandler \/ ChildExits \/ RunReturns
      BY <2>2 DEF TimerExpires, TimerHandler, ChildExits, RunReturns,
         exitVars, targetVars, childVars, timerVars, Shape
    <2>3. CASE OnExit
      BY <2>3 DEF OnExit, HandlerRuns, exitVars, targetVars, Shape
    <2>4. CASE UNCHANGED vars
      BY <2>4 DEF vars, exitVars, targetVars, childVars, timerVars, Shape
    <2> QED
      BY <2>1, <2>2, <2>3, <2>4 DEF Next
  <1>3. RunInv /\ Shape => TypeOK
    <2> SUFFICES ASSUME RunInv, Shape PROVE TypeOK
      OBVIOUS
    <2>1. at \in AnyCall /\ plan \in Seq(AnyCall)
      BY DEF RunInv, PlanInOrder, CallSet
    <2>2. DOMAIN bpMap \in SUBSET DOMAIN numbers /\ bpMap \in [DOMAIN bpMap -> BreakPoints]
      BY DEF RunInv, NumbersAgree
    <2>3. invoked \subseteq BreakPoints
      BY <2>2 DEF RunInv, StopKnown
    <2>4. bkptno \in Nat /\ told \subseteq BreakPoints
          /\ numbers \in Seq({Location[b] : b \in BreakPoints})
      BY DEF RunInv, NumbersAgree, StopKnown
    <2> QED
      BY <2>1, <2>2, <2>3, <2>4 DEF Shape, TypeOK
  <1> QED
    BY <1>1, <1>2, <1>3, RunInvariant, PTL DEF Spec

-----------------------------------------------------------------------------
(* The protocol of the interpreter.                                        *)

\* What the interpreter asks of the init scripts: only a last line sets the
\* program going, as the run waits for a stop only behind all of them.
ScriptsRunLast ==
    \A s \in Settings : \A i \in DOMAIN s.scripts : s.scripts[i] = "scriptRun" => i = Len(s.scripts)

\* A plan begins with such scripts if they are all there are.
LEMMA ObedientInit ==
    ASSUME ScriptsRunLast, Init
    PROVE  Obedient
  <1>1. PICK s \in Settings : plan = Setup(s)
    BY DEF Init
  <1>2. PICK front : /\ UpTo(front, 2)
                     /\ Start(s) \in Seq(CallSet)
                     /\ Setup(s) = front \o Start(s) \o <<Fn("wait_for_stop")>>
    BY SetupParts DEF Part
  <1> DEFINE wait == Fn("wait_for_stop")
             start == Start(s)
             F == Len(front)
             S == Len(start)
  <1>3. wait \in CallSet /\ wait.fn = "wait_for_stop"
    BY PlainCall DEF CallNames
  <1>4. S \in Nat /\ \A i \in 1 .. S : start[i].fn = "scriptRun" => i = S
    <2>1. CASE s.scripts # <<>>
      <3>1. start = [i \in DOMAIN s.scripts |-> Fn(s.scripts[i])]
        BY <2>1 DEF Start
      <3>2. DOMAIN s.scripts = 1 .. Len(s.scripts) /\ Len(s.scripts) \in Nat
        BY ProcessAssumption, LenProperties
      <3>3. DOMAIN start = DOMAIN s.scripts /\ S = Len(s.scripts)
        BY <3>1, <3>2
      <3>4. \A i \in DOMAIN s.scripts : start[i].fn = s.scripts[i]
        BY <3>1 DEF Fn
      <3> HIDE DEF start, S
      <3> QED
        BY <3>2, <3>3, <3>4 DEF ScriptsRunLast
    <2>2. CASE s.scripts = <<>>
      BY <2>2 DEF Start, Fn
    <2> QED
      BY <2>1, <2>2
  <1>5. front \in Seq(CallSet) /\ F \in Nat /\ DOMAIN front = 1 .. F
        /\ \A i \in 1 .. F : front[i].fn # "scriptRun"
    <2>1. front \in Seq(CallSet) /\ F \in Nat /\ DOMAIN front = 1 .. F
      BY <1>2, LenProperties DEF UpTo
    <2>2. Stage("scriptRun") = 3
      BY DEF Stage
    <2>3. ASSUME NEW i \in 1 .. F PROVE front[i].fn # "scriptRun"
      <3>1. Stage(front[i].fn) <= 2
        BY <1>2, <2>1, SMTT(20) DEF UpTo
      <3> QED
        BY <2>2, <3>1
    <2> QED
      BY <2>1, <2>3
  <1> HIDE DEF start, wait
  <1>6. /\ Len(plan) = F + S + 1
        /\ \A i \in 1 .. F + S + 1 :
             plan[i] = IF i <= F THEN front[i] ELSE IF i <= F + S THEN start[i - F] ELSE wait
    <2>1. plan = (front \o start) \o <<wait>> /\ start \in Seq(CallSet)
      BY <1>1, <1>2 DEF start, wait
    <2>2. /\ front \o start \in Seq(CallSet) /\ Len(front \o start) = F + S
          /\ \A i \in 1 .. F + S :
               (front \o start)[i] = IF i <= F THEN front[i] ELSE start[i - F]
      BY <1>5, <2>1, ConcatProperties
    <2>3. <<wait>> \in Seq(CallSet) /\ Len(<<wait>>) = 1 /\ <<wait>>[1] = wait
      BY <1>3
    <2>4. /\ Len(plan) = F + S + 1
          /\ \A i \in 1 .. F + S + 1 :
               plan[i] = IF i <= F + S THEN (front \o start)[i] ELSE <<wait>>[i - (F + S)]
      BY <2>1, <2>2, <2>3, ConcatProperties
    <2> QED
      BY <1>4, <1>5, <2>2, <2>3, <2>4
  <1>7. DOMAIN plan = 1 .. F + S + 1
    <2>1. plan \in Seq(CallSet)
      BY PlanInit DEF PlanInOrder
    <2> QED
      BY <1>6, <2>1, LenProperties
  <1>8. RunsLast(plan, Len(plan) - 1)
    <2> SUFFICES ASSUME NEW i \in 1 .. F + S + 1, plan[i].fn = "scriptRun" PROVE i = F + S
      BY <1>4, <1>5, <1>6, <1>7 DEF RunsLast
    <2> HIDE DEF F, S
    <2>1. CASE i <= F
      BY <1>5, <1>6, <2>1
    <2>2. CASE i > F /\ i <= F + S
      <3>1. plan[i] = start[i - F] /\ i - F \in 1 .. S
        BY <1>4, <1>5, <1>6, <2>2
      <3> QED
        BY <1>4, <1>5, <3>1
    <2>3. CASE i > F + S
      BY <1>3, <1>4, <1>5, <1>6, <2>3
    <2> QED
      BY <1>4, <1>5, <2>1, <2>2, <2>3
  <1>9. at.fn # "scriptRun"
    BY DEF Init, Fn
  <1> QED
    BY <1>8, <1>9 DEF Obedient

\* How a step changes what is still to be called.
LEMMA PlanSteps ==
    ASSUME PlanInOrder, [Next]_vars
    PROVE  \/ plan # <<>> /\ Advance
           \/ UNCHANGED <<at, plan>>
           \/ Stage(at'.fn) > 3 /\ plan' = <<>>
  <1> DEFINE Elsewhere == Stage(at'.fn) > 3 /\ plan' = <<>>
  <1>1. ASSUME NEW num, NEW resets, plan = <<>>, FindAndInvoke(num, resets) \/ Invoke(resets)
        PROVE  Elsewhere
    BY <1>1 DEF FindAndInvoke, Invoke, GoTo, FrameFns, NoCall, Fn, Stage
  <1>2. CASE SetupReply \/ BreakSet \/ BreakError \/ ScriptReply
    BY <1>2 DEF SetupReply, BreakSet, BreakError, ScriptReply, Suspended, Stage, PlanInOrder
  <1>3. CASE Resumed
    BY <1>3 DEF Resumed, GoTo, Fn, Stage
  <1>4. CASE StopAtBreakpoint
    <2>1. plan = <<>>
      BY <1>4, NothingPlanned DEF StopAtBreakpoint, Suspended, Stage
    <2>2. CASE FindAndInvoke(bkptno', TRUE)
      BY <1>1, <2>1, <2>2
    <2>3. CASE \E fn \in {"stack_list_arguments", "parse_var"} : GoTo(fn)
      BY <2>1, <2>3 DEF GoTo, Fn, Stage
    <2> QED
      BY <1>4, <2>2, <2>3 DEF StopAtBreakpoint
  <1>5. CASE ArgumentReply
    <2>1. plan = <<>>
      BY <1>5, NothingPlanned DEF ArgumentReply, Stage
    <2>2. GoTo("parse_var") \/ \E resets : FindAndInvoke(bkptno, resets)
      BY <1>5 DEF ArgumentReply
    <2>3. CASE GoTo("parse_var")
      BY <2>1, <2>3 DEF GoTo, Fn, Stage
    <2> QED
      BY <1>1, <2>1, <2>2, <2>3
  <1>6. CASE FrameReply \/ StopAtEnd
    <2>1. plan = <<>>
      BY <1>6, NothingPlanned DEF FrameReply, FrameFns, StopAtEnd, Suspended, Stage
    <2>2. CASE FrameReply
      BY <1>1, <2>1, <2>2 DEF FrameReply
    <2>3. CASE StopAtEnd
      BY <2>1, <2>3 DEF StopAtEnd, GoTo, Fn, Stage
    <2> QED
      BY <1>6, <2>2, <2>3
  <1>7. CASE QuitReply \/ CallThrows
    BY <1>7 DEF QuitReply, CallThrows, Throw, NoCall, Fn, Stage
  <1> QED
    BY <1>2, <1>3, <1>4, <1>5, <1>6, <1>7, OtherHandlers DEF Next, vars, Replies

\* The order of such scripts is kept.
LEMMA ObedientNext ==
    ASSUME PlanInOrder, Obedient, [Next]_vars
    PROVE  Obedient'
  <1>1. CASE plan # <<>> /\ Advance
    <2>1. /\ Len(plan) \in Nat \ {0} /\ DOMAIN plan = 1 .. Len(plan)
          /\ at' = plan[1] /\ Len(plan') = Len(plan) - 1
          /\ DOMAIN plan' = 1 .. Len(plan) - 1
          /\ \A i \in 1 .. Len(plan) - 1 : plan'[i] = plan[i + 1]
      BY <1>1, FirstCall DEF Advance
    <2>2. RunsLast(plan', Len(plan') - 1)
      BY <2>1 DEF Obedient, RunsLast
    <2>3. at'.fn = "scriptRun" => Len(plan') = 1
      BY <2>1 DEF Obedient, RunsLast
    <2> QED
      BY <2>2, <2>3 DEF Obedient
  <1>2. CASE UNCHANGED <<at, plan>>
    BY <1>2 DEF Obedient, RunsLast
  <1>3. CASE Stage(at'.fn) > 3 /\ plan' = <<>>
    BY <1>3 DEF Obedient, RunsLast, Fn, Stage
  <1> QED
    BY <1>1, <1>2, <1>3, PlanSteps

\* A call that sets the program going is followed by a wait.
LEMMA ResumeWaits ==
    ASSUME PlanInOrder, Obedient, plan # <<>>, Advance,
           at.fn \in {"exec_run", "exec_continue", "scriptRun"}
    PROVE  at'.fn = "wait_for_stop"
  <1>1. /\ Len(plan) \in Nat \ {0} /\ DOMAIN plan = 1 .. Len(plan)
        /\ at' = plan[1] /\ Before(at, plan[1])
    BY FirstCall DEF Advance
  <1>2. Len(plan) = 1
    <2>1. CASE at.fn = "scriptRun"
      BY <2>1 DEF Obedient
    <2>2. CASE at.fn # "scriptRun"
      <3> SUFFICES ASSUME Len(plan) # 1 PROVE FALSE
        OBVIOUS
      <3>1. Before(plan[1], plan[2])
        BY <1>1 DEF PlanInOrder, Ordered
      <3>2. Stage(at.fn) = 4
        BY <2>2 DEF Stage
      <3> QED
        BY <1>1, <3>1, <3>2, StageType DEF Before
    <2> QED
      BY <2>1, <2>2
  <1> QED
    BY <1>1, <1>2 DEF PlanInOrder, PlanEnd, Fn

\* While the program runs the run waits for its stop, and sends no command gdb
\* would not read: the protocol Mi2Interpreter assumes of its callers, kept if
\* the init scripts keep it (process.cpp 56-74, 152-193).
THEOREM ProtocolKept ==
    ASSUME ScriptsRunLast
    PROVE  Spec => []KeepsProtocol
  <1> DEFINE Inv == Obedient /\ KeepsProtocol
  <1>1. Init => Inv
    BY ObedientInit DEF Init, KeepsProtocol
  <1>2. RunInv /\ Inv /\ [Next]_vars => Inv'
    <2> SUFFICES ASSUME RunInv, Inv, [Next]_vars PROVE Inv'
      OBVIOUS
    <2>1. Obedient'
      BY ObedientNext DEF RunInv
    <2>2. KeepsProtocol'
      <3> SUFFICES ASSUME target' = "running", at'.fn # "none"
                   PROVE  at'.fn = "wait_for_stop"
        BY DEF KeepsProtocol
      <3>1. CASE Resumed
        <4>1. CASE plan # <<>>
          BY <3>1, <4>1, ResumeWaits DEF Resumed, RunInv
        <4>2. CASE plan = <<>>
          BY <3>1, <4>2 DEF Resumed, GoTo, Fn
        <4> QED
          BY <4>1, <4>2
      <3>2. CASE ScriptReply /\ at.fn = "scriptRun"
        <4>1. plan # <<>>
          BY <3>2 DEF RunInv, PlanInOrder, Stage
        <4> QED
          BY <3>2, <4>1, ResumeWaits DEF ScriptReply, RunInv
      <3>3. CASE target = "running" /\ ~Resumed /\ ~(ScriptReply /\ at.fn = "scriptRun")
        <4>1. at.fn \in {"wait_for_stop", "none"}
          BY <3>3 DEF KeepsProtocol
        <4>2. CASE CallThrows
          BY <4>2 DEF CallThrows, Throw, NoCall, Fn
        <4>3. CASE UNCHANGED at
          BY <4>1, <4>3
        <4> QED
          BY <3>3, <4>1, <4>2, <4>3, OtherHandlers DEF Next, vars, Replies, SetupReply,
             BreakSet, BreakError, ScriptReply, Suspended, StopAtBreakpoint, ArgumentReply,
             FrameReply, FrameFns, StopAtEnd, QuitReply
      <3>4. CASE target # "running" /\ ~Resumed /\ ~(ScriptReply /\ at.fn = "scriptRun")
        BY <3>4, OtherHandlers DEF Next, vars, targetVars, Replies, SetupReply, BreakSet,
           BreakError, ScriptReply, StopAtBreakpoint, ArgumentReply, FrameReply, StopAtEnd,
           QuitReply, CallThrows, Throw
      <3> QED
        BY <3>1, <3>2, <3>3, <3>4
    <2> QED
      BY <2>1, <2>2
  <1> QED
    BY <1>1, <1>2, RunInvariant, PTL DEF Spec

-----------------------------------------------------------------------------
(* The calls in turn.                                                      *)

\* Something sets the program going, or tries to, before it is waited for.
Started == Stage(at.fn) <= 2 => \E i \in DOMAIN plan : Stage(plan[i].fn) \in {3, 4}

\* What a plan has behind the break_points is the start: the init scripts, or the
\* call that takes their place.
LEMMA StartedInit == Init => Started
  <1> SUFFICES ASSUME Init PROVE Started
    OBVIOUS
  <1>1. PICK s \in Settings : plan = Setup(s)
    BY DEF Init
  <1>2. PICK front : /\ UpTo(front, 2)
                     /\ Start(s) # <<>> /\ (Part(Start(s), 3) \/ Part(Start(s), 4))
                     /\ Setup(s) = front \o Start(s) \o <<Fn("wait_for_stop")>>
    BY SetupParts
  <1> DEFINE start == Start(s)
             wait  == <<Fn("wait_for_stop")>>
             F     == Len(front)
             S     == Len(start)
  <1>3. front \in Seq(CallSet) /\ start \in Seq(CallSet) /\ wait \in Seq(CallSet)
    BY <1>2, PlainCall DEF UpTo, Part, CallNames
  <1>4. F \in Nat /\ S \in Nat \ {0} /\ DOMAIN start = 1 .. S
    BY <1>2, <1>3, EmptySeq, LenProperties
  <1>5. Stage(start[1].fn) \in {3, 4}
    BY <1>2, <1>4 DEF Part
  <1>6. plan = (front \o start) \o wait
    BY <1>1, <1>2
  <1> HIDE DEF start, wait
  <1>7. /\ front \o start \in Seq(CallSet) /\ Len(front \o start) = F + S
        /\ (front \o start)[F + 1] = start[1]
    <2>1. F + 1 \in 1 .. F + S /\ ~(F + 1 <= F) /\ F + 1 - F = 1
      BY <1>4
    <2> QED
      BY <1>3, <2>1, ConcatProperties
  <1>8. plan \in Seq(CallSet) /\ F + 1 \in DOMAIN plan /\ plan[F + 1] = start[1]
    <2>1. /\ plan \in Seq(CallSet) /\ Len(plan) = F + S + Len(wait) /\ Len(wait) \in Nat
          /\ \A i \in 1 .. F + S + Len(wait) :
               plan[i] = IF i <= F + S THEN (front \o start)[i] ELSE wait[i - (F + S)]
      BY <1>3, <1>6, <1>7, ConcatProperties, LenProperties
    <2>2. F + 1 \in 1 .. F + S + Len(wait) /\ F + 1 <= F + S
      BY <1>4, <2>1
    <2> QED
      BY <1>7, <2>1, <2>2, LenProperties
  <1> QED
    BY <1>5, <1>8 DEF Started

\* The start is not passed over.
LEMMA StartedNext ==
    ASSUME PlanInOrder, Started, [Next]_vars
    PROVE  Started'
  <1> SUFFICES ASSUME Stage(at'.fn) <= 2
               PROVE  \E i \in DOMAIN plan' : Stage(plan'[i].fn) \in {3, 4}
    BY DEF Started
  <1>1. Stage(at.fn) <= 2
    BY StagesPass, StageType
  <1>2. PICK i \in DOMAIN plan : Stage(plan[i].fn) \in {3, 4}
    BY <1>1 DEF Started
  <1>3. CASE plan # <<>> /\ Advance
    <2>1. /\ Len(plan) \in Nat \ {0} /\ DOMAIN plan = 1 .. Len(plan)
          /\ at' = plan[1] /\ DOMAIN plan' = 1 .. Len(plan) - 1
          /\ \A j \in 1 .. Len(plan) - 1 : plan'[j] = plan[j + 1]
      BY <1>3, FirstCall DEF Advance
    <2>2. i # 1
      BY <1>2, <2>1
    <2>3. i - 1 \in DOMAIN plan' /\ plan'[i - 1] = plan[i]
      BY <2>1, <2>2
    <2> QED
      BY <1>2, <2>3
  <1>4. CASE UNCHANGED <<at, plan>>
    BY <1>2, <1>4
  <1> QED
    BY <1>3, <1>4, PlanSteps, StageType

\* What a session allows behind a call that has succeeded.
LEMMA Turns ==
    /\ \A op \in {"header", "set", "query", "script", "wait"} :
         \A next \in {"set", "query", "script", "scriptRun", "resume", "exit"} :
           Session!InTurn(op, "ok", next)
    /\ \A op \in {"resume", "script", "scriptRun"} : Session!InTurn(op, "ok", "wait")
  BY DEF Session!InTurn, Session!MustWait, Session!MayGoOn

\* The next call of the plan comes in its turn.
LEMMA AdvanceInTurn ==
    ASSUME PlanInOrder, Obedient, Started, plan # <<>>, Advance
    PROVE  Session!InTurn(Kind(at.fn), "ok", Kind(at'.fn))
  <1>1. /\ Len(plan) \in Nat \ {0} /\ DOMAIN plan = 1 .. Len(plan)
        /\ at' = plan[1] /\ Before(at, at')
        /\ at \in CallSet /\ at' \in CallSet
    BY FirstCall DEF Advance, PlanInOrder
  <1>2. CASE at.fn \in {"exec_run", "exec_continue", "scriptRun"}
    <2>1. at'.fn = "wait_for_stop" /\ Kind(at.fn) \in {"resume", "scriptRun"}
      BY <1>2, ResumeWaits DEF Kind
    <2> QED
      BY <2>1, Turns DEF Kind
  <1>3. CASE Stage(at'.fn) = 5
    <2>1. at' = PlanEnd /\ Len(plan) = 1
      <3>1. ASSUME Len(plan) # 1 PROVE FALSE
        <4>1. Before(plan[1], plan[2])
          BY <1>1, <3>1 DEF PlanInOrder, Ordered
        <4> QED
          BY <1>1, <1>3, <4>1, StageType DEF Before
      <3> QED
        BY <1>1, <3>1 DEF PlanInOrder
    <2>2. CASE at.fn \notin {"exec_run", "exec_continue", "scriptRun"}
      <3>1. ~(Stage(at.fn) <= 2)
        <4>1. DOMAIN plan = 1 .. 1
          BY <1>1, <2>1
        <4>2. \A i \in DOMAIN plan : plan[i] = at'
          <5>1. \A i \in DOMAIN plan : i = 1
            BY <4>1
          <5> QED
            BY <1>1, <5>1
        <4> QED
          BY <1>3, <4>2 DEF Started
      <3>2. Stage(at.fn) # 5
        BY <1>1, <1>3, StageType DEF Before
      <3>3. at.fn \in {"script", "scriptBreak"}
        BY <2>2, <3>1, <3>2 DEF Stage
      <3>4. Kind(at.fn) = "script" /\ Kind(at'.fn) = "wait"
        BY <2>1, <2>2, <3>3 DEF PlanEnd, Fn, Kind
      <3> QED
        BY <3>4, Turns
    <2> QED
      BY <1>2, <2>2
  <1>4. CASE Stage(at'.fn) # 5 /\ at.fn \notin {"exec_run", "exec_continue", "scriptRun"}
    <2>1. Kind(at'.fn) \in {"set", "query", "script", "scriptRun", "resume"}
      <3>1. Stage(at'.fn) # 0
        BY <1>1, StageType DEF Before
      <3>2. at'.fn \in {"file_exec_and_symbols", "exec_arguments", "target_select_remote",
                        "break_insert", "script", "scriptBreak", "scriptRun", "exec_run",
                        "exec_continue"}
        BY <1>1, <1>4, <3>1 DEF Stage
      <3> QED
        BY <3>2 DEF Kind
    <2>2. Kind(at.fn) \in {"header", "set", "query", "script"}
      <3>1. Stage(at.fn) # 5
        BY FirstCall
      <3>2. at.fn \in {"read_header", "file_exec_and_symbols", "exec_arguments",
                       "target_select_remote", "break_insert", "script", "scriptBreak"}
        BY <1>4, <3>1 DEF Stage
      <3> QED
        BY <3>2 DEF Kind
    <2> QED
      BY <2>1, <2>2, Turns
  <1> QED
    BY <1>2, <1>3, <1>4

\* So do the calls of the frame, and the one the break_point leaves it with.
LEMMA InvokeInTurn ==
    ASSUME NEW num, NEW resets, FindAndInvoke(num, resets) \/ Invoke(resets),
           at.fn \in {"wait_for_stop", "stack_list_arguments", "parse_var"} \union FrameFns,
           at' # NoCall
    PROVE  Session!InTurn(Kind(at.fn), "ok", Kind(at'.fn))
  <1>1. Kind(at.fn) \in {"wait", "query"}
    BY DEF FrameFns, Kind
  <1>2. at'.fn \in FrameFns \union {"exec_continue", "gdb_exit"}
    BY DEF FindAndInvoke, Invoke, GoTo, Fn
  <1>3. Kind(at'.fn) \in {"query", "resume", "exit"}
    BY <1>2 DEF FrameFns, Kind
  <1> QED
    BY <1>1, <1>3, Turns

\* Every call of a run comes in its turn.
LEMMA NextInTurn ==
    ASSUME PlanInOrder, Obedient, Started, Replies, at # NoCall, at' # NoCall
    PROVE  Session!InTurn(Kind(at.fn), "ok", Kind(at'.fn))
  <1>1. CASE SetupReply \/ BreakSet \/ BreakError \/ ScriptReply
    <2>1. Stage(at.fn) <= 3 /\ Advance
      BY <1>1 DEF SetupReply, BreakSet, BreakError, ScriptReply, Suspended, Stage
    <2> QED
      BY <2>1, AdvanceInTurn DEF PlanInOrder
  <1>2. CASE Resumed
    <2>1. CASE plan # <<>>
      BY <1>2, <2>1, AdvanceInTurn DEF Resumed
    <2>2. CASE plan = <<>>
      <3>1. Kind(at.fn) = "resume" /\ Kind(at'.fn) = "wait"
        BY <1>2, <2>2 DEF Resumed, GoTo, Fn, Kind
      <3> QED
        BY <3>1, Turns
    <2> QED
      BY <2>1, <2>2
  <1>3. CASE StopAtBreakpoint
    <2>1. at.fn = "wait_for_stop" /\ Kind(at.fn) = "wait"
      BY <1>3 DEF StopAtBreakpoint, Suspended, Kind
    <2>2. \/ \E fn \in {"stack_list_arguments", "parse_var"} : at' = Fn(fn)
          \/ FindAndInvoke(bkptno', TRUE)
      BY <1>3 DEF StopAtBreakpoint, GoTo
    <2>3. CASE FindAndInvoke(bkptno', TRUE)
      BY <2>1, <2>3, InvokeInTurn
    <2>4. CASE ~FindAndInvoke(bkptno', TRUE)
      <3>1. at'.fn \in {"stack_list_arguments", "parse_var"}
        <4>1. PICK fn \in {"stack_list_arguments", "parse_var"} : at' = Fn(fn)
          BY <2>2, <2>4
        <4> QED
          BY <4>1 DEF Fn
      <3>2. Kind(at'.fn) = "query"
        BY <3>1 DEF Kind
      <3> QED
        BY <2>1, <3>2, Turns
    <2> QED
      BY <2>3, <2>4
  <1>4. CASE ArgumentReply
    <2>1. at.fn \in {"stack_list_arguments", "parse_var"}
      BY <1>4 DEF ArgumentReply
    <2>2. CASE \E resets : FindAndInvoke(bkptno, resets)
      BY <2>1, <2>2, InvokeInTurn
    <2>3. CASE GoTo("parse_var")
      <3>1. Kind(at.fn) = "query" /\ Kind(at'.fn) = "query"
        BY <2>1, <2>3 DEF GoTo, Fn, Kind
      <3> QED
        BY <3>1, Turns
    <2> QED
      BY <1>4, <2>2, <2>3 DEF ArgumentReply
  <1>5. CASE FrameReply
    <2>1. at.fn \in FrameFns /\ (Invoke(at.fn = "set") \/ Invoke(FALSE))
      BY <1>5 DEF FrameReply
    <2> QED
      BY <2>1, InvokeInTurn
  <1>6. CASE StopAtEnd
    <2>1. Kind(at.fn) = "wait" /\ Kind(at'.fn) = "exit"
      BY <1>6 DEF StopAtEnd, Suspended, GoTo, Fn, Kind
    <2> QED
      BY <2>1, Turns
  <1>7. CASE QuitReply \/ CallThrows
    BY <1>7 DEF QuitReply, CallThrows, Throw
  <1> QED
    BY <1>1, <1>2, <1>3, <1>4, <1>5, <1>6, <1>7 DEF Replies

\* Every call follows one that allows it: gdb::process is the disciplined caller
\* the theorems on Mi2Interpreter are about, if the init scripts keep the
\* protocol (process.cpp 51-82, 152-165, 238-262).
THEOREM CallsKept ==
    ASSUME ScriptsRunLast
    PROVE  Spec => CallsInTurn
  <1> DEFINE Inv == Obedient /\ Started
             Turn == ~UNCHANGED <<at, plan, ops>> /\ at # NoCall /\ at' # NoCall =>
                         Session!InTurn(Kind(at.fn), "ok", Kind(at'.fn))
  <1>1. Init => Inv
    BY ObedientInit, StartedInit
  <1>2. RunInv /\ Inv /\ [Next]_vars => Inv'
    BY ObedientNext, StartedNext DEF RunInv
  <1>3. RunInv /\ Inv /\ [Next]_vars => [Turn]_vars
    <2> SUFFICES ASSUME RunInv, Inv, [Next]_vars PROVE Turn \/ UNCHANGED vars
      OBVIOUS
    <2>1. CASE Replies
      BY <2>1, NextInTurn DEF RunInv
    <2>2. CASE ~Replies
      BY <2>2, OtherHandlers DEF Next, targetVars
    <2> QED
      BY <2>1, <2>2
  <1> QED
    BY <1>1, <1>2, <1>3, RunInvariant, PTL DEF Spec, CallsInTurn
=============================================================================
