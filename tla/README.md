# Verification of mw.dbg-runner

`mw.dbg-runner` starts gdb, sets breakpoints that plugins registered, runs a
program under gdb, calls the plugins' C++ code when the program reaches one of
their breakpoints, and returns the program's exit status. It talks to gdb over
pipes in gdb's machine interface (MI2). This directory holds TLA+ modules of
that program, the TLC configurations that check them, and theorems about them
that TLAPS checks. Line numbers are those of the sources beside it
(`src/mw/...`, `include/mw/...`).

## 1. The system

| component | source | state | operations |
|---|---|---|---|
| interpreter: command loop | `src/mw/gdb/mi2/interpreter.cpp` 59-223, `interpreter2.cpp`, `interpreter.hpp` | `_in_buf`, `_out_buf`, `_token_gen`, `_async_sink`, `_pending_asyncs` | `_work` (three forms), `wait_for_stop`, `read_header`, `_handle_record`, `_handle_async_output` |
| interpreter: commands | `interpreter.cpp` 225-2684 | `_in_buf` | about 110 functions, one per MI2 command |
| gdb process | `src/mw/gdb/process.cpp`, `src/mw/debug/process.cpp` | `_break_point_map`, `_timer`, `_exited`, `_exit_code`, the pipes, the child | `run`, `_run_impl` (`_read_info`, `_init_bps`, `_start`, `_handle_bps`), `reset_timer`, `set_exit`, the timer's handler, `on_exit` |
| frame | `src/mw/gdb/mi2/frame_impl.cpp` | none of its own | `set`, `call`, `print`, `return_`, `select`, `regs`, `backtrace`, `addr2line`, `read_memory`, ... |
| break_points, exit-code plugin | `include/mw/debug/break_point.hpp`, `src/mw-exitcode.cpp` | - | `set_at`, `set_multiple`, `set_not_found`, `invoke` |
| newlib plugin and stubs | `src/mw-newlib.cpp`, `example/mw_newlib_syscalls.c` | open and seek flags; read and write buffers | the system calls of the debugged program |
| main | `src/debug-runner.cpp` | options, other processes | option parsing, plugin loading, the exit status |
| parser and types | `src/mw/gdb/mi2/output.cpp`, `types.cpp` | `last_var_name`, of the thread | text to records, records to structures |
| async records | `include/mw/gdb/mi2/async_record_handler_t.hpp` | signals | dispatch of async records to typed slots |
| session | `src/mw/gdb/mi2/session.cpp` | - | an unfinished class without a user |

**Who runs when.** Everything in the runner happens on one thread, in handlers
of one `io_service`: the coroutine `_run_impl`, which is suspended in reads and
writes of the pipes only; the handler of the deadline timer; the handler of the
child's exit. gdb and the debugged program are other processes. So the
interleavings that matter are between these handlers and those two processes,
and the coroutine is never interrupted between two suspensions.

**How the parts talk.** `gdb::process` calls functions of the interpreter;
each writes one line, reads gdb's output up to the next `(gdb)`, and takes that
batch apart line by line. A stop of the program comes in a batch of its own,
later. The frame's functions are calls of the same interpreter, made by a
plugin inside `invoke`. `set_exit` writes the process' exit code; `reset_timer`
is called by the process and by the frame.

**What is hard.**

* The stream of gdb's output and the calls must stay in step: after an error in
  the middle of a batch, when a read ends within a line, when gdb dies.
* A stop is announced only to the call that is reading when its batch arrives.
* A call can block for ever; the timer is the only remedy, and its handler may
  be queued already when the timer is reset.
* An exit status has several sources (a breakpoint, the program, a time-out, an
  exception) and must never be a success nobody saw.
* Breakpoint numbers are gdb's, shared with the init scripts; insertions fail
  one by one.
* A hundred functions put lines together by hand, and fifty types look by name
  for results that gdb may leave out.
* What a plugin is told of the stopped program comes out of texts made for
  people: shortened strings, entry values between the arguments, bits of memory
  or of a printed number.
* The stubs on the target keep one buffer for all descriptors, and flush it from
  inside itself.

`PROJECT.json` lists the hazards at their lines, with the properties that watch
each, or why none does yet.

## 2. The modules

| module | models | composed with |
|---|---|---|
| `Mi2Interpreter` | the command loop, its pipes, gdb's side of them | implements `DebugSession` |
| `DebugSession` | what the interpreter promises its caller | instantiated by both neighbours |
| `GdbProcess` | one run, from `run()` to main's exit status | uses the promise of `DebugSession` |
| `Mi2Commands` | the line and the awaited class of each command | refines what `Mi2Interpreter` calls a command |
| `MiOutput` | the grammar of gdb's records | used by `MiTypes`, `MiAnswers`, `TargetFrame` |
| `MiTypes` | the result types and how each is read | extends `MiOutput` |
| `MiAnswers` | a function of the interpreter reads its answer, a slot a notification | prints with gdb's syntax, parses with `MiOutput`, reads with `MiTypes` |
| `BreakPointMap` | gdb's breakpoints and the break_points they were set for | extended by `TargetFrame`, which keeps to its `MapSpec` |
| `TargetFrame` | what a plugin is told of the program and does to it | extends `MiTypes` and `BreakPointMap`; refines the frame calls of `GdbProcess` |
| `NewlibCalls` | the stubs of the target with their buffers, and the newlib plugin | implements `HostFiles` |
| `HostFiles` | the files as a program on the host sees them | |
| `Mi2Interpreter_proof` | theorems: types, own replies | |
| `Mi2Session_proof` | theorems: stops and the stream, under the callers' protocol | extends `Mi2Interpreter_proof` |
| `Mi2Implements_proof` | theorem: `Mi2Interpreter` implements `DebugSession` | extends `Mi2Session_proof` |
| `GdbProcess_proof`, `NewlibCalls_proof`, `Mi2Commands_proof`, `BreakPointMap_proof` | theorems | |
| `MCMi2Interpreter`, `MCGdbProcess`, `MCMi2Commands`, `MCTargetFrame`, `MCNewlibCalls` | instances for TLC | |

### Mi2Interpreter

`toGdb` and `fromGdb` are the two pipes, as sequences of commands and of lines;
`outBuf` is `_out_buf`, and `cut` says that the first part of the next line is in
it already. `pc` is where the coroutine is: idle, writing, reading, in the
getline loop (`lines`), in the catch block (`drain`). `call` and `last` are the
call under way and how the last one ended. A line is a record with the kind
`parse_stream_output`, `parse_async_output` and `parse_record` find in it; its
characters are left out.

| action | code |
|---|---|
| `Call` | a command function: `_in_buf` and the next token |
| `Write` | `async_write`, 62-67 |
| `ReadChunk`, `ReadDone`, `ReadEof` | `async_read_until` and its catch, 68-76 |
| `SkipLine`, `StoppedLine`, `TokenAsyncLine`, `ResultLine` | one turn of the loop, 84-115, with the handler it calls |
| `PartOfLine` | `getline` at the end of a buffer that ends within a line, 82-84 |
| `EndOfBatch` | the end of the loop and what the function then returns or throws |
| `Drain` | the catch block, 120-127 |
| `OnExit` | `on_exit` of the child, `debug/process.cpp` 31 |
| `GdbAnswers`, `TargetStops`, `GdbDies` | external |

A command's operation stands for all functions that wait alike: `set`,
`resume`, `exit` for `_work(token, class)`, `query` for `_work(token, callback)`
followed by a look at the class, `script` and `scriptRun` for
`interpreter_exec`, whose callback takes anything for an answer, and `interrupt`
for functions whose class gdb never answers with, or whose command it answers with
results where the function takes a class without any (the class `filled`; 177).

`Noise` is what may come before a record: a stop's record too, with the output of the
program, which shares gdb's stdout. Program output that does not end in a newline is a
line of its own, ended by the newline of the next thing gdb prints. The kind `inner` is
a line with `(gdb)` inside: the read ends there (69), the loop does not (84), and the
batch of the command is taken for complete before it is.

Simplifications. A chunk of a pipe ends at the end of a line, within one, or
just behind a prompt's `(gdb)`; where within a line makes no difference, since
no reader looks at half a line. A line of which the catch block dropped the
first part is `Text` from then on. gdb sends no result record without a token
(every command here has one). What `on_exit` leaves unread is lost at once. The
text of an error and what is in the results of a record, or of a stop, are left out.

### DebugSession

A call at a time; each ends; while gdb lives it ends in one of the ways
`Promised` lists, with the record of this very command; when gdb is gone it may
end in any way, but never with another command's record. `Mi2Interpreter`
implements it (property `ImplementsSession`, callers that keep to the
protocol, no `inner` line); `GdbProcess` is written against it: each of its replies is guarded
by `Promised`. The protocol is the module's `InTurn(op, result, next)`: the
operation that may follow one that ended so. The callers of `Mi2Interpreter` are
`Disciplined` when their calls are in turn, and `CallsInTurn` says that the calls
of `GdbProcess` are. Behind an init script a caller may wait although the script
may have set nothing going: `gdb::process` does not look at what its scripts are.
Together the two sides say that what is shown of a run holds of a run over real
pipes.

### GdbProcess

`at` is the interpreter call the coroutine is suspended in and `plan` the calls
that follow it without a decision (`Setup` builds them from the settings, as
`_run_impl`, `_init_bps` and `_start` do). When a call ends, the coroutine runs
to its next call in one step, as it does in the code: there is no suspension in
between. `numbers` are gdb's breakpoints, `bpMap` is `_break_point_map`, `exited`
and `exitCode` are those of the process. `armed` says that a wait of the timer
is pending; `expired` that an expired wait's handler waits to run, `queued`
behind one other ready handler or `next`. `timeOut` is whether the run has a
time-out at all.

Each reply (`SetupReply`, `BreakSet`, `BreakError`, `ScriptReply`, `Resumed`,
`StopAtBreakpoint`, `ArgumentReply`, `FrameReply`, `StopAtEnd`, `QuitReply`,
`CallThrows`) is the code from the return of one call to the next; its comment
names it. `TimerHandler` and `OnExit` are the two other handlers. `Result` is
what main returns.

Simplifications. A break_point sets at most one gdb breakpoint (`set_multiple`
is a notification only). The functions of the frame are two: those that reset
the timer (`set`) and those that do not (`print`); the plugin may catch their
errors, as mw-newlib does, or not. Plugins set an exit code as mw-exitcode does,
as their last act. Behind the names of the arguments come as many `parse_var` as
`MaxFrameOps` allows, each followed by a reset of the timer; the resets for arguments
that are no references, which ask gdb nothing, fall together with the next call. A remote target's first stop is reported like any other. A
call may still be answered after gdb has exited, until the pipes are closed.
Only the last line of an init script sets the program going, as in the scripts
shipped with the code; one that does so earlier leaves the protocol (see the
hazards). The class `target_select` waits for is called by the same name as that
of the other queries.

### Mi2Commands

Each function is a row: the parts of its line with the forms each may take, the
parameters a loop at its end appends, how the line ends, how the function waits,
and for which class. Overloads are rows of the same name. The actions append the
parts one by one (`AppendPart`), go round the loop (`AppendMore`), end and write
the line (`Write`) and let gdb answer. An atom is a word, a blank or the newline,
and words that touch are one word to gdb. The one bound is `MaxMany`, the rounds
of a loop; the proofs do without it.

gdb executes a command (`Execute`) or refuses it (`Refuse`). The answer has a class, and
results or none: of its own (`FieldsOf`, external), or the time, once `enable_timings`
has asked for it (`Timed`). A function that waits for a class takes no results beside
it (`Outcome`, 177). What is read from the results is the subject of `MiAnswers`.

### MiOutput, MiTypes, MiAnswers

A line is a sequence of tokens: marks, names and quoted strings. `MiOutput` has
one operator per rule of the grammar, from a place in the line to a match: the
place behind it, the value, and `last_var_name`, which a failed rule leaves as it
made it. Alternatives are tried in the order of the code. `cstring` works on the
characters of a string, of which a quote and a backslash are told apart from the
others; elsewhere a text is a pair of its form (number, hexadecimal number, id,
word) and its content, which is what `std::stoi` and `my_stoull` tell apart.

`MiTypes` has one set of rows per type, a row per member: the name looked up, the
conversion, and the results it depends on. `parse_result` reads a record with
such a set.

`MiAnswers` is the composition, with the record GDB's manual gives as the answer
of each function (external). `Ask` is a function whose answer is printed with all
its optional results, none, or all but one, then parsed and read; `Notify` is a
notification between the lines of a command, with slots connected to the
handlers or not; `Return` ends either. Every sequence of them is one of the
module, since `lastVarName` outlives a line.

`ReadAsSaid` compares what was read with what was printed, member by member. It
does not hold of the functions in `Misread`, which stand in the definition one by
one: this is the list of the answers that the code misreads today (section 6).
A function left out of the list by mistake, or one that is broken later, violates
the property.

### BreakPointMap, TargetFrame

`BreakPointMap` is the part of `TargetFrame` that reads no line: `SetBp`, with the
number gdb gave as a parameter, and `EnableBp`, which looks the number up as
`find_if` does, the first of the map. `TargetFrame` extends it: its `InitBp` is
`SetBp` with the number parsed from gdb's answer, its `Enable` is `EnableBp`, and
its other actions leave the map alone, which is what `MapSpec` says of it. It is
apart so that theorems can be stated of it, since `TargetFrame` uses recursive
operators. `EnabledAsWanted` speaks of the break_point a breakpoint was set for:
two break_points may name the same places, and each is enabled by itself.

`_init_bps`, the stops of `_handle_bps`, and the functions of `frame_impl` as
actions on a program with two frames, a number, a string and a reference, and a
memory with a gap. `GdbProcess` has the order of these calls, their errors and
the timer; here each call gets its answer. gdb's evaluation is external
(`Evaluated`, `Chunks`, `Entries`, `Inserted`); the answers that matter run
through `MiOutput` and `MiTypes`: the insertion of a breakpoint and the chunks of
memory. `got` is the last call with what it returned. An uninitialized
`ellipsis` is either value, and a text read while it is assigned to is the right
one or garbage.

Bounds: a byte has two bits and a number two bytes, so that the order of the
bits, of the bytes, and of both shows; gdb shows two characters of a string, and
the strings have one and three; two stops, so that one address is stopped at
again after another; two calls, so that a write is followed by a read.

### NewlibCalls, HostFiles

`HostFiles` is the promise: each call takes effect when it is made. In
`NewlibCalls` an action is one system call of the program: the stub with all its
loops and flushes, the breakpoint and the call of the plugin on the host, since
the program waits for it. `Seen` is the refinement mapping: what is in the write
buffer counts as written, what is in the read buffer as not read. Two
descriptors, of which the program writes different letters to each, share the
two buffers.

The buffers allow for some programs only. What the others do are the `habits`: a
flush of a buffer of one byte (`lone`), a block written behind buffered bytes
(`mixed`), a seek on a buffered descriptor or a write to it (`seek`), a read that returns less
than there is (`short`), a failing call of the host (`error`), an end without a
close (`leave`), and a program built without its macros (`macros`), so that
`open_flags::load` finds none. A program has a set of habits; the guards
`LoneFits` and the like keep it to them. `BuffersHidden` is claimed of programs
with none of them, `OwnBytes`, `BuffersOpen` and `OpenedAsAsked` (but for
`macros`) of all.

## 3. The runs

| run | cfg | shows | bounds |
|---|---|---|---|
| `mi2_free` | `MCMi2Free` | `OwnReply`, whatever the callers do after errors | 3 commands, 4 tokens, 5 kinds of call, lines with `(gdb)` inside |
| `mi2_run` | `MCMi2Run` | `TypeOK`, `Synchronised`, `NoStopLost`, `ImplementsSession`; under fairness `CommandReturns`, `StopArrives` | 4 commands, 3 tokens, all calls; before a record a text or an async record with a token |
| `run_safety` | `MCRunSafety` | `TypeOK`, `NeverUnwatched`, `KeepsProtocol`, `CallsInTurn`, `RightBreakPoint`, `OnlyForeignCrash`, `HonestStatus`; under fairness `RunEnds`, `GdbGoneEnds` | 2 break_points, 5 settings, 3 stops, 2 frame calls per invoke, with a time-out and without |
| `commands_sound` | `MCCommandsSound` | `WordsApart`, `AnswerExpected`, `CallReturns` | every function but eight, with timings and without; two rounds of a loop |
| `answers` | `MCMiAnswers` | `ReadAsSaid`, `AnswersParse`, `NotificationsHarmless`, `NothingLingers` | every function that reads results, each optional result there or not; lists of at most two or three |
| `frames` | `MCFrames` | `ArgsTold`, `StringWhole`, `MemoryRead`, `BitsRight`, `EnabledAsWanted`, `MapSpec` | 3 break_points, 2 stops, 2 calls, 5 cells of memory |
| `newlib` | `MCNewlib` | `TypeOK`, `OwnBytes`, `BuffersOpen`, `OpenedAsAsked`, `BuffersHidden` | 2 descriptors, buffers and reads of 2 bytes, files of 4 |
| `run_told`, `run_spurious`, `run_shared`, `newlib_lone`, `frames_multi` | | the disagreements of section 6 | |

Why the bounds are enough. *Calls and tokens*: an error of the stream shows in
the call after the one that caused it, and a wait needs a resuming call before
it; so three commands hold a fault, its victim and a successor. `mi2_run` has
four commands and three tokens: the first token comes round again, and only the
protocol keeps the replies apart. `mi2_free` stays below the number of tokens,
because there the claim is false without that (an answer left over from
exactly 2^32 commands before would match). Nor does it rest on
the order of the batches, so its noise is the line that breaks it. `mi2_run` has the
noise that ends a command, and the text; stream and async records are skipped as the
text is, and gdb's banner and `*running` bring one of each. Every combination of lines per read
is tried, so pipes are never longer than a few batches. *Break_points and
stops*: two break_points are enough for one that fails before one that
succeeds, three stops for a first hit, a hit with known arguments and the
stop after it. *Settings*: none, all options, a remote target with a script, a
script that sets a breakpoint of its own, and a script that does not resume.

*Loops*: in two rounds a parameter follows the parts of the line, and another
parameter. What a function waits for does not depend on the rounds.

*Buffers*: with two bytes a buffer is empty, partly filled and full, a byte
follows a full one, and a file is longer than a buffer. *Answers*: each is a line
of its own; two in a row show what is left of the first.

Deadlock checking is off where the system really stops (callers that make no
further call, a run that has ended, a program that has ended, the bounds of
`TargetFrame` used up); the runs of `Mi2Commands` and `answers` check it.

Eight functions are not in `commands_sound`. Their lines: `var_set_format`, which with
`raw` writes no newline; `var_set_frozen` and `trace_frame_collected`, which glue words.
Their answers: `exec_interrupt` and `enable_frame_filters`, which wait for `running`;
`var_delete`, `var_set_format`, `trace_stop` and the `trace_find` of `none`, which are
answered with results and take none (that `trace_find`, when the frame can be told). The
runner calls none of them, nor `enable_timings`. Each theorem of section 4 leaves out only
those of which its own claim is false.

**Fairness.** *The coroutine* (`Write`, `Read`, `Batch` of `Mi2Interpreter`) and
*the handlers* (`TimerHandler`, `OnExit`, `RunReturns`): weak, since the
`io_service` runs every handler that is ready. *gdb* (`GdbAnswers`) and *the
program* (`TargetStops`), in `Mi2Interpreter` only: weak; there the question is
whether the interpreter takes the answers that come. In `GdbProcess` neither is
fair: a call that is not answered is what the timer is for. *`TimerExpires`*:
time passes. *`Broken /\ CallThrows`*: a read of a closed pipe, or of one whose
last writer is gone, fails by itself.

## 4. What is proved

TLAPS checks these for every value of the constants. Assumptions are the named
`ASSUME`s of the modules and what the theorem states.

### The session (`Mi2Interpreter_proof`, `Mi2Session_proof`, `Mi2Implements_proof`)

* `TypeCorrect`: `Spec => []TypeOK`. `TypeOK` alone is not inductive: that the
  lines of the pipes are `Lines` needs that commands in `toGdb` are, and a cut
  read needs a line to be cut. `Typing` is `TypeOK` with `NothingNewer` (defined
  beside the properties of `Mi2Interpreter`), which says that no command or record
  on its way is newer than `issued`.
* `RepliesAreOwn`: `MaxCalls < TokenMod` and `Spec` give `[]OwnReply`. The
  inductive invariant is `RepliesInv`: `TypeOK`; `NothingNewer`; `GotOwn`, that
  what the call has taken is its own; `LastOwn`, that what the last call
  returned was its own. `NothingNewer` is what makes the token check work: all
  numbers are at most `issued`, hence below `TokenMod`, hence equal when their
  tokens are (`TokenOfSmall`). It holds for any callers.
* `StopsAreHeard` (`[]NoStopLost`) and `StreamInStep` (`[]Synchronised`) assume
  `Disciplined`: callers send no command while the program runs; and that `Noise` has
  no `inner` line: with one a batch is cut in two, and neither holds. Neither is
  inductive. They count lines of a kind, and the next line taken may be any; the
  invariant must know the order. `Staged` says it: leaving out the lines that come
  and go (stream, async, text), what is left of `outBuf \o fromGdb`, its *marks*, is
  the sequence that belongs to where the call is. `Stage` lists these sequences
  (`Fresh`, `Idle`, `Writing`, `Sending`, `Heading`, `Waiting`, `Waited`,
  `Answering`, `Answered`, `Draining`), each a few marks long; `Shows(u, m)` says
  by an increasing map of places that m are the marks of u. The lemmas on `Shows`
  (a plain line is added or dropped, a mark is taken from the front or added at
  the end, a cut line becomes text) are what every step rests on, one lemma per
  action. `Staged` also says that a batch in `outBuf` has its prompt while lines
  are taken from it, without which a loop could end in the middle of it.
* `CallsAsPromised`: with the same assumptions, `Spec => ImplementsSession`, the step
  simulation of `DebugSession`. The steps that end a call are those of the
  promise, all others stutter. Besides `Staged` it needs `Truthful`, since
  `Staged` says nothing once gdb is gone: the call is about the number issued last
  (`Called`), what it took is about itself (`GotIs`), and while a command is read
  the stream has no other command's record (`OwnStream`). No bound on the number
  of calls is needed: with such callers a token that comes round again finds no
  old record. That is the step from `RepliesAreOwn`, which needs the bound and no
  discipline.

`mi2_run` has `Disciplined = TRUE`, `mi2_free` has not and checks what holds
without. That `gdb::process` is such a caller is `CallsKept` below.

### The run (`GdbProcess_proof`)

* `RunIsWatched`: `Spec => []NeverUnwatched`, which is inductive by itself: a step
  of the coroutine keeps or renews the timer, an expired wait is never forgotten,
  and `on_exit` closes the pipe in the step in which it cancels the timer.
* `StatusIsHonest`: `Spec => []HonestStatus`, from the invariant that `exitCode`
  and `status` agree: a breakpoint that calls `set_exit` and the end of the
  program set both, and nothing else sets either.
* `InvokedIsRight` (`[]RightBreakPoint`), `CrashIsForeign` (`[]OnlyForeignCrash`)
  and `ProcessType` (`[]TypeOK`) share the invariant `RunInv`. `PlanInOrder`: the
  calls still to make are in the order of `_run_impl` (break_points, then scripts,
  then the wait) and end in a wait. `NumbersAgree`: `_break_point_map` has the
  first of gdb's numbers, each at the place of its break_point, and every
  break_point that was told of its place is in it; it needs `PlanInOrder`, since a
  script that sets a breakpoint before a break_point would put a foreign number
  among them. `StopKnown`: the number dealt with is the first at its place, as gdb
  reports it. Then a number outside the map has a place where no break_point is.
  `Shape` is the rest of `TypeOK`, which no other part depends on.
* `ProtocolKept`: if `ScriptsRunLast`, `Spec => []KeepsProtocol`. The hypothesis is
  about the user's init scripts: only the last line of them may set the program
  going; nothing in the code sees to it. The settings of the `run_*` runs meet
  it. `Obedient` says that a call which may set the program going is the last
  before the wait.

* `CallsKept`: if `ScriptsRunLast`, `Spec => CallsInTurn`: from each call to the
  next, what the next one is, is what `InTurn` of `DebugSession` allows behind what
  the call was and how it ended. With `CallsAsPromised` this joins the two modules:
  the interpreter keeps its promises to a disciplined caller, and this caller is
  one. Besides `PlanInOrder` and `Obedient` it needs `Started`: until the break_points
  are set, a script or a call that sets the program going is still to come, so that
  the wait at the end of the plan has one before it.

### The commands (`Mi2Commands_proof`)

The lines are put together by some hundred functions, each with a style of its
own: a blank ahead of each option, or one behind, or one first and one behind each
but the last. The theorems go through all of them.

* `WordsStayApart`: if neither `var_set_frozen` nor `trace_frame_collected` is
  called, `Spec => []WordsApart`. A form of a part opens with a gap or closes with
  one (`Lead`, `Trail`); `Filled` says that a part is always there. What the
  combinators do to these is said once each (`CatParts`, `OptParts`, `ArgParts`,
  ...), all from `Joined`, on two sequences. `Fits` is the invariant of a line: each
  part to come opens, or finds a gap that a part before it closes with, and what is
  between may be left out. `Styled` is the layout all sound rows have in common, and
  `LineFits` says that such a line fits. Then there is a lemma for each group of
  the table, and `Table` joins them. `AppendFits` carries `Fits` along the line, a
  part at a time; the loop's parts all open, so that it may go round for ever.
* `AnswersExpected`: if none of the six functions whose answers section 3 names is
  called, `Spec => []AnswerExpected`: no command that gdb executes is taken for a
  failure until timings are asked for. `CommandFirst`: the line begins with a command
  that gdb answers as the function waits for, in class and without results where it
  takes none, whatever is appended to it.
* `LinesEnd`: if `var_set_format` is not called, whenever a call waits gdb has a line
  that ends, which is the guard of `Answer`. `CallReturns` is this and fairness.

The functions that are named are those of sections 3 and 6; each hypothesis leaves out
those for which its claim is false, and no other.

### The break_points (`BreakPointMap_proof`)

* `EnabledIsWanted`: `MapSpec => []EnabledAsWanted`, for any number of break_points,
  set or not. The invariant `MapInv` adds that the map has exactly gdb's numbers,
  each for the break_point it was set for; that a break_point has one number, or
  `find_if` would find the wrong one; and that nobody asks for anything until all
  are set. That the program keeps to `MapSpec`, with the number read from gdb's
  answer, is checked by `frames`.

### The stubs (`NewlibCalls_proof`)

* `NewlibType` (`[]TypeOK`), `BytesAreOwn` (`[]OwnBytes`) and `NoBufferIsLeft`
  (`[]BuffersOpen`) share `Inv`: `Fits`, `BuffersOpen`, `OwnResult`. `OwnBytes`
  speaks of files and of what is returned; a byte spends the time between in a
  buffer that all descriptors share, and `Fits` says whose it then is: the write
  buffer's bytes are of the file of `writeFd`, the read buffer's of that of
  `readFd`, within the buffers' size.
* `FlagsAsAsked` (`[]OpenedAsAsked`) assumes `FlagsApart`: flags that share a bit
  on the target are the same on the host, and one without bits there has none
  here (`O_RDONLY` is 0 on both sides). Where a target gives one bit to two names
  that the host tells apart, `get_flags` sets both and the property is false.
* `BuffersAreHidden`: `Spec => BuffersHidden`, and `TargetIsHost`: `Spec /\
  habits = {} => LikeOnHost`, the step simulation of `HostFiles` under the mapping
  `Seen`. The invariant is `Inv` with `Mirrors`: for a program without habits the
  read buffer holds the bytes just before the file's offset, up to the end of the
  file unless the buffer is full, and nothing written to that file is pending. Each
  call that moves bytes between buffer and file then leaves `Seen` as it is, or
  changes it as the host's call does.

The proofs needed assumptions on the constants of `HostFiles` and `NewlibCalls`
that the bounds had and nobody had said: what is written to a file, and what it
starts with, are bytes of its own, and `"none"` is no descriptor. `BreakPointMap`
has one of that kind: a break_point is set once (`process` owns each object by a
`unique_ptr`).

### Only model-checked

All liveness properties: TLAPS reasons neither about fairness nor about ENABLED.
All properties of `MiAnswers`, and of `TargetFrame` all but `EnabledAsWanted`: they
read lines with recursive operators, as the grammar is recursive, and what a
recursive definition returns for every input takes induction over data, which the
provers cannot do. For the same reason the step from `TargetFrame` to
`MapSpec` is checked and not proved.

## 5. What is not modelled

* Options, configuration files and plugin loading; the other processes, which are
  spawned before the run and ended behind it.
* The overloads of `communicate` (`interpreter_impl.cpp`) and the class
  `session`: nobody calls them.
* In the parser, tokens and stream records (their part in the session is in
  `Mi2Interpreter`) and escapes other than of quotes and backslashes. Which of
  two missing results is noticed first, and which exception says so.
* In the frame, `set` of an element, the texts of `addr2line`, sizes other than
  of the variable printed.
* The newlib calls that keep no state (`fstat`, `isatty`, `link`, `stat`,
  `symlink`, `unlink`): each copies numbers from the host to the target. What
  `O_TRUNC` and `O_APPEND` do to a file, and the directions of a seek, whose values are
  the same everywhere. Modes: the names of `get_mode` overlap, unlike those of
  `get_flags` (section 6).
* The version in gdb's banner: `_read_info` increments an iterator past its end
  when there is none (`process.cpp` 100), which is undefined.
* `_err`, which nobody reads; `enable_debug` and logging.
* The base class' `run()` and `_set_timer`, which `gdb::process` replaces. They
  differ in one point: the base sets the exit code 1 on a time-out, the
  derived class leaves -1.

## 6. Where code and documents disagree

1. `run_told`: `break_point.hpp` 82 says `set_not_found` is called when the
   target could not be found; nobody calls it (`process.cpp` 141-148).
2. `run_spurious`: `invocation.qbk` 149-150 calls the time-out the maximal time
   between two breakpoint occurrences; an expired handler that is already queued
   ends the run although a breakpoint was just handled (`process.cpp` 271-281).
3. `run_shared`: `break_point.hpp` 59 says `invoke` is called when the breakpoint
   is reached; of two at one place only the first is (`process.cpp` 246).
4. `newlib_lone`: `plugins.qbk` 24 says that the program interacts with the files
   of the host, and `mw_newlib_syscalls.c` 126 that a newline is flushed from the
   buffer. A buffer of one byte is flushed by a write of one byte, which puts it
   into the buffer again: a newline alone in the buffer is written twice, any
   other byte alone in it is lost (`mw_newlib_syscalls.c` 110).
5. `frames_multi`: `break_point.hpp` 74 says that `set_multiple` is called for a
   breakpoint set multiple times; gdb's tuples for the places have no name, and
   `set_at` is called with the address 0 (`process.cpp` 125, `interpreter.cpp`
   497).

Met on the way, and not the subject of a run:

* *Commands.* By `input.hpp` 36-37 a command ends in `nl`; `var_set_format` with
  `raw` writes none (`interpreter.cpp` 1455), and its caller waits for ever. By
  `input.hpp` 42-43 a parameter is a non-blank sequence or a c-string;
  `exec_arguments` and others write strings with blanks as they are
  (`interpreter.cpp` 750). `trace_list_variables` and `symbol_list_lines` send
  other commands than their names say. gdb executes them and the caller gets an
  exception: `exec_interrupt` and `enable_frame_filters`, which wait for `running`, and
  `var_delete`, `var_set_format`, `trace_stop` and `trace_find` of `none`, whose answers
  have results (`interpreter.cpp` 177). After `enable_timings`, of which 2666 says that
  the times are a field in the output, it is so for every command awaited by its class,
  `exec_continue` and its kind apart, whose `^running` has no times.
* *The stream.* A line that holds `(gdb)`, not at its start, ends the read (69) and
  not the loop (84): the command throws for want of a record, and its answer is the next
  call's to read. The debugged program can print such a line.
* *Answers* (`Misread` and `Unparsed` of `MiAnswers`). Looked up under another
  name or on another level than gdb's: `break_list`, `dprintf_insert` (`bpkt`),
  `break_watch` of accesses, `var_show_attributes`, `list_features`,
  `list_target_features`, `info_gdb_mi_command`, `ada_task_info`,
  `var_list_children` (`chlidren`), `var_update`, `trace_list_variables`,
  `info_ada_exceptions`, `info_os`, the memory of `trace_frame_collected`, the
  full name of source files, the file of every breakpoint (`filename`). Taken for
  another kind of value: the ids of `thread_list_ids` and `list_thread_groups`,
  `data_disassemble` without lines, the offsets and ends of
  `data_read_memory_bytes` (decimal), the numbers of `symbol_list_lines`.
  Elements pushed behind as many empty ones: `data_read_memory`. An exception
  where gdb found nothing (`trace_find`), for a catchpoint, which has no address,
  and for a stop without a reason, as after a connection (`interpreter.cpp` 146).
  A breakpoint with commands, whose `script` is in braces, the `thread-ids={}` of a
  program without threads, and a text that ends in a backslash are not in the grammar.
* *Notifications* never reach a slot: `=` makes a status (`output.cpp` 234), the
  handlers wait for a notify, and their adapters read the record without calling
  the slots (`async_record_handler_t.hpp` 41-44).
* *The frame.* `regs()` has its bounds check inverted and returns nothing. `print`
  in bits of `x + 1` shows the memory behind x, since `&x + 1` is the address of
  that. `get_cstring` after a `select` reads the rest of the string in another
  frame. `set_at` is always told an empty file. Reading the value behind a
  reference assigns the string under the parser (`frame_impl.cpp` 319, 406).
* *The stubs.* A block written behind buffered bytes reaches the file before
  them; a read after a seek returns what was read ahead; after a short read the
  buffer says the file has ended; a program that ends by itself loses what is
  buffered. `mw_func_sysmlink` is dispatched under another name.
* *open.* `S_IRWXU` has three bits and `get_mode` asks for any of them, and it and
  `S_IRUSR` keep the bits of the host, since `load` asks for neither: a file
  opened with mode 0644 is created with 0777 (`mw-newlib.cpp` 157-186).

## 7. Plan

1. *(done)* `Mi2Interpreter`, `DebugSession`, `GdbProcess`, `Mi2Commands`, their
   runs; types, `OwnReply`, `NeverUnwatched` and `HonestStatus` proved.
2. *(done)* `NewlibCalls` against `HostFiles`; `MiOutput`, `MiTypes`, `MiAnswers`;
   `TargetFrame`; the liveness of the session and of the run in one run each with
   their safety.
3. *(done)* `GdbProcess`: `TypeOK`, `KeepsProtocol`, `RightBreakPoint`,
   `OnlyForeignCrash` proved.
4. *(done)* `NewlibCalls`: its types and invariants, and that a program without
   habits meets the files of the host, proved.
5. *(done)* `Mi2Interpreter`: `NoStopLost`, `Synchronised`, and that it implements
   `DebugSession`, proved.
6. *(done)* What a session promises and what a run asks of it, joined by `InTurn`;
   `Mi2Commands`: its lines and classes proved, for every option and any number of
   parameters; `BreakPointMap` taken out of `TargetFrame`, and proved.
7. What is left is out of the provers' reach (section 4), or not modelled (section
   5).
