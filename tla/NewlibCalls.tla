----------------------------- MODULE NewlibCalls -----------------------------
(***************************************************************************)
(* The system calls of a program on a target whose newlib stubs are those  *)
(* of example/mw_newlib_syscalls.c, with the newlib plugin of the runner   *)
(* (src/mw-newlib.cpp) on the other end: mw_func_stub stops at a           *)
(* breakpoint, the plugin makes the call on the host and returns its       *)
(* result.  To stop less often, the stubs keep one write buffer and one    *)
(* read buffer, each for one descriptor at a time.                         *)
(*                                                                         *)
(* One action is one system call of the program: the program waits for it, *)
(* so nothing interleaves with it.                                         *)
(***************************************************************************)
EXTENDS HostFiles, Integers

CONSTANTS
    Size,       \* MW_NEWLIB_BUFFER_SIZE
    Newline,    \* '\n'
    Initially,  \* of each descriptor: what its file may hold at the start
    TargetBits, \* the bits of the names the target's headers have of HostBits'
    Opens,      \* of each descriptor: the names the program opens it with
    MaxLen,     \* bound: the length of a file that is still written to
    HabitSets   \* what the programs and their hosts do that are tried, see below

\* flush_write of one byte stores that byte a second time: a buffer of one byte
\* would call itself without end.
ASSUME NewlibAssumption ==
    /\ Size \in Nat \ {0, 1}
    /\ MaxLen \in Nat
    /\ "none" \notin Fd
    /\ \A f \in Fd : Initially[f] \subseteq Seq(BytesOf(f))
    /\ DOMAIN TargetBits \subseteq DOMAIN HostBits
    /\ \A f \in Fd : Opens[f] \subseteq DOMAIN TargetBits
    /\ HabitSets \subseteq SUBSET {"lone", "mixed", "seek", "short", "error", "leave", "macros"}

VARIABLES
    habits,     \* of this program and its host: never changes
    ended,      \* the program has ended
    of,         \* open_flags of the plugin: inited, and the bits of each name
    writeFd,    \* write_fd
    writeBuf,   \* write_buf[0] to write_buf[write_pos - 1]
    readFd,     \* read_fd
    readBuf,    \* what the host put into read_buf
    readPos,    \* read_pos
    readEnd     \* read_end: the length of readBuf, or -1 from a failed read

writeBuffer == <<writeFd, writeBuf>>
readBuffer  == <<readFd, readBuf, readPos, readEnd>>
vars == <<host, result, habits, ended, of, writeFd, writeBuf, readFd, readBuf, readPos, readEnd>>

NoFd == "none"      \* -1

Pending(f) == IF f = writeFd THEN writeBuf ELSE <<>>
Ahead(f)   == IF f = readFd /\ readEnd > 0 THEN readEnd - readPos ELSE 0

-----------------------------------------------------------------------------
(* What programs do that the buffers do not allow for, and hosts.          *)

\* "lone": the buffer is flushed while it holds a single byte.
LoneFits(buf)  == Len(buf) = 1 => "lone" \in habits
\* "mixed": a write of several bytes while single bytes are in the buffer.
MixedFits(f)   == Pending(f) # <<>> => "mixed" \in habits
\* "seek": seeking, or reading and writing, on a descriptor with a buffer.
SeekFits(f)    == Pending(f) # <<>> \/ readFd = f => "seek" \in habits
\* "leave": the program ends without closing what it writes to.
LeaveFits      == writeBuf # <<>> => "leave" \in habits

\* "short": a read of the host returns less than there is, as of a terminal.
\* "error": a call of the host fails.
Gives(f, n) ==
    LET most == Least(n, Left(host, f))
    IN  {most} \union (IF "short" \in habits /\ most > 0 THEN 1 .. most ELSE {})
               \union (IF "error" \in habits THEN {-1} ELSE {})
Works == IF "error" \in habits THEN BOOLEAN ELSE {TRUE}

-----------------------------------------------------------------------------
(* The write buffer.                                                       *)

\* What flush_write sends.  It calls _write, and _write of one byte calls
\* _buffered_write: that stores the byte behind itself, flushes the two when it
\* is a newline, and otherwise leaves them to the reset that follows.
Flushed(buf) ==
    IF Len(buf) # 1 THEN buf
    ELSE IF buf[1] = Newline THEN <<Newline, Newline>> ELSE <<>>

\* Mutants: the buffer is not flushed when the descriptor changes, or when full.
Full_AnyFd(f) == Len(writeBuf) = Size
Full_NoLimit(f) == f # writeFd

\* The buffer has to be flushed before a byte for f can be stored.
Full(f) == f # writeFd \/ Len(writeBuf) = Size

\* The buffer once the byte is in it.
Stored(f, byte) == Append(IF Full(f) THEN <<>> ELSE writeBuf, byte)

\* _write of one byte: _buffered_write, which ignores how its flushes end.
WriteByte(f, byte) ==
    /\ Full(f) => LoneFits(writeBuf)
    /\ byte = Newline => LoneFits(Stored(f, byte))
    /\ readFd = f => "seek" \in habits
    /\ \E works \in Works :
        LET first == IF works /\ Full(f) /\ writeFd \in Fd
                     THEN Put(host, writeFd, Flushed(writeBuf)) ELSE host
        IN  host' = IF works /\ byte = Newline
                    THEN Put(first, f, Flushed(Stored(f, byte))) ELSE first
    /\ writeFd' = f
    /\ writeBuf' = IF byte = Newline THEN <<>> ELSE Stored(f, byte)
    /\ result' = Returned("write", f, <<byte>>, 1)
    /\ UNCHANGED <<ended, of, readBuffer>>

\* _write of any other length goes to the host past the buffer.
WriteBlock(f, bytes) ==
    /\ Len(bytes) # 1
    /\ MixedFits(f)
    /\ readFd = f => "seek" \in habits
    /\ \E works \in Works :
        /\ host' = IF works THEN Put(host, f, bytes) ELSE host
        /\ result' = Returned("write", f, bytes, IF works THEN Len(bytes) ELSE -1)
    /\ UNCHANGED <<ended, of, writeBuffer, readBuffer>>

Write(f, bytes) ==
    /\ host[f].open
    /\ Len(host[f].data) + Len(Pending(f)) + Len(bytes) <= MaxLen
    /\ IF Len(bytes) = 1 THEN WriteByte(f, bytes[1]) ELSE WriteBlock(f, bytes)

-----------------------------------------------------------------------------
(* The read buffer.                                                        *)

\* _read uses the buffer when it is f's, or nobody's.
Buffered(f, n) == readFd = f \/ (readFd = NoFd /\ n > 0)

\* Mutant: a consumed buffer is refilled only once it is beyond its end.
Refill_Late == readPos > readEnd /\ readEnd = Size

\* _read_buffered asks the host again only after a full buffer.
Refill == readPos = readEnd /\ readEnd = Size

\* _read through the buffer, which the host fills with k bytes if it is asked.
ReadBuffered(f, n) ==
    LET ask  == readFd = NoFd \/ Refill
        from == IF ask THEN 0 ELSE readPos
    IN  \E k \in IF ask THEN Gives(f, Size) ELSE {readEnd} :
        LET buf   == IF ask THEN Found(host, f, k) ELSE readBuf
            count == IF k > from THEN Least(n, k - from) ELSE 0
        IN  /\ host' = IF ask /\ k > 0 THEN Advance(host, f, k) ELSE host
            /\ readFd' = (IF readFd = NoFd THEN f ELSE readFd)
            /\ readBuf' = buf /\ readEnd' = k /\ readPos' = from + count
            /\ result' = Returned("read", f, n, SubSeq(buf, from + 1, from + count))

ReadDirect(f, n) ==
    /\ \E k \in Gives(f, n) :
        /\ host' = IF k > 0 THEN Advance(host, f, k) ELSE host
        /\ result' = Returned("read", f, n, IF k = -1 THEN <<"failed">> ELSE Found(host, f, k))
    /\ UNCHANGED readBuffer

Read(f, n) ==
    /\ host[f].open
    /\ Pending(f) # <<>> => "seek" \in habits
    /\ IF Buffered(f, n) THEN ReadBuffered(f, n) ELSE ReadDirect(f, n)
    /\ UNCHANGED <<ended, of, writeBuffer>>

-----------------------------------------------------------------------------
\* Mutant: what was not loaded is taken for loaded.
loaded_Never == [of EXCEPT !.inited = TRUE]

\* open_flags::load, at the first open: a name gdb cannot print, because the
\* target does not have it or the program was built without its macros (a habit,
\* "macros"), keeps the bits it has on the host.
loaded ==
    LET printed == IF "macros" \in habits THEN {} ELSE DOMAIN TargetBits
    IN  IF of.inited THEN of
        ELSE [inited |-> TRUE,
              bits   |-> [n \in DOMAIN of.bits |->
                            IF n \in printed THEN TargetBits[n] ELSE of.bits[n]]]

Bits(table, names) == UNION {table[n] : n \in names}

\* open_flags::get_flags: each name that shares a bit with what the program gave.
get_flags(flags, in) ==
    Bits(HostBits, {n \in DOMAIN HostBits : flags.bits[n] \intersect in # {}})

\* _open and _lseek go to the host and leave the buffers alone.
Open(f) ==
    /\ HostOpen(f, get_flags(loaded, Bits(TargetBits, Opens[f])))
    /\ of' = loaded
    /\ UNCHANGED <<ended, writeBuffer, readBuffer>>

Seek(f, to) ==
    /\ SeekFits(f)
    /\ HostSeek(f, to)
    /\ UNCHANGED <<ended, of, writeBuffer, readBuffer>>

\* Mutant: the read buffer outlives its descriptor.
Cleared_Never(f) == UNCHANGED readBuffer

\* read_clear, of the descriptor's own buffer.
Cleared(f) ==
    IF readFd = f
    THEN readFd' = NoFd /\ readPos' = 0 /\ readEnd' = 0 /\ readBuf' = <<>>
    ELSE UNCHANGED readBuffer

\* _close flushes the write buffer whosever it is.
Close(f) ==
    /\ host[f].open
    /\ LoneFits(writeBuf)
    /\ \E works \in Works :
        LET flushed == IF works /\ writeBuf # <<>>
                       THEN Put(host, writeFd, Flushed(writeBuf)) ELSE host
        IN  host' = [flushed EXCEPT ![f].open = FALSE, ![f].at = 0]
    /\ writeFd' = (IF writeBuf = <<>> THEN writeFd ELSE NoFd)
    /\ writeBuf' = <<>>
    /\ Cleared(f)
    /\ result' = Returned("close", f, 0, 0)
    /\ UNCHANGED <<ended, of>>

\* The program ends, by itself or by a crash: nothing flushes the buffer.
End ==
    /\ LeaveFits
    /\ ended' = TRUE
    /\ HostEnd
    /\ UNCHANGED <<of, writeBuffer, readBuffer>>

FileStart == [open : BOOLEAN, data : UNION {Initially[f] : f \in Fd}, at : {0}]

Init ==
    /\ host \in [Fd -> FileStart]
    /\ \A f \in Fd : host[f].data \in Initially[f]
    /\ result = Returned("start", "none", 0, 0)
    /\ habits \in HabitSets
    /\ ended = FALSE
    /\ of = [inited |-> FALSE, bits |-> HostBits]
    /\ writeFd = NoFd /\ writeBuf = <<>>
    /\ readFd = NoFd /\ readBuf = <<>> /\ readPos = 0 /\ readEnd = 0

Next ==
    /\ ~ended /\ habits' = habits
    /\ \/ \E f \in Fd :
            \/ Open(f)
            \/ Close(f)
            \/ \E bytes \in Writes[f] : Write(f, bytes)
            \/ \E n \in 0 .. MaxCount : Read(f, n)
            \/ \E to \in {0, Len(host[f].data)} : Seek(f, to)
       \/ End

Spec == Init /\ [][Next]_vars

-----------------------------------------------------------------------------
TypeOK ==
    /\ habits \in HabitSets /\ ended \in BOOLEAN
    /\ \A f \in Fd : host[f] \in FileState
    /\ writeFd \in Fd \union {NoFd} /\ readFd \in Fd \union {NoFd}
    /\ writeBuf \in Seq(Byte) /\ Len(writeBuf) <= Size
    /\ readBuf \in Seq(Byte)
    /\ readEnd \in -1 .. Size /\ readPos \in 0 .. Size

\* What the program is to believe of the host: what is in the write buffer is
\* written, what is in the read buffer is not read.
Seen == [f \in Fd |->
    IF ended THEN host[f]
    ELSE [open |-> host[f].open,
          data |-> Overlay(host[f].data, host[f].at, Pending(f)),
          at   |-> host[f].at + Len(Pending(f)) - Ahead(f)]]

\* The buffers do not show (example/mw_newlib_syscalls.c 97-187) as long as the
\* program has none of the habits: every call returns what it would return on the
\* host, and what is or will be in the files is what a program on the host would
\* have written, in its order.
AsOnHost == INSTANCE HostFiles WITH host <- Seen
BuffersHidden == [][habits = {} => AsOnHost!HostNext]_<<Seen, result>>

\* The plugin "allows the embedded program to interact with the console and the
\* filesystem on the host system": it is as if the program ran there.
LikeOnHost == AsOnHost!HostSpec

\* A byte reaches the file it was written to and no other, and comes from the
\* file that is read, whatever the program does and the host answers
\* (mw_newlib_syscalls.c 118 and 237).
OwnBytes ==
    /\ \A f \in Fd : \A i \in 1 .. Len(host[f].data) : host[f].data[i] \in BytesOf(f)
    /\ result.call = "read" /\ result.value # <<"failed">> =>
        \A i \in 1 .. Len(result.value) : result.value[i] \in BytesOf(result.fd)

\* What the program asks for when it opens a file reaches the host, and of the
\* names the target has nothing else does, at the first open and later (mw-newlib
\* 86-150 and 360), unless it was built without its macros.
OpenedAsAsked ==
    result.call = "open" /\ "macros" \notin habits =>
        /\ Bits(HostBits, Opens[result.fd]) \subseteq result.value
        /\ \A n \in DOMAIN TargetBits \ Opens[result.fd] :
               HostBits[n] \intersect result.value \subseteq
                   Bits(HostBits, Opens[result.fd] \union (DOMAIN HostBits \ DOMAIN TargetBits))

\* A buffer is never left to a closed descriptor: the next program to get the
\* number would find it (mw_newlib_syscalls.c 205-211).
BuffersOpen ==
    ~ended =>
        /\ writeBuf # <<>> => host[writeFd].open
        /\ readFd # NoFd => host[readFd].open
=============================================================================
