------------------------------ MODULE HostFiles ------------------------------
(***************************************************************************)
(* The files of the host as a program sees them that runs on the host: a   *)
(* call takes effect when it is made, in the order the calls are made.     *)
(* This is what the newlib plugin promises the program on the target       *)
(* (doc/plugins.qbk 24: it "allows the embedded program to interact with   *)
(* the console and the filesystem on the host system").                    *)
(*                                                                         *)
(* Every descriptor has a file of its own.  A read may return less than    *)
(* was asked for, and nothing only at the end of the file.                 *)
(***************************************************************************)
EXTENDS Naturals, Sequences

CONSTANTS
    Fd,         \* the descriptors
    Writes,     \* of each descriptor: what the program writes in one call
    MaxCount,   \* bound: the bytes of one read
    HostBits    \* the bits of the host's flags for open(2), by name

VARIABLES
    host,       \* of each descriptor: is it open, its file's data, the offset
    result      \* the call that returned last, and what it returned

hostVars == <<host, result>>

BytesOf(f) == UNION {{bytes[i] : i \in 1 .. Len(bytes)} : bytes \in Writes[f]}
Byte       == UNION {BytesOf(f) : f \in Fd}

ASSUME HostFilesAssumption ==
    /\ MaxCount \in Nat \ {0}
    /\ \A f \in Fd : \A bytes \in Writes[f] : bytes \in Seq(BytesOf(f))

FileState == [open : BOOLEAN, data : Seq(Byte), at : Nat]

Least(m, n) == IF m < n THEN m ELSE n

Returned(call, f, asked, value) ==
    [call |-> call, fd |-> f, asked |-> asked, value |-> value]

\* old with bytes written over it from offset at on.
Overlay(old, at, bytes) ==
    LET written == at + Len(bytes)
    IN  [i \in 1 .. (IF written > Len(old) THEN written ELSE Len(old)) |->
            IF i > at /\ i <= written THEN bytes[i - at] ELSE old[i]]

\* The effect of write(2), and what read(2) finds at the offset.
Put(h, f, bytes) ==
    IF bytes = <<>> THEN h
    ELSE [h EXCEPT ![f].data = Overlay(@, h[f].at, bytes),
                   ![f].at = @ + Len(bytes)]
Left(h, f)      == Len(h[f].data) - h[f].at
Found(h, f, n)  == SubSeq(h[f].data, h[f].at + 1, h[f].at + n)
Advance(h, f, n) == [h EXCEPT ![f].at = @ + n]

-----------------------------------------------------------------------------
\* The flags here do not change what is in a file: those that truncate it or
\* append to it are left out.
HostOpen(f, bits) ==
    /\ result' = Returned("open", f, 0, bits)
    /\ ~host[f].open
    /\ host' = [host EXCEPT ![f].open = TRUE]

HostClose(f) ==
    /\ result' = Returned("close", f, 0, 0)
    /\ host[f].open
    /\ host' = [host EXCEPT ![f].open = FALSE, ![f].at = 0]

HostWrite(f, bytes) ==
    /\ result' = Returned("write", f, bytes, Len(bytes))
    /\ host[f].open
    /\ host' = Put(host, f, bytes)

HostRead(f, n, k) ==
    /\ host[f].open
    /\ k <= Least(n, Left(host, f))
    /\ result' = Returned("read", f, n, Found(host, f, k))
    /\ k = 0 => n = 0 \/ Left(host, f) = 0
    /\ host' = Advance(host, f, k)

HostSeek(f, to) ==
    /\ result' = Returned("lseek", f, to, to)
    /\ host[f].open
    /\ host' = [host EXCEPT ![f].at = to]

\* The program ends, and its descriptors are closed.
HostEnd ==
    /\ result' = Returned("end", "none", 0, 0)
    /\ host' = [f \in Fd |-> [host[f] EXCEPT !.open = FALSE, !.at = 0]]

HostInit ==
    /\ \A f \in Fd : host[f] \in FileState
    /\ result = Returned("start", "none", 0, 0)

HostNext ==
    \/ \E f \in Fd :
        \/ \E bits \in SUBSET UNION {HostBits[n] : n \in DOMAIN HostBits} : HostOpen(f, bits)
        \/ HostClose(f)
        \/ \E bytes \in Writes[f] : HostWrite(f, bytes)
        \/ \E n, k \in 0 .. MaxCount : HostRead(f, n, k)
        \/ \E to \in {0, Len(host[f].data)} : HostSeek(f, to)
    \/ HostEnd

HostSpec == HostInit /\ [][HostNext]_hostVars
=============================================================================
