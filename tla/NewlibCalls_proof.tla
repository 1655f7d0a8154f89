-------------------------- MODULE NewlibCalls_proof --------------------------
(***************************************************************************)
(* Theorems about NewlibCalls for all files, writes and flags, and every   *)
(* size of the buffers: a byte reaches its own file and no other, no       *)
(* buffer is left to a closed descriptor, the flags of open reach the      *)
(* host, and the calls return what they would return on the host.          *)
(***************************************************************************)
EXTENDS NewlibCalls, SequenceTheorems, TLAPS

\* The files: each holds bytes of its own, with the offset within it.
Files(h) ==
    /\ h \in [Fd -> FileState]
    /\ \A f \in Fd : h[f].data \in Seq(BytesOf(f)) /\ h[f].at <= Len(h[f].data)

\* The write buffer holds bytes of its descriptor's file, and so does the read
\* buffer; without a descriptor they are empty.
WriteFits ==
    /\ writeFd \in Fd \union {NoFd}
    /\ writeFd = NoFd => writeBuf = <<>>
    /\ writeFd \in Fd => writeBuf \in Seq(BytesOf(writeFd))
    /\ Len(writeBuf) <= Size
ReadFits ==
    /\ readFd \in Fd \union {NoFd}
    /\ readFd = NoFd => readBuf = <<>> /\ readEnd = 0 /\ readPos = 0
    /\ readFd \in Fd => readBuf \in Seq(BytesOf(readFd))
    /\ readEnd \in -1 .. Size /\ readPos \in 0 .. Size
    /\ Len(readBuf) = (IF readEnd > 0 THEN readEnd ELSE 0)
    /\ readPos <= Len(readBuf)

Fits ==
    /\ habits \in HabitSets /\ ended \in BOOLEAN
    /\ Files(host) /\ WriteFits /\ ReadFits

\* What a program without habits finds in the read buffer: the bytes before the
\* offset of its file, up to the file's end unless the buffer is full; and
\* nothing that it wrote to the same file is still to be written.
Mirrors ==
    habits = {} /\ ~ended /\ readFd \in Fd =>
        LET file == host[readFd]
        IN  /\ readEnd \in 0 .. file.at
            /\ readBuf = SubSeq(file.data, file.at - readEnd + 1, file.at)
            /\ readEnd < Size => file.at = Len(file.data)
            /\ Pending(readFd) = <<>>

-----------------------------------------------------------------------------
(* The operators on files.                                                 *)

\* What is left of a file, and a sequence of bytes read from it, for any file.
File(open, data, at) == [open |-> open, data |-> data, at |-> at]

\* Bytes of one file are bytes.
LEMMA OwnIsByte ==
    ASSUME NEW f \in Fd
    PROVE  BytesOf(f) \subseteq Byte /\ \A s \in Seq(BytesOf(f)) : s \in Seq(Byte)
  <1>1. BytesOf(f) \subseteq Byte
    BY DEF Byte
  <1> QED
    BY <1>1

\* Writing over a sequence from one of its offsets on.
LEMMA OverlayProperties ==
    ASSUME NEW S, NEW old \in Seq(S), NEW bytes \in Seq(S), NEW at \in 0 .. Len(old)
    PROVE  /\ Overlay(old, at, bytes) \in Seq(S)
           /\ Len(Overlay(old, at, bytes)) =
                IF at + Len(bytes) > Len(old) THEN at + Len(bytes) ELSE Len(old)
           /\ \A i \in 1 .. Len(Overlay(old, at, bytes)) :
                Overlay(old, at, bytes)[i] =
                    IF i > at /\ i <= at + Len(bytes) THEN bytes[i - at] ELSE old[i]
  <1> DEFINE end == IF at + Len(bytes) > Len(old) THEN at + Len(bytes) ELSE Len(old)
  <1>1. Len(old) \in Nat /\ Len(bytes) \in Nat /\ end \in Nat /\ at \in Nat
    BY LenProperties
  <1>2. Overlay(old, at, bytes) =
          [i \in 1 .. end |-> IF i > at /\ i <= at + Len(bytes) THEN bytes[i - at] ELSE old[i]]
    BY DEF Overlay
  <1>3. /\ \A i \in 1 .. Len(old) : old[i] \in S
        /\ \A i \in 1 .. Len(bytes) : bytes[i] \in S
    BY ElementOfSeq
  <1>4. \A i \in 1 .. end :
          (IF i > at /\ i <= at + Len(bytes) THEN bytes[i - at] ELSE old[i]) \in S
    <2> SUFFICES ASSUME NEW i \in 1 .. end
                 PROVE  (IF i > at /\ i <= at + Len(bytes) THEN bytes[i - at] ELSE old[i]) \in S
      OBVIOUS
    <2>1. CASE i > at /\ i <= at + Len(bytes)
      BY <1>1, <1>3, <2>1
    <2>2. CASE ~(i > at /\ i <= at + Len(bytes))
      <3>1. i \in 1 .. Len(old)
        BY <1>1, <2>2
      <3> QED
        BY <1>3, <2>2, <3>1
    <2> QED
      BY <2>1, <2>2
  <1> HIDE DEF end
  <1>5. Overlay(old, at, bytes) \in Seq(S) /\ Len(Overlay(old, at, bytes)) = end
    BY <1>1, <1>2, <1>4
  <1> QED
    BY <1>2, <1>5 DEF end

\* Two sequences of the same length and elements are one.
LEMMA SameSequence ==
    ASSUME NEW S, NEW p \in Seq(S), NEW q \in Seq(S), Len(p) = Len(q),
           \A i \in 1 .. Len(p) : p[i] = q[i]
    PROVE  p = q
  BY SeqEqual

\* Writing nothing changes nothing.
LEMMA OverlayNothing ==
    ASSUME NEW S, NEW old \in Seq(S), NEW at \in 0 .. Len(old)
    PROVE  Overlay(old, at, <<>>) = old
  <1> DEFINE nothing == <<>>
             same == Overlay(old, at, nothing)
  <1>1. nothing \in Seq(S) /\ Len(nothing) = 0 /\ Len(old) \in Nat
    BY EmptySeq, LenProperties
  <1> HIDE DEF nothing
  <1>2. /\ same \in Seq(S)
        /\ Len(same) = IF at + Len(nothing) > Len(old) THEN at + Len(nothing) ELSE Len(old)
        /\ \A i \in 1 .. Len(same) :
             same[i] = IF i > at /\ i <= at + Len(nothing) THEN nothing[i - at] ELSE old[i]
    BY <1>1, OverlayProperties
  <1> HIDE DEF same
  <1>3. Len(same) = Len(old) /\ \A i \in 1 .. Len(same) : same[i] = old[i]
    BY <1>1, <1>2
  <1>4. same = old
    BY <1>2, <1>3, SameSequence
  <1> QED
    BY <1>4 DEF same, nothing

\* A byte written behind what was written is one byte more written.
LEMMA OverlayAppend ==
    ASSUME NEW S, NEW old \in Seq(S), NEW at \in 0 .. Len(old), NEW bytes \in Seq(S), NEW b \in S
    PROVE  /\ at + Len(bytes) \in 0 .. Len(Overlay(old, at, bytes))
           /\ Overlay(Overlay(old, at, bytes), at + Len(bytes), <<b>>) =
                Overlay(old, at, Append(bytes, b))
  <1> DEFINE first == Overlay(old, at, bytes)
             more  == Append(bytes, b)
             one   == <<b>>
             both  == Overlay(first, at + Len(bytes), one)
             once  == Overlay(old, at, more)
  <1>1. Len(old) \in Nat /\ Len(bytes) \in Nat
    BY LenProperties
  <1>2. /\ first \in Seq(S)
        /\ Len(first) = IF at + Len(bytes) > Len(old) THEN at + Len(bytes) ELSE Len(old)
        /\ \A i \in 1 .. Len(first) :
             first[i] = IF i > at /\ i <= at + Len(bytes) THEN bytes[i - at] ELSE old[i]
    BY OverlayProperties
  <1>3. /\ more \in Seq(S) /\ Len(more) = Len(bytes) + 1
        /\ \A i \in 1 .. Len(bytes) : more[i] = bytes[i]
        /\ more[Len(bytes) + 1] = b
    BY AppendProperties
  <1>4. one \in Seq(S) /\ Len(one) = 1 /\ one[1] = b
    OBVIOUS
  <1>5. at + Len(bytes) \in 0 .. Len(first)
    BY <1>1, <1>2
  <1> HIDE DEF first, more, one
  <1>6. /\ both \in Seq(S)
        /\ Len(both) = IF at + Len(bytes) + Len(one) > Len(first)
                       THEN at + Len(bytes) + Len(one) ELSE Len(first)
        /\ \A i \in 1 .. Len(both) :
             both[i] = IF i > at + Len(bytes) /\ i <= at + Len(bytes) + Len(one)
                       THEN one[i - (at + Len(bytes))] ELSE first[i]
    BY <1>2, <1>4, <1>5, OverlayProperties
  <1>7. /\ once \in Seq(S)
        /\ Len(once) = IF at + Len(more) > Len(old) THEN at + Len(more) ELSE Len(old)
        /\ \A i \in 1 .. Len(once) :
             once[i] = IF i > at /\ i <= at + Len(more) THEN more[i - at] ELSE old[i]
    BY <1>3, OverlayProperties
  <1> HIDE DEF both, once
  <1>8. Len(both) = Len(once)
    BY <1>1, <1>2, <1>3, <1>4, <1>6, <1>7
  <1>9. ASSUME NEW i \in 1 .. Len(both) PROVE both[i] = once[i]
    <2>1. Len(both) \in Nat /\ Len(first) \in Nat
      BY <1>2, <1>6, LenProperties
    <2>2. CASE i > at + Len(bytes) /\ i <= at + Len(bytes) + 1
      <3>1. i = at + Len(bytes) + 1
        BY <1>1, <2>1, <2>2
      <3>2. both[i] = b
        BY <1>1, <1>4, <1>6, <2>2, <3>1
      <3>3. once[i] = more[Len(bytes) + 1]
        BY <1>1, <1>3, <1>7, <1>8, <3>1
      <3> QED
        BY <1>3, <3>2, <3>3
    <2>3. CASE ~(i > at + Len(bytes) /\ i <= at + Len(bytes) + 1)
      <3>1. both[i] = first[i] /\ i \in 1 .. Len(first)
        <4>1. both[i] = first[i]
          BY <1>1, <1>4, <1>6, <2>3
        <4>2. at + Len(bytes) <= Len(first) /\ Len(one) = 1
          BY <1>1, <1>2, <1>4
        <4>3. i \in 1 .. Len(first)
          BY <1>1, <1>6, <2>1, <2>3, <4>2
        <4> QED
          BY <4>1, <4>3
      <3>2. CASE i > at /\ i <= at + Len(bytes)
        <4>0. i - at \in 1 .. Len(bytes)
          BY <1>1, <3>1, <3>2
        <4>1. first[i] = bytes[i - at] /\ i - at \in 1 .. Len(bytes)
          BY <1>2, <3>1, <3>2, <4>0
        <4>2. once[i] = more[i - at]
          BY <1>1, <1>3, <1>7, <1>8, <3>2
        <4> QED
          BY <1>3, <3>1, <4>1, <4>2
      <3>3. CASE ~(i > at /\ i <= at + Len(bytes))
        <4>1. ~(i > at /\ i <= at + Len(more))
          BY <1>1, <1>3, <2>1, <2>3, <3>3
        <4> QED
          BY <1>2, <1>7, <1>8, <3>1, <3>3, <4>1
      <3> QED
        BY <3>2, <3>3
    <2> QED
      BY <2>2, <2>3
  <1>10. both = once
    BY <1>6, <1>7, <1>8, <1>9, SameSequence
  <1> QED
    BY <1>5, <1>10 DEF first, more, one, both, once

\* What is known of a file of the host.
LEMMA FileIs ==
    ASSUME NEW h, Files(h), NEW f \in Fd
    PROVE  /\ h[f] = File(h[f].open, h[f].data, h[f].at)
           /\ h[f].open \in BOOLEAN /\ h[f].data \in Seq(BytesOf(f))
           /\ h[f].at \in 0 .. Len(h[f].data) /\ Len(h[f].data) \in Nat
           /\ Left(h, f) \in 0 .. Len(h[f].data) /\ h[f].at + Left(h, f) = Len(h[f].data)
  <1>1. h[f] \in FileState /\ h[f].data \in Seq(BytesOf(f)) /\ h[f].at <= Len(h[f].data)
    BY DEF Files
  <1>2. h[f].at \in Nat /\ h[f].open \in BOOLEAN /\ h[f] = File(h[f].open, h[f].data, h[f].at)
    BY <1>1 DEF FileState, File
  <1>3. Len(h[f].data) \in Nat
    BY <1>1, LenProperties
  <1> QED
    BY <1>1, <1>2, <1>3 DEF Left

\* One file is replaced.
LEMMA FilesExcept ==
    ASSUME NEW h, Files(h), NEW f \in Fd, NEW open \in BOOLEAN,
           NEW data \in Seq(BytesOf(f)), NEW at \in 0 .. Len(data)
    PROVE  Files([h EXCEPT ![f] = File(open, data, at)])
  <1> DEFINE new == [h EXCEPT ![f] = File(open, data, at)]
  <1>1. Len(data) \in Nat
    BY LenProperties
  <1>2. data \in Seq(Byte)
    BY OwnIsByte
  <1>3. File(open, data, at) \in FileState /\ File(open, data, at).data = data
        /\ File(open, data, at).at = at
    BY <1>1, <1>2 DEF File, FileState
  <1>4. h \in [Fd -> FileState]
    BY DEF Files
  <1>5. new \in [Fd -> FileState] /\ \A g \in Fd : new[g] = IF g = f THEN File(open, data, at) ELSE h[g]
    BY <1>3, <1>4
  <1> HIDE DEF new
  <1>6. ASSUME NEW g \in Fd
        PROVE  new[g].data \in Seq(BytesOf(g)) /\ new[g].at <= Len(new[g].data)
    <2>1. CASE g = f
      <3>1. new[g] = File(open, data, at)
        BY <1>5, <2>1
      <3> QED
        BY <1>1, <1>3, <2>1, <3>1
    <2>2. CASE g # f
      BY <1>5, <2>2 DEF Files
    <2> QED
      BY <2>1, <2>2
  <1>7. Files(new)
    BY <1>5, <1>6 DEF Files
  <1> QED
    BY <1>7 DEF new

\* write(2) replaces a file by one with the bytes at its offset.
LEMMA PutIs ==
    ASSUME NEW h, Files(h), NEW f \in Fd, NEW bytes \in Seq(BytesOf(f))
    PROVE  /\ Put(h, f, bytes) =
                [h EXCEPT ![f] = File(h[f].open, Overlay(h[f].data, h[f].at, bytes),
                                      h[f].at + Len(bytes))]
           /\ Files(Put(h, f, bytes))
           /\ \A g \in Fd : Put(h, f, bytes)[g].open = h[g].open
  <1> DEFINE data == Overlay(h[f].data, h[f].at, bytes)
             at   == h[f].at + Len(bytes)
  <1>1. /\ h[f] = File(h[f].open, h[f].data, h[f].at)
        /\ h[f].open \in BOOLEAN /\ h[f].data \in Seq(BytesOf(f))
        /\ h[f].at \in 0 .. Len(h[f].data) /\ Len(h[f].data) \in Nat
    BY FileIs
  <1>2. Len(bytes) \in Nat
    BY LenProperties
  <1>3. data \in Seq(BytesOf(f)) /\ at \in 0 .. Len(data)
    <2>1. data \in Seq(BytesOf(f))
          /\ Len(data) = IF at > Len(h[f].data) THEN at ELSE Len(h[f].data)
      BY <1>1, OverlayProperties
    <2> QED
      BY <1>1, <1>2, <2>1
  <1>4. h \in [Fd -> FileState]
    BY DEF Files
  <1>5. ASSUME bytes # <<>>
        PROVE  Put(h, f, bytes) = [h EXCEPT ![f] = File(h[f].open, data, at)]
    <2>1. Put(h, f, bytes) = [h EXCEPT ![f].data = data, ![f].at = @ + Len(bytes)]
      BY <1>5 DEF Put
    <2> HIDE DEF data
    <2>2. [h EXCEPT ![f].data = data, ![f].at = @ + Len(bytes)] =
            [h EXCEPT ![f] = [h[f] EXCEPT !.data = data, !.at = @ + Len(bytes)]]
      BY <1>4
    <2>3. [h[f] EXCEPT !.data = data, !.at = @ + Len(bytes)] = File(h[f].open, data, at)
      <3>1. [h[f] EXCEPT !.data = data] = File(h[f].open, data, h[f].at)
        BY <1>1 DEF File
      <3>2. [h[f] EXCEPT !.data = data, !.at = @ + Len(bytes)] =
              [[h[f] EXCEPT !.data = data] EXCEPT !.at = @ + Len(bytes)]
        BY <1>1
      <3>3. [File(h[f].open, data, h[f].at) EXCEPT !.at = @ + Len(bytes)] =
              File(h[f].open, data, at)
        BY DEF File
      <3> QED
        BY <3>1, <3>2, <3>3
    <2> QED
      BY <2>1, <2>2, <2>3 DEF data
  <1>6. ASSUME bytes = <<>>
        PROVE  Put(h, f, bytes) = [h EXCEPT ![f] = File(h[f].open, data, at)]
    <2>1. data = h[f].data /\ at = h[f].at
      BY <1>1, <1>6, OverlayNothing
    <2>2. Put(h, f, bytes) = h
      BY <1>6 DEF Put
    <2> HIDE DEF data, at
    <2>3. [h EXCEPT ![f] = File(h[f].open, data, at)] = h
      BY <1>1, <1>4, <2>1
    <2> QED
      BY <2>2, <2>3 DEF data, at
  <1>7. Put(h, f, bytes) = [h EXCEPT ![f] = File(h[f].open, data, at)]
    BY <1>5, <1>6
  <1> HIDE DEF data, at
  <1>8. Files([h EXCEPT ![f] = File(h[f].open, data, at)])
    BY <1>1, <1>3, FilesExcept
  <1>9. \A g \in Fd : [h EXCEPT ![f] = File(h[f].open, data, at)][g].open = h[g].open
    BY <1>4 DEF File
  <1> QED
    BY <1>7, <1>8, <1>9 DEF data, at

\* A buffer that is flushed sends bytes of its own file.
LEMMA FlushedOwn ==
    ASSUME NEW f \in Fd, NEW buf \in Seq(BytesOf(f))
    PROVE  /\ Flushed(buf) \in Seq(BytesOf(f))
           /\ Len(buf) # 1 => Flushed(buf) = buf
  <1>1. ASSUME Len(buf) = 1, buf[1] = Newline
        PROVE  <<Newline, Newline>> \in Seq(BytesOf(f))
    <2>1. Newline \in BytesOf(f)
      BY <1>1, ElementOfSeq
    <2> QED
      BY <2>1
  <1>2. <<>> \in Seq(BytesOf(f))
    BY EmptySeq
  <1> QED
    BY <1>1, <1>2 DEF Flushed

\* What read(2) returns of a file are bytes of it.
LEMMA FoundOwn ==
    ASSUME NEW h, Files(h), NEW f \in Fd, NEW k \in -1 .. Left(h, f)
    PROVE  /\ Found(h, f, k) \in Seq(BytesOf(f))
           /\ Len(Found(h, f, k)) = (IF k > 0 THEN k ELSE 0)
           /\ \A i \in 1 .. k : Found(h, f, k)[i] = h[f].data[h[f].at + i]
  <1> DEFINE data == h[f].data
             at == h[f].at
  <1>1. data \in Seq(BytesOf(f)) /\ at \in 0 .. Len(data) /\ Len(data) \in Nat
        /\ at + Left(h, f) = Len(data) /\ Left(h, f) \in Int
    BY FileIs
  <1> DEFINE left == Left(h, f)
             size == Len(data)
  <1> HIDE DEF data, at
  <1>2. at + 1 \in 1 .. Len(data) + 1 /\ at + k \in at - 1 .. Len(data)
    <2>1. k \in -1 .. left /\ at \in 0 .. size /\ size \in Nat /\ at + left = size /\ left \in Int
      BY <1>1
    <2> HIDE DEF left, size
    <2>2. at + 1 \in 1 .. size + 1 /\ at + k \in at - 1 .. size
      BY <2>1
    <2> QED
      BY <2>2 DEF size
  <1> HIDE DEF left, size
  <1>3. at + 1 \in Int /\ at + k \in Int /\ \A i \in at + 1 .. at + k : data[i] \in BytesOf(f)
    <2>1. \A i \in at + 1 .. at + k : i \in 1 .. Len(data)
      BY <1>1, <1>2
    <2> QED
      BY <1>1, <1>2, <2>1, ElementOfSeq
  <1>4. /\ SubSeq(data, at + 1, at + k) \in Seq(BytesOf(f))
        /\ Len(SubSeq(data, at + 1, at + k)) =
             (IF at + 1 <= at + k THEN (at + k) - (at + 1) + 1 ELSE 0)
        /\ \A i \in 1 .. (at + k) - (at + 1) + 1 : SubSeq(data, at + 1, at + k)[i] = data[at + 1 + i - 1]
    BY <1>3, SubSeqProperties
  <1>5. Found(h, f, k) = SubSeq(data, at + 1, at + k)
    BY DEF Found, data, at
  <1>6. Len(SubSeq(data, at + 1, at + k)) = (IF k > 0 THEN k ELSE 0)
    BY <1>1, <1>4
  <1>7. \A i \in 1 .. k : SubSeq(data, at + 1, at + k)[i] = data[at + i]
    BY <1>1, <1>4
  <1> QED
    BY <1>4, <1>5, <1>6, <1>7 DEF data, at

\* Bytes are read from a file.
LEMMA AdvanceIs ==
    ASSUME NEW h, Files(h), NEW f \in Fd, NEW k \in 0 .. Left(h, f)
    PROVE  /\ Advance(h, f, k) = [h EXCEPT ![f] = File(h[f].open, h[f].data, h[f].at + k)]
           /\ Files(Advance(h, f, k))
  <1>1. /\ h[f] = File(h[f].open, h[f].data, h[f].at)
        /\ h[f].open \in BOOLEAN /\ h[f].data \in Seq(BytesOf(f))
        /\ h[f].at + k \in 0 .. Len(h[f].data)
    BY FileIs
  <1>2. h \in [Fd -> FileState] /\ h[f].at + k \in Nat
    BY <1>1 DEF Files
  <1>3. Advance(h, f, k) = [h EXCEPT ![f] = File(h[f].open, h[f].data, h[f].at + k)]
    <2>1. Advance(h, f, k) = [h EXCEPT ![f] = [h[f] EXCEPT !.at = @ + k]]
      BY <1>2 DEF Advance
    <2>2. [h[f] EXCEPT !.at = @ + k] = File(h[f].open, h[f].data, h[f].at + k)
      BY <1>1 DEF File
    <2> QED
      BY <2>1, <2>2
  <1> DEFINE open == h[f].open
             data == h[f].data
             at   == h[f].at + k
  <1>4. open \in BOOLEAN /\ data \in Seq(BytesOf(f)) /\ at \in 0 .. Len(data)
    BY <1>1
  <1> HIDE DEF open, data, at
  <1>5. Files([h EXCEPT ![f] = File(open, data, at)])
    BY <1>4, FilesExcept
  <1> QED
    BY <1>3, <1>5 DEF open, data, at

\* The file after open(2): open or not, its data as they were.
LEMMA OpenIs ==
    ASSUME NEW h, Files(h), NEW f \in Fd
    PROVE  /\ [h EXCEPT ![f].open = TRUE] = [h EXCEPT ![f] = File(TRUE, h[f].data, h[f].at)]
           /\ Files([h EXCEPT ![f].open = TRUE])
  <1> DEFINE set == TRUE
  <1>0. set \in BOOLEAN
    OBVIOUS
  <1> HIDE DEF set
  <1>1. h[f] = File(h[f].open, h[f].data, h[f].at) /\ h[f].data \in Seq(BytesOf(f))
        /\ h[f].at \in 0 .. Len(h[f].data) /\ h \in [Fd -> FileState]
    BY FileIs DEF Files
  <1>2. [h EXCEPT ![f].open = set] = [h EXCEPT ![f] = [h[f] EXCEPT !.open = set]]
    BY <1>1
  <1>3. [h[f] EXCEPT !.open = set] = File(set, h[f].data, h[f].at)
    BY <1>1 DEF File
  <1> DEFINE data == h[f].data
             at   == h[f].at
  <1>4. data \in Seq(BytesOf(f)) /\ at \in 0 .. Len(data)
    BY <1>1
  <1> HIDE DEF data, at
  <1>5. Files([h EXCEPT ![f] = File(set, data, at)])
    BY <1>0, <1>4, FilesExcept
  <1> QED
    BY <1>2, <1>3, <1>5 DEF set, data, at

\* The file after close(2): closed, its place forgotten, its data as they were.
LEMMA CloseIs ==
    ASSUME NEW h, Files(h), NEW f \in Fd
    PROVE  /\ [h EXCEPT ![f].open = FALSE, ![f].at = 0] = [h EXCEPT ![f] = File(FALSE, h[f].data, 0)]
           /\ [h[f] EXCEPT !.open = FALSE, !.at = 0] = File(FALSE, h[f].data, 0)
           /\ Files([h EXCEPT ![f] = File(FALSE, h[f].data, 0)])
  <1> DEFINE set == FALSE
  <1>0. set \in BOOLEAN
    OBVIOUS
  <1> HIDE DEF set
  <1>1. h[f] = File(h[f].open, h[f].data, h[f].at) /\ h[f].data \in Seq(BytesOf(f))
        /\ Len(h[f].data) \in Nat /\ h \in [Fd -> FileState]
    BY FileIs DEF Files
  <1>2. [h EXCEPT ![f].open = set, ![f].at = 0] =
          [h EXCEPT ![f] = [h[f] EXCEPT !.open = set, !.at = 0]]
    BY <1>1
  <1>3. [h[f] EXCEPT !.open = set] = File(set, h[f].data, h[f].at)
    BY <1>1 DEF File
  <1>4. [h[f] EXCEPT !.open = set, !.at = 0] = [[h[f] EXCEPT !.open = set] EXCEPT !.at = 0]
    BY <1>1
  <1>5. [File(set, h[f].data, h[f].at) EXCEPT !.at = 0] = File(set, h[f].data, 0)
    BY DEF File
  <1> DEFINE data == h[f].data
  <1>6. data \in Seq(BytesOf(f)) /\ 0 \in 0 .. Len(data)
    BY <1>1
  <1> HIDE DEF data
  <1>7. Files([h EXCEPT ![f] = File(set, data, 0)])
    BY <1>0, <1>6, FilesExcept
  <1> QED
    BY <1>2, <1>3, <1>4, <1>5, <1>7 DEF set, data

\* The file after lseek(2): only its place is another.
LEMMA SeekIs ==
    ASSUME NEW h, Files(h), NEW f \in Fd, NEW to \in 0 .. Len(h[f].data)
    PROVE  /\ [h EXCEPT ![f].at = to] = [h EXCEPT ![f] = File(h[f].open, h[f].data, to)]
           /\ Files([h EXCEPT ![f].at = to])
  <1>1. h[f] = File(h[f].open, h[f].data, h[f].at) /\ h[f].data \in Seq(BytesOf(f))
        /\ Len(h[f].data) \in Nat /\ h \in [Fd -> FileState] /\ h[f].open \in BOOLEAN
    BY FileIs DEF Files
  <1>2. [h EXCEPT ![f].at = to] = [h EXCEPT ![f] = [h[f] EXCEPT !.at = to]]
    BY <1>1
  <1>3. [h[f] EXCEPT !.at = to] = File(h[f].open, h[f].data, to)
    BY <1>1 DEF File
  <1> DEFINE open == h[f].open
             data == h[f].data
  <1>4. open \in BOOLEAN /\ data \in Seq(BytesOf(f)) /\ to \in 0 .. Len(data)
    BY <1>1
  <1> HIDE DEF open, data
  <1>5. Files([h EXCEPT ![f] = File(open, data, to)])
    BY <1>4, FilesExcept
  <1> QED
    BY <1>2, <1>3, <1>5 DEF open, data

-----------------------------------------------------------------------------
(* The steps keep the files and the buffers.                               *)

\* What the program writes are bytes of the file it writes to.
LEMMA WrittenOwn ==
    ASSUME NEW f \in Fd, NEW bytes \in Writes[f]
    PROVE  /\ bytes \in Seq(BytesOf(f)) /\ Len(bytes) \in Nat
           /\ Len(bytes) = 1 => bytes[1] \in BytesOf(f) /\ bytes = <<bytes[1]>>
  <1>1. bytes \in Seq(BytesOf(f))
    BY HostFilesAssumption
  <1>2. Len(bytes) \in Nat
    BY <1>1, LenProperties
  <1>3. Len(bytes) = 1 => bytes[1] \in BytesOf(f)
    BY <1>1, ElementOfSeq
  <1> QED
    BY <1>1, <1>2, <1>3

\* A byte is stored behind the descriptor's other bytes, or in an empty buffer.
LEMMA StoredOwn ==
    ASSUME WriteFits, NEW f \in Fd, NEW byte \in BytesOf(f)
    PROVE  /\ Stored(f, byte) \in Seq(BytesOf(f)) /\ Len(Stored(f, byte)) \in 1 .. Size
           /\ Full(f) => Stored(f, byte) = <<byte>>
           /\ ~Full(f) => f = writeFd /\ Stored(f, byte) = Append(writeBuf, byte)
  <1>1. Size \in Nat \ {0, 1}
    BY NewlibAssumption
  <1>2. CASE Full(f)
    BY <1>1, <1>2 DEF Stored
  <1>3. CASE ~Full(f)
    <2>1. f = writeFd /\ Len(writeBuf) # Size /\ writeBuf \in Seq(BytesOf(f))
      BY <1>3 DEF Full, WriteFits
    <2>2. Len(writeBuf) \in Nat
      BY <2>1, LenProperties
    <2>3. Stored(f, byte) = Append(writeBuf, byte)
      BY <1>3 DEF Stored
    <2>4. Append(writeBuf, byte) \in Seq(BytesOf(f))
          /\ Len(Append(writeBuf, byte)) = Len(writeBuf) + 1
      BY <2>1, AppendProperties
    <2> QED
      BY <1>1, <1>3, <2>1, <2>2, <2>3, <2>4 DEF WriteFits
  <1> QED
    BY <1>2, <1>3

\* Nothing is closed or opened.
KeepsOpen == \A g \in Fd : host'[g].open = host[g].open

\* Writing one byte.
LEMMA ByteKeeps ==
    ASSUME Files(host), WriteFits, NEW f \in Fd, NEW byte \in BytesOf(f), WriteByte(f, byte)
    PROVE  Files(host') /\ WriteFits' /\ KeepsOpen
  <1>0. PICK works \in Works : \E h :
          /\ h = IF works /\ Full(f) /\ writeFd \in Fd
                 THEN Put(host, writeFd, Flushed(writeBuf)) ELSE host
          /\ host' = IF works /\ byte = Newline THEN Put(h, f, Flushed(Stored(f, byte))) ELSE h
    BY DEF WriteByte
  <1>1. PICK first :
          /\ first = IF works /\ Full(f) /\ writeFd \in Fd
                     THEN Put(host, writeFd, Flushed(writeBuf)) ELSE host
          /\ host' = IF works /\ byte = Newline
                     THEN Put(first, f, Flushed(Stored(f, byte))) ELSE first
    BY <1>0
  <1>2. Files(first) /\ \A g \in Fd : first[g].open = host[g].open
    <2>1. CASE writeFd \in Fd
      <3>1. writeBuf \in Seq(BytesOf(writeFd))
        BY <2>1 DEF WriteFits
      <3>2. Flushed(writeBuf) \in Seq(BytesOf(writeFd))
        BY <2>1, <3>1, FlushedOwn
      <3> QED
        BY <1>1, <2>1, <3>2, PutIs
    <2>2. CASE writeFd \notin Fd
      BY <1>1, <2>2
    <2> QED
      BY <2>1, <2>2
  <1>3. Stored(f, byte) \in Seq(BytesOf(f)) /\ Len(Stored(f, byte)) <= Size
    BY StoredOwn, NewlibAssumption
  <1>4. Flushed(Stored(f, byte)) \in Seq(BytesOf(f))
    BY <1>3, FlushedOwn
  <1>5. Files(host') /\ KeepsOpen
    BY <1>1, <1>2, <1>4, PutIs DEF KeepsOpen
  <1>6. WriteFits'
    <2>1. writeFd' = f /\ writeBuf' \in {<<>>, Stored(f, byte)}
      BY DEF WriteByte
    <2>2. f # NoFd
      BY NewlibAssumption DEF NoFd
    <2>3. writeBuf' \in Seq(BytesOf(f)) /\ Len(writeBuf') <= Size
      <3>1. <<>> \in Seq(BytesOf(f)) /\ Len(<<>>) <= Size
        BY NewlibAssumption, EmptySeq
      <3> QED
        BY <1>3, <2>1, <3>1, Zenon
    <2> QED
      BY <2>1, <2>2, <2>3 DEF WriteFits
  <1> QED
    BY <1>5, <1>6

\* Writing.
LEMMA WriteKeeps ==
    ASSUME Files(host), WriteFits, NEW f \in Fd, NEW bytes \in Writes[f], Write(f, bytes)
    PROVE  Files(host') /\ WriteFits' /\ KeepsOpen /\ UNCHANGED <<ended, of, readBuffer>>
  <1>1. CASE Len(bytes) = 1
    <2>1. bytes[1] \in BytesOf(f) /\ WriteByte(f, bytes[1])
      BY <1>1, WrittenOwn DEF Write
    <2> QED
      BY <2>1, ByteKeeps DEF WriteByte
  <1>2. CASE Len(bytes) # 1
    <2>1. WriteBlock(f, bytes) /\ bytes \in Seq(BytesOf(f))
      BY <1>2, WrittenOwn DEF Write
    <2>2. host' \in {host, Put(host, f, bytes)} /\ UNCHANGED <<ended, of, writeBuffer, readBuffer>>
      BY <2>1 DEF WriteBlock
    <2>3. Files(host') /\ KeepsOpen
      BY <2>1, <2>2, PutIs DEF KeepsOpen
    <2>4. WriteFits'
      BY <2>2 DEF WriteFits, writeBuffer
    <2> QED
      BY <2>2, <2>3, <2>4
  <1> QED
    BY <1>1, <1>2

\* What a read of the host may give.
LEMMA GivesWhat ==
    ASSUME Files(host), NEW f \in Fd, NEW n \in Nat, NEW k \in Gives(f, n)
    PROVE  /\ k \in -1 .. Left(host, f) /\ k <= n
           /\ habits = {} => k = Least(n, Left(host, f))
  <1>1. Left(host, f) \in Nat
    BY FileIs
  <1> QED
    BY <1>1 DEF Gives, Least

\* A program reads through the buffer: the buffer that is used, how much of it.
LEMMA BufferedIs ==
    ASSUME NEW f \in Fd, NEW n \in Nat, ReadBuffered(f, n)
    PROVE  \E ask, k, from, buf, count :
             /\ ask \in BOOLEAN
             /\ ask <=> readFd = NoFd \/ Refill
             /\ ask => from = 0 /\ k \in Gives(f, Size) /\ buf = Found(host, f, k)
             /\ ~ask => from = readPos /\ k = readEnd /\ buf = readBuf
             /\ count = IF k > from THEN Least(n, k - from) ELSE 0
             /\ host' = IF ask /\ k > 0 THEN Advance(host, f, k) ELSE host
             /\ readFd' = IF readFd = NoFd THEN f ELSE readFd
             /\ readBuf' = buf /\ readEnd' = k /\ readPos' = from + count
             /\ result' = Returned("read", f, n, SubSeq(buf, from + 1, from + count))
  <1> DEFINE ask == readFd = NoFd \/ Refill
             from == IF ask THEN 0 ELSE readPos
             bufOf(k) == IF ask THEN Found(host, f, k) ELSE readBuf
             countOf(k) == IF k > from THEN Least(n, k - from) ELSE 0
  <1>1. PICK k \in IF ask THEN Gives(f, Size) ELSE {readEnd} :
          /\ host' = IF ask /\ k > 0 THEN Advance(host, f, k) ELSE host
          /\ readFd' = (IF readFd = NoFd THEN f ELSE readFd)
          /\ readBuf' = bufOf(k) /\ readEnd' = k /\ readPos' = from + countOf(k)
          /\ result' = Returned("read", f, n, SubSeq(bufOf(k), from + 1, from + countOf(k)))
    BY DEF ReadBuffered
  <1>2. ask \in BOOLEAN
    OBVIOUS
  <1>3. /\ ask <=> readFd = NoFd \/ Refill
        /\ ask => from = 0 /\ k \in Gives(f, Size) /\ bufOf(k) = Found(host, f, k)
        /\ ~ask => from = readPos /\ k = readEnd /\ bufOf(k) = readBuf
        /\ countOf(k) = IF k > from THEN Least(n, k - from) ELSE 0
    BY <1>1
  <1> HIDE DEF ask, from, bufOf, countOf
  <1> QED
    BY <1>1, <1>2, <1>3

\* A part of a read buffer.
LEMMA PartOwn ==
    ASSUME NEW f \in Fd, NEW buf \in Seq(BytesOf(f)), NEW from \in 0 .. Len(buf),
           NEW count \in 0 .. Len(buf) - from
    PROVE  /\ SubSeq(buf, from + 1, from + count) \in Seq(BytesOf(f))
           /\ Len(SubSeq(buf, from + 1, from + count)) = count
           /\ \A i \in 1 .. count : SubSeq(buf, from + 1, from + count)[i] = buf[from + i]
  <1>1. Len(buf) \in Nat
    BY LenProperties
  <1>2. from + 1 \in Int /\ from + count \in Int
        /\ \A i \in from + 1 .. from + count : buf[i] \in BytesOf(f)
    BY <1>1, ElementOfSeq
  <1>3. /\ SubSeq(buf, from + 1, from + count) \in Seq(BytesOf(f))
        /\ Len(SubSeq(buf, from + 1, from + count)) =
             (IF from + 1 <= from + count THEN (from + count) - (from + 1) + 1 ELSE 0)
        /\ \A i \in 1 .. (from + count) - (from + 1) + 1 :
             SubSeq(buf, from + 1, from + count)[i] = buf[from + 1 + i - 1]
    BY <1>2, SubSeqProperties
  <1> QED
    BY <1>1, <1>3

\* What the program is given are bytes of the file it reads.
OwnResult ==
    result.call = "read" /\ result.value # <<"failed">> =>
        result.fd \in Fd /\ result.value \in Seq(BytesOf(result.fd))

\* Reading.
LEMMA ReadKeeps ==
    ASSUME Files(host), ReadFits, NEW f \in Fd, NEW n \in Nat, Read(f, n)
    PROVE  /\ Files(host') /\ ReadFits' /\ OwnResult' /\ KeepsOpen
           /\ readFd' \in {readFd, f} /\ UNCHANGED <<ended, of, writeBuffer>>
  <1>1. UNCHANGED <<ended, of, writeBuffer>>
    BY DEF Read
  <1>2. Size \in Nat \ {0, 1} /\ f # NoFd
    BY NewlibAssumption DEF NoFd
  <1>3. \A k \in 0 .. Left(host, f) : Files(Advance(host, f, k))
          /\ \A g \in Fd : Advance(host, f, k)[g].open = host[g].open
    <2> SUFFICES ASSUME NEW k \in 0 .. Left(host, f)
                 PROVE  Files(Advance(host, f, k))
                        /\ \A g \in Fd : Advance(host, f, k)[g].open = host[g].open
      OBVIOUS
    <2> QED
      BY AdvanceIs DEF Files, File
  <1>4. CASE Buffered(f, n)
    <2>1. ReadBuffered(f, n) /\ readFd \in {NoFd, f}
      BY <1>4 DEF Read, Buffered
    <2>2. PICK ask, k, from, buf, count :
             /\ ask \in BOOLEAN
             /\ ask <=> readFd = NoFd \/ Refill
             /\ ask => from = 0 /\ k \in Gives(f, Size) /\ buf = Found(host, f, k)
             /\ ~ask => from = readPos /\ k = readEnd /\ buf = readBuf
             /\ count = IF k > from THEN Least(n, k - from) ELSE 0
             /\ host' = IF ask /\ k > 0 THEN Advance(host, f, k) ELSE host
             /\ readFd' = IF readFd = NoFd THEN f ELSE readFd
             /\ readBuf' = buf /\ readEnd' = k /\ readPos' = from + count
             /\ result' = Returned("read", f, n, SubSeq(buf, from + 1, from + count))
      BY <2>1, BufferedIs
    <2>3. /\ buf \in Seq(BytesOf(f)) /\ k \in -1 .. Size
          /\ Len(buf) = (IF k > 0 THEN k ELSE 0)
          /\ from \in 0 .. Len(buf)
          /\ ask => k \in -1 .. Left(host, f)
      <3>1. CASE ask
        <4>1. k \in -1 .. Left(host, f) /\ k <= Size
          BY <1>2, <2>2, <3>1, GivesWhat
        <4>2. Left(host, f) \in Nat
          BY FileIs
        <4>3. buf \in Seq(BytesOf(f)) /\ Len(buf) = (IF k > 0 THEN k ELSE 0)
          BY <2>2, <3>1, <4>1, FoundOwn
        <4> QED
          BY <1>2, <2>2, <3>1, <4>1, <4>2, <4>3
      <3>2. CASE ~ask
        <4>1. readFd = f
          BY <2>1, <2>2, <3>2
        <4> QED
          BY <2>2, <3>2, <4>1 DEF ReadFits
      <3> QED
        BY <3>1, <3>2
    <2>4. count \in 0 .. Len(buf) - from
      BY <2>2, <2>3 DEF Least
    <2>5. readFd' = f
      BY <2>1, <2>2
    <2>6. Files(host') /\ KeepsOpen
      <3>1. CASE ask /\ k > 0
        <4>1. k \in 0 .. Left(host, f)
          BY <2>3, <3>1, FileIs
        <4> QED
          BY <1>3, <2>2, <3>1, <4>1 DEF KeepsOpen
      <3>2. CASE ~(ask /\ k > 0)
        BY <2>2, <3>2 DEF KeepsOpen
      <3> QED
        BY <3>1, <3>2
    <2>7. ReadFits'
      <3>1. readPos' \in 0 .. Len(buf) /\ Len(buf) <= Size
        BY <1>2, <2>2, <2>3, <2>4
      <3> QED
        BY <1>2, <2>2, <2>3, <2>5, <3>1 DEF ReadFits
    <2>8. OwnResult'
      <3>1. SubSeq(buf, from + 1, from + count) \in Seq(BytesOf(f))
        BY <2>3, <2>4, PartOwn
      <3> QED
        BY <2>2, <3>1 DEF OwnResult, Returned
    <2> QED
      BY <1>1, <2>5, <2>6, <2>7, <2>8
  <1>5. CASE ~Buffered(f, n)
    <2>1. ReadDirect(f, n)
      BY <1>5 DEF Read
    <2>2. PICK k \in Gives(f, n) :
            /\ host' = IF k > 0 THEN Advance(host, f, k) ELSE host
            /\ result' = Returned("read", f, n, IF k = -1 THEN <<"failed">> ELSE Found(host, f, k))
      BY <2>1 DEF ReadDirect
    <2>3. k \in -1 .. Left(host, f) /\ Left(host, f) \in Nat
      BY GivesWhat, FileIs
    <2>4. Files(host') /\ KeepsOpen
      <3>1. CASE k > 0
        <4>1. k \in 0 .. Left(host, f)
          BY <2>3, <3>1
        <4> QED
          BY <1>3, <2>2, <3>1, <4>1 DEF KeepsOpen
      <3>2. CASE ~(k > 0)
        BY <2>2, <3>2 DEF KeepsOpen
      <3> QED
        BY <3>1, <3>2
    <2>5. OwnResult'
      <3>1. Found(host, f, k) \in Seq(BytesOf(f))
        BY <2>3, FoundOwn
      <3> QED
        BY <2>2, <3>1 DEF OwnResult, Returned
    <2>6. UNCHANGED readBuffer
      BY <2>1 DEF ReadDirect
    <2>7. ReadFits' /\ readFd' = readFd
      BY <2>6 DEF ReadFits, readBuffer
    <2> QED
      BY <1>1, <2>4, <2>5, <2>7
  <1> QED
    BY <1>4, <1>5

\* Closing: the write buffer reaches the file it is for, whatever is closed, and
\* the read buffer goes with its descriptor.
LEMMA CloseKeeps ==
    ASSUME Files(host), WriteFits, ReadFits, NEW f \in Fd, Close(f)
    PROVE  /\ Files(host') /\ WriteFits' /\ ReadFits'
           /\ \A g \in Fd : g # f => host'[g].open = host[g].open
           /\ writeBuf' = <<>> /\ readFd' \in {readFd, NoFd} \ {f}
           /\ UNCHANGED <<ended, of>>
  <1>1. PICK flushed :
          /\ flushed \in {host} \union
               (IF writeBuf # <<>> THEN {Put(host, writeFd, Flushed(writeBuf))} ELSE {})
          /\ host' = [flushed EXCEPT ![f].open = FALSE, ![f].at = 0]
    BY DEF Close
  <1>2. Files(flushed) /\ \A g \in Fd : flushed[g].open = host[g].open
    <2>1. CASE writeBuf # <<>>
      <3>1. writeFd \in Fd /\ writeBuf \in Seq(BytesOf(writeFd))
        BY <2>1 DEF WriteFits
      <3>2. Flushed(writeBuf) \in Seq(BytesOf(writeFd))
        BY <3>1, FlushedOwn
      <3>3. Files(Put(host, writeFd, Flushed(writeBuf)))
            /\ \A g \in Fd : Put(host, writeFd, Flushed(writeBuf))[g].open = host[g].open
        BY <3>1, <3>2, PutIs
      <3> QED
        BY <1>1, <3>3
    <2>2. CASE writeBuf = <<>>
      BY <1>1, <2>2
    <2> QED
      BY <2>1, <2>2
  <1>3. host' = [flushed EXCEPT ![f] = File(FALSE, flushed[f].data, 0)] /\ Files(host')
    BY <1>1, <1>2, CloseIs
  <1>4. \A g \in Fd : g # f => host'[g].open = host[g].open
    BY <1>2, <1>3 DEF Files
  <1>5. f # NoFd /\ Size \in Nat \ {0, 1}
    BY NewlibAssumption DEF NoFd
  <1>6. WriteFits' /\ writeBuf' = <<>>
    <2>1. writeBuf' = <<>> /\ writeFd' \in {writeFd, NoFd}
      BY DEF Close
    <2>2. \A g \in Fd : <<>> \in Seq(BytesOf(g))
      BY EmptySeq
    <2>3. Len(<<>>) <= Size
      BY <1>5, EmptySeq
    <2> QED
      BY <2>1, <2>2, <2>3, Zenon DEF WriteFits
  <1>7. ReadFits' /\ readFd' \in {readFd, NoFd} \ {f}
    <2>1. CASE readFd = f
      <3>1. readFd' = NoFd /\ readPos' = 0 /\ readEnd' = 0 /\ readBuf' = <<>>
        BY <2>1 DEF Close, Cleared
      <3>2. NoFd \notin Fd /\ Len(<<>>) = 0
        BY NewlibAssumption, EmptySeq DEF NoFd
      <3> QED
        BY <1>5, <3>1, <3>2 DEF ReadFits
    <2>2. CASE readFd # f
      BY <2>2 DEF Close, Cleared, readBuffer, ReadFits
    <2> QED
      BY <2>1, <2>2
  <1> QED
    BY <1>3, <1>4, <1>6, <1>7 DEF Close

\* The program ends.
LEMMA EndKeeps ==
    ASSUME Files(host), End
    PROVE  Files(host') /\ ended' = TRUE /\ UNCHANGED <<of, writeBuffer, readBuffer>>
  <1>1. \A f \in Fd : /\ [host[f] EXCEPT !.open = FALSE, !.at = 0] = File(FALSE, host[f].data, 0)
                      /\ Files([host EXCEPT ![f] = File(FALSE, host[f].data, 0)])
    BY CloseIs
  <1>2. host' = [f \in Fd |-> File(FALSE, host[f].data, 0)]
    BY <1>1 DEF End, HostEnd
  <1>3. ASSUME NEW f \in Fd
        PROVE  /\ host'[f] \in FileState /\ host'[f].data \in Seq(BytesOf(f))
               /\ host'[f].at <= Len(host'[f].data)
    <2> DEFINE new == [host EXCEPT ![f] = File(FALSE, host[f].data, 0)]
    <2>1. Files(new) /\ new[f] = File(FALSE, host[f].data, 0)
      BY <1>1 DEF Files
    <2>2. host'[f] = File(FALSE, host[f].data, 0)
      BY <1>2
    <2> HIDE DEF new
    <2> QED
      BY <2>1, <2>2 DEF Files
  <1>4. Files(host')
    BY <1>2, <1>3 DEF Files
  <1> QED
    BY <1>4 DEF End

\* What holds of the files and the buffers together.
Inv == Fits /\ BuffersOpen /\ OwnResult

\* At the start the files are closed, the buffers empty.
LEMMA InvInit == Init => Inv
  <1> SUFFICES ASSUME Init PROVE Inv
    OBVIOUS
  <1>1. Size \in Nat \ {0, 1} /\ NoFd \notin Fd
        /\ \A f \in Fd : Initially[f] \subseteq Seq(BytesOf(f))
    BY NewlibAssumption DEF NoFd
  <1>2. Files(host)
    <2>1. \A f \in Fd : host[f].data \in Seq(BytesOf(f)) /\ host[f].at = 0
      BY <1>1 DEF Init, FileStart
    <2>2. host \in [Fd -> FileState]
      <3>1. ASSUME NEW f \in Fd PROVE host[f] \in FileState
        <4>1. host[f] \in FileStart /\ host[f].data \in Seq(Byte)
          BY <2>1, OwnIsByte DEF Init
        <4> QED
          BY <4>1 DEF FileStart, FileState
      <3> QED
        BY <3>1 DEF Init
    <2>3. ASSUME NEW f \in Fd PROVE 0 <= Len(host[f].data)
      <3>1. Len(host[f].data) \in Nat
        BY <2>1, LenProperties
      <3> QED
        BY <3>1
    <2> QED
      BY <2>1, <2>2, <2>3 DEF Files
  <1>3. WriteFits /\ ReadFits
    BY <1>1, EmptySeq DEF Init, WriteFits, ReadFits
  <1>4. habits \in HabitSets /\ ended = FALSE
    BY DEF Init
  <1>5. BuffersOpen /\ OwnResult
    BY DEF Init, BuffersOpen, OwnResult, Returned
  <1> QED
    BY <1>2, <1>3, <1>4, <1>5 DEF Inv, Fits

\* Every step keeps it.
LEMMA InvNext ==
    ASSUME Inv, [Next]_vars
    PROVE  Inv'
  <1>1. Files(host) /\ WriteFits /\ ReadFits /\ habits \in HabitSets /\ ended \in BOOLEAN
    BY DEF Inv, Fits
  <1>2. CASE UNCHANGED vars
    BY <1>2 DEF vars, Inv, Fits, Files, WriteFits, ReadFits, BuffersOpen, OwnResult
  <1> SUFFICES ASSUME Next PROVE Inv'
    BY <1>2
  <1>3. habits' = habits /\ ~ended
    BY DEF Next
  <1>4. ASSUME NEW f \in Fd, Open(f) PROVE Inv'
    <2>1. host' = [host EXCEPT ![f].open = TRUE] /\ result'.call = "open"
          /\ UNCHANGED <<ended, writeBuffer, readBuffer>>
      BY <1>4 DEF Open, HostOpen, Returned
    <2>2. host' = [host EXCEPT ![f] = File(TRUE, host[f].data, host[f].at)] /\ Files(host')
      BY <1>1, <2>1, OpenIs
    <2>3. \A g \in Fd : host[g].open => host'[g].open
      BY <2>2 DEF Files, File
    <2>4. WriteFits' /\ ReadFits'
      BY <1>1, <2>1 DEF WriteFits, ReadFits, writeBuffer, readBuffer
    <2>5. BuffersOpen'
      BY <1>1, <2>1, <2>3 DEF Inv, BuffersOpen, writeBuffer, readBuffer, WriteFits, ReadFits
    <2> QED
      BY <1>1, <1>3, <2>1, <2>2, <2>4, <2>5 DEF Inv, Fits, OwnResult
  <1>5. ASSUME NEW f \in Fd, NEW to \in {0, Len(host[f].data)}, Seek(f, to) PROVE Inv'
    <2>1. host' = [host EXCEPT ![f].at = to] /\ result'.call = "lseek"
          /\ UNCHANGED <<ended, writeBuffer, readBuffer>>
      BY <1>5 DEF Seek, HostSeek, Returned
    <2>2. host' = [host EXCEPT ![f] = File(host[f].open, host[f].data, to)] /\ Files(host')
      <3>1. to \in 0 .. Len(host[f].data)
        BY <1>1, <1>5, FileIs
      <3>2. /\ [host EXCEPT ![f].at = to] = [host EXCEPT ![f] = File(host[f].open, host[f].data, to)]
            /\ Files([host EXCEPT ![f].at = to])
        BY <1>1, <3>1, SeekIs, Zenon
      <3> QED
        BY <2>1, <3>2
    <2>3. \A g \in Fd : host[g].open = host'[g].open
      BY <1>1, <2>2 DEF Files, File
    <2>4. WriteFits' /\ ReadFits'
      BY <1>1, <2>1 DEF WriteFits, ReadFits, writeBuffer, readBuffer
    <2>5. BuffersOpen'
      BY <1>1, <2>1, <2>3 DEF Inv, BuffersOpen, writeBuffer, readBuffer, WriteFits, ReadFits
    <2> QED
      BY <1>1, <1>3, <2>1, <2>2, <2>4, <2>5 DEF Inv, Fits, OwnResult
  <1>6. ASSUME NEW f \in Fd, NEW bytes \in Writes[f], Write(f, bytes) PROVE Inv'
    <2>1. Files(host') /\ WriteFits' /\ KeepsOpen /\ UNCHANGED <<ended, of, readBuffer>>
      BY <1>1, <1>6, WriteKeeps
    <2>2. result'.call = "write" /\ (writeFd' \in {f, writeFd})
          /\ (writeFd' = writeFd => writeFd = f \/ UNCHANGED writeBuf) /\ host[f].open
      BY <1>6 DEF Write, WriteByte, WriteBlock, Returned, writeBuffer
    <2>3. ReadFits'
      BY <1>1, <2>1 DEF ReadFits, readBuffer
    <2>4. BuffersOpen'
      BY <1>1, <2>1, <2>2 DEF Inv, BuffersOpen, readBuffer, WriteFits, ReadFits, KeepsOpen
    <2> QED
      BY <1>1, <1>3, <2>1, <2>2, <2>3, <2>4 DEF Inv, Fits, OwnResult
  <1>7. ASSUME NEW f \in Fd, NEW n \in 0 .. MaxCount, Read(f, n) PROVE Inv'
    <2>1. n \in Nat
      BY HostFilesAssumption
    <2>2. /\ Files(host') /\ ReadFits' /\ OwnResult' /\ KeepsOpen
          /\ readFd' \in {readFd, f} /\ UNCHANGED <<ended, of, writeBuffer>>
      BY <1>1, <1>7, <2>1, ReadKeeps
    <2>3. host[f].open
      BY <1>7 DEF Read
    <2>4. WriteFits'
      BY <1>1, <2>2 DEF WriteFits, writeBuffer
    <2>5. BuffersOpen'
      BY <1>1, <2>2, <2>3 DEF Inv, BuffersOpen, writeBuffer, WriteFits, ReadFits, KeepsOpen
    <2> QED
      BY <1>1, <1>3, <2>2, <2>4, <2>5 DEF Inv, Fits
  <1>8. ASSUME NEW f \in Fd, Close(f) PROVE Inv'
    <2>1. /\ Files(host') /\ WriteFits' /\ ReadFits'
          /\ \A g \in Fd : g # f => host'[g].open = host[g].open
          /\ writeBuf' = <<>> /\ readFd' \in {readFd, NoFd} \ {f}
          /\ UNCHANGED <<ended, of>>
      BY <1>1, <1>8, CloseKeeps
    <2>2. result'.call = "close"
      BY <1>8 DEF Close, Returned
    <2>3. BuffersOpen'
      BY <1>1, <2>1 DEF Inv, BuffersOpen, ReadFits
    <2> QED
      BY <1>1, <1>3, <2>1, <2>2, <2>3 DEF Inv, Fits, OwnResult
  <1>9. CASE End
    <2>1. Files(host') /\ ended' = TRUE /\ UNCHANGED <<of, writeBuffer, readBuffer>>
      BY <1>1, <1>9, EndKeeps
    <2>2. result'.call = "end"
      BY <1>9 DEF End, HostEnd, Returned
    <2>3. WriteFits' /\ ReadFits'
      BY <1>1, <2>1 DEF WriteFits, ReadFits, writeBuffer, readBuffer
    <2> QED
      BY <1>1, <1>3, <2>1, <2>2, <2>3 DEF Inv, Fits, OwnResult, BuffersOpen
  <1> QED
    BY <1>4, <1>5, <1>6, <1>7, <1>8, <1>9 DEF Next

\* The files and the buffers are always as they should be.
LEMMA Invariant == Spec => []Inv
  <1> QED
    BY InvInit, InvNext, PTL DEF Spec

\* The state has its shape: no buffer holds more than its size, nor bytes of
\* another file, and a descriptor is one of the program's or none.
THEOREM NewlibType == Spec => []TypeOK
  <1>1. Inv => TypeOK
    <2> SUFFICES ASSUME Inv PROVE TypeOK
      OBVIOUS
    <2>1. Files(host) /\ WriteFits /\ ReadFits /\ habits \in HabitSets /\ ended \in BOOLEAN
      BY DEF Inv, Fits
    <2>2. \A f \in Fd : host[f] \in FileState
      BY <2>1 DEF Files
    <2>3. <<>> \in Seq(Byte)
      BY EmptySeq
    <2>4. writeBuf \in Seq(Byte)
      BY <2>1, <2>3, OwnIsByte DEF WriteFits
    <2>5. readBuf \in Seq(Byte)
      BY <2>1, <2>3, OwnIsByte DEF ReadFits
    <2> QED
      BY <2>1, <2>2, <2>4, <2>5 DEF WriteFits, ReadFits, TypeOK
  <1> QED
    BY <1>1, Invariant, PTL

\* A byte the program writes reaches its own file and no other, and what it reads
\* comes from the file that it reads, whatever it does in between and whichever
\* calls the host fails (mw_newlib_syscalls.c 101-187 and 229-272).
THEOREM BytesAreOwn == Spec => []OwnBytes
  <1>1. Inv => OwnBytes
    <2> SUFFICES ASSUME Inv PROVE OwnBytes
      OBVIOUS
    <2>1. ASSUME NEW f \in Fd, NEW i \in 1 .. Len(host[f].data)
          PROVE  host[f].data[i] \in BytesOf(f)
      <3>1. host[f].data \in Seq(BytesOf(f))
        BY DEF Inv, Fits, Files
      <3> QED
        BY <3>1, ElementOfSeq
    <2>2. ASSUME result.call = "read", result.value # <<"failed">>,
                 NEW i \in 1 .. Len(result.value)
          PROVE  result.value[i] \in BytesOf(result.fd)
      <3>1. result.value \in Seq(BytesOf(result.fd))
        BY <2>2 DEF Inv, OwnResult
      <3> QED
        BY <3>1, ElementOfSeq
    <2> QED
      BY <2>1, <2>2 DEF OwnBytes
  <1> QED
    BY <1>1, Invariant, PTL

\* A closed descriptor has no buffer: the next file to get its number starts
\* afresh (mw_newlib_syscalls.c 203-217).
THEOREM NoBufferIsLeft == Spec => []BuffersOpen
  <1>1. Inv => BuffersOpen
    BY DEF Inv
  <1> QED
    BY <1>1, Invariant, PTL

-----------------------------------------------------------------------------
(* The flags of open.                                                      *)

\* Names that share bits on the target are one flag, which has its bits on the
\* host; what the target has no bits for has none on the host.
FlagsApart ==
    /\ \A m, n \in DOMAIN TargetBits :
         TargetBits[m] \intersect TargetBits[n] # {} => HostBits[m] = HostBits[n]
    /\ \A n \in DOMAIN TargetBits : TargetBits[n] = {} => HostBits[n] = {}

\* The plugin has the target's bits once it has asked for them.
KnownBits(table, asked) ==
    /\ DOMAIN table = DOMAIN HostBits
    /\ \A n \in DOMAIN HostBits :
         table[n] = IF asked /\ "macros" \notin habits /\ n \in DOMAIN TargetBits
                    THEN TargetBits[n] ELSE HostBits[n]
FlagsKnown == of.inited \in BOOLEAN /\ KnownBits(of.bits, of.inited)

\* Asking for them.
LEMMA LoadedIs ==
    ASSUME FlagsKnown
    PROVE  loaded.inited = TRUE /\ KnownBits(loaded.bits, TRUE)
  <1>1. CASE of.inited
    BY <1>1 DEF loaded, FlagsKnown, KnownBits
  <1>2. CASE ~of.inited
    <2>1. DOMAIN of.bits = DOMAIN HostBits /\ \A n \in DOMAIN HostBits : of.bits[n] = HostBits[n]
      BY <1>2 DEF FlagsKnown, KnownBits
    <2> DEFINE asked == [n \in DOMAIN HostBits |->
                           IF "macros" \notin habits /\ n \in DOMAIN TargetBits
                           THEN TargetBits[n] ELSE HostBits[n]]
    <2>2. loaded.inited = TRUE /\ loaded.bits = asked
      BY <1>2, <2>1 DEF loaded
    <2> QED
      BY <2>2 DEF KnownBits
  <1> QED
    BY <1>1, <1>2

\* What reaches the host of what the program asks for.
LEMMA FlagsReach ==
    ASSUME FlagsApart, "macros" \notin habits, FlagsKnown, NEW f \in Fd, Open(f)
    PROVE  OpenedAsAsked'
  <1> DEFINE in    == Bits(TargetBits, Opens[f])
             given == {n \in DOMAIN HostBits : loaded.bits[n] \intersect in # {}}
  <1>1. Opens[f] \subseteq DOMAIN TargetBits /\ DOMAIN TargetBits \subseteq DOMAIN HostBits
    BY NewlibAssumption
  <1>2. /\ \A n \in DOMAIN TargetBits : loaded.bits[n] = TargetBits[n]
        /\ DOMAIN loaded.bits = DOMAIN HostBits
    BY <1>1, LoadedIs DEF KnownBits
  <1>3. result' = Returned("open", f, 0, Bits(HostBits, given))
    BY DEF Open, HostOpen, get_flags
  <1>4. ASSUME NEW n \in Opens[f], NEW bit \in HostBits[n]
        PROVE  bit \in Bits(HostBits, given)
    <2>1. TargetBits[n] # {} /\ TargetBits[n] \subseteq in
      BY <1>1, <1>4 DEF FlagsApart, Bits
    <2>2. n \in given
      BY <1>1, <1>2, <2>1
    <2> QED
      BY <2>2 DEF Bits
  <1>5. ASSUME NEW n \in given, n \in DOMAIN TargetBits
        PROVE  \E o \in Opens[f] : HostBits[n] = HostBits[o]
    <2>1. PICK bit \in TargetBits[n] : bit \in in
      BY <1>2, <1>5
    <2>2. PICK o \in Opens[f] : bit \in TargetBits[o]
      BY <2>1 DEF Bits
    <2> QED
      BY <1>1, <1>5, <2>1, <2>2 DEF FlagsApart
  <1>6. Bits(HostBits, given) \subseteq
          Bits(HostBits, Opens[f] \union (DOMAIN HostBits \ DOMAIN TargetBits))
    <2> SUFFICES ASSUME NEW n \in given, NEW bit \in HostBits[n]
                 PROVE  bit \in Bits(HostBits, Opens[f] \union (DOMAIN HostBits \ DOMAIN TargetBits))
      BY DEF Bits
    <2>1. CASE n \in DOMAIN TargetBits
      BY <1>5, <2>1 DEF Bits
    <2>2. CASE n \notin DOMAIN TargetBits
      BY <2>2 DEF Bits
    <2> QED
      BY <2>1, <2>2
  <1>7. result'.call = "open" /\ result'.fd = f /\ result'.value = Bits(HostBits, given)
    BY <1>3 DEF Returned
  <1>8. Bits(HostBits, Opens[f]) \subseteq Bits(HostBits, given)
    BY <1>4 DEF Bits
  <1> HIDE DEF given
  <1> QED
    BY <1>6, <1>7, <1>8 DEF OpenedAsAsked

\* What the program asks for when it opens a file reaches the host, and of the
\* target's other names nothing else does, at the first open and at every later
\* one (mw-newlib.cpp 86-150 and 360).
THEOREM FlagsAsAsked ==
    ASSUME FlagsApart
    PROVE  Spec => []OpenedAsAsked
  <1> DEFINE Known == FlagsKnown /\ OpenedAsAsked
  <1>1. Init => Known
    <2> SUFFICES ASSUME Init PROVE Known
      OBVIOUS
    <2>1. of = [inited |-> FALSE, bits |-> HostBits] /\ result.call = "start"
      BY DEF Init, Returned
    <2> QED
      BY <2>1 DEF FlagsKnown, KnownBits, OpenedAsAsked
  <1>2. Known /\ [Next]_vars => Known'
    <2> SUFFICES ASSUME Known, [Next]_vars PROVE Known'
      OBVIOUS
    <2>1. habits' = habits
      BY DEF Next, vars
    <2>2. ASSUME NEW f \in Fd, Open(f) PROVE Known'
      <3>1. FlagsKnown'
        <4>1. of' = loaded
          BY <2>2 DEF Open
        <4> QED
          BY <2>1, <4>1, LoadedIs DEF FlagsKnown, KnownBits
      <3>2. CASE "macros" \notin habits
        BY <2>2, <3>1, <3>2, FlagsReach
      <3>3. CASE "macros" \in habits
        BY <2>1, <3>1, <3>3 DEF OpenedAsAsked
      <3> QED
        BY <3>2, <3>3
    <2>3. CASE UNCHANGED of /\ (UNCHANGED result \/ result'.call # "open")
      <3>1. FlagsKnown'
        BY <2>1, <2>3 DEF FlagsKnown, KnownBits
      <3>2. OpenedAsAsked'
        BY <2>1, <2>3, Zenon DEF OpenedAsAsked
      <3> QED
        BY <3>1, <3>2
    <2>4. CASE UNCHANGED vars
      BY <2>3, <2>4 DEF vars
    <2>5. ASSUME NEW f \in Fd, NEW bytes \in Writes[f], Write(f, bytes) PROVE Known'
      BY <2>3, <2>5 DEF Write, WriteByte, WriteBlock, Returned
    <2>6. ASSUME NEW f \in Fd, NEW n \in 0 .. MaxCount, Read(f, n) PROVE Known'
      BY <2>3, <2>6 DEF Read, ReadBuffered, ReadDirect, Returned
    <2>7. ASSUME NEW f \in Fd, Close(f) PROVE Known'
      BY <2>3, <2>7 DEF Close, Returned
    <2>8. ASSUME NEW f \in Fd, NEW to, Seek(f, to) PROVE Known'
      BY <2>3, <2>8 DEF Seek, HostSeek, Returned
    <2>9. CASE End
      BY <2>3, <2>9 DEF End, HostEnd, Returned
    <2> HIDE DEF Known
    <2> QED
      BY <2>2, <2>4, <2>5, <2>6, <2>7, <2>8, <2>9 DEF Next
  <1> QED
    BY <1>1, <1>2, PTL DEF Spec

-----------------------------------------------------------------------------
(* The program sees the files of the host.                                 *)

\* The operators of the abstract specification are those of the detailed one.
LEMMA SameOperators ==
    /\ \A h, f, bytes : AsOnHost!Put(h, f, bytes) = Put(h, f, bytes)
    /\ \A h, f, n : AsOnHost!Found(h, f, n) = Found(h, f, n)
    /\ \A h, f, n : AsOnHost!Advance(h, f, n) = Advance(h, f, n)
    /\ \A h, f : AsOnHost!Left(h, f) = Left(h, f)
    /\ \A m, n : AsOnHost!Least(m, n) = Least(m, n)
    /\ \A c, f, a, v : AsOnHost!Returned(c, f, a, v) = Returned(c, f, a, v)
  BY DEF AsOnHost!Put, AsOnHost!Overlay, AsOnHost!Found, AsOnHost!Advance, AsOnHost!Left,
         AsOnHost!Least, AsOnHost!Returned, Put, Overlay, Found, Advance, Left, Least, Returned

\* A file with bytes that are still to be written, and bytes read ahead.
View(x, bytes, ahead) ==
    File(x.open, Overlay(x.data, x.at, bytes), x.at + Len(bytes) - ahead)

\* With nothing to be written and nothing read ahead it is the file; once the
\* bytes are written it is seen as before.
LEMMA ViewWritten ==
    ASSUME NEW h, Files(h), NEW f \in Fd, NEW bytes \in Seq(BytesOf(f)), NEW ahead \in Int
    PROVE  /\ View(h[f], <<>>, 0) = h[f]
           /\ View(Put(h, f, bytes)[f], <<>>, ahead) = View(h[f], bytes, ahead)
  <1> DEFINE x == Put(h, f, bytes)[f]
  <1>1. Files(Put(h, f, bytes)) /\ h \in [Fd -> FileState]
    BY PutIs DEF Files
  <1>2. x = File(h[f].open, Overlay(h[f].data, h[f].at, bytes), h[f].at + Len(bytes))
    BY <1>1, PutIs
  <1>3. /\ x.open = h[f].open /\ x.data = Overlay(h[f].data, h[f].at, bytes)
        /\ x.at = h[f].at + Len(bytes)
    BY <1>2 DEF File
  <1>4. x.data \in Seq(BytesOf(f)) /\ x.at \in 0 .. Len(x.data)
    BY <1>1, FileIs
  <1>5. Len(bytes) \in Nat /\ Len(<<>>) = 0 /\ h[f].at \in Nat
    BY FileIs, LenProperties, EmptySeq
  <1> HIDE DEF x
  <1>6. Overlay(x.data, x.at, <<>>) = x.data
    BY <1>4, OverlayNothing
  <1>7. View(x, <<>>, ahead) = View(h[f], bytes, ahead)
    BY <1>3, <1>4, <1>5, <1>6 DEF View
  <1>8. /\ h[f].data \in Seq(BytesOf(f)) /\ h[f].at \in 0 .. Len(h[f].data)
        /\ h[f] = File(h[f].open, h[f].data, h[f].at)
    BY FileIs
  <1>9. Overlay(h[f].data, h[f].at, <<>>) = h[f].data
    BY <1>8, OverlayNothing
  <1>10. View(h[f], <<>>, 0) = h[f]
    BY <1>5, <1>8, <1>9 DEF View
  <1> QED
    BY <1>7, <1>10 DEF x

\* What the program sees, before and after a step.
LEMMA SeenIs ==
    ASSUME Inv, ~ended
    PROVE  /\ Seen = [g \in Fd |-> View(host[g], Pending(g), Ahead(g))]
           /\ \A g \in Fd : Pending(g) \in Seq(BytesOf(g))
  <1>1. Files(host) /\ WriteFits
    BY DEF Inv, Fits
  <1>2. \A g \in Fd : <<>> \in Seq(BytesOf(g))
    BY EmptySeq
  <1>3. \A g \in Fd : Pending(g) \in Seq(BytesOf(g))
    BY <1>1, <1>2 DEF Pending, WriteFits
  <1> QED
    BY <1>3 DEF Seen, View, File

\* What the program sees after a step.
LEMMA SeenNext ==
    ASSUME ~ended'
    PROVE  Seen' = [g \in Fd |-> View(host'[g], Pending(g)', Ahead(g)')]
  BY DEF Seen, View, File

\* What is read ahead of a file.
LEMMA AheadIs ==
    ASSUME Inv, Mirrors, habits = {}, ~ended, NEW f \in Fd
    PROVE  /\ Ahead(f) \in 0 .. host[f].at
           /\ readFd # f => Ahead(f) = 0
           /\ readFd = f => Ahead(f) = readEnd - readPos /\ readEnd \in 0 .. Size
                            /\ readPos \in 0 .. readEnd /\ Pending(f) = <<>>
  <1>1. ReadFits /\ Files(host) /\ host[f].at \in Nat
    BY FileIs DEF Inv, Fits
  <1>2. CASE readFd # f
    BY <1>1, <1>2 DEF Ahead
  <1>3. CASE readFd = f
    <2>1. readEnd \in 0 .. host[f].at /\ Pending(f) = <<>>
      BY <1>3 DEF Mirrors
    <2>2. readPos \in 0 .. readEnd /\ readEnd \in 0 .. Size
      BY <1>1, <2>1 DEF ReadFits
    <2> QED
      BY <1>1, <1>3, <2>1, <2>2 DEF Ahead
  <1> QED
    BY <1>2, <1>3

\* What the program sees are files.
LEMMA SeenFiles ==
    ASSUME Inv, Mirrors, habits = {}, ~ended
    PROVE  Files(Seen)
  <1>1. /\ Seen = [g \in Fd |-> View(host[g], Pending(g), Ahead(g))]
        /\ \A g \in Fd : Pending(g) \in Seq(BytesOf(g))
        /\ Files(host)
    BY SeenIs DEF Inv, Fits
  <1>2. ASSUME NEW g \in Fd
        PROVE  /\ Seen[g] \in FileState /\ Seen[g].data \in Seq(BytesOf(g))
               /\ Seen[g].at <= Len(Seen[g].data)
    <2> DEFINE old  == host[g].data
               from == host[g].at
               more == Pending(g)
               data == Overlay(old, from, more)
               ahead == Ahead(g)
    <2>1. /\ old \in Seq(BytesOf(g)) /\ from \in 0 .. Len(old) /\ Len(old) \in Nat
          /\ host[g].open \in BOOLEAN
      BY <1>1, FileIs
    <2>2. more \in Seq(BytesOf(g)) /\ Len(more) \in Nat
      BY <1>1, LenProperties
    <2>3. ahead \in 0 .. from
      BY AheadIs
    <2>4. Seen[g] = File(host[g].open, data, from + Len(more) - ahead)
      BY <1>1 DEF View
    <2> HIDE DEF old, from, more, ahead
    <2>5. data \in Seq(BytesOf(g))
          /\ Len(data) = IF from + Len(more) > Len(old) THEN from + Len(more) ELSE Len(old)
      BY <2>1, <2>2, OverlayProperties
    <2> HIDE DEF data
    <2>6. from + Len(more) - ahead \in 0 .. Len(data)
      BY <2>1, <2>2, <2>3, <2>5
    <2>7. data \in Seq(Byte) /\ from + Len(more) - ahead \in Nat
      BY <2>5, <2>6, OwnIsByte
    <2> QED
      BY <2>1, <2>4, <2>5, <2>6, <2>7 DEF File, FileState
  <1> QED
    BY <1>1, <1>2 DEF Files

\* The program sees one file replaced.
LEMMA SeenExcept ==
    ASSUME Inv, ~ended, ~ended', NEW f \in Fd, NEW x,
           \A g \in Fd : View(host'[g], Pending(g)', Ahead(g)') =
                           IF g = f THEN x ELSE View(host[g], Pending(g), Ahead(g))
    PROVE  Seen' = [Seen EXCEPT ![f] = x]
  <1>1. Seen = [g \in Fd |-> View(host[g], Pending(g), Ahead(g))]
    BY SeenIs
  <1>2. Seen' = [g \in Fd |-> View(host'[g], Pending(g)', Ahead(g)')]
    BY SeenNext
  <1> QED
    BY <1>1, <1>2

\* How a byte is written by a program without habits: it is stored, or written
\* with the line it ends, or the buffer is flushed for it first.
LEMMA ByteCases ==
    ASSUME Inv, habits = {}, NEW f \in Fd, NEW byte \in BytesOf(f), WriteByte(f, byte)
    PROVE  /\ readFd # f /\ writeFd' = f /\ UNCHANGED readBuffer
           /\ \/ /\ f = writeFd /\ writeBuf' = Append(writeBuf, byte) /\ host' = host
              \/ /\ f = writeFd /\ writeBuf' = <<>>
                 /\ host' = Put(host, f, Append(writeBuf, byte))
              \/ /\ writeBuf' = <<byte>>
                 /\ host' = IF writeFd \in Fd THEN Put(host, writeFd, writeBuf) ELSE host
  <1>1. WriteFits
    BY DEF Inv, Fits
  <1>2. readFd # f /\ writeFd' = f /\ UNCHANGED readBuffer
    BY DEF WriteByte
  <1>3. /\ Full(f) => Len(writeBuf) # 1
        /\ byte = Newline => Len(Stored(f, byte)) # 1
    BY DEF WriteByte, LoneFits
  <1>4. PICK first :
          /\ first = IF Full(f) /\ writeFd \in Fd
                     THEN Put(host, writeFd, Flushed(writeBuf)) ELSE host
          /\ host' = IF byte = Newline THEN Put(first, f, Flushed(Stored(f, byte))) ELSE first
    BY DEF WriteByte, Works
  <1>5. writeBuf' = IF byte = Newline THEN <<>> ELSE Stored(f, byte)
    BY DEF WriteByte
  <1>6. CASE Full(f)
    <2>1. Stored(f, byte) = <<byte>> /\ byte # Newline
      BY <1>1, <1>3, <1>6, StoredOwn
    <2>2. writeFd \in Fd => Flushed(writeBuf) = writeBuf
      BY <1>1, <1>3, <1>6, FlushedOwn DEF WriteFits
    <2> QED
      BY <1>2, <1>4, <1>5, <1>6, <2>1, <2>2
  <1>7. CASE ~Full(f)
    <2>1. f = writeFd /\ Stored(f, byte) = Append(writeBuf, byte)
          /\ Stored(f, byte) \in Seq(BytesOf(f))
      BY <1>1, <1>7, StoredOwn
    <2>2. byte = Newline => Flushed(Stored(f, byte)) = Stored(f, byte)
      BY <1>3, <2>1, FlushedOwn
    <2> QED
      BY <1>2, <1>4, <1>5, <1>7, <2>1, <2>2
  <1> QED
    BY <1>6, <1>7

\* Of the files other than the one written to, the program sees no change: what
\* is flushed had been seen written.
LEMMA OthersSeen ==
    ASSUME Inv, habits = {}, NEW f \in Fd, NEW byte \in BytesOf(f), WriteByte(f, byte),
           NEW g \in Fd, g # f, Ahead(g) \in Int
    PROVE  View(host'[g], Pending(g)', Ahead(g)') = View(host[g], Pending(g), Ahead(g))
  <1>1. Files(host) /\ WriteFits /\ \A h \in Fd : Files(Put(host, h, <<>>))
    BY PutIs, EmptySeq DEF Inv, Fits
  <1>2. UNCHANGED readBuffer /\ writeFd' = f
    BY ByteCases
  <1>3. Ahead(g)' = Ahead(g) /\ Pending(g)' = <<>>
    BY <1>2 DEF Ahead, Pending, readBuffer
  <1>4. ASSUME NEW h \in Fd, NEW bytes \in Seq(BytesOf(h)), h # g
        PROVE  Put(host, h, bytes)[g] = host[g]
    <2>1. Put(host, h, bytes) =
            [host EXCEPT ![h] = File(host[h].open, Overlay(host[h].data, host[h].at, bytes),
                                     host[h].at + Len(bytes))]
      BY <1>1, PutIs
    <2> QED
      BY <1>1, <1>4, <2>1 DEF Files
  <1>5. CASE f = writeFd /\ host' = host
    BY <1>3, <1>5 DEF Pending
  <1>6. CASE f = writeFd /\ host' = Put(host, f, Append(writeBuf, byte))
    <2>1. Append(writeBuf, byte) \in Seq(BytesOf(f))
      BY <1>1, <1>6, AppendProperties DEF WriteFits
    <2>2. host'[g] = host[g] /\ Pending(g) = <<>>
      BY <1>4, <1>6, <2>1 DEF Pending
    <2> QED
      BY <1>3, <2>2
  <1>7. CASE host' = IF writeFd \in Fd THEN Put(host, writeFd, writeBuf) ELSE host
    <2>1. CASE writeFd = g
      <3>1. writeBuf \in Seq(BytesOf(g)) /\ Pending(g) = writeBuf
            /\ host' = Put(host, g, writeBuf)
        BY <1>1, <1>7, <2>1 DEF WriteFits, Pending
      <3> QED
        BY <1>1, <1>3, <3>1, ViewWritten
    <2>2. CASE writeFd \in Fd /\ writeFd # g
      <3>1. writeBuf \in Seq(BytesOf(writeFd)) /\ Pending(g) = <<>>
        BY <1>1, <2>2 DEF WriteFits, Pending
      <3> QED
        BY <1>3, <1>4, <1>7, <2>2, <3>1
    <2>3. CASE writeFd \notin Fd
      BY <1>3, <1>7, <2>3 DEF Pending
    <2> QED
      BY <2>1, <2>2, <2>3
  <1> QED
    BY <1>5, <1>6, <1>7, ByteCases

\* A byte the program writes is seen written.
LEMMA SeenByte ==
    ASSUME Inv, Mirrors, habits = {}, ~ended, ~ended', NEW f \in Fd, NEW byte \in BytesOf(f),
           WriteByte(f, byte)
    PROVE  Seen' = Put(Seen, f, <<byte>>)
  <1> DEFINE old  == host[f].data
             from == host[f].at
             more == Pending(f)
             open == host[f].open
             x == File(open, Overlay(Overlay(old, from, more), from + Len(more), <<byte>>),
                       from + Len(more) + 1)
  <1>1. Files(host) /\ WriteFits
    BY DEF Inv, Fits
  <1>2. /\ old \in Seq(BytesOf(f)) /\ from \in 0 .. Len(old) /\ Len(old) \in Nat
        /\ host[f] = File(open, old, from)
    BY <1>1, FileIs
  <1>3. more \in Seq(BytesOf(f)) /\ Len(more) \in Nat
    BY SeenIs, LenProperties
  <1>4. Ahead(f) = 0 /\ Ahead(f)' = 0
    <2>1. readFd # f /\ UNCHANGED readBuffer
      BY ByteCases
    <2> QED
      BY <2>1 DEF Ahead, readBuffer
  <1>5. <<byte>> \in Seq(BytesOf(f)) /\ Len(<<byte>>) = 1
    OBVIOUS
  <1>6. View(host'[f], Pending(f)', Ahead(f)') = x
    <2> DEFINE both == Append(more, byte)
    <2>1. /\ both \in Seq(BytesOf(f)) /\ Len(both) = Len(more) + 1
          /\ Overlay(Overlay(old, from, more), from + Len(more), <<byte>>) = Overlay(old, from, both)
      BY <1>2, <1>3, AppendProperties, OverlayAppend
    <2>2. View(host[f], both, 0) = x
      <3>1. from + Len(both) - 0 = from + Len(more) + 1
        BY <1>2, <1>3, <2>1, SMTT(20)
      <3> HIDE DEF both, more
      <3> QED
        BY <2>1, <3>1 DEF View
    <2>3. CASE f = writeFd /\ writeFd' = f /\ writeBuf' = Append(writeBuf, byte) /\ host' = host
      BY <1>4, <2>2, <2>3 DEF Pending
    <2>4. CASE f = writeFd /\ writeFd' = f /\ writeBuf' = <<>>
               /\ host' = Put(host, f, Append(writeBuf, byte))
      <3>1. host'[f] = Put(host, f, both)[f] /\ Pending(f)' = <<>>
        BY <2>4 DEF Pending
      <3>2. View(Put(host, f, both)[f], <<>>, 0) = View(host[f], both, 0)
        <4>1. both \in Seq(BytesOf(f)) /\ 0 \in Int
          BY <2>1
        <4> HIDE DEF both
        <4> QED
          BY <1>1, <4>1, ViewWritten
      <3> QED
        BY <1>4, <2>2, <3>1, <3>2
    <2>5. CASE writeFd' = f /\ writeBuf' = <<byte>>
               /\ host' = IF writeFd \in Fd THEN Put(host, writeFd, writeBuf) ELSE host
      <3>1. Pending(f)' = <<byte>>
        BY <2>5 DEF Pending
      <3>2. host'[f] = File(open, Overlay(old, from, more), from + Len(more))
        <4>1. CASE writeFd = f
          <5>1. more = writeBuf /\ host' = Put(host, f, more)
            BY <2>5, <4>1 DEF Pending
          <5>2. host \in [Fd -> FileState]
            BY <1>1 DEF Files
          <5> QED
            BY <1>1, <1>3, <5>1, <5>2, PutIs
        <4>2. CASE writeFd # f
          <5>1. more = <<>> /\ Len(more) = 0
            BY <4>2, EmptySeq DEF Pending
          <5>2. host'[f] = host[f]
            <6>1. CASE writeFd \in Fd
              <7>1. writeBuf \in Seq(BytesOf(writeFd)) /\ host \in [Fd -> FileState]
                BY <1>1, <6>1 DEF WriteFits, Files
              <7> QED
                BY <1>1, <2>5, <4>2, <6>1, <7>1, PutIs
            <6>2. CASE writeFd \notin Fd
              BY <2>5, <6>2
            <6> QED
              BY <6>1, <6>2
          <5>3. Overlay(old, from, <<>>) = old
            BY <1>2, OverlayNothing
          <5> QED
            BY <1>2, <5>1, <5>2, <5>3
        <4> QED
          BY <4>1, <4>2
      <3> HIDE DEF old, from, more, open
      <3> QED
        BY <1>2, <1>3, <1>4, <1>5, <3>1, <3>2 DEF View, File
    <2> QED
      BY <2>3, <2>4, <2>5, ByteCases
  <1>7. Seen' = [Seen EXCEPT ![f] = x]
    <2>1. \A g \in Fd : Ahead(g) \in Int
      BY AheadIs
    <2> HIDE DEF x
    <2>2. \A g \in Fd : View(host'[g], Pending(g)', Ahead(g)') =
                          IF g = f THEN x ELSE View(host[g], Pending(g), Ahead(g))
      BY <1>6, <2>1, OthersSeen
    <2> QED
      BY <2>2, SeenExcept
  <1>8. Seen[f] = File(open, Overlay(old, from, more), from + Len(more))
    BY <1>2, <1>3, <1>4, SeenIs DEF View
  <1>9. Put(Seen, f, <<byte>>) = [Seen EXCEPT ![f] = x]
    <2>1. Put(Seen, f, <<byte>>) =
            [Seen EXCEPT ![f] = File(Seen[f].open, Overlay(Seen[f].data, Seen[f].at, <<byte>>),
                                     Seen[f].at + Len(<<byte>>))]
      <3> DEFINE one == <<byte>>
      <3>1. one \in Seq(BytesOf(f)) /\ Files(Seen)
        BY <1>5, SeenFiles
      <3> HIDE DEF one
      <3>2. Put(Seen, f, one) =
              [Seen EXCEPT ![f] = File(Seen[f].open, Overlay(Seen[f].data, Seen[f].at, one),
                                       Seen[f].at + Len(one))]
        BY <3>1, PutIs
      <3> QED
        BY <3>2 DEF one
    <2> HIDE DEF old, from, more, open
    <2>2. /\ Seen[f].open = open /\ Seen[f].data = Overlay(old, from, more)
          /\ Seen[f].at = from + Len(more)
      BY <1>8 DEF File
    <2> QED
      BY <1>5, <2>1, <2>2
  <1> QED
    BY <1>7, <1>9

\* Without buffered bytes the program sees the file.
LEMMA SeenPlain ==
    ASSUME Inv, ~ended, NEW f \in Fd, Pending(f) = <<>>, Ahead(f) = 0
    PROVE  Seen[f] = host[f]
  <1>1. Files(host) /\ <<>> \in Seq(BytesOf(f)) /\ 0 \in Int
    BY EmptySeq DEF Inv, Fits
  <1>2. View(host[f], <<>>, 0) = host[f]
    BY <1>1, ViewWritten
  <1> QED
    BY <1>2, SeenIs

\* Of the files a step leaves alone the program sees no change.
LEMMA OthersKept ==
    ASSUME NEW f \in Fd, NEW x, host \in [Fd -> FileState], host' = [host EXCEPT ![f] = x],
           UNCHANGED <<writeBuffer, readBuffer>>
    PROVE  \A g \in Fd : /\ g # f => host'[g] = host[g]
                         /\ Pending(g)' = Pending(g) /\ Ahead(g)' = Ahead(g)
  BY DEF Pending, Ahead, writeBuffer, readBuffer

\* A call of several bytes goes to the host past the buffer, which is empty.
LEMMA SeenBlock ==
    ASSUME Inv, Mirrors, habits = {}, ~ended, ~ended', NEW f \in Fd,
           NEW bytes \in Seq(BytesOf(f)), WriteBlock(f, bytes)
    PROVE  Seen' = Put(Seen, f, bytes) /\ result' = Returned("write", f, bytes, Len(bytes))
  <1>1. /\ Pending(f) = <<>> /\ readFd # f /\ host' = Put(host, f, bytes)
        /\ UNCHANGED <<writeBuffer, readBuffer>>
        /\ result' = Returned("write", f, bytes, Len(bytes))
    BY DEF WriteBlock, MixedFits, Works
  <1>2. Files(host) /\ host \in [Fd -> FileState] /\ Files(Seen)
    BY SeenFiles DEF Inv, Fits, Files
  <1> DEFINE x == File(host[f].open, Overlay(host[f].data, host[f].at, bytes),
                       host[f].at + Len(bytes))
  <1>3. host' = [host EXCEPT ![f] = x] /\ Files(host')
    BY <1>1, <1>2, PutIs
  <1>4. Seen[f] = host[f]
    BY <1>1, AheadIs, SeenPlain
  <1>5. Put(Seen, f, bytes) = [Seen EXCEPT ![f] = x]
    BY <1>2, <1>4, PutIs
  <1> HIDE DEF x
  <1>6. \A g \in Fd : /\ g # f => host'[g] = host[g]
                      /\ Pending(g)' = Pending(g) /\ Ahead(g)' = Ahead(g)
    BY <1>1, <1>2, <1>3, OthersKept
  <1>7. View(host'[f], Pending(f)', Ahead(f)') = x
    <2>1. Pending(f)' = <<>> /\ Ahead(f)' = 0 /\ host'[f] = x
      BY <1>1, <1>2, <1>3, <1>6, AheadIs
    <2>2. <<>> \in Seq(BytesOf(f)) /\ 0 \in Int
      BY EmptySeq
    <2>3. View(host'[f], <<>>, 0) = host'[f]
      BY <1>3, <2>2, ViewWritten
    <2> QED
      BY <2>1, <2>3
  <1>8. Seen' = [Seen EXCEPT ![f] = x]
    BY <1>6, <1>7, SeenExcept
  <1> QED
    BY <1>1, <1>5, <1>8

\* Writing is writing on the host.
LEMMA WriteHidden ==
    ASSUME Inv, Mirrors, habits = {}, ~ended, ~ended', NEW f \in Fd, NEW bytes \in Writes[f],
           Write(f, bytes)
    PROVE  AsOnHost!HostWrite(f, bytes)
  <1>1. host[f].open /\ bytes \in Seq(BytesOf(f))
    BY WrittenOwn DEF Write
  <1>2. Seen[f].open
    BY <1>1, SeenIs DEF View, File
  <1>3. Seen' = Put(Seen, f, bytes) /\ result' = Returned("write", f, bytes, Len(bytes))
    <2>1. CASE Len(bytes) = 1
      <3>1. bytes[1] \in BytesOf(f) /\ bytes = <<bytes[1]>> /\ WriteByte(f, bytes[1])
        BY <2>1, WrittenOwn DEF Write
      <3>2. Seen' = Put(Seen, f, <<bytes[1]>>)
        BY <3>1, SeenByte
      <3>3. result' = Returned("write", f, <<bytes[1]>>, 1)
        BY <3>1 DEF WriteByte
      <3> QED
        BY <2>1, <3>1, <3>2, <3>3
    <2>2. CASE Len(bytes) # 1
      BY <1>1, <2>2, SeenBlock DEF Write
    <2> QED
      BY <2>1, <2>2
  <1> QED
    BY <1>2, <1>3, SameOperators DEF AsOnHost!HostWrite

\* Opening is opening on the host.
LEMMA OpenHidden ==
    ASSUME Inv, Mirrors, habits = {}, ~ended, ~ended', NEW f \in Fd, NEW bits, HostOpen(f, bits),
           UNCHANGED <<writeBuffer, readBuffer>>
    PROVE  AsOnHost!HostOpen(f, bits)
  <1>1. ~host[f].open /\ Files(host) /\ host \in [Fd -> FileState]
        /\ result' = Returned("open", f, 0, bits) /\ host' = [host EXCEPT ![f].open = TRUE]
    BY DEF HostOpen, Inv, Fits, Files
  <1> DEFINE x == File(TRUE, Seen[f].data, Seen[f].at)
             now == File(TRUE, host[f].data, host[f].at)
  <1>2. host' = [host EXCEPT ![f] = now]
    BY <1>1, OpenIs
  <1>3. [Seen EXCEPT ![f].open = TRUE] = [Seen EXCEPT ![f] = x]
    BY SeenFiles, OpenIs
  <1>4. Seen[f] = View(host[f], Pending(f), Ahead(f))
    BY SeenIs
  <1>5. x = View(now, Pending(f), Ahead(f))
    BY <1>4 DEF View, File
  <1>6. ~Seen[f].open
    BY <1>1, <1>4 DEF View, File
  <1> HIDE DEF x, now
  <1>7. \A g \in Fd : /\ g # f => host'[g] = host[g]
                      /\ Pending(g)' = Pending(g) /\ Ahead(g)' = Ahead(g)
    BY <1>1, <1>2, OthersKept
  <1>8. host'[f] = now
    BY <1>1, <1>2
  <1>9. Seen' = [Seen EXCEPT ![f] = x]
    BY <1>5, <1>7, <1>8, SeenExcept
  <1> QED
    BY <1>1, <1>3, <1>6, <1>9, SameOperators DEF AsOnHost!HostOpen

\* Seeking is seeking on the host: there is nothing in the buffers.
LEMMA SeekHidden ==
    ASSUME Inv, Mirrors, habits = {}, ~ended, ~ended', NEW f \in Fd,
           NEW to \in {0, Len(host[f].data)}, Seek(f, to)
    PROVE  AsOnHost!HostSeek(f, to) /\ to \in {0, Len(Seen[f].data)}
  <1>1. /\ Pending(f) = <<>> /\ readFd # f /\ host[f].open
        /\ host' = [host EXCEPT ![f].at = to] /\ result' = Returned("lseek", f, to, to)
        /\ UNCHANGED <<writeBuffer, readBuffer>>
        /\ Files(host) /\ host \in [Fd -> FileState] /\ Files(Seen)
    BY SeenFiles DEF Seek, SeekFits, HostSeek, Inv, Fits, Files
  <1>2. Seen[f] = host[f]
    BY <1>1, AheadIs, SeenPlain
  <1>3. to \in 0 .. Len(host[f].data)
    BY <1>1, FileIs
  <1> DEFINE x == File(host[f].open, host[f].data, to)
  <1>4. host' = [host EXCEPT ![f] = x] /\ Files(host')
    <2>1. /\ [host EXCEPT ![f].at = to] = [host EXCEPT ![f] = x]
          /\ Files([host EXCEPT ![f].at = to])
      BY <1>1, <1>3, SeekIs, Zenon
    <2> QED
      BY <1>1, <2>1
  <1>5. [Seen EXCEPT ![f].at = to] = [Seen EXCEPT ![f] = x]
    <2>1. to \in 0 .. Len(Seen[f].data)
      BY <1>2, <1>3
    <2>2. /\ [Seen EXCEPT ![f].at = to] =
               [Seen EXCEPT ![f] = File(Seen[f].open, Seen[f].data, to)]
          /\ Files([Seen EXCEPT ![f].at = to])
      BY <1>1, <2>1, SeekIs, Zenon
    <2> QED
      BY <1>2, <2>2
  <1> HIDE DEF x
  <1>6. \A g \in Fd : /\ g # f => host'[g] = host[g]
                      /\ Pending(g)' = Pending(g) /\ Ahead(g)' = Ahead(g)
    BY <1>1, <1>4, OthersKept
  <1>7. View(host'[f], Pending(f)', Ahead(f)') = x
    <2>1. Pending(f)' = <<>> /\ Ahead(f)' = 0 /\ host'[f] = x
      BY <1>1, <1>4, <1>6, AheadIs
    <2>2. <<>> \in Seq(BytesOf(f)) /\ 0 \in Int
      BY EmptySeq
    <2>3. View(host'[f], <<>>, 0) = host'[f]
      BY <1>4, <2>2, ViewWritten
    <2> QED
      BY <2>1, <2>3
  <1>8. Seen' = [Seen EXCEPT ![f] = x]
    BY <1>6, <1>7, SeenExcept
  <1> QED
    BY <1>1, <1>2, <1>5, <1>8, SameOperators DEF AsOnHost!HostSeek

\* Closing without habits: what the write buffer holds is in its file, and all
\* files are seen as they were but the one that is closed.
LEMMA CloseHidden ==
    ASSUME Inv, Mirrors, habits = {}, ~ended, ~ended', NEW f \in Fd, Close(f)
    PROVE  AsOnHost!HostClose(f)
  <1>1. Files(host) /\ WriteFits /\ ReadFits /\ Files(Seen) /\ Files(host')
        /\ host \in [Fd -> FileState]
    BY SeenFiles, CloseKeeps DEF Inv, Fits, Files
  <1>2. PICK flushed :
          /\ flushed = IF writeBuf # <<>> THEN Put(host, writeFd, Flushed(writeBuf)) ELSE host
          /\ host' = [flushed EXCEPT ![f].open = FALSE, ![f].at = 0]
    BY DEF Close, Works
  <1>3. flushed = IF writeBuf # <<>> THEN Put(host, writeFd, writeBuf) ELSE host
    <2>1. writeBuf # <<>> => writeFd \in Fd /\ writeBuf \in Seq(BytesOf(writeFd))
      BY <1>1 DEF WriteFits
    <2>2. Len(writeBuf) # 1
      BY DEF Close, LoneFits
    <2> QED
      BY <1>2, <2>1, <2>2, FlushedOwn
  <1>4. ASSUME NEW g \in Fd, NEW n \in Int
        PROVE  View(flushed[g], <<>>, n) = View(host[g], Pending(g), n)
    <2>1. CASE writeBuf # <<>> /\ writeFd = g
      <3>1. writeBuf \in Seq(BytesOf(g)) /\ flushed = Put(host, g, writeBuf)
            /\ Pending(g) = writeBuf
        BY <1>1, <1>3, <2>1 DEF WriteFits, Pending
      <3> QED
        BY <1>1, <3>1, ViewWritten
    <2>2. CASE writeBuf # <<>> /\ writeFd # g
      <3>1. writeFd \in Fd /\ writeBuf \in Seq(BytesOf(writeFd)) /\ Pending(g) = <<>>
            /\ flushed = Put(host, writeFd, writeBuf)
        BY <1>1, <1>3, <2>2 DEF WriteFits, Pending
      <3>2. flushed = [host EXCEPT ![writeFd] =
              File(host[writeFd].open, Overlay(host[writeFd].data, host[writeFd].at, writeBuf),
                   host[writeFd].at + Len(writeBuf))]
        BY <1>1, <3>1, PutIs
      <3>3. flushed[g] = host[g]
        BY <1>1, <2>2, <3>2
      <3> QED
        BY <3>1, <3>3
    <2>3. CASE writeBuf = <<>>
      BY <1>3, <2>3 DEF Pending
    <2> QED
      BY <2>1, <2>2, <2>3
  <1>5. Files(flushed) /\ flushed \in [Fd -> FileState]
    <2>1. CASE writeBuf # <<>>
      <3>1. writeFd \in Fd /\ writeBuf \in Seq(BytesOf(writeFd))
        BY <1>1, <2>1 DEF WriteFits
      <3> QED
        BY <1>1, <1>3, <2>1, <3>1, PutIs DEF Files
    <2>2. CASE writeBuf = <<>>
      BY <1>1, <1>3, <2>2
    <2> QED
      BY <2>1, <2>2
  <1> DEFINE x == File(FALSE, flushed[f].data, 0)
  <1>6. host' = [flushed EXCEPT ![f] = x]
    BY <1>2, <1>5, CloseIs
  <1>7. Seen[f].data = flushed[f].data /\ Seen[f].open = host[f].open
    <2>1. Seen[f] = View(host[f], Pending(f), Ahead(f)) /\ Ahead(f) \in Int
      BY SeenIs, AheadIs
    <2>2. Seen[f] = View(flushed[f], <<>>, Ahead(f))
      BY <1>4, <2>1
    <2>3. Overlay(flushed[f].data, flushed[f].at, <<>>) = flushed[f].data
      BY <1>5, FileIs, OverlayNothing
    <2> QED
      BY <2>1, <2>2, <2>3 DEF View, File
  <1>8. [Seen EXCEPT ![f].open = FALSE, ![f].at = 0] = [Seen EXCEPT ![f] = x]
    <2>1. /\ [Seen EXCEPT ![f].open = FALSE, ![f].at = 0] =
               [Seen EXCEPT ![f] = File(FALSE, Seen[f].data, 0)]
          /\ [Seen[f] EXCEPT !.open = FALSE, !.at = 0] = File(FALSE, Seen[f].data, 0)
          /\ Files([Seen EXCEPT ![f] = File(FALSE, Seen[f].data, 0)])
      BY <1>1, CloseIs
    <2> QED
      BY <1>7, <2>1
  <1> HIDE DEF x
  <1>9. writeBuf' = <<>> /\ (readFd # f => UNCHANGED readBuffer) /\ (readFd = f => readFd' = NoFd)
    BY DEF Close, Cleared
  <1>10. \A g \in Fd : Pending(g)' = <<>> /\ Ahead(g)' = IF g = f THEN 0 ELSE Ahead(g)
    <2>1. NoFd \notin Fd
      BY NewlibAssumption DEF NoFd
    <2> QED
      BY <1>9, <2>1 DEF Pending, Ahead, readBuffer
  <1>11. View(host'[f], Pending(f)', Ahead(f)') = x
    <2>1. host'[f] = x /\ Pending(f)' = <<>> /\ Ahead(f)' = 0
      BY <1>5, <1>6, <1>10
    <2>2. <<>> \in Seq(BytesOf(f)) /\ 0 \in Int
      BY EmptySeq
    <2>3. View(host'[f], <<>>, 0) = host'[f]
      BY <1>1, <2>2, ViewWritten
    <2> QED
      BY <2>1, <2>3
  <1>12. ASSUME NEW g \in Fd, g # f
         PROVE  View(host'[g], Pending(g)', Ahead(g)') = View(host[g], Pending(g), Ahead(g))
    <2>1. host'[g] = flushed[g] /\ Pending(g)' = <<>> /\ Ahead(g)' = Ahead(g)
      BY <1>5, <1>6, <1>10, <1>12
    <2>2. Ahead(g) \in Int
      BY AheadIs
    <2> QED
      BY <1>4, <2>1, <2>2
  <1>13. Seen' = [Seen EXCEPT ![f] = x]
    BY <1>11, <1>12, SeenExcept
  <1>14. host[f].open /\ result' = Returned("close", f, 0, 0)
    BY DEF Close
  <1> QED
    BY <1>7, <1>8, <1>13, <1>14, SameOperators DEF AsOnHost!HostClose

\* The end of the program: it closed what it wrote to.
LEMMA EndHidden ==
    ASSUME Inv, Mirrors, habits = {}, ~ended, End
    PROVE  AsOnHost!HostEnd
  <1>1. writeBuf = <<>> /\ ended' = TRUE /\ result' = Returned("end", "none", 0, 0)
        /\ host' = [f \in Fd |-> [host[f] EXCEPT !.open = FALSE, !.at = 0]]
    BY DEF End, LeaveFits, HostEnd
  <1>2. Files(host) /\ Files(Seen) /\ Files(host')
    BY SeenFiles, EndKeeps DEF Inv, Fits
  <1>3. Seen' = host'
    <2>1. host' = [f \in Fd |-> host'[f]]
      BY <1>2 DEF Files
    <2> QED
      BY <1>1, <2>1, Zenon DEF Seen
  <1>4. ASSUME NEW f \in Fd
        PROVE  [host[f] EXCEPT !.open = FALSE, !.at = 0] =
                 [Seen[f] EXCEPT !.open = FALSE, !.at = 0]
    <2>1. [host[f] EXCEPT !.open = FALSE, !.at = 0] = File(FALSE, host[f].data, 0)
      BY <1>2, CloseIs
    <2>2. /\ [Seen EXCEPT ![f].open = FALSE, ![f].at = 0] =
               [Seen EXCEPT ![f] = File(FALSE, Seen[f].data, 0)]
          /\ [Seen[f] EXCEPT !.open = FALSE, !.at = 0] = File(FALSE, Seen[f].data, 0)
          /\ Files([Seen EXCEPT ![f] = File(FALSE, Seen[f].data, 0)])
      BY <1>2, CloseIs
    <2>3. Seen[f].data = host[f].data
      <3>1. Seen[f] = View(host[f], <<>>, Ahead(f))
        BY <1>1, SeenIs DEF Pending
      <3>2. Overlay(host[f].data, host[f].at, <<>>) = host[f].data
        BY <1>2, FileIs, OverlayNothing
      <3> QED
        BY <3>1, <3>2 DEF View, File
    <2> QED
      BY <2>1, <2>2, <2>3
  <1> QED
    BY <1>1, <1>3, <1>4, SameOperators DEF AsOnHost!HostEnd

\* A part of a part of a file is a part of the file.
LEMMA PartOfPart ==
    ASSUME NEW f \in Fd, NEW data \in Seq(BytesOf(f)), NEW base \in Nat, NEW k \in Nat,
           base + k <= Len(data), NEW from \in 0 .. k, NEW count \in 0 .. k - from
    PROVE  /\ SubSeq(data, base + 1, base + k) \in Seq(BytesOf(f))
           /\ Len(SubSeq(data, base + 1, base + k)) = k
           /\ SubSeq(SubSeq(data, base + 1, base + k), from + 1, from + count) =
                SubSeq(data, base + from + 1, base + from + count)
  <1> DEFINE buf  == SubSeq(data, base + 1, base + k)
             part == SubSeq(buf, from + 1, from + count)
             same == SubSeq(data, base + from + 1, base + from + count)
  <1>1. Len(data) \in Nat /\ base \in 0 .. Len(data) /\ k \in 0 .. Len(data) - base
        /\ base + from \in 0 .. Len(data) /\ count \in 0 .. Len(data) - (base + from)
    BY LenProperties
  <1>2. /\ buf \in Seq(BytesOf(f)) /\ Len(buf) = k
        /\ \A i \in 1 .. k : buf[i] = data[base + i]
    BY <1>1, PartOwn
  <1>3. /\ same \in Seq(BytesOf(f)) /\ Len(same) = count
        /\ \A i \in 1 .. count : same[i] = data[base + from + i]
    BY <1>1, PartOwn
  <1> HIDE DEF buf, same
  <1>4. /\ part \in Seq(BytesOf(f)) /\ Len(part) = count
        /\ \A i \in 1 .. count : part[i] = buf[from + i]
    BY <1>2, PartOwn
  <1> HIDE DEF part
  <1>5. ASSUME NEW i \in 1 .. count PROVE part[i] = same[i]
    <2>1. from + i \in 1 .. k /\ base + (from + i) = base + from + i
      OBVIOUS
    <2> QED
      BY <1>2, <1>3, <1>4, <2>1
  <1>6. part = same
    BY <1>3, <1>4, <1>5, SameSequence
  <1> QED
    BY <1>2, <1>6 DEF buf, part, same

\* With nothing to be written, a file is seen as it is, but for what is read
\* ahead of it.
LEMMA SeenBehind ==
    ASSUME Inv, ~ended, NEW f \in Fd, Pending(f) = <<>>, Ahead(f) \in Int
    PROVE  Seen[f] = File(host[f].open, host[f].data, host[f].at - Ahead(f))
  <1> DEFINE none   == <<>>
             behind == host[f].at + Len(none) - Ahead(f)
             data   == Overlay(host[f].data, host[f].at, none)
  <1>1. Seen[f] = View(host[f], none, Ahead(f)) /\ Len(none) = 0
    BY SeenIs, EmptySeq
  <1>2. data = host[f].data /\ host[f].at \in Nat
    BY FileIs, OverlayNothing DEF Inv, Fits
  <1>3. behind = host[f].at - Ahead(f)
    BY <1>1, <1>2
  <1>4. Seen[f] = File(host[f].open, data, behind)
    BY <1>1 DEF View
  <1> HIDE DEF data, behind
  <1> QED
    BY <1>2, <1>3, <1>4

\* A read through the buffer by a program without habits: the buffer, or what it
\* is filled with, is the part of the file up to end, and the file's last part
\* unless it is full; the program gets some of it unless the file is at its end.
LEMMA BufferIs ==
    ASSUME Inv, Mirrors, habits = {}, ~ended, NEW f \in Fd, NEW n \in Nat,
           Buffered(f, n), ReadBuffered(f, n)
    PROVE  \E k \in 0 .. Size, end \in 0 .. Len(host[f].data), from \in 0 .. Size :
             /\ k <= end /\ from <= k /\ end - k + from = host[f].at - Ahead(f)
             /\ k < Size => end = Len(host[f].data)
             /\ from = k => end = Len(host[f].data)
             /\ host' = [host EXCEPT ![f] = File(host[f].open, host[f].data, end)]
             /\ readFd' = f /\ readEnd' = k /\ readPos' = from + Least(n, k - from)
             /\ readBuf' = SubSeq(host[f].data, end - k + 1, end)
             /\ result' = Returned("read", f, n,
                                   SubSeq(readBuf', from + 1, from + Least(n, k - from)))
  <1> DEFINE data == host[f].data
             at   == host[f].at
  <1>1. /\ host[f] = File(host[f].open, data, at) /\ at \in 0 .. Len(data) /\ Len(data) \in Nat
        /\ Left(host, f) \in 0 .. Len(data) /\ at + Left(host, f) = Len(data)
        /\ Files(host) /\ host \in [Fd -> FileState]
    BY FileIs DEF Inv, Fits, Files
  <1>2. Size \in Nat \ {0, 1} /\ f # NoFd
    BY NewlibAssumption DEF NoFd
  <1>3. readFd \in {NoFd, f}
    BY DEF Buffered
  <1>4. PICK ask, k, from, buf, count :
           /\ ask \in BOOLEAN
           /\ ask <=> readFd = NoFd \/ Refill
           /\ ask => from = 0 /\ k \in Gives(f, Size) /\ buf = Found(host, f, k)
           /\ ~ask => from = readPos /\ k = readEnd /\ buf = readBuf
           /\ count = IF k > from THEN Least(n, k - from) ELSE 0
           /\ host' = IF ask /\ k > 0 THEN Advance(host, f, k) ELSE host
           /\ readFd' = IF readFd = NoFd THEN f ELSE readFd
           /\ readBuf' = buf /\ readEnd' = k /\ readPos' = from + count
           /\ result' = Returned("read", f, n, SubSeq(buf, from + 1, from + count))
    BY BufferedIs
  <1>5. readFd' = f
    BY <1>3, <1>4
  <1>6. /\ Ahead(f) \in 0 .. at
        /\ readFd # f => Ahead(f) = 0
        /\ readFd = f => Ahead(f) = readEnd - readPos /\ readEnd \in 0 .. Size
                         /\ readPos \in 0 .. readEnd /\ Pending(f) = <<>>
    BY AheadIs
  <1>7. host = [host EXCEPT ![f] = File(host[f].open, data, at)]
    BY <1>1
  <1>8. ASSUME k \in 0 .. Size, from \in 0 .. k
        PROVE  count = Least(n, k - from) /\ from \in 0 .. Size
    BY <1>2, <1>4, <1>8 DEF Least
  <1>9. CASE ask
    <2>1. k = Least(Size, Left(host, f)) /\ from = 0 /\ buf = Found(host, f, k)
      BY <1>1, <1>2, <1>4, <1>9, GivesWhat
    <2>2. k \in 0 .. Size /\ k \in 0 .. Left(host, f) /\ (k < Size => at + k = Len(data))
          /\ (k = 0 => at + k = Len(data)) /\ from \in 0 .. k
      BY <1>1, <1>2, <2>1 DEF Least
    <2>3. Ahead(f) = 0
      BY <1>2, <1>4, <1>6, <1>9 DEF Refill
    <2>4. host' = [host EXCEPT ![f] = File(host[f].open, data, at + k)]
      <3>1. CASE k > 0
        BY <1>1, <1>4, <1>9, <2>2, <3>1, AdvanceIs
      <3>2. CASE k = 0
        <4>1. at + k = at
          BY <1>1, <3>2
        <4> QED
          BY <1>4, <1>7, <3>2, <4>1
      <3> QED
        BY <2>2, <3>1, <3>2
    <2> DEFINE end == at + k
    <2>5. end \in 0 .. Len(data) /\ k <= end /\ end - k = at /\ end - k + from = at - Ahead(f)
      BY <1>1, <2>1, <2>2, <2>3
    <2>6. readBuf' = SubSeq(data, end - k + 1, end)
      <3> HIDE DEF data, at
      <3>1. Found(host, f, k) = SubSeq(data, at + 1, at + k)
        BY DEF Found, data, at
      <3> QED
        BY <1>4, <2>1, <2>5, <3>1
    <2>7. count = Least(n, k - from) /\ from \in 0 .. Size
      BY <1>8, <2>2
    <2>8. host' = [host EXCEPT ![f] = File(host[f].open, data, end)]
          /\ (k < Size => end = Len(data)) /\ (from = k => end = Len(data)) /\ from <= k
      BY <2>1, <2>2, <2>4
    <2> HIDE DEF end, data, at
    <2>9. /\ readFd' = f /\ readEnd' = k /\ readPos' = from + Least(n, k - from)
          /\ result' = Returned("read", f, n, SubSeq(readBuf', from + 1, from + Least(n, k - from)))
      BY <1>4, <1>5, <2>7
    <2> QED
      BY <2>2, <2>5, <2>6, <2>7, <2>8, <2>9 DEF data, at
  <1>10. CASE ~ask
    <2>1. readFd = f /\ from = readPos /\ k = readEnd /\ buf = readBuf /\ ~Refill
      BY <1>3, <1>4, <1>10
    <2>2. k \in 0 .. Size /\ from \in 0 .. k /\ k \in 0 .. at
          /\ readBuf = SubSeq(data, at - k + 1, at) /\ (k < Size => at = Len(data))
      BY <1>6, <2>1 DEF Mirrors
    <2>3. from = k => at = Len(data)
      BY <1>2, <2>1, <2>2 DEF Refill
    <2>4. at \in 0 .. Len(data) /\ k <= at /\ from <= k /\ at - k + from = at - Ahead(f)
      BY <1>1, <1>6, <2>1, <2>2
    <2>5. host' = [host EXCEPT ![f] = File(host[f].open, data, at)]
      BY <1>4, <1>7, <1>10
    <2>6. count = Least(n, k - from) /\ from \in 0 .. Size
      BY <1>8, <2>2
    <2>7. /\ readFd' = f /\ readEnd' = k /\ readPos' = from + Least(n, k - from)
          /\ result' = Returned("read", f, n, SubSeq(readBuf', from + 1, from + Least(n, k - from)))
          /\ readBuf' = SubSeq(data, at - k + 1, at)
      BY <1>4, <1>5, <2>1, <2>2, <2>6
    <2> HIDE DEF data, at
    <2> QED
      BY <2>2, <2>3, <2>4, <2>5, <2>6, <2>7 DEF data, at
  <1> QED
    BY <1>9, <1>10

\* Reading through the buffer is reading from the host, as much as there is in
\* the buffer; and the buffer mirrors the file again.
LEMMA BufferHidden ==
    ASSUME Inv, Mirrors, habits = {}, ~ended, ~ended', habits' = habits,
           NEW f \in Fd, NEW n \in 0 .. MaxCount, Read(f, n), Buffered(f, n)
    PROVE  Mirrors' /\ \E count \in 0 .. MaxCount : AsOnHost!HostRead(f, n, count)
  <1> DEFINE data == host[f].data
             at   == host[f].at
             open == host[f].open
  <1>1. /\ n \in Nat /\ n <= MaxCount /\ Pending(f) = <<>> /\ open = TRUE
        /\ UNCHANGED writeBuffer /\ ReadBuffered(f, n)
    BY HostFilesAssumption, FileIs DEF Read, Inv, Fits
  <1>2. /\ data \in Seq(BytesOf(f)) /\ at \in 0 .. Len(data) /\ Len(data) \in Nat
        /\ Files(host) /\ host \in [Fd -> FileState]
    BY FileIs DEF Inv, Fits, Files
  <1>3. PICK k \in 0 .. Size, end \in 0 .. Len(data), from \in 0 .. Size :
          /\ k <= end /\ from <= k /\ end - k + from = at - Ahead(f)
          /\ k < Size => end = Len(data)
          /\ from = k => end = Len(data)
          /\ host' = [host EXCEPT ![f] = File(open, data, end)]
          /\ readFd' = f /\ readEnd' = k /\ readPos' = from + Least(n, k - from)
          /\ readBuf' = SubSeq(data, end - k + 1, end)
          /\ result' = Returned("read", f, n,
                                SubSeq(readBuf', from + 1, from + Least(n, k - from)))
    BY <1>1, BufferIs
  <1>4. Size \in Nat /\ k \in Nat /\ end \in Nat /\ from \in 0 .. k
    BY <1>2, <1>3, NewlibAssumption
  <1> DEFINE count == Least(n, k - from)
             base  == end - k
             seen  == base + from
  <1>5. /\ count \in 0 .. k - from /\ count <= n /\ (count = 0 => n = 0 \/ from = k)
        /\ base \in Nat /\ base + k = end
    BY <1>1, <1>3, <1>4 DEF Least
  <1>6. Ahead(f) \in 0 .. at /\ \A g \in Fd : g # f => Ahead(g) = 0
    <2>1. readFd \in {NoFd, f} /\ NoFd \notin Fd
      BY NewlibAssumption DEF Buffered, NoFd
    <2> QED
      BY <2>1, AheadIs DEF Ahead
  <1>7. Ahead(f)' = k - (from + count) /\ \A g \in Fd : g # f => Ahead(g)' = 0
    BY <1>3, <1>4, <1>5 DEF Ahead
  <1>8. \A g \in Fd : Pending(g)' = Pending(g)
    BY <1>1 DEF Pending, writeBuffer
  <1>9. Seen[f] = File(open, data, seen)
    BY <1>1, <1>2, <1>3, <1>6, SeenBehind
  <1>10. host'[f] = File(open, data, end) /\ \A g \in Fd : g # f => host'[g] = host[g]
    BY <1>2, <1>3
  <1> DEFINE x == File(open, data, seen + count)
             none == <<>>
             old  == Overlay(data, end, none)
             later == end + Len(none) - (k - (from + count))
  <1>11. View(host'[f], Pending(f)', Ahead(f)') = x
    <2>1. old = data /\ Len(none) = 0
      BY <1>2, <1>3, OverlayNothing, EmptySeq
    <2>2. later = seen + count
      BY <1>4, <1>5, <2>1
    <2>3. View(host'[f], Pending(f)', Ahead(f)') = File(open, old, later)
      BY <1>1, <1>7, <1>8, <1>10 DEF View, File
    <2> HIDE DEF old, later, data
    <2> QED
      BY <2>1, <2>2, <2>3
  <1>12. Seen' = [Seen EXCEPT ![f] = x]
    <2> HIDE DEF x
    <2>1. \A g \in Fd : View(host'[g], Pending(g)', Ahead(g)') =
                          IF g = f THEN x ELSE View(host[g], Pending(g), Ahead(g))
      BY <1>6, <1>7, <1>8, <1>10, <1>11
    <2> QED
      BY <2>1, SeenExcept
  <1>13. Files(Seen) /\ Seen[f].at = seen /\ Seen[f].data = data /\ Seen[f].open = open
    BY <1>9, SeenFiles DEF File
  <1>14. Left(Seen, f) = Len(data) - seen /\ Left(Seen, f) \in Nat
         /\ count <= Left(Seen, f) /\ (from = k => Left(Seen, f) = 0)
    <2> HIDE DEF data
    <2>1. Left(Seen, f) = Len(data) - seen
      BY <1>13 DEF Left
    <2>2. /\ Len(data) \in Nat /\ end \in Nat /\ end <= Len(data) /\ base \in Nat
          /\ base + k = end /\ (from = k => end = Len(data))
      BY <1>2, <1>3, <1>4, <1>5
    <2> HIDE DEF base, count
    <2> QED
      BY <1>4, <1>5, <2>1, <2>2
  <1>15. Seen' = Advance(Seen, f, count)
    <2>1. count \in 0 .. Left(Seen, f)
      BY <1>5, <1>14
    <2> HIDE DEF count
    <2>2. Advance(Seen, f, count) =
            [Seen EXCEPT ![f] = File(Seen[f].open, Seen[f].data, Seen[f].at + count)]
      BY <1>13, <2>1, AdvanceIs
    <2> HIDE DEF open, data, seen
    <2> QED
      BY <1>12, <1>13, <2>2
  <1>16. result' = Returned("read", f, n, Found(Seen, f, count))
    <2> DEFINE buf == SubSeq(data, base + 1, base + k)
    <2>1. readBuf' = buf
      BY <1>3, <1>5
    <2> HIDE DEF base, data
    <2>2. SubSeq(buf, from + 1, from + count) = SubSeq(data, base + from + 1, base + from + count)
      <3>1. base + k <= Len(data) /\ data \in Seq(BytesOf(f))
        BY <1>2, <1>3, <1>5
      <3> HIDE DEF count
      <3> QED
        BY <1>4, <1>5, <3>1, PartOfPart
    <2> HIDE DEF buf
    <2>3. Found(Seen, f, count) = SubSeq(data, seen + 1, seen + count)
      BY <1>13 DEF Found
    <2> QED
      BY <1>3, <2>1, <2>2, <2>3
  <1>17. AsOnHost!HostRead(f, n, count) /\ count \in 0 .. MaxCount
    <2>1. count \in Nat /\ count <= MaxCount /\ count <= Least(n, Left(Seen, f))
          /\ (count = 0 => n = 0 \/ Left(Seen, f) = 0) /\ Seen[f].open
      <3> HIDE DEF count
      <3> QED
        BY <1>1, <1>4, <1>5, <1>13, <1>14, HostFilesAssumption DEF Least
    <2> HIDE DEF count
    <2>2. AsOnHost!HostRead(f, n, count)
      BY <1>15, <1>16, <2>1, SameOperators DEF AsOnHost!HostRead
    <2> QED
      BY <2>1, <2>2, HostFilesAssumption
  <1>18. Mirrors'
    <2>0. host'[f].data = data /\ host'[f].at = end
      BY <1>10 DEF File
    <2>1. readEnd' \in 0 .. host'[f].at /\ (readEnd' < Size => host'[f].at = Len(host'[f].data))
          /\ readBuf' = SubSeq(host'[f].data, host'[f].at - readEnd' + 1, host'[f].at)
      <3> HIDE DEF data
      <3>1. readEnd' = k /\ readBuf' = SubSeq(data, end - k + 1, end)
            /\ k \in 0 .. end /\ (k < Size => end = Len(data))
        BY <1>3, <1>4
      <3>2. readEnd' \in 0 .. host'[f].at
        BY <2>0, <3>1
      <3>3. readEnd' < Size => host'[f].at = Len(host'[f].data)
        BY <2>0, <3>1
      <3>4. readBuf' = SubSeq(host'[f].data, host'[f].at - readEnd' + 1, host'[f].at)
        BY <2>0, <3>1
      <3> QED
        BY <3>2, <3>3, <3>4
    <2>2. Pending(readFd)' = <<>>
      BY <1>1, <1>3 DEF Pending, writeBuffer
    <2> QED
      BY <1>3, <2>1, <2>2 DEF Mirrors
  <1> QED
    BY <1>17, <1>18

\* Reading past the buffer is reading from the host.
LEMMA DirectHidden ==
    ASSUME Inv, Mirrors, habits = {}, ~ended, ~ended',
           NEW f \in Fd, NEW n \in 0 .. MaxCount, Read(f, n), ~Buffered(f, n)
    PROVE  \E count \in 0 .. MaxCount : AsOnHost!HostRead(f, n, count)
  <1>1. /\ n \in Nat /\ n <= MaxCount /\ Pending(f) = <<>> /\ host[f].open
        /\ readFd # f /\ UNCHANGED <<writeBuffer, readBuffer>> /\ ReadDirect(f, n)
    BY HostFilesAssumption DEF Read, Buffered, ReadDirect
  <1>2. /\ Files(host) /\ host \in [Fd -> FileState] /\ Left(host, f) \in Nat
        /\ host[f] = File(host[f].open, host[f].data, host[f].at) /\ host[f].at \in Nat
    BY FileIs DEF Inv, Fits, Files
  <1>3. PICK k \in Gives(f, n) :
          /\ host' = IF k > 0 THEN Advance(host, f, k) ELSE host
          /\ result' = Returned("read", f, n, IF k = -1 THEN <<"failed">> ELSE Found(host, f, k))
    BY <1>1 DEF ReadDirect
  <1>4. k = Least(n, Left(host, f)) /\ k \in 0 .. Left(host, f)
    BY <1>1, <1>2, <1>3, GivesWhat DEF Least
  <1>5. result' = Returned("read", f, n, Found(host, f, k))
    BY <1>2, <1>3, <1>4
  <1> DEFINE x == File(host[f].open, host[f].data, host[f].at + k)
  <1>6. Advance(host, f, k) = [host EXCEPT ![f] = x] /\ Files(Advance(host, f, k))
    BY <1>2, <1>4, AdvanceIs
  <1>7. host' = Advance(host, f, k)
    <2>1. CASE k > 0
      BY <1>3, <2>1
    <2>2. CASE k = 0
      <3>1. host[f].at + k = host[f].at
        BY <1>2, <2>2
      <3>2. x = host[f]
        BY <1>2, <3>1
      <3> HIDE DEF x
      <3> QED
        BY <1>2, <1>3, <1>6, <2>2, <3>2
    <2> QED
      BY <1>2, <1>4, <2>1, <2>2
  <1>8. Seen[f] = host[f]
    BY <1>1, AheadIs, SeenPlain
  <1> HIDE DEF x
  <1>9. \A g \in Fd : /\ g # f => host'[g] = host[g]
                      /\ Pending(g)' = Pending(g) /\ Ahead(g)' = Ahead(g)
    BY <1>1, <1>2, <1>6, <1>7, OthersKept
  <1>10. View(host'[f], Pending(f)', Ahead(f)') = x
    <2>1. Pending(f)' = <<>> /\ Ahead(f)' = 0 /\ host'[f] = x
      BY <1>1, <1>2, <1>6, <1>7, <1>9, AheadIs
    <2>2. <<>> \in Seq(BytesOf(f)) /\ 0 \in Int
      BY EmptySeq
    <2>3. View(host'[f], <<>>, 0) = host'[f]
      BY <1>6, <1>7, <2>2, ViewWritten
    <2> QED
      BY <2>1, <2>3
  <1>11. Seen' = [Seen EXCEPT ![f] = x]
    BY <1>9, <1>10, SeenExcept
  <1>12. Left(Seen, f) = Left(host, f) /\ Found(Seen, f, k) = Found(host, f, k)
    BY <1>8 DEF Left, Found
  <1>13. Seen' = Advance(Seen, f, k)
    <2>1. Files(Seen) /\ k \in 0 .. Left(Seen, f)
      BY <1>4, <1>12, SeenFiles
    <2>2. Advance(Seen, f, k) =
            [Seen EXCEPT ![f] = File(Seen[f].open, Seen[f].data, Seen[f].at + k)]
      BY <2>1, AdvanceIs
    <2> QED
      BY <1>8, <1>11, <2>2 DEF x
  <1>14. k \in 0 .. MaxCount /\ k <= Least(n, Left(Seen, f))
         /\ (k = 0 => n = 0 \/ Left(Seen, f) = 0)
    BY <1>1, <1>2, <1>4, <1>12, HostFilesAssumption DEF Least
  <1>15. AsOnHost!HostRead(f, n, k)
    BY <1>1, <1>5, <1>8, <1>12, <1>13, <1>14, SameOperators DEF AsOnHost!HostRead
  <1> QED
    BY <1>14, <1>15

-----------------------------------------------------------------------------
(* The read buffer of a program without habits mirrors its file.           *)

\* Of the files that are not written to, nothing changes.
LEMMA PutOthers ==
    ASSUME NEW h, Files(h), NEW f \in Fd, NEW bytes \in Seq(BytesOf(f)), NEW g \in Fd, g # f
    PROVE  Put(h, f, bytes)[g] = h[g]
  <1>1. h \in [Fd -> FileState]
        /\ Put(h, f, bytes) = [h EXCEPT ![f] = File(h[f].open, Overlay(h[f].data, h[f].at, bytes),
                                                   h[f].at + Len(bytes))]
    BY PutIs DEF Files
  <1> QED
    BY <1>1

\* As long as the buffer and its file stay.
LEMMA MirrorsKept ==
    ASSUME Mirrors, ~ended, habits' = habits, UNCHANGED readBuffer,
           habits = {} /\ readFd \in Fd =>
               /\ Pending(readFd)' = <<>>
               /\ host'[readFd].data = host[readFd].data /\ host'[readFd].at = host[readFd].at
    PROVE  Mirrors'
  BY DEF Mirrors, readBuffer

\* Writing: not to the file that is read, and no buffer is written to it.
LEMMA MirrorsWrite ==
    ASSUME Inv, Mirrors, ~ended, habits' = habits, NEW f \in Fd, NEW bytes \in Writes[f],
           Write(f, bytes)
    PROVE  Mirrors'
  <1>1. Files(host) /\ WriteFits /\ bytes \in Seq(BytesOf(f)) /\ UNCHANGED readBuffer
    BY WrittenOwn, WriteKeeps DEF Inv, Fits
  <1>2. ASSUME habits = {}, readFd \in Fd
        PROVE  Pending(readFd)' = <<>> /\ host'[readFd] = host[readFd]
    <2>1. Pending(readFd) = <<>>
      BY <1>2 DEF Mirrors
    <2>2. CASE Len(bytes) = 1
      <3> DEFINE byte == bytes[1]
      <3>1. byte \in BytesOf(f) /\ WriteByte(f, byte)
        BY <2>2, WrittenOwn DEF Write
      <3> HIDE DEF byte
      <3>2. /\ readFd # f /\ writeFd' = f /\ UNCHANGED readBuffer
            /\ \/ /\ f = writeFd /\ writeBuf' = Append(writeBuf, byte) /\ host' = host
               \/ /\ f = writeFd /\ writeBuf' = <<>>
                  /\ host' = Put(host, f, Append(writeBuf, byte))
               \/ /\ writeBuf' = <<byte>>
                  /\ host' = IF writeFd \in Fd THEN Put(host, writeFd, writeBuf) ELSE host
        BY <1>2, <3>1, ByteCases
      <3>3. Pending(readFd)' = <<>>
        BY <3>2 DEF Pending, readBuffer
      <3>4. CASE f = writeFd /\ host' = Put(host, f, Append(writeBuf, byte))
        <4>1. Append(writeBuf, byte) \in Seq(BytesOf(f))
          BY <1>1, <3>1, <3>4, AppendProperties DEF WriteFits
        <4> QED
          BY <1>1, <1>2, <3>2, <3>3, <3>4, <4>1, PutOthers
      <3>5. CASE host' = IF writeFd \in Fd THEN Put(host, writeFd, writeBuf) ELSE host
        <4>1. CASE writeFd = readFd
          BY <1>2, <2>1, <3>3, <3>5, <4>1 DEF Pending, Put
        <4>2. CASE writeFd \in Fd /\ writeFd # readFd
          BY <1>1, <1>2, <3>3, <3>5, <4>2, PutOthers DEF WriteFits
        <4> QED
          BY <3>3, <3>5, <4>1, <4>2
      <3> QED
        BY <3>2, <3>3, <3>4, <3>5
    <2>3. CASE Len(bytes) # 1
      <3>1. readFd # f /\ host' \in {host, Put(host, f, bytes)} /\ UNCHANGED writeBuffer
        BY <1>2, <2>3 DEF Write, WriteBlock
      <3>2. Pending(readFd)' = <<>>
        BY <1>1, <2>1, <3>1 DEF Pending, writeBuffer, readBuffer
      <3> QED
        BY <1>1, <1>2, <3>1, <3>2, PutOthers
    <2> QED
      BY <2>2, <2>3
  <1> QED
    BY <1>1, <1>2, MirrorsKept

\* Closing: the read buffer goes with its descriptor, and the write buffer is not
\* one of the file that is read.
LEMMA MirrorsClose ==
    ASSUME Inv, Mirrors, ~ended, habits' = habits, NEW f \in Fd, Close(f)
    PROVE  Mirrors'
  <1>1. Files(host) /\ WriteFits /\ NoFd \notin Fd
    BY NewlibAssumption DEF Inv, Fits, NoFd
  <1>2. CASE readFd = f
    BY <1>1, <1>2 DEF Close, Cleared, Mirrors
  <1>3. CASE readFd # f
    <2>1. UNCHANGED readBuffer /\ writeBuf' = <<>>
      BY <1>3 DEF Close, Cleared
    <2>2. ASSUME habits = {}, readFd \in Fd
          PROVE  /\ Pending(readFd)' = <<>>
                 /\ host'[readFd].data = host[readFd].data /\ host'[readFd].at = host[readFd].at
      <3>1. Pending(readFd) = <<>>
        BY <2>2 DEF Mirrors
      <3>2. PICK flushed :
              /\ flushed \in {host} \union
                   (IF writeBuf # <<>> THEN {Put(host, writeFd, Flushed(writeBuf))} ELSE {})
              /\ host' = [flushed EXCEPT ![f].open = FALSE, ![f].at = 0]
        BY DEF Close
      <3>3. Files(flushed) /\ flushed[readFd] = host[readFd]
        <4>1. CASE writeBuf # <<>>
          <5>1. writeFd \in Fd /\ writeFd # readFd /\ writeBuf \in Seq(BytesOf(writeFd))
            BY <1>1, <3>1, <4>1 DEF WriteFits, Pending
          <5>2. Flushed(writeBuf) \in Seq(BytesOf(writeFd))
            BY <5>1, FlushedOwn
          <5>3. /\ Files(Put(host, writeFd, Flushed(writeBuf)))
                /\ Put(host, writeFd, Flushed(writeBuf))[readFd] = host[readFd]
            BY <1>1, <2>2, <5>1, <5>2, PutIs, PutOthers
          <5> QED
            BY <1>1, <3>2, <5>3
        <4>2. CASE writeBuf = <<>>
          BY <1>1, <3>2, <4>2
        <4> QED
          BY <4>1, <4>2
      <3>4. host'[readFd] = flushed[readFd]
        BY <1>3, <2>2, <3>2, <3>3 DEF Files
      <3>5. Pending(readFd)' = <<>>
        BY <2>1 DEF Pending, readBuffer
      <3> QED
        BY <3>3, <3>4, <3>5
    <2> QED
      BY <2>1, <2>2, MirrorsKept
  <1> QED
    BY <1>2, <1>3

\* Reading: through the buffer, or past it from another file.
LEMMA MirrorsRead ==
    ASSUME Inv, Mirrors, ~ended, habits' = habits, NEW f \in Fd, NEW n \in 0 .. MaxCount,
           Read(f, n)
    PROVE  Mirrors'
  <1>1. ~ended' /\ UNCHANGED writeBuffer /\ Files(host) /\ n \in Nat
    BY HostFilesAssumption DEF Read, Inv, Fits
  <1>2. CASE habits # {}
    BY <1>2 DEF Mirrors
  <1>3. CASE habits = {} /\ Buffered(f, n)
    BY <1>1, <1>3, BufferHidden
  <1>4. CASE habits = {} /\ ~Buffered(f, n)
    <2>1. ReadDirect(f, n) /\ UNCHANGED readBuffer /\ readFd # f
      BY <1>4 DEF Read, ReadDirect, Buffered
    <2>2. PICK k \in Gives(f, n) : host' = IF k > 0 THEN Advance(host, f, k) ELSE host
      BY <2>1 DEF ReadDirect
    <2>3. \A g \in Fd : g # f => host'[g] = host[g]
      BY <1>1, <2>2 DEF Advance, Files
    <2>4. readFd \in Fd => Pending(readFd)' = <<>>
      BY <1>1, <1>4, <2>1 DEF Mirrors, Pending, writeBuffer, readBuffer
    <2> QED
      BY <2>1, <2>3, <2>4, MirrorsKept
  <1> QED
    BY <1>2, <1>3, <1>4

\* Every step of a program without habits keeps it.
LEMMA MirrorsNext ==
    ASSUME Inv, Mirrors, [Next]_vars
    PROVE  Mirrors'
  <1>1. CASE UNCHANGED vars
    BY <1>1 DEF vars, Mirrors, Pending
  <1> SUFFICES ASSUME Next PROVE Mirrors'
    BY <1>1
  <1>2. habits' = habits /\ ~ended /\ host \in [Fd -> FileState]
    BY DEF Next, Inv, Fits, Files
  <1>3. ASSUME NEW f \in Fd, Open(f) PROVE Mirrors'
    <2>1. host' = [host EXCEPT ![f].open = TRUE] /\ UNCHANGED <<writeBuffer, readBuffer>>
      BY <1>3 DEF Open, HostOpen
    <2>2. \A g \in Fd : host'[g].data = host[g].data /\ host'[g].at = host[g].at
      BY <1>2, <2>1 DEF FileState
    <2>3. habits = {} /\ readFd \in Fd => Pending(readFd)' = <<>>
      BY <1>2, <2>1 DEF Mirrors, Pending, writeBuffer, readBuffer
    <2> QED
      BY <1>2, <2>1, <2>2, <2>3, MirrorsKept
  <1>4. ASSUME NEW f \in Fd, NEW to, Seek(f, to) PROVE Mirrors'
    <2>1. /\ host' = [host EXCEPT ![f].at = to] /\ UNCHANGED <<writeBuffer, readBuffer>>
          /\ habits = {} => readFd # f
      BY <1>4 DEF Seek, HostSeek, SeekFits
    <2>2. \A g \in Fd : g # f => host'[g] = host[g]
      BY <1>2, <2>1
    <2>3. habits = {} /\ readFd \in Fd => Pending(readFd)' = <<>>
      BY <1>2, <2>1 DEF Mirrors, Pending, writeBuffer, readBuffer
    <2> QED
      BY <1>2, <2>1, <2>2, <2>3, MirrorsKept
  <1>5. CASE End
    BY <1>5 DEF End, Mirrors
  <1> QED
    BY <1>2, <1>3, <1>4, <1>5, MirrorsWrite, MirrorsRead, MirrorsClose DEF Next

\* A step of a program without habits is a step of one on the host.
LEMMA NextHidden ==
    ASSUME Inv, Mirrors, Next, habits = {}
    PROVE  AsOnHost!HostNext
  <1>1. ~ended
    BY DEF Next
  <1>2. ASSUME NEW f \in Fd, Open(f) PROVE AsOnHost!HostNext
    <2> DEFINE bits == get_flags(loaded, Bits(TargetBits, Opens[f]))
    <2>1. HostOpen(f, bits) /\ ~ended' /\ UNCHANGED <<writeBuffer, readBuffer>>
      BY <1>1, <1>2 DEF Open
    <2>2. bits \in SUBSET UNION {HostBits[n] : n \in DOMAIN HostBits}
      BY DEF get_flags, Bits
    <2> HIDE DEF bits
    <2>3. AsOnHost!HostOpen(f, bits)
      BY <1>1, <2>1, OpenHidden
    <2> QED
      BY <2>2, <2>3 DEF AsOnHost!HostNext
  <1>3. ASSUME NEW f \in Fd, Close(f) PROVE AsOnHost!HostNext
    <2>1. ~ended'
      BY <1>1, <1>3 DEF Close
    <2> QED
      BY <1>1, <1>3, <2>1, CloseHidden DEF AsOnHost!HostNext
  <1>4. ASSUME NEW f \in Fd, NEW bytes \in Writes[f], Write(f, bytes) PROVE AsOnHost!HostNext
    <2>1. ~ended'
      BY <1>1, <1>4 DEF Write, WriteByte, WriteBlock
    <2> QED
      BY <1>1, <1>4, <2>1, WriteHidden DEF AsOnHost!HostNext
  <1>5. ASSUME NEW f \in Fd, NEW n \in 0 .. MaxCount, Read(f, n) PROVE AsOnHost!HostNext
    <2>1. ~ended' /\ habits' = habits
      BY <1>1, <1>5 DEF Read, Next
    <2>2. \E count \in 0 .. MaxCount : AsOnHost!HostRead(f, n, count)
      BY <1>1, <1>5, <2>1, BufferHidden, DirectHidden
    <2> QED
      BY <1>5, <2>2 DEF AsOnHost!HostNext
  <1>6. ASSUME NEW f \in Fd, NEW to \in {0, Len(host[f].data)}, Seek(f, to)
        PROVE  AsOnHost!HostNext
    <2>1. ~ended'
      BY <1>1, <1>6 DEF Seek
    <2>2. AsOnHost!HostSeek(f, to) /\ to \in {0, Len(Seen[f].data)}
      BY <1>1, <1>6, <2>1, SeekHidden
    <2> QED
      BY <2>2 DEF AsOnHost!HostNext
  <1>7. CASE End
    BY <1>1, <1>7, EndHidden DEF AsOnHost!HostNext
  <1> QED
    BY <1>2, <1>3, <1>4, <1>5, <1>6, <1>7 DEF Next

\* The buffers do not show: every step of a program that has none of the habits
\* is one the program could make on the host, with the same result and the same
\* in the files, once what is in the write buffer is taken for written and what
\* is in the read buffer for not yet read (mw_newlib_syscalls.c 97-187).
THEOREM BuffersAreHidden == Spec => BuffersHidden
  <1>1. Init => Mirrors
    BY NewlibAssumption DEF Init, Mirrors, NoFd
  <1>2. Inv /\ Mirrors /\ [Next]_vars => Mirrors'
    BY MirrorsNext
  <1>3. Inv /\ Mirrors /\ [Next]_vars => [habits = {} => AsOnHost!HostNext]_<<Seen, result>>
    <2>1. Inv /\ Mirrors /\ Next => (habits = {} => AsOnHost!HostNext)
      BY NextHidden
    <2>2. UNCHANGED vars => UNCHANGED <<Seen, result>>
      BY DEF vars, Seen, Pending, Ahead
    <2> QED
      BY <2>1, <2>2
  <1> QED
    BY <1>1, <1>2, <1>3, Invariant, PTL DEF Spec, BuffersHidden

\* The detailed specification implements the abstract one: to a program that has
\* none of the habits the target is the host, from its start on (doc/plugins.qbk
\* 24; the run with the habit "lone" shows what happens otherwise).
THEOREM TargetIsHost == Spec /\ habits = {} => LikeOnHost
  <1>1. Init /\ habits = {} => AsOnHost!HostInit
    <2> SUFFICES ASSUME Init, habits = {} PROVE AsOnHost!HostInit
      OBVIOUS
    <2>1. Inv /\ Mirrors /\ ~ended
      BY InvInit, NewlibAssumption DEF Init, Mirrors, NoFd
    <2>2. \A f \in Fd : Seen[f] \in FileState
      BY <2>1, SeenFiles DEF Files
    <2>3. AsOnHost!FileState = FileState
      BY DEF AsOnHost!FileState, FileState, AsOnHost!Byte, Byte, AsOnHost!BytesOf, BytesOf
    <2>4. result = Returned("start", "none", 0, 0)
      BY DEF Init
    <2> QED
      BY <2>2, <2>3, <2>4, SameOperators DEF AsOnHost!HostInit
  <1>2. habits = {} /\ [Next]_vars => (habits = {})'
    BY DEF Next, vars
  <1>3. BuffersHidden /\ [](habits = {}) => [][AsOnHost!HostNext]_(AsOnHost!hostVars)
    <2>1. [habits = {} => AsOnHost!HostNext]_<<Seen, result>> /\ habits = {}
            => [AsOnHost!HostNext]_(AsOnHost!hostVars)
      BY DEF AsOnHost!hostVars
    <2> QED
      BY <2>1, PTL DEF BuffersHidden
  <1> QED
    BY <1>1, <1>2, <1>3, BuffersAreHidden, PTL DEF Spec, LikeOnHost, AsOnHost!HostSpec
=============================================================================
