-------------------------- MODULE Mi2Session_proof --------------------------
(***************************************************************************)
(* Theorems about Mi2Interpreter when its callers keep to the protocol of  *)
(* gdb::process, for every number of calls and tokens: no stop is lost,    *)
(* the stream is in step between calls, and the interpreter implements     *)
(* the call-by-call interface of DebugSession.                             *)
(***************************************************************************)
EXTENDS Mi2Interpreter_proof, FiniteSetTheorems

\* The lines that matter to the protocol are marks; the others come and go.
Stopped    == Line("stopped")
TokenAsync == Line("tokenAsync")
Plain(line) == line.kind \in {"stream", "async", "text"}

\* The marks of u are those of m, in its order.
Shows(u, m) ==
    \E p \in [1 .. Len(m) -> 1 .. Len(u)] :
        /\ \A j, k \in 1 .. Len(m) : j < k => p[j] < p[k]
        /\ \A j \in 1 .. Len(m) : u[p[j]] = m[j] /\ ~Plain(m[j])
        /\ \A i \in 1 .. Len(u) : Plain(u[i]) \/ \E j \in 1 .. Len(m) : p[j] = i

\* The mark a, then those of m.
Then(a, m) == <<a>> \o m

-----------------------------------------------------------------------------
(* Marks of sequences of lines.                                            *)

\* A sequence that starts with a mark.
LEMMA ThenIs ==
    ASSUME NEW a \in Lines, NEW m \in Seq(Lines)
    PROVE  /\ Then(a, m) \in Seq(Lines) /\ Then(a, m) # <<>> /\ Len(Then(a, m)) = Len(m) + 1
           /\ Head(Then(a, m)) = a /\ Tail(Then(a, m)) = m /\ Then(a, m)[1] = a
           /\ \A j \in 1 .. Len(m) : Then(a, m)[j + 1] = m[j]
  <1> DEFINE one == <<a>>
             all == one \o m
  <1>1. one \in Seq(Lines) /\ Len(one) = 1 /\ one[1] = a /\ Len(m) \in Nat
    BY LenProperties
  <1> HIDE DEF one
  <1>2. /\ all \in Seq(Lines) /\ Len(all) = Len(m) + 1
        /\ \A i \in 1 .. Len(m) + 1 : all[i] = IF i <= 1 THEN one[i] ELSE m[i - 1]
    <2>1. /\ all \in Seq(Lines) /\ Len(all) = Len(one) + Len(m)
          /\ \A i \in 1 .. Len(one) + Len(m) :
               all[i] = IF i <= Len(one) THEN one[i] ELSE m[i - Len(one)]
      BY <1>1, ConcatProperties
    <2> HIDE DEF all
    <2> QED
      BY <1>1, <2>1
  <1> HIDE DEF all
  <1>3. all[1] = a /\ \A j \in 1 .. Len(m) : all[j + 1] = m[j]
    BY <1>1, <1>2
  <1>4. all # <<>>
    BY <1>1, <1>2, EmptySeq
  <1>5. Head(all) = a
    BY <1>2, <1>3, <1>4
  <1>6. Tail(all) = m
    <2> DEFINE t == Tail(all)
    <2>1. t \in Seq(Lines) /\ Len(t) = Len(m) /\ \A i \in 1 .. Len(t) : t[i] = all[i + 1]
      BY <1>1, <1>2, <1>4, HeadTailProperties
    <2> HIDE DEF t
    <2>2. \A i \in 1 .. Len(t) : t[i] = m[i]
      BY <1>3, <2>1
    <2>3. t = m
      BY <2>1, <2>2, SeqEqual
    <2> QED
      BY <2>3 DEF t
  <1> QED
    BY <1>2, <1>3, <1>4, <1>5, <1>6 DEF Then, one, all

\* Nothing has no marks; a line has itself, or none.
LEMMA ShowsOne ==
    /\ Shows(<<>>, <<>>)
    /\ \A l : Plain(l) => Shows(<<l>>, <<>>)
    /\ \A l : ~Plain(l) => Shows(<<l>>, <<l>>)
  <1> DEFINE e == <<>>
  <1>1. Len(e) = 0
    BY EmptySeq
  <1> HIDE DEF e
  <1>2. Shows(e, e)
    <2> DEFINE p == [j \in 1 .. 0 |-> 1]
    <2>1. p \in [1 .. 0 -> 1 .. 0] /\ 1 .. 0 = {}
      OBVIOUS
    <2> HIDE DEF p
    <2> QED
      BY <1>1, <2>1 DEF Shows
  <1>3. ASSUME NEW l PROVE Len(<<l>>) = 1 /\ <<l>>[1] = l
    OBVIOUS
  <1>4. ASSUME NEW l, Plain(l) PROVE Shows(<<l>>, e)
    <2> DEFINE p == [j \in 1 .. 0 |-> 1]
               u == <<l>>
    <2>1. p \in [1 .. 0 -> 1 .. 1] /\ Len(u) = 1 /\ u[1] = l /\ 1 .. 0 = {}
      OBVIOUS
    <2> HIDE DEF u, p
    <2>2. \A i \in 1 .. 1 : Plain(u[i])
      BY <1>4, <2>1
    <2>3. Shows(u, e)
      BY <1>1, <2>1, <2>2 DEF Shows
    <2> QED
      BY <2>3 DEF u
  <1>5. ASSUME NEW l, ~Plain(l) PROVE Shows(<<l>>, <<l>>)
    <2> DEFINE p == [j \in 1 .. 1 |-> 1]
               u == <<l>>
    <2>1. p \in [1 .. 1 -> 1 .. 1] /\ Len(u) = 1 /\ u[1] = l /\ p[1] = 1
      OBVIOUS
    <2> HIDE DEF u
    <2>2. /\ \A j, k \in 1 .. 1 : j < k => p[j] < p[k]
          /\ \A j \in 1 .. 1 : u[p[j]] = u[j] /\ ~Plain(u[j])
          /\ \A i \in 1 .. 1 : Plain(u[i]) \/ \E j \in 1 .. 1 : p[j] = i
      BY <1>5, <2>1
    <2> HIDE DEF p
    <2>3. Shows(u, u)
      BY <2>1, <2>2 DEF Shows
    <2> QED
      BY <2>3 DEF u
  <1> QED
    BY <1>2, <1>4, <1>5 DEF e

\* The marks of two sequences in a row.
LEMMA ShowsConcat ==
    ASSUME NEW S, NEW u \in Seq(S), NEW v \in Seq(S), NEW m \in Seq(S), NEW n \in Seq(S),
           Shows(u, m), Shows(v, n)
    PROVE  Shows(u \o v, m \o n)
  <1> DEFINE w == u \o v
             b == m \o n
             L == Len(m)
             U == Len(u)
  <1>1. L \in Nat /\ U \in Nat /\ Len(v) \in Nat /\ Len(n) \in Nat
    BY LenProperties
  <1>2. /\ Len(w) = U + Len(v)
        /\ \A i \in 1 .. U + Len(v) : w[i] = IF i <= U THEN u[i] ELSE v[i - U]
    BY ConcatProperties
  <1>3. /\ Len(b) = L + Len(n)
        /\ \A i \in 1 .. L + Len(n) : b[i] = IF i <= L THEN m[i] ELSE n[i - L]
    BY ConcatProperties
  <1>4. PICK p \in [1 .. L -> 1 .. U] :
          /\ \A j, k \in 1 .. L : j < k => p[j] < p[k]
          /\ \A j \in 1 .. L : u[p[j]] = m[j] /\ ~Plain(m[j])
          /\ \A i \in 1 .. U : Plain(u[i]) \/ \E j \in 1 .. L : p[j] = i
    BY DEF Shows
  <1>5. PICK q \in [1 .. Len(n) -> 1 .. Len(v)] :
          /\ \A j, k \in 1 .. Len(n) : j < k => q[j] < q[k]
          /\ \A j \in 1 .. Len(n) : v[q[j]] = n[j] /\ ~Plain(n[j])
          /\ \A i \in 1 .. Len(v) : Plain(v[i]) \/ \E j \in 1 .. Len(n) : q[j] = i
    BY DEF Shows
  <1> DEFINE r == [j \in 1 .. L + Len(n) |-> IF j <= L THEN p[j] ELSE U + q[j - L]]
  <1> HIDE DEF w, b, L, U
  <1>6. \A j \in 1 .. L + Len(n) :
          /\ r[j] \in 1 .. U + Len(v)
          /\ j <= L => j \in 1 .. L /\ r[j] = p[j] /\ p[j] \in 1 .. U
          /\ j > L => j - L \in 1 .. Len(n) /\ r[j] = U + q[j - L] /\ q[j - L] \in 1 .. Len(v)
    <2> SUFFICES ASSUME NEW j \in 1 .. L + Len(n)
                 PROVE  /\ r[j] \in 1 .. U + Len(v)
                        /\ j <= L => j \in 1 .. L /\ r[j] = p[j] /\ p[j] \in 1 .. U
                        /\ j > L => j - L \in 1 .. Len(n) /\ r[j] = U + q[j - L]
                                    /\ q[j - L] \in 1 .. Len(v)
      OBVIOUS
    <2>1. CASE j <= L
      <3>1. j \in 1 .. L /\ r[j] = p[j]
        BY <1>1, <2>1
      <3>2. p[j] \in 1 .. U
        BY <3>1
      <3> QED
        BY <1>1, <2>1, <3>1, <3>2
    <2>2. CASE j > L
      <3>1. j - L \in 1 .. Len(n) /\ r[j] = U + q[j - L]
        BY <1>1, <2>2
      <3>2. q[j - L] \in 1 .. Len(v)
        BY <3>1
      <3> QED
        BY <1>1, <2>2, <3>1, <3>2
    <2> QED
      BY <1>1, <2>1, <2>2
  <1>7. r \in [1 .. L + Len(n) -> 1 .. U + Len(v)]
    BY <1>6
  <1> HIDE DEF r
  <1>8. ASSUME NEW j \in 1 .. L + Len(n), NEW k \in 1 .. L + Len(n), j < k
        PROVE  r[j] < r[k]
    <2>1. CASE k <= L
      <3>1. j <= L
        BY <1>1, <1>8, <2>1
      <3>2. /\ j \in 1 .. L /\ k \in 1 .. L /\ r[j] = p[j] /\ r[k] = p[k]
        BY <1>6, <2>1, <3>1
      <3> QED
        BY <1>4, <1>8, <3>2
    <2>2. CASE j <= L /\ k > L
      <3>1. /\ r[j] = p[j] /\ p[j] \in 1 .. U
            /\ r[k] = U + q[k - L] /\ q[k - L] \in 1 .. Len(v)
        BY <1>6, <2>2
      <3> DEFINE x == p[j]
                 y == q[k - L]
      <3>2. x \in 1 .. U /\ y \in Nat \ {0} /\ U \in Nat
        BY <1>1, <3>1, SMTT(20)
      <3> HIDE DEF x, y
      <3>3. x < U + y
        BY <3>2
      <3> QED
        BY <3>1, <3>3 DEF x, y
    <2>3. CASE j > L
      <3>1. q[j - L] < q[k - L]
        <4>1. j - L \in 1 .. Len(n) /\ k - L \in 1 .. Len(n) /\ j - L < k - L
          BY <1>1, <1>8, <2>3
        <4> QED
          BY <1>5, <4>1
      <3> QED
        BY <1>1, <1>6, <1>8, <2>3, <3>1, SMTT(20)
    <2> QED
      BY <1>1, <2>1, <2>2, <2>3
  <1>9. ASSUME NEW j \in 1 .. L + Len(n)
        PROVE  w[r[j]] = b[j] /\ ~Plain(b[j])
    <2>1. CASE j <= L
      <3>1. w[r[j]] = u[p[j]] /\ b[j] = m[j]
        BY <1>1, <1>2, <1>3, <1>6, <2>1, SMTT(20)
      <3> QED
        BY <1>4, <1>6, <2>1, <3>1
    <2>2. CASE j > L
      <3>1. j - L \in 1 .. Len(n) /\ ~(j <= L)
        BY <1>1, <2>2
      <3>2. q[j - L] \in 1 .. Len(v)
        BY <1>5, <3>1
      <3>3. r[j] = U + q[j - L]
        BY <1>6, <2>2
      <3>4. r[j] \in 1 .. U + Len(v) /\ ~(r[j] <= U) /\ r[j] - U = q[j - L]
        BY <1>1, <3>2, <3>3, SMTT(20)
      <3>5. w[r[j]] = v[q[j - L]]
        BY <1>2, <3>4
      <3>6. b[j] = n[j - L]
        BY <1>3, <3>1
      <3> QED
        BY <1>5, <3>1, <3>5, <3>6
    <2> QED
      BY <1>1, <2>1, <2>2
  <1>10. ASSUME NEW i \in 1 .. U + Len(v)
         PROVE  Plain(w[i]) \/ \E j \in 1 .. L + Len(n) : r[j] = i
    <2>1. CASE i <= U
      <3>1. w[i] = u[i] /\ i \in 1 .. U
        BY <1>1, <1>2, <2>1
      <3>2. ASSUME NEW j \in 1 .. L, p[j] = i PROVE j \in 1 .. L + Len(n) /\ r[j] = i
        BY <1>1, <1>6, <3>2
      <3> QED
        BY <1>4, <3>1, <3>2
    <2>2. CASE i > U
      <3>1. w[i] = v[i - U] /\ i - U \in 1 .. Len(v)
        BY <1>1, <1>2, <2>2
      <3>2. ASSUME NEW j \in 1 .. Len(n), q[j] = i - U
            PROVE  j + L \in 1 .. L + Len(n) /\ r[j + L] = i
        <4>1. j + L \in 1 .. L + Len(n) /\ j + L > L /\ (j + L) - L = j
          BY <1>1
        <4>2. r[j + L] = U + q[j]
          BY <1>6, <4>1
        <4> QED
          BY <1>1, <3>2, <4>1, <4>2
      <3> QED
        BY <1>5, <3>1, <3>2
    <2> QED
      BY <1>1, <2>1, <2>2
  <1>11. Shows(w, b)
    <2>1. r \in [1 .. Len(b) -> 1 .. Len(w)]
      BY <1>2, <1>3, <1>7
    <2>2. \A j, k \in 1 .. Len(b) : j < k => r[j] < r[k]
      BY <1>3, <1>8
    <2>3. \A j \in 1 .. Len(b) : w[r[j]] = b[j] /\ ~Plain(b[j])
      BY <1>3, <1>9
    <2>4. \A i \in 1 .. Len(w) : Plain(w[i]) \/ \E j \in 1 .. Len(b) : r[j] = i
      BY <1>2, <1>3, <1>10
    <2> QED
      BY <2>1, <2>2, <2>3, <2>4, Zenon DEF Shows
  <1> QED
    BY <1>11 DEF w, b

\* The first line is taken: it was the first mark, or none.
LEMMA ShowsTake ==
    ASSUME NEW S, NEW u \in Seq(S), NEW m \in Seq(S), Shows(u, m), u # <<>>
    PROVE  /\ Plain(Head(u)) => Shows(Tail(u), m)
           /\ ~Plain(Head(u)) => m # <<>> /\ Head(m) = Head(u) /\ Shows(Tail(u), Tail(m))
  <1> DEFINE w == Tail(u)
             U == Len(u)
             L == Len(m)
  <1>1. /\ w \in Seq(S) /\ Len(w) = U - 1 /\ \A i \in 1 .. Len(w) : w[i] = u[i + 1]
        /\ Head(u) = u[1] /\ U \in Nat /\ L \in Nat /\ U # 0
    BY HeadTailProperties, LenProperties, EmptySeq
  <1>2. PICK p \in [1 .. L -> 1 .. U] :
          /\ \A j, k \in 1 .. L : j < k => p[j] < p[k]
          /\ \A j \in 1 .. L : u[p[j]] = m[j] /\ ~Plain(m[j])
          /\ \A i \in 1 .. U : Plain(u[i]) \/ \E j \in 1 .. L : p[j] = i
    BY DEF Shows
  <1> HIDE DEF w, U
  <1>3. ASSUME Plain(u[1]) PROVE Shows(w, m)
    <2> HIDE DEF L
    <2>1. \A j \in 1 .. L : p[j] \in 2 .. U /\ p[j] - 1 \in 1 .. Len(w)
      BY <1>1, <1>2, <1>3, SMTT(20)
    <2> DEFINE q == [j \in 1 .. L |-> p[j] - 1]
    <2>2. q \in [1 .. L -> 1 .. Len(w)] /\ \A j \in 1 .. L : q[j] = p[j] - 1
      BY <2>1
    <2> HIDE DEF q
    <2>3. ASSUME NEW j \in 1 .. L, NEW k \in 1 .. L, j < k PROVE q[j] < q[k]
      <3>1. p[j] < p[k]
        BY <1>2, <2>3
      <3>2. /\ p[j] \in 2 .. U /\ p[k] \in 2 .. U
            /\ q[j] = p[j] - 1 /\ q[k] = p[k] - 1
        BY <2>1, <2>2
      <3> DEFINE x == p[j]
                 y == p[k]
      <3>3. x \in Int /\ y \in Int /\ x < y
        BY <3>1, <3>2
      <3> HIDE DEF x, y
      <3>4. x - 1 < y - 1
        BY <3>3
      <3> QED
        BY <3>2, <3>4 DEF x, y
    <2>4. ASSUME NEW j \in 1 .. L PROVE w[q[j]] = m[j] /\ ~Plain(m[j])
      <3>1. q[j] \in 1 .. Len(w) /\ q[j] + 1 = p[j]
        BY <1>1, <2>1, <2>2, SMTT(20)
      <3>2. w[q[j]] = u[p[j]]
        BY <1>1, <3>1
      <3> QED
        BY <1>2, <3>2
    <2>5. ASSUME NEW i \in 1 .. Len(w) PROVE Plain(w[i]) \/ \E j \in 1 .. L : q[j] = i
      <3>1. w[i] = u[i + 1] /\ i + 1 \in 1 .. U /\ i \in Int
        BY <1>1
      <3>2. ASSUME NEW j \in 1 .. L, p[j] = i + 1 PROVE q[j] = i
        BY <2>2, <3>1, <3>2
      <3> QED
        BY <1>2, <3>1, <3>2
    <2> QED
      BY <2>2, <2>3, <2>4, <2>5, Zenon DEF Shows, L
  <1>4. ASSUME ~Plain(u[1]) PROVE m # <<>> /\ Head(m) = u[1] /\ Shows(w, Tail(m))
    <2>1. L >= 1 /\ p[1] = 1
      <3>1. PICK j \in 1 .. L : p[j] = 1
        BY <1>1, <1>2, <1>4
      <3>2. j = 1
        <4>1. L >= 1 /\ 1 \in 1 .. L
          BY <1>1, <3>1
        <4>2. p[1] \in 1 .. U /\ (1 < j => p[1] < p[j])
          BY <1>2, <4>1
        <4> QED
          BY <1>1, <3>1, <4>2
      <3> QED
        BY <1>1, <3>1, <3>2
    <2>2. m # <<>>
      BY <2>1, EmptySeq
    <2> DEFINE n == Tail(m)
    <2>3. n \in Seq(S) /\ Len(n) = L - 1 /\ \A j \in 1 .. Len(n) : n[j] = m[j + 1]
      BY <2>2, HeadTailProperties
    <2>4. Head(m) = u[1]
      BY <1>1, <1>2, <2>1, <2>2
    <2> HIDE DEF n, L
    <2>5. \A j \in 1 .. Len(n) : /\ j + 1 \in 1 .. L /\ 1 < j + 1 /\ p[j + 1] \in 2 .. U
                                 /\ p[j + 1] - 1 \in 1 .. Len(w)
      <3> SUFFICES ASSUME NEW j \in 1 .. Len(n)
                   PROVE  /\ j + 1 \in 1 .. L /\ 1 < j + 1 /\ p[j + 1] \in 2 .. U
                          /\ p[j + 1] - 1 \in 1 .. Len(w)
        OBVIOUS
      <3>1. j + 1 \in 1 .. L /\ 1 \in 1 .. L /\ 1 < j + 1
        BY <1>1, <2>1, <2>3
      <3>2. p[j + 1] \in 1 .. U /\ p[1] < p[j + 1]
        BY <1>2, <3>1
      <3> QED
        BY <1>1, <2>1, <3>1, <3>2, SMTT(20)
    <2> DEFINE q == [j \in 1 .. Len(n) |-> p[j + 1] - 1]
    <2>6. q \in [1 .. Len(n) -> 1 .. Len(w)] /\ \A j \in 1 .. Len(n) : q[j] = p[j + 1] - 1
      BY <2>5
    <2> HIDE DEF q
    <2>7. ASSUME NEW j \in 1 .. Len(n), NEW k \in 1 .. Len(n), j < k PROVE q[j] < q[k]
      <3>1. j + 1 < k + 1 /\ j + 1 \in 1 .. L /\ k + 1 \in 1 .. L
        BY <2>5, <2>7
      <3>2. p[j + 1] < p[k + 1]
        BY <1>2, <3>1
      <3> QED
        BY <2>5, <2>6, <3>2
    <2>8. ASSUME NEW j \in 1 .. Len(n) PROVE w[q[j]] = n[j] /\ ~Plain(n[j])
      <3>1. q[j] \in 1 .. Len(w) /\ q[j] + 1 = p[j + 1]
        BY <1>1, <2>5, <2>6
      <3>2. w[q[j]] = u[p[j + 1]]
        BY <1>1, <3>1
      <3> QED
        BY <1>2, <2>3, <2>5, <3>2
    <2>9. ASSUME NEW i \in 1 .. Len(w) PROVE Plain(w[i]) \/ \E j \in 1 .. Len(n) : q[j] = i
      <3>1. w[i] = u[i + 1] /\ i + 1 \in 1 .. U /\ i \in Int /\ i + 1 > 1
        BY <1>1
      <3>2. ASSUME NEW j \in 1 .. L, p[j] = i + 1
            PROVE  j - 1 \in 1 .. Len(n) /\ q[j - 1] = i
        <4>1. j - 1 \in 1 .. Len(n) /\ (j - 1) + 1 = j
          BY <1>1, <2>1, <2>3, <3>1, <3>2
        <4> QED
          BY <2>6, <3>1, <3>2, <4>1
      <3> QED
        BY <1>2, <3>1, <3>2
    <2>10. Shows(w, n)
      BY <2>6, <2>7, <2>8, <2>9, Zenon DEF Shows
    <2> QED
      BY <2>2, <2>4, <2>10 DEF n
  <1> QED
    BY <1>1, <1>3, <1>4 DEF w

\* A line that is no mark is put between two lines.
LEMMA ShowsInsert ==
    ASSUME NEW S, NEW u \in Seq(S), NEW v \in Seq(S), NEW m \in Seq(S), NEW q \in 0 .. Len(u),
           NEW t, Plain(t), Shows(u, m), Len(v) = Len(u) + 1,
           \A i \in 1 .. Len(v) : v[i] = IF i <= q THEN u[i] ELSE IF i = q + 1 THEN t ELSE u[i - 1]
    PROVE  Shows(v, m)
  <1> DEFINE U == Len(u)
             L == Len(m)
  <1>1. U \in Nat /\ L \in Nat /\ q \in 0 .. U /\ Len(v) = U + 1
    BY LenProperties
  <1>2. PICK p \in [1 .. L -> 1 .. U] :
          /\ \A j, k \in 1 .. L : j < k => p[j] < p[k]
          /\ \A j \in 1 .. L : u[p[j]] = m[j] /\ ~Plain(m[j])
          /\ \A i \in 1 .. U : Plain(u[i]) \/ \E j \in 1 .. L : p[j] = i
    BY DEF Shows
  <1> HIDE DEF U, L
  <1> DEFINE r == [j \in 1 .. L |-> IF p[j] <= q THEN p[j] ELSE p[j] + 1]
  <1>3. \A j \in 1 .. L : p[j] \in 1 .. U /\ r[j] = IF p[j] <= q THEN p[j] ELSE p[j] + 1
    OBVIOUS
  <1>4. r \in [1 .. L -> 1 .. Len(v)]
    BY <1>1, <1>3
  <1> HIDE DEF r
  <1>5. ASSUME NEW j \in 1 .. L, NEW k \in 1 .. L, j < k PROVE r[j] < r[k]
    <2>1. p[j] < p[k]
      BY <1>2, <1>5
    <2> QED
      BY <1>1, <1>3, <2>1
  <1>6. ASSUME NEW j \in 1 .. L PROVE v[r[j]] = m[j] /\ ~Plain(m[j])
    <2>1. v[r[j]] = u[p[j]]
      <3>1. p[j] \in 1 .. U /\ (p[j] <= q => r[j] = p[j]) /\ (~(p[j] <= q) => r[j] = p[j] + 1)
        BY <1>3
      <3>2. CASE p[j] <= q
        BY <1>1, <3>1, <3>2
      <3>3. CASE ~(p[j] <= q)
        <4>1. /\ p[j] + 1 \in 1 .. Len(v) /\ ~(p[j] + 1 <= q) /\ p[j] + 1 # q + 1
              /\ (p[j] + 1) - 1 = p[j]
          BY <1>1, <3>1, <3>3
        <4> QED
          BY <3>1, <3>3, <4>1
      <3> QED
        BY <3>2, <3>3
    <2> QED
      BY <1>2, <2>1
  <1>7. ASSUME NEW i \in 1 .. Len(v) PROVE Plain(v[i]) \/ \E j \in 1 .. L : r[j] = i
    <2>1. CASE i <= q
      <3>1. i \in 1 .. U /\ v[i] = u[i]
        BY <1>1, <2>1
      <3>2. ASSUME NEW j \in 1 .. L, p[j] = i PROVE r[j] = i
        BY <1>3, <2>1, <3>2
      <3> QED
        BY <1>2, <3>1, <3>2
    <2>2. CASE i = q + 1
      <3>1. ~(i <= q)
        BY <1>1, <2>2
      <3>2. v[i] = t
        BY <2>2, <3>1
      <3> QED
        BY <3>2
    <2>3. CASE i > q + 1
      <3>1. i - 1 \in 1 .. U /\ v[i] = u[i - 1] /\ i \in Int
        BY <1>1, <2>3
      <3>2. ASSUME NEW j \in 1 .. L, p[j] = i - 1 PROVE r[j] = i
        BY <1>1, <1>3, <2>3, <3>1, <3>2, SMTT(20)
      <3> QED
        BY <1>2, <3>1, <3>2
    <2>4. i <= q \/ i = q + 1 \/ i > q + 1
      BY <1>1
    <2> QED
      BY <2>1, <2>2, <2>3, <2>4, Zenon
  <1> QED
    BY <1>4, <1>5, <1>6, <1>7, Zenon DEF Shows, L

\* The lines of a kind, counted: none without a mark of it, one with one.
LEMMA ShowsCount ==
    ASSUME NEW u \in Seq(Lines), NEW m \in Seq(Lines), Shows(u, m),
           NEW kind, kind \notin {"stream", "async", "text"}
    PROVE  /\ (\A j \in 1 .. Len(m) : m[j].kind # kind)
                => Cardinality({i \in DOMAIN u : u[i].kind = kind}) = 0
           /\ \A k \in 1 .. Len(m) : (\A j \in 1 .. Len(m) : m[j].kind = kind <=> j = k)
                => Cardinality({i \in DOMAIN u : u[i].kind = kind}) = 1
  <1> DEFINE found == {i \in DOMAIN u : u[i].kind = kind}
  <1>1. PICK p \in [1 .. Len(m) -> 1 .. Len(u)] :
          /\ \A j \in 1 .. Len(m) : u[p[j]] = m[j] /\ ~Plain(m[j])
          /\ \A i \in 1 .. Len(u) : Plain(u[i]) \/ \E j \in 1 .. Len(m) : p[j] = i
    BY DEF Shows
  <1>2. DOMAIN u = 1 .. Len(u)
    BY LenProperties
  <1>3. ASSUME NEW i \in found
        PROVE  \E j \in 1 .. Len(m) : p[j] = i /\ m[j].kind = kind
    <2>1. i \in 1 .. Len(u) /\ u[i].kind = kind /\ ~Plain(u[i])
      BY <1>2 DEF Plain
    <2>2. PICK j \in 1 .. Len(m) : p[j] = i
      BY <1>1, <2>1
    <2>3. m[j].kind = kind
      BY <1>1, <2>1, <2>2
    <2> QED
      BY <2>2, <2>3
  <1>4. ASSUME \A j \in 1 .. Len(m) : m[j].kind # kind PROVE found = {}
    BY <1>3, <1>4
  <1>5. ASSUME NEW k \in 1 .. Len(m), \A j \in 1 .. Len(m) : m[j].kind = kind <=> j = k
        PROVE  found = {p[k]}
    <2>1. p[k] \in found
      BY <1>1, <1>2, <1>5
    <2> QED
      BY <1>3, <1>5, <2>1
  <1> HIDE DEF found
  <1>6. Cardinality({}) = 0 /\ \A x : Cardinality({x}) = 1
    BY FS_EmptySet, FS_Singleton
  <1>7. (\A j \in 1 .. Len(m) : m[j].kind # kind) => Cardinality(found) = 0
    BY <1>4, <1>6
  <1>8. \A k \in 1 .. Len(m) : (\A j \in 1 .. Len(m) : m[j].kind = kind <=> j = k)
            => Cardinality(found) = 1
    BY <1>5, <1>6
  <1> QED
    BY <1>7, <1>8 DEF found

-----------------------------------------------------------------------------
(* Where a session is, and which marks it has not read yet.                *)

\* The batch of a stop; what is left of it between calls, and when there is
\* nothing left because the program does not run.
Halt == Then(Stopped, Then(Prompt, <<>>))
Rest(m) ==
    \/ m = <<>> /\ stops = heard
    \/ m = Halt /\ stops = heard + 1 /\ target = "stopped"
Calm(m) == m = <<>> /\ stops = heard /\ target = "stopped"

\* The same after a command that gdb answered with class.
After(class, m) == Rest(m) /\ (class # "running" => Calm(m))
Given  == Answers(call.op) \ {"exit"}
Record(class) == Result(call.serial, class)

\* What a session allows after the last call: that it is waited for, and that
\* another call is made.
MustWait == Session!MustWait(last.op, last.result)
MayGoOn  == Session!MayGoOn(last.op, last.result)
Goes == (MayGoOn /\ ~MustWait) \/ last.result = "noStop"

\* Nothing was called yet; between calls; a command about to be written, and one
\* that gdb has not read.
Fresh(m) ==
    /\ pc = "idle" /\ last.op = "none" /\ last.result = "none"
    /\ m = Then(Prompt, <<>>) /\ stops = heard /\ target = "stopped"
Idle(m)    == pc = "idle" /\ last.op # "none" /\ Rest(m) /\ (Goes => Calm(m))
Writing(m) == pc = "write" /\ call.op \in CmdOps /\ got = NoReply /\ Calm(m)
Sending(m) == pc = "read" /\ call.op \in CmdOps /\ got = NoReply /\ Calm(m)

\* The banner is read; a stop is waited for, and taken.
Heading(m) ==
    /\ pc \in {"read", "lines"} /\ call.op = "header"
    /\ m = Then(Prompt, <<>>) /\ stops = heard /\ target = "stopped"
Waiting(m) == pc \in {"read", "lines"} /\ call.op = "wait" /\ got = NoReply /\ Rest(m)
Waited(m) ==
    /\ pc = "lines" /\ call.op = "wait" /\ got.class = "stopped"
    /\ m = Then(Prompt, <<>>) /\ stops = heard /\ target = "stopped"

\* The answer to a command is in the stream; its record is taken; the rest of
\* the batch is dropped after an error.
Answering(m) ==
    /\ pc \in {"read", "lines"} /\ call.op \in CmdOps /\ got = NoReply
    /\ \E class \in Given, rest \in {<<>>, Halt} :
         /\ After(class, rest)
         /\ \/ m = Then(Record(class), Then(Prompt, rest))
            \/ m = Then(TokenAsync, Then(Record(class), Then(Prompt, rest)))
Answered(m) ==
    /\ pc = "lines" /\ call.op \in CmdOps
    /\ \E class \in Given, rest \in {<<>>, Halt} :
         /\ After(class, rest) /\ m = Then(Prompt, rest)
         /\ got = [serial |-> call.serial, class |-> class]
         /\ call.op \in FuncOps \/ class = Expected(call.op)
Draining(m) ==
    /\ pc = "drain" /\ call.op \in CmdOps /\ last.op = call.op
    /\ \E class \in Given, rest \in {<<>>, Halt} :
         /\ After(class, rest)
         /\ m = Then(Record(class), Then(Prompt, rest)) \/ m = Then(Prompt, rest)
         /\ \/ last.result = "asyncToken"
            \/ last.result \in {"gdbError", "unexpected"} /\ class # "running"

Quiet(m) ==
    \/ Fresh(m) \/ Idle(m) \/ Writing(m) \/ Heading(m) \/ Waiting(m) \/ Waited(m)
    \/ Answering(m) \/ Answered(m) \/ Draining(m)
Stage(m) == (toGdb = <<>> /\ Quiet(m)) \/ (toGdb = <<call>> /\ Sending(m))

\* While gdb lives: a batch is dealt with up to its prompt, and the marks in the
\* stream are those of the stage.
Staged ==
    gdb = "up" =>
        /\ pc \in {"lines", "drain"} => HasPrompt(outBuf)
        /\ \E m \in Seq(Lines) : Shows(Unread, m) /\ Stage(m)

\* What callers that keep to the protocol may call.
LEMMA Allowed ==
    ASSUME Disciplined, NEW op \in AllOps, CallerAllows(op)
    PROVE  /\ op = "header" => last.op = "none"
           /\ op = "wait" => last.op # "none"
           /\ op \in CmdOps => Goes
  <1>1. CASE op = "header"
    BY <1>1 DEF CallerAllows, Session!InTurn, Session!MustWait, CmdOps, ClassOps, FuncOps
  <1>2. CASE op = "wait"
    BY <1>2 DEF CallerAllows, Session!InTurn, Session!MustWait, CmdOps, ClassOps, FuncOps
  <1>3. CASE op = "exit"
    BY <1>3 DEF CallerAllows, Session!InTurn, Goes, MustWait, MayGoOn
  <1>4. CASE op \in AllOps \ {"header", "wait", "exit"}
    BY <1>4 DEF CallerAllows, Session!InTurn, Goes, MustWait, MayGoOn
  <1> QED
    BY <1>1, <1>2, <1>3, <1>4

\* What gdb answers with: a command that sets the program going is waited for,
\* and the others find it stopped.
LEMMA GivenIs ==
    ASSUME call.op \in CmdOps, NEW class \in Given
    PROVE  /\ class \in Classes \ {"exit"}
           /\ class = "running" => call.op \in {"resume", "scriptRun"}
           /\ call.op = "resume" => class \in {"running", "error"}
           /\ call.op \in {"set", "query", "script"} => class \in {"done", "error"}
           /\ call.op = "interrupt" => class \in {"done", "filled", "error"}
           /\ call.op # "exit"
  <1>1. CASE call.op \in {"set", "query", "script"}
    BY <1>1 DEF Given, Answers, Classes
  <1>2. CASE call.op \in {"resume", "scriptRun"}
    BY <1>2 DEF Given, Answers, Classes
  <1>3. CASE call.op = "interrupt"
    BY <1>3 DEF Given, Answers, Classes
  <1>4. CASE call.op = "exit"
    BY <1>4 DEF Given, Answers, Classes
  <1> QED
    BY <1>1, <1>2, <1>3, <1>4 DEF CmdOps, ClassOps, FuncOps

-----------------------------------------------------------------------------
(* What the steps do to the stream.                                        *)

\* The stream holds lines, and so do the marks of a stop.
LEMMA StreamLines ==
    /\ TypeOK => Unread \in Seq(Lines) /\ outBuf \in Seq(Lines) /\ fromGdb \in Seq(Lines)
    /\ {Prompt, Text, Stopped, TokenAsync, Line("stream"), Line("async")} \subseteq Lines
    /\ \A n \in Nat, class \in Classes : Result(n, class) \in Lines
  <1>1. TypeOK => Unread \in Seq(Lines) /\ outBuf \in Seq(Lines) /\ fromGdb \in Seq(Lines)
    BY ConcatProperties DEF TypeOK, Unread
  <1>2. {Prompt, Text, Stopped, TokenAsync, Line("stream"), Line("async")} \subseteq Lines
    BY DEF Prompt, Text, Stopped, TokenAsync, Line, Lines, LineKinds
  <1>3. \A n \in Nat, class \in Classes : Result(n, class) \in Lines
    BY DEF Result, Lines, LineKinds
  <1> QED
    BY <1>1, <1>2, <1>3

\* Where no line holds "(gdb)" inside, a read ends at a prompt.
LEMMA OnlyPrompts ==
    ASSUME "inner" \notin Noise
    PROVE  /\ \A l \in Lines : l.kind # "inner" /\ (Delimits(l) => l = Prompt)
           /\ TypeOK /\ HasPrompt(outBuf) => \E i \in DOMAIN outBuf : outBuf[i] = Prompt
  <1>1. \A l \in Lines : l.kind # "inner" /\ (Delimits(l) => l = Prompt)
    BY DEF Lines, LineKinds, Delimits
  <1>2. ASSUME TypeOK, NEW i \in DOMAIN outBuf, Delimits(outBuf[i]) PROVE outBuf[i] = Prompt
    <2>1. outBuf \in Seq(Lines) /\ i \in 1 .. Len(outBuf)
      BY <1>2, LenProperties DEF TypeOK
    <2>2. outBuf[i] \in Lines
      BY <2>1, ElementOfSeq
    <2> QED
      BY <1>1, <1>2, <2>2
  <1> QED
    BY <1>1, <1>2, Zenon DEF HasPrompt

\* The kinds of the marks tell them apart.
LEMMA MarkKinds ==
    /\ Prompt.kind = "prompt" /\ Stopped.kind = "stopped" /\ TokenAsync.kind = "tokenAsync"
    /\ \A n, class : /\ Result(n, class).kind = "result" /\ Result(n, class).serial = n
                     /\ Result(n, class).class = class
    /\ ~Plain(Prompt) /\ ~Plain(Stopped) /\ ~Plain(TokenAsync) /\ Plain(Text)
    /\ \A n, class : ~Plain(Result(n, class))
    /\ \A k \in {"stream", "async", "text"} : Plain(Line(k))
  BY DEF Prompt, Stopped, TokenAsync, Text, Line, Result, Plain

\* The marks of a stop.
LEMMA HaltIs ==
    /\ <<>> \in Seq(Lines) /\ Halt \in Seq(Lines) /\ Halt # <<>>
    /\ Head(Halt) = Stopped /\ Tail(Halt) = Then(Prompt, <<>>) /\ Len(Halt) = 2
    /\ Halt[1] = Stopped /\ Halt[2] = Prompt
  <1> DEFINE e == <<>>
             one == Then(Prompt, e)
  <1>1. e \in Seq(Lines) /\ Len(e) = 0 /\ Prompt \in Lines /\ Stopped \in Lines
    BY EmptySeq, StreamLines
  <1> HIDE DEF e
  <1>2. /\ one \in Seq(Lines) /\ one # <<>> /\ Len(one) = Len(e) + 1
        /\ Head(one) = Prompt /\ Tail(one) = e /\ one[1] = Prompt
        /\ \A j \in 1 .. Len(e) : one[j + 1] = e[j]
    BY <1>1, ThenIs, Zenon
  <1> HIDE DEF one
  <1> DEFINE two == Then(Stopped, one)
  <1>3. /\ two \in Seq(Lines) /\ two # <<>> /\ Len(two) = Len(one) + 1
        /\ Head(two) = Stopped /\ Tail(two) = one /\ two[1] = Stopped
        /\ \A j \in 1 .. Len(one) : two[j + 1] = one[j]
    BY <1>1, <1>2, ThenIs, Zenon
  <1> HIDE DEF two
  <1>4. Len(one) = 1 /\ Len(two) = 2
    BY <1>1, <1>2, <1>3
  <1>5. two[1 + 1] = one[1]
    BY <1>3, <1>4
  <1>6. two[2] = Prompt
    BY <1>2, <1>5
  <1> QED
    BY <1>1, <1>3, <1>4, <1>6 DEF Halt, two, one, e

\* A line is taken from the buffer.
LEMMA StreamTake ==
    ASSUME TypeOK, outBuf # <<>>, outBuf' = Tail(outBuf), fromGdb' = fromGdb
    PROVE  Unread # <<>> /\ Head(Unread) = Head(outBuf) /\ Unread' = Tail(Unread)
  <1> DEFINE u == Unread
             t == Tail(u)
             b == Tail(outBuf)
             w == b \o fromGdb
  <1>1. outBuf \in Seq(Lines) /\ fromGdb \in Seq(Lines)
    BY DEF TypeOK
  <1>2. Len(outBuf) \in Nat /\ Len(outBuf) # 0 /\ Len(fromGdb) \in Nat
    BY <1>1, LenProperties, EmptySeq
  <1>3. /\ u \in Seq(Lines) /\ Len(u) = Len(outBuf) + Len(fromGdb)
        /\ \A i \in 1 .. Len(outBuf) + Len(fromGdb) :
             u[i] = IF i <= Len(outBuf) THEN outBuf[i] ELSE fromGdb[i - Len(outBuf)]
    BY <1>1, ConcatProperties DEF Unread
  <1> HIDE DEF u
  <1>4. u # <<>>
    BY <1>2, <1>3, EmptySeq
  <1>5. Head(u) = Head(outBuf)
    BY <1>1, <1>2, <1>3, <1>4
  <1>6. /\ t \in Seq(Lines) /\ Len(t) = Len(u) - 1 /\ \A i \in 1 .. Len(t) : t[i] = u[i + 1]
    BY <1>3, <1>4, HeadTailProperties
  <1>7. /\ b \in Seq(Lines) /\ Len(b) = Len(outBuf) - 1
        /\ \A i \in 1 .. Len(b) : b[i] = outBuf[i + 1]
    BY <1>1, HeadTailProperties
  <1> HIDE DEF t, b
  <1>8. /\ w \in Seq(Lines) /\ Len(w) = Len(b) + Len(fromGdb)
        /\ \A i \in 1 .. Len(b) + Len(fromGdb) :
             w[i] = IF i <= Len(b) THEN b[i] ELSE fromGdb[i - Len(b)]
    BY <1>1, <1>7, ConcatProperties
  <1> HIDE DEF w
  <1>9. Len(w) = Len(t)
    BY <1>2, <1>3, <1>6, <1>7, <1>8
  <1>10. ASSUME NEW i \in 1 .. Len(w) PROVE w[i] = t[i]
    <2>1. t[i] = u[i + 1]
      BY <1>6, <1>9
    <2>2. CASE i <= Len(b)
      BY <1>2, <1>3, <1>6, <1>7, <1>8, <1>9, <2>1, <2>2
    <2>3. CASE i > Len(b)
      <3>1. w[i] = fromGdb[i - Len(b)]
        BY <1>2, <1>7, <1>8, <2>3
      <3>2. u[i + 1] = fromGdb[i + 1 - Len(outBuf)]
        BY <1>2, <1>3, <1>7, <1>8, <2>3
      <3>3. i + 1 - Len(outBuf) = i - Len(b)
        BY <1>2, <1>7
      <3> QED
        BY <2>1, <3>1, <3>2, <3>3
    <2>4. i <= Len(b) \/ i > Len(b)
      BY <1>2, <1>7
    <2> QED
      BY <2>2, <2>3, <2>4
  <1>11. w = t
    BY <1>6, <1>8, <1>9, <1>10, SeqEqual
  <1>12. Unread' = w
    BY DEF Unread, w, b
  <1> QED
    BY <1>4, <1>5, <1>11, <1>12 DEF u, t

\* Three sequences in a row.
LEMMA ThreeInARow ==
    ASSUME NEW s, NEW t, NEW u, s \in Seq(Lines), t \in Seq(Lines), u \in Seq(Lines)
    PROVE  (s \o t) \o u = s \o (t \o u)
  BY ConcatAssociative

\* gdb says something.
LEMMA StreamAppend ==
    ASSUME TypeOK, NEW said \in Seq(Lines), outBuf' = outBuf, fromGdb' = fromGdb \o said
    PROVE  Unread' = Unread \o said
  <1>1. outBuf \in Seq(Lines) /\ fromGdb \in Seq(Lines)
    BY DEF TypeOK
  <1>2. (outBuf \o fromGdb) \o said = outBuf \o (fromGdb \o said)
    BY <1>1, ThreeInARow, SMTT(30)
  <1>3. Unread' = outBuf \o (fromGdb \o said)
    BY DEF Unread
  <1> QED
    BY <1>2, <1>3 DEF Unread

\* Reading moves lines to the buffer; a prompt may leave its line's end behind.
LEMMA StreamRead ==
    ASSUME TypeOK, TypeOK', "inner" \notin Noise, ReadChunk, NEW m \in Seq(Lines), Shows(Unread, m)
    PROVE  Shows(Unread', m)
  <1> DEFINE Taken(n) == outBuf \o SubSeq(fromGdb, 1, n)
             Left(n)  == SubSeq(fromGdb, n + 1, Len(fromGdb))
  <1>1. PICK n \in 0 .. Len(fromGdb) :
          \/ outBuf' = Taken(n) /\ fromGdb' = Left(n)
          \/ /\ n < Len(fromGdb) /\ Left(n)[1] = Prompt
             /\ outBuf' = Append(Taken(n), Prompt) /\ fromGdb' = <<Text>> \o Tail(Left(n))
    <2>1. PICK k \in 0 .. Len(fromGdb) :
            \/ outBuf' = Taken(k) /\ fromGdb' = Left(k)
            \/ /\ k < Len(fromGdb) /\ Delimits(Left(k)[1])
               /\ outBuf' = Append(Taken(k), Left(k)[1]) /\ fromGdb' = <<Text>> \o Tail(Left(k))
      BY DEF ReadChunk
    <2>2. k < Len(fromGdb) => Left(k)[1] \in Lines
      <3> DEFINE left == Left(k)
      <3>1. fromGdb \in Seq(Lines) /\ Len(fromGdb) \in Nat
        BY LenProperties DEF TypeOK
      <3>2. \A i \in 1 .. Len(fromGdb) : fromGdb[i] \in Lines
        BY <3>1, ElementOfSeq
      <3>3. \A i \in k + 1 .. Len(fromGdb) : fromGdb[i] \in Lines
        BY <3>1, <3>2
      <3>4. /\ Len(left) = (IF k + 1 <= Len(fromGdb) THEN Len(fromGdb) - (k + 1) + 1 ELSE 0)
            /\ left \in Seq(Lines)
        <4>1. k + 1 \in Int /\ Len(fromGdb) \in Int
          BY <3>1
        <4> QED
          BY <3>1, <3>3, <4>1, SubSeqProperties
      <3> HIDE DEF left
      <3>5. ASSUME k < Len(fromGdb) PROVE left[1] \in Lines
        <4>1. 1 \in 1 .. Len(left)
          BY <3>1, <3>4, <3>5
        <4> QED
          BY <3>4, <4>1, ElementOfSeq
      <3> QED
        BY <3>5 DEF left
    <2>3. k < Len(fromGdb) /\ Delimits(Left(k)[1]) => Left(k)[1] = Prompt
      BY <2>2, OnlyPrompts
    <2> HIDE DEF Left, Taken
    <2> QED
      BY <2>1, <2>3
  <1> DEFINE part  == SubSeq(fromGdb, 1, n)
             taken == outBuf \o part
             rest  == SubSeq(fromGdb, n + 1, Len(fromGdb))
             u == Unread
             w == Unread'
             F == Len(fromGdb)
             B == Len(outBuf)
  <1>2. /\ outBuf \in Seq(Lines) /\ fromGdb \in Seq(Lines) /\ F \in Nat /\ B \in Nat
        /\ n \in 0 .. F /\ u \in Seq(Lines) /\ w \in Seq(Lines)
    BY StreamLines, LenProperties, ConcatProperties DEF TypeOK, Unread
  <1>3. Prompt \in Lines /\ Text \in Lines /\ Plain(Text)
    BY StreamLines, MarkKinds
  <1>4. /\ Len(u) = B + F
        /\ \A i \in 1 .. B + F : u[i] = IF i <= B THEN outBuf[i] ELSE fromGdb[i - B]
    BY <1>2, ConcatProperties DEF Unread
  <1>5. \A i \in 1 .. F : fromGdb[i] \in Lines
    BY <1>2, ElementOfSeq
  <1>6. /\ part \in Seq(Lines) /\ Len(part) = n /\ \A i \in 1 .. n : part[i] = fromGdb[i]
    <2>1. /\ part \in Seq(Lines) /\ Len(part) = (IF 1 <= n THEN n - 1 + 1 ELSE 0)
          /\ \A i \in 1 .. n - 1 + 1 : part[i] = fromGdb[1 + i - 1]
      <3> HIDE DEF B, u, w
      <3>1. \A i \in 1 .. n : fromGdb[i] \in Lines
        BY <1>2, <1>5
      <3>2. 1 \in Int /\ n \in Int
        BY <1>2
      <3> QED
        BY <3>1, <3>2, SubSeqProperties
    <2> HIDE DEF part, F
    <2> QED
      BY <1>2, <2>1
  <1>7. /\ rest \in Seq(Lines) /\ Len(rest) = F - n
        /\ \A i \in 1 .. F - n : rest[i] = fromGdb[n + i]
    <2>1. /\ rest \in Seq(Lines) /\ Len(rest) = (IF n + 1 <= F THEN F - (n + 1) + 1 ELSE 0)
          /\ \A i \in 1 .. F - (n + 1) + 1 : rest[i] = fromGdb[n + 1 + i - 1]
      <3> HIDE DEF B, u, w
      <3>1. \A i \in n + 1 .. F : fromGdb[i] \in Lines
        BY <1>2, <1>5
      <3>2. n + 1 \in Int /\ F \in Int
        BY <1>2
      <3> QED
        BY <3>1, <3>2, SubSeqProperties
    <2> HIDE DEF rest, F
    <2> QED
      BY <1>2, <2>1
  <1> HIDE DEF part
  <1>8. /\ taken \in Seq(Lines) /\ Len(taken) = B + n
        /\ \A i \in 1 .. B + n : taken[i] = IF i <= B THEN outBuf[i] ELSE part[i - B]
    BY <1>2, <1>6, ConcatProperties
  <1>9. CASE outBuf' = taken /\ fromGdb' = rest
    <2>1. w = taken \o rest
      BY <1>9 DEF Unread
    <2> HIDE DEF taken, rest, F, B, u, w
    <2>2. /\ Len(w) = Len(taken) + Len(rest)
          /\ \A i \in 1 .. Len(taken) + Len(rest) :
               w[i] = IF i <= Len(taken) THEN taken[i] ELSE rest[i - Len(taken)]
      BY <1>7, <1>8, <2>1, ConcatProperties
    <2>3. Len(w) = B + F
      BY <1>2, <1>7, <1>8, <2>2
    <2>4. ASSUME NEW i \in 1 .. B + F PROVE w[i] = u[i]
      <3>1. CASE i <= B
        <4>1. i \in 1 .. Len(taken) + Len(rest) /\ i <= Len(taken) /\ i \in 1 .. B + n
          BY <1>2, <1>7, <1>8, <3>1, SMTT(20)
        <4>2. w[i] = taken[i] /\ taken[i] = outBuf[i] /\ u[i] = outBuf[i]
          BY <1>4, <1>8, <2>2, <3>1, <4>1
        <4> QED
          BY <4>2
      <3>2. CASE i > B /\ i <= B + n
        <4>1. i - B \in 1 .. n /\ i \in 1 .. B + n /\ i <= Len(taken) /\ ~(i <= B)
          BY <1>2, <1>8, <3>2
        <4>2. i \in 1 .. Len(taken) + Len(rest)
          BY <1>2, <1>7, <1>8, <4>1
        <4>3. w[i] = taken[i] /\ taken[i] = part[i - B]
          BY <1>8, <2>2, <4>1, <4>2
        <4>4. u[i] = fromGdb[i - B]
          BY <1>4, <4>1
        <4>5. part[i - B] = fromGdb[i - B]
          BY <1>6, <4>1
        <4> QED
          BY <4>3, <4>4, <4>5
      <3>3. CASE i > B + n
        <4>1. w[i] = rest[i - (B + n)] /\ i - (B + n) \in 1 .. F - n /\ n + (i - (B + n)) = i - B
          BY <1>2, <1>7, <1>8, <2>2, <3>3
        <4>2. w[i] = fromGdb[i - B]
          BY <1>7, <4>1
        <4> QED
          BY <1>2, <1>4, <3>3, <4>2
      <3> QED
        BY <1>2, <3>1, <3>2, <3>3
    <2>5. w = u
      BY <1>2, <1>4, <2>3, <2>4, SeqEqual
    <2> QED
      BY <2>5 DEF u, w
  <1>10. CASE /\ n < F /\ rest[1] = Prompt /\ outBuf' = Append(taken, Prompt)
              /\ fromGdb' = <<Text>> \o Tail(rest)
    <2> DEFINE first == Append(taken, Prompt)
               t     == Tail(rest)
               second == Then(Text, t)
    <2>1. w = first \o second
      BY <1>10 DEF Unread, Then
    <2> HIDE DEF taken, rest, F, B, u, w
    <2>2. /\ first \in Seq(Lines) /\ Len(first) = B + n + 1
          /\ \A i \in 1 .. B + n : first[i] = taken[i]
          /\ first[B + n + 1] = Prompt
      BY <1>2, <1>3, <1>8, AppendProperties
    <2>3. rest # <<>>
      BY <1>2, <1>7, <1>10, EmptySeq
    <2>4. t \in Seq(Lines) /\ Len(t) = F - n - 1 /\ \A i \in 1 .. Len(t) : t[i] = rest[i + 1]
      BY <1>7, <2>3, HeadTailProperties
    <2> HIDE DEF t, first
    <2>5. /\ second \in Seq(Lines) /\ Len(second) = F - n /\ second[1] = Text
          /\ \A i \in 1 .. Len(t) : second[i + 1] = t[i]
      <3>1. /\ second \in Seq(Lines) /\ second # <<>> /\ Len(second) = Len(t) + 1
            /\ Head(second) = Text /\ Tail(second) = t /\ second[1] = Text
            /\ \A j \in 1 .. Len(t) : second[j + 1] = t[j]
        BY <1>3, <2>4, ThenIs, Zenon
      <3> HIDE DEF second
      <3> QED
        BY <1>2, <2>4, <3>1
    <2> HIDE DEF second
    <2>6. /\ Len(w) = Len(first) + Len(second)
          /\ \A i \in 1 .. Len(first) + Len(second) :
               w[i] = IF i <= Len(first) THEN first[i] ELSE second[i - Len(first)]
      BY <2>1, <2>2, <2>5, ConcatProperties
    <2> DEFINE q == B + n + 1
    <2>7. q \in 0 .. Len(u) /\ Len(w) = Len(u) + 1
      BY <1>2, <1>4, <1>10, <2>2, <2>5, <2>6
    <2>8. ASSUME NEW i \in 1 .. Len(w)
          PROVE  w[i] = IF i <= q THEN u[i] ELSE IF i = q + 1 THEN Text ELSE u[i - 1]
      <3>1. CASE i <= B
        <4>0. i <= q /\ i <= Len(first) /\ i \in 1 .. Len(first) + Len(second) /\ i \in 1 .. B + n
          BY <1>2, <2>2, <2>5, <2>6, <3>1
        <4>1. w[i] = first[i] /\ first[i] = taken[i] /\ taken[i] = outBuf[i] /\ i <= q
          BY <1>8, <2>2, <2>6, <3>1, <4>0
        <4>2. u[i] = outBuf[i]
          BY <1>2, <1>4, <3>1
        <4> QED
          BY <4>1, <4>2
      <3>2. CASE i > B /\ i <= B + n
        <4>1. i - B \in 1 .. n /\ i <= q /\ i \in 1 .. B + n /\ ~(i <= B) /\ i \in 1 .. B + F
          BY <1>2, <3>2
        <4>2. i <= Len(first) /\ i \in 1 .. Len(first) + Len(second)
          BY <1>2, <2>2, <2>5, <4>1
        <4>3. w[i] = first[i]
          BY <2>6, <4>2
        <4>4. first[i] = taken[i] /\ taken[i] = part[i - B]
          BY <1>8, <2>2, <4>1
        <4>5. u[i] = fromGdb[i - B] /\ part[i - B] = fromGdb[i - B]
          BY <1>4, <1>6, <4>1
        <4> QED
          BY <4>1, <4>3, <4>4, <4>5
      <3>3. CASE i = q
        <4>1. w[i] = Prompt
          BY <1>2, <2>2, <2>6, <2>7, <3>3
        <4>2. u[i] = fromGdb[n + 1]
          <5>1. i \in 1 .. B + F /\ ~(i <= B) /\ i - B = n + 1
            BY <1>2, <1>4, <2>7, <3>3
          <5> QED
            BY <1>4, <5>1
        <4>3. rest[1] = fromGdb[n + 1]
          BY <1>2, <1>7, <1>10
        <4> QED
          BY <1>2, <1>10, <3>3, <4>1, <4>2, <4>3
      <3>4. CASE i = q + 1
        <4>1. w[i] = second[1]
          <5>1. i - Len(first) = 1 /\ ~(i <= Len(first)) /\ i \in 1 .. Len(first) + Len(second)
            BY <1>2, <2>2, <2>6, <3>4
          <5> QED
            BY <2>6, <5>1
        <4> QED
          BY <1>2, <2>5, <3>4, <4>1
      <3>5. CASE i > q + 1
        <4>1. w[i] = second[i - q]
          BY <1>2, <2>2, <2>6, <3>5
        <4>2. i - q - 1 \in 1 .. Len(t) /\ (i - q - 1) + 1 = i - q /\ i - q - 1 + 1 + n = i - 1 - B
          BY <1>2, <1>4, <2>4, <2>7, <3>5
        <4>3. second[i - q] = rest[i - q]
          BY <2>4, <2>5, <4>2
        <4>4. rest[i - q] = fromGdb[n + (i - q)] /\ n + (i - q) = i - 1 - B
          BY <1>2, <1>7, <2>4, <4>2
        <4>5. u[i - 1] = fromGdb[i - 1 - B]
          BY <1>2, <1>4, <2>7, <3>5
        <4> QED
          BY <1>2, <3>5, <4>1, <4>3, <4>4, <4>5
      <3>6. i <= B \/ (i > B /\ i <= B + n) \/ i = q \/ i = q + 1 \/ i > q + 1
        BY <1>2
      <3> QED
        BY <3>1, <3>2, <3>3, <3>4, <3>5, <3>6, Zenon
    <2>9. Shows(u, m)
      BY DEF u
    <2> HIDE DEF q
    <2>10. Shows(w, m)
      BY <1>2, <1>3, <2>7, <2>8, <2>9, ShowsInsert
    <2> QED
      BY <2>10 DEF w
  <1>11. \/ outBuf' = taken /\ fromGdb' = rest
         \/ /\ n < F /\ rest[1] = Prompt /\ outBuf' = Append(taken, Prompt)
            /\ fromGdb' = <<Text>> \o Tail(rest)
    BY <1>1 DEF part
  <1> HIDE DEF taken, rest, F
  <1> QED
    BY <1>9, <1>10, <1>11, Zenon

\* A mark in front, then more marks behind.
LEMMA ThenConcat ==
    ASSUME NEW a \in Lines, NEW m \in Seq(Lines), NEW n \in Seq(Lines)
    PROVE  Then(a, m) \o n = Then(a, m \o n)
  <1> DEFINE one == <<a>>
  <1>1. one \in Seq(Lines)
    OBVIOUS
  <1> HIDE DEF one
  <1>2. (one \o m) \o n = one \o (m \o n)
    BY <1>1, ThreeInARow, SMTT(30)
  <1> QED
    BY <1>2 DEF Then, one

\* Nothing in front, or behind.
LEMMA NothingMore ==
    ASSUME NEW m, m \in Seq(Lines)
    PROVE  <<>> \o m = m /\ m \o <<>> = m
  BY EmptySeq, ConcatProperties, SeqEqual

\* A line is taken: it was the first mark, or none.
LEMMA MarkTaken ==
    ASSUME TypeOK, outBuf # <<>>, TakeLine, fromGdb' = fromGdb,
           NEW m \in Seq(Lines), Shows(Unread, m)
    PROVE  /\ Plain(Head(outBuf)) => Shows(Unread', m)
           /\ ~Plain(Head(outBuf))
                => /\ m # <<>> /\ Head(m) = Head(outBuf) /\ Tail(m) \in Seq(Lines)
                   /\ Shows(Unread', Tail(m))
  <1> DEFINE u == Unread
  <1>1. u # <<>> /\ Head(u) = Head(outBuf) /\ Unread' = Tail(u)
    BY StreamTake DEF TakeLine
  <1>2. u \in Seq(Lines) /\ Shows(u, m)
    BY StreamLines
  <1> HIDE DEF u
  <1>3. /\ Plain(Head(u)) => Shows(Tail(u), m)
        /\ ~Plain(Head(u)) => m # <<>> /\ Head(m) = Head(u) /\ Shows(Tail(u), Tail(m))
    BY <1>1, <1>2, ShowsTake, Zenon
  <1>4. m # <<>> => Tail(m) \in Seq(Lines)
    BY HeadTailProperties
  <1> QED
    BY <1>1, <1>3, <1>4

\* gdb says something: its marks come last.
LEMMA MarksSaid ==
    ASSUME TypeOK, NEW said \in Seq(Lines), outBuf' = outBuf, fromGdb' = fromGdb \o said,
           NEW m \in Seq(Lines), NEW n \in Seq(Lines), Shows(Unread, m), Shows(said, n)
    PROVE  Shows(Unread', m \o n)
  <1> DEFINE u == Unread
  <1>1. Unread' = u \o said
    BY StreamAppend
  <1>2. u \in Seq(Lines) /\ Shows(u, m)
    BY StreamLines
  <1> HIDE DEF u
  <1>3. Shows(u \o said, m \o n)
    BY <1>2, ShowsConcat
  <1> QED
    BY <1>1, <1>3

\* A prompt in the buffer is a mark.
LEMMA PromptShown ==
    ASSUME TypeOK, "inner" \notin Noise, HasPrompt(outBuf), NEW m \in Seq(Lines), Shows(Unread, m)
    PROVE  m # <<>> /\ outBuf # <<>>
  <1> DEFINE U == Len(Unread)
             e == <<>>
  <1>1. PICK i \in DOMAIN outBuf : outBuf[i] = Prompt
    BY OnlyPrompts
  <1>2. /\ outBuf \in Seq(Lines) /\ fromGdb \in Seq(Lines)
        /\ Len(outBuf) \in Nat /\ Len(fromGdb) \in Nat /\ i \in 1 .. Len(outBuf)
    BY LenProperties DEF TypeOK
  <1>3. U = Len(outBuf) + Len(fromGdb) /\ Unread[i] = outBuf[i]
    BY <1>2, ConcatProperties DEF Unread
  <1> HIDE DEF U
  <1>4. i \in 1 .. U /\ ~Plain(Unread[i])
    BY <1>1, <1>2, <1>3, MarkKinds
  <1>5. \E j \in 1 .. Len(m) : TRUE
    BY <1>4 DEF Shows, U
  <1>6. Len(e) = 0 /\ 1 .. 0 = {}
    BY EmptySeq
  <1> HIDE DEF e
  <1>7. m # e /\ outBuf # e
    BY <1>2, <1>5, <1>6
  <1> QED
    BY <1>7 DEF e

\* The prompt is still there after a line before it is taken.
LEMMA PromptLeft ==
    ASSUME TypeOK, "inner" \notin Noise, HasPrompt(outBuf), Head(outBuf) # Prompt, TakeLine
    PROVE  HasPrompt(outBuf')
  <1> DEFINE t == Tail(outBuf)
             e == <<>>
  <1>1. PICK i \in DOMAIN outBuf : outBuf[i] = Prompt
    BY OnlyPrompts
  <1>2. outBuf \in Seq(Lines) /\ Len(outBuf) \in Nat /\ i \in 1 .. Len(outBuf)
    BY LenProperties DEF TypeOK
  <1>3. outBuf # e
    <2>1. Len(e) = 0
      BY EmptySeq
    <2> HIDE DEF e
    <2> QED
      BY <1>2, <2>1
  <1>4. Head(outBuf) = outBuf[1]
    BY <1>2, <1>3
  <1>5. t \in Seq(Lines) /\ Len(t) = Len(outBuf) - 1 /\ \A j \in 1 .. Len(t) : t[j] = outBuf[j + 1]
    BY <1>2, <1>3, HeadTailProperties
  <1> HIDE DEF t
  <1>6. i - 1 \in 1 .. Len(t) /\ (i - 1) + 1 = i /\ DOMAIN t = 1 .. Len(t)
    BY <1>1, <1>2, <1>4, <1>5, LenProperties
  <1>7. t[i - 1] = Prompt
    BY <1>1, <1>5, <1>6
  <1>8. HasPrompt(t)
    BY <1>6, <1>7 DEF HasPrompt, Delimits
  <1> QED
    BY <1>8 DEF t, TakeLine

-----------------------------------------------------------------------------
(* Every step keeps the marks those of the stage.                          *)

stageVars == <<toGdb, target, pc, call, got, last, stops, heard>>

\* A step that only moves lines that are no marks.
LEMMA StageKept ==
    ASSUME NEW m, Stage(m), UNCHANGED stageVars
    PROVE  Stage(m)'
  BY DEF stageVars, Stage, Sending, Quiet, Fresh, Idle, Writing, Heading, Waiting, Waited,
     Answering, Answered, Draining, Rest, Calm, After, Given, Record, Goes, MayGoOn, MustWait,
     Session!MayGoOn, Session!MustWait

\* The stage the code is at, by its pc.
LEMMA StageAt ==
    ASSUME NEW m, Stage(m)
    PROVE  /\ pc = "idle" => toGdb = <<>> /\ (Fresh(m) \/ Idle(m))
           /\ pc = "write" => toGdb = <<>> /\ Writing(m)
           /\ pc = "read" => \/ toGdb = <<call>> /\ Sending(m)
                             \/ toGdb = <<>> /\ (Heading(m) \/ Waiting(m) \/ Answering(m))
           /\ pc = "lines" => /\ toGdb = <<>>
                              /\ Heading(m) \/ Waiting(m) \/ Waited(m) \/ Answering(m) \/ Answered(m)
           /\ pc = "drain" => toGdb = <<>> /\ Draining(m)
  BY DEF Stage, Sending, Quiet, Fresh, Idle, Writing, Heading, Waiting, Waited,
     Answering, Answered, Draining

\* A call finds the marks that its batch will be about.
LEMMA StageCall ==
    ASSUME Disciplined, NEW m, Stage(m), NEW op \in Ops, Call(op)
    PROVE  Stage(m)'
  <1>1. op \in AllOps /\ CallerAllows(op) /\ pc = "idle"
    BY ParametersAssumption DEF Call
  <1>2. /\ op = "header" => last.op = "none"
        /\ op = "wait" => last.op # "none"
        /\ op \in CmdOps => Goes
    BY <1>1, Allowed
  <1>3. toGdb = <<>> /\ (Fresh(m) \/ Idle(m))
    BY <1>1, StageAt
  <1>4. /\ toGdb' = toGdb /\ target' = target /\ stops' = stops /\ heard' = heard
        /\ call'.op = op /\ got' = NoReply
        /\ pc' = IF op \in CmdOps THEN "write" ELSE "read"
    BY DEF Call, streams, gdbVars
  <1>5. CASE op = "header"
    <2>1. Fresh(m) /\ pc' = "read"
      BY <1>2, <1>3, <1>4, <1>5 DEF Idle, CmdOps, ClassOps, FuncOps
    <2>2. Heading(m)'
      BY <1>4, <1>5, <2>1 DEF Fresh, Heading
    <2> QED
      BY <1>3, <1>4, <2>2 DEF Stage, Quiet
  <1>6. CASE op = "wait"
    <2>1. Idle(m) /\ pc' = "read"
      BY <1>2, <1>3, <1>4, <1>6 DEF Fresh, CmdOps, ClassOps, FuncOps
    <2>2. Waiting(m)'
      BY <1>4, <1>6, <2>1 DEF Idle, Waiting, Rest
    <2> QED
      BY <1>3, <1>4, <2>2 DEF Stage, Quiet
  <1>7. CASE op \in CmdOps
    <2>1. Calm(m) /\ pc' = "write"
      BY <1>2, <1>3, <1>4, <1>7 DEF Fresh, Idle, Goes, MayGoOn, Session!MayGoOn
    <2>2. Writing(m)'
      BY <1>4, <1>7, <2>1 DEF Writing, Calm
    <2> QED
      BY <1>3, <1>4, <2>2 DEF Stage, Quiet
  <1> QED
    BY <1>1, <1>5, <1>6, <1>7 DEF AllOps, BareOps

\* A command is written to a gdb that waits for it.
LEMMA StageWrite ==
    ASSUME gdb = "up", NEW m, Stage(m), Write
    PROVE  Stage(m)'
  <1>1. toGdb = <<>> /\ Writing(m)
    BY StageAt DEF Write
  <1>2. toGdb' = <<call>> /\ pc' = "read" /\ call' = call
    <2> DEFINE e == <<>>
    <2>1. Append(e, call) = <<call>>
      OBVIOUS
    <2> QED
      BY <1>1, <2>1 DEF Write
  <1>3. Sending(m)'
    BY <1>1, <1>2 DEF Write, Writing, Sending, Calm, gdbVars
  <1> QED
    BY <1>2, <1>3 DEF Stage

\* A batch is complete only once gdb has read the command it answers.
LEMMA StageReadDone ==
    ASSUME TypeOK, "inner" \notin Noise, NEW m \in Seq(Lines), Shows(Unread, m), Stage(m),
           ReadDone
    PROVE  Stage(m)'
  <1>1. m # <<>>
    BY PromptShown DEF ReadDone
  <1>2. toGdb = <<>> /\ (Heading(m) \/ Waiting(m) \/ Answering(m))
    BY <1>1, StageAt DEF ReadDone, Sending, Calm
  <1>3. pc' = "lines" /\ UNCHANGED <<toGdb, target, call, got, last, stops, heard>>
    BY DEF ReadDone, streams, gdbVars
  <1>4. Quiet(m)'
    BY <1>2, <1>3 DEF Quiet, Heading, Waiting, Answering, Rest, Calm, After, Given, Record
  <1> QED
    BY <1>2, <1>3, <1>4 DEF Stage

\* The marks of an answer that is not read yet, one by one.
LEMMA AnswerMarks ==
    ASSUME TypeOK, call.op \in CmdOps, NEW class \in Given, NEW rest \in {<<>>, Halt}
    PROVE  /\ Record(class) \in Lines /\ rest \in Seq(Lines)
           /\ Then(Prompt, rest) \in Seq(Lines)
           /\ Head(Then(Prompt, rest)) = Prompt /\ Tail(Then(Prompt, rest)) = rest
           /\ Then(Record(class), Then(Prompt, rest)) \in Seq(Lines)
           /\ Head(Then(Record(class), Then(Prompt, rest))) = Record(class)
           /\ Tail(Then(Record(class), Then(Prompt, rest))) = Then(Prompt, rest)
           /\ Head(Then(TokenAsync, Then(Record(class), Then(Prompt, rest)))) = TokenAsync
           /\ Tail(Then(TokenAsync, Then(Record(class), Then(Prompt, rest))))
                = Then(Record(class), Then(Prompt, rest))
  <1>1. Record(class) \in Lines
    <2>1. class \in Classes /\ call.serial \in Nat
      BY GivenIs DEF TypeOK, Calls
    <2> QED
      BY <2>1, StreamLines DEF Record
  <1>2. rest \in Seq(Lines) /\ Prompt \in Lines /\ TokenAsync \in Lines
    BY HaltIs, StreamLines
  <1> DEFINE end    == Then(Prompt, rest)
             answer == Then(Record(class), end)
             whole  == Then(TokenAsync, answer)
  <1>3. end \in Seq(Lines) /\ Head(end) = Prompt /\ Tail(end) = rest
    BY <1>2, ThenIs
  <1> HIDE DEF end
  <1>4. answer \in Seq(Lines) /\ Head(answer) = Record(class) /\ Tail(answer) = end
    BY <1>1, <1>3, ThenIs
  <1> HIDE DEF answer
  <1>5. Head(whole) = TokenAsync /\ Tail(whole) = answer
    BY <1>2, <1>4, ThenIs
  <1> QED
    BY <1>1, <1>2, <1>3, <1>4, <1>5, Zenon DEF whole, answer, end

\* The first mark of a batch that is dealt with, by what the call has taken.
LEMMA FirstMark ==
    ASSUME TypeOK, NEW m, Stage(m), pc = "lines", m # <<>>
    PROVE  \/ /\ Head(m) = Prompt
              /\ \/ Heading(m) /\ Tail(m) = <<>>
                 \/ Waited(m) /\ Tail(m) = <<>>
                 \/ Answered(m)
           \/ Head(m) = Stopped /\ Tail(m) = Then(Prompt, <<>>) /\ Waiting(m) /\ m = Halt
           \/ Head(m) = TokenAsync /\ Answering(m)
           \/ Answering(m) /\ \E class \in Given : Head(m) = Record(class)
  <1>1. Heading(m) \/ Waiting(m) \/ Waited(m) \/ Answering(m) \/ Answered(m)
    BY StageAt
  <1>2. CASE Heading(m) \/ Waited(m)
    <2>1. m = Then(Prompt, <<>>)
      BY <1>2 DEF Heading, Waited
    <2>2. Head(m) = Prompt /\ Tail(m) = <<>>
      <3> DEFINE e == <<>>
      <3>1. e \in Seq(Lines) /\ Prompt \in Lines
        BY HaltIs, StreamLines
      <3> HIDE DEF e
      <3>2. Head(Then(Prompt, e)) = Prompt /\ Tail(Then(Prompt, e)) = e
        BY <3>1, ThenIs
      <3> QED
        BY <2>1, <3>2 DEF e
    <2> QED
      BY <1>2, <2>2
  <1>3. CASE Waiting(m)
    BY <1>3, HaltIs, Zenon DEF Waiting, Rest
  <1>4. CASE Answering(m)
    BY <1>4, AnswerMarks DEF Answering
  <1>5. CASE Answered(m)
    BY <1>5, AnswerMarks DEF Answered
  <1> QED
    BY <1>1, <1>2, <1>3, <1>4, <1>5

\* The marks kept, and a batch in the buffer up to its prompt.
Kept(m) == Shows(Unread, m) /\ Stage(m) /\ (pc \in {"lines", "drain"} => HasPrompt(outBuf))

\* A line that is no mark is skipped.
LEMMA StageSkip ==
    ASSUME TypeOK, "inner" \notin Noise, NEW m \in Seq(Lines), Kept(m), SkipLine
    PROVE  Kept(m)'
  <1>1. Plain(Head(outBuf)) /\ outBuf # <<>> /\ TakeLine /\ fromGdb' = fromGdb
    <2>1. outBuf \in Seq(Lines) /\ outBuf # <<>>
      BY DEF SkipLine, AtLine, TypeOK
    <2>2. Head(outBuf) \in Lines
      BY <2>1, HeadTailProperties
    <2>3. Head(outBuf).kind # "inner"
      BY <2>2, OnlyPrompts
    <2> QED
      BY <2>1, <2>3 DEF SkipLine, AtLine, Plain
  <1>2. Shows(Unread', m)
    BY <1>1, MarkTaken DEF Kept
  <1>3. Stage(m)'
    BY StageKept DEF Kept, SkipLine, stageVars, gdbVars
  <1>4. HasPrompt(outBuf')
    <2>1. Head(outBuf) # Prompt
      BY <1>1, MarkKinds
    <2> QED
      BY <1>1, <2>1, PromptLeft DEF Kept, SkipLine, AtLine
  <1> QED
    BY <1>2, <1>3, <1>4 DEF Kept

\* "*stopped" is met by the wait it is meant for.
LEMMA StageStopped ==
    ASSUME TypeOK, "inner" \notin Noise, NEW m \in Seq(Lines), Kept(m), StoppedLine
    PROVE  Tail(m) \in Seq(Lines) /\ Kept(Tail(m))'
  <1>1. /\ Head(outBuf).kind = "stopped" /\ ~Plain(Head(outBuf)) /\ Head(outBuf) # Prompt
        /\ outBuf # <<>> /\ TakeLine /\ fromGdb' = fromGdb /\ pc = "lines"
    BY MarkKinds DEF StoppedLine, AtLine, Plain
  <1>2. /\ m # <<>> /\ Head(m) = Head(outBuf) /\ Tail(m) \in Seq(Lines)
        /\ Shows(Unread', Tail(m))
    BY <1>1, MarkTaken DEF Kept
  <1>3. Tail(m) = Then(Prompt, <<>>) /\ Waiting(m) /\ m = Halt
    <2>1. Head(m).kind # Prompt.kind /\ Head(m).kind # TokenAsync.kind
          /\ \A class : Head(m).kind # Record(class).kind
      BY <1>1, <1>2, MarkKinds DEF Record
    <2> QED
      BY <1>1, <1>2, <2>1, FirstMark DEF Kept
  <1>4. call.op = "wait" /\ stops = heard + 1 /\ target = "stopped" /\ toGdb = <<>>
    BY <1>1, <1>3, HaltIs, StageAt DEF Kept, Waiting, Rest
  <1>5. /\ got'.class = "stopped" /\ heard' = heard + 1
        /\ UNCHANGED <<toGdb, target, pc, call, last, stops>>
    BY <1>4 DEF StoppedLine, gdbVars
  <1>6. Waited(Tail(m))'
    BY <1>1, <1>3, <1>4, <1>5 DEF Waited
  <1>7. HasPrompt(outBuf')
    BY <1>1, PromptLeft DEF Kept
  <1> QED
    BY <1>2, <1>4, <1>5, <1>6, <1>7 DEF Kept, Stage, Quiet

\* An async record with a token ends the call before its answer.
LEMMA StageTokenAsync ==
    ASSUME TypeOK, "inner" \notin Noise, NEW m \in Seq(Lines), Kept(m), TokenAsyncLine
    PROVE  Tail(m) \in Seq(Lines) /\ Kept(Tail(m))'
  <1>1. /\ Head(outBuf).kind = "tokenAsync" /\ ~Plain(Head(outBuf)) /\ Head(outBuf) # Prompt
        /\ outBuf # <<>> /\ TakeLine /\ fromGdb' = fromGdb /\ pc = "lines"
    BY MarkKinds DEF TokenAsyncLine, AtLine, Plain
  <1>2. /\ m # <<>> /\ Head(m) = Head(outBuf) /\ Tail(m) \in Seq(Lines)
        /\ Shows(Unread', Tail(m))
    BY <1>1, MarkTaken DEF Kept
  <1>3. Answering(m) /\ Head(m).kind = "tokenAsync"
    <2>1. Head(m).kind # Prompt.kind /\ Head(m).kind # Stopped.kind
          /\ \A class : Head(m).kind # Record(class).kind
      BY <1>1, <1>2, MarkKinds DEF Record
    <2> QED
      BY <1>1, <1>2, <2>1, FirstMark DEF Kept
  <1>4. PICK class \in Given, rest \in {<<>>, Halt} :
          /\ After(class, rest)
          /\ \/ m = Then(Record(class), Then(Prompt, rest))
             \/ m = Then(TokenAsync, Then(Record(class), Then(Prompt, rest)))
    BY <1>3 DEF Answering
  <1>5. call.op \in CmdOps /\ toGdb = <<>>
    BY <1>1, <1>3, StageAt DEF Kept, Answering
  <1>6. m # Then(Record(class), Then(Prompt, rest))
    BY <1>3, <1>5, AnswerMarks, MarkKinds DEF Record
  <1>7. Tail(m) = Then(Record(class), Then(Prompt, rest))
    BY <1>4, <1>5, <1>6, AnswerMarks
  <1>8. /\ pc' = "drain" /\ last'.op = call.op /\ last'.result = "asyncToken"
        /\ UNCHANGED <<toGdb, target, call, got, stops, heard>>
    BY DEF TokenAsyncLine, Throw, gdbVars
  <1>9. Draining(Tail(m))'
    <2>1. After(class, rest)' /\ class \in Given' /\ Record(class)' = Record(class)
      BY <1>4, <1>8 DEF After, Rest, Calm, Given, Record
    <2> QED
      BY <1>5, <1>7, <1>8, <2>1 DEF Draining
  <1>10. HasPrompt(outBuf')
    BY <1>1, PromptLeft DEF Kept
  <1> QED
    BY <1>2, <1>5, <1>8, <1>9, <1>10 DEF Kept, Stage, Quiet

\* What a command makes of its own record.
LEMMA OwnRecord ==
    ASSUME call.op \in CmdOps, NEW class \in Given
    PROVE  LET o == RecordOutcome(Record(class))
           IN  /\ o \in {"ok", "gdbError", "unexpected"}
               /\ o = "ok" => call.op \in FuncOps \/ class = Expected(call.op)
               /\ o = "gdbError" => class = "error"
               /\ o = "unexpected" => class # "running"
  <1>1. call.op \notin BareOps /\ Record(class).serial = call.serial /\ Record(class).class = class
    BY MarkKinds DEF Record, CmdOps, ClassOps, FuncOps, BareOps
  <1>2. RecordOutcome(Record(class)) =
          IF call.op \in FuncOps \/ class = Expected(call.op) THEN "ok"
          ELSE IF class = "error" THEN "gdbError" ELSE "unexpected"
    BY <1>1 DEF RecordOutcome
  <1>3. class = "running" => call.op \in FuncOps \/ class = Expected(call.op)
    BY GivenIs DEF Expected, FuncOps
  <1> QED
    BY <1>2, <1>3

\* A record is the answer to the call under way; one that does not fit it
\* leaves the rest of the batch to be dropped.
LEMMA StageResult ==
    ASSUME TypeOK, "inner" \notin Noise, NEW m \in Seq(Lines), Kept(m), ResultLine
    PROVE  Tail(m) \in Seq(Lines) /\ Kept(Tail(m))'
  <1>1. /\ Head(outBuf).kind = "result" /\ ~Plain(Head(outBuf)) /\ Head(outBuf) # Prompt
        /\ outBuf # <<>> /\ TakeLine /\ fromGdb' = fromGdb /\ pc = "lines"
    BY MarkKinds DEF ResultLine, AtLine, Plain
  <1>2. /\ m # <<>> /\ Head(m) = Head(outBuf) /\ Tail(m) \in Seq(Lines)
        /\ Shows(Unread', Tail(m))
    BY <1>1, MarkTaken DEF Kept
  <1>3. Answering(m) /\ Head(m).kind = "result"
    <2>1. Head(m).kind # Prompt.kind /\ Head(m).kind # Stopped.kind /\ Head(m).kind # TokenAsync.kind
      BY <1>1, <1>2, MarkKinds
    <2> QED
      BY <1>1, <1>2, <2>1, FirstMark DEF Kept
  <1>4. PICK class \in Given, rest \in {<<>>, Halt} :
          /\ After(class, rest)
          /\ \/ m = Then(Record(class), Then(Prompt, rest))
             \/ m = Then(TokenAsync, Then(Record(class), Then(Prompt, rest)))
    BY <1>3 DEF Answering
  <1>5. call.op \in CmdOps /\ toGdb = <<>>
    BY <1>1, <1>3, StageAt DEF Kept, Answering
  <1>6. m # Then(TokenAsync, Then(Record(class), Then(Prompt, rest)))
    BY <1>3, <1>5, AnswerMarks, MarkKinds
  <1>7. Head(m) = Record(class) /\ Tail(m) = Then(Prompt, rest)
    BY <1>4, <1>5, <1>6, AnswerMarks
  <1> DEFINE o == RecordOutcome(Record(class))
  <1>8. /\ o \in {"ok", "gdbError", "unexpected"}
        /\ o = "ok" => call.op \in FuncOps \/ class = Expected(call.op)
        /\ o = "gdbError" => class = "error"
        /\ o = "unexpected" => class # "running"
    BY <1>5, OwnRecord
  <1>9. /\ UNCHANGED <<toGdb, target, call, stops, heard>>
        /\ o \in {"ok", "gdbError"} => got' = [serial |-> call.serial, class |-> class]
        /\ IF o = "ok" THEN UNCHANGED <<pc, last>>
           ELSE pc' = "drain" /\ last'.op = call.op /\ last'.result = o
    BY <1>2, <1>7, MarkKinds DEF ResultLine, Throw, gdbVars, Record
  <1> HIDE DEF o
  <1>10. After(class, rest)' /\ class \in Given' /\ Record(class)' = Record(class)
    BY <1>4, <1>9 DEF After, Rest, Calm, Given, Record
  <1>11. Answered(Tail(m))' \/ Draining(Tail(m))'
    <2>1. CASE o = "ok"
      <3>1. Answered(Tail(m))'
        BY <1>1, <1>5, <1>7, <1>8, <1>9, <1>10, <2>1 DEF Answered
      <3> QED
        BY <3>1
    <2>2. CASE o # "ok"
      <3>1. class # "running" /\ last'.result \in {"gdbError", "unexpected"}
        BY <1>8, <1>9, <2>2
      <3>2. Draining(Tail(m))'
        BY <1>5, <1>7, <1>9, <1>10, <2>2, <3>1 DEF Draining
      <3> QED
        BY <3>2
    <2> QED
      BY <2>1, <2>2
  <1>12. HasPrompt(outBuf')
    BY <1>1, PromptLeft DEF Kept
  <1> QED
    BY <1>2, <1>5, <1>9, <1>11, <1>12 DEF Kept, Stage, Quiet

\* How a command that has its record ends: well, unless gdb said error.  One
\* that set the program going is waited for.
LEMMA OwnOutcome ==
    ASSUME call.op \in CmdOps, NEW class \in Given, got.class = class,
           call.op \in FuncOps \/ class = Expected(call.op), class = "running"
    PROVE  BatchOutcome = "ok" /\ call.op \in {"resume", "scriptRun"}
  <1>1. CASE call.op = "resume"
    BY <1>1 DEF BatchOutcome, Expected
  <1>2. CASE call.op = "scriptRun"
    BY <1>2 DEF BatchOutcome
  <1> QED
    BY <1>1, <1>2, GivenIs

\* At the prompt the call ends, with nothing of its batch left.
LEMMA StageEnd ==
    ASSUME TypeOK, "inner" \notin Noise, NEW m \in Seq(Lines), Kept(m), EndOfBatch
    PROVE  Tail(m) \in Seq(Lines) /\ Kept(Tail(m))'
  <1>1. pc = "lines" /\ outBuf # <<>> /\ m # <<>>
    BY PromptShown DEF EndOfBatch, Kept
  <1>2. Head(outBuf) = Prompt /\ ~Plain(Head(outBuf)) /\ TakeLine /\ fromGdb' = fromGdb
    BY <1>1, MarkKinds DEF EndOfBatch, TakeLine
  <1>3. Head(m) = Prompt /\ Tail(m) \in Seq(Lines) /\ Shows(Unread', Tail(m))
    BY <1>1, <1>2, MarkTaken DEF Kept
  <1>4. \/ Heading(m) /\ Tail(m) = <<>>
        \/ Waited(m) /\ Tail(m) = <<>>
        \/ Answered(m)
    <2>1. /\ Head(m).kind # Stopped.kind /\ Head(m).kind # TokenAsync.kind
          /\ \A class : Head(m).kind # Record(class).kind
      BY <1>3, MarkKinds DEF Record
    <2> QED
      BY <1>1, <2>1, FirstMark DEF Kept
  <1>5. toGdb = <<>> /\ UNCHANGED <<toGdb, target, call, stops, heard>>
    BY <1>1, StageAt DEF Kept, EndOfBatch, gdbVars
  <1>6. CASE Heading(m) /\ Tail(m) = <<>>
    <2>1. Finish(BatchOutcome)
      BY <1>6 DEF EndOfBatch, Heading, CmdOps, ClassOps, FuncOps
    <2>2. pc' = "idle" /\ last'.op # "none"
      BY <1>6, <2>1 DEF Finish, Heading
    <2>3. Idle(Tail(m))'
      BY <1>5, <1>6, <2>2 DEF Heading, Idle, Rest, Calm
    <2> QED
      BY <1>3, <1>5, <2>2, <2>3 DEF Kept, Stage, Quiet
  <1>7. CASE Waited(m) /\ Tail(m) = <<>>
    <2>1. Finish(BatchOutcome)
      BY <1>7 DEF EndOfBatch, Waited, CmdOps, ClassOps, FuncOps
    <2>2. pc' = "idle" /\ last'.op # "none"
      BY <1>7, <2>1 DEF Finish, Waited
    <2>3. Idle(Tail(m))'
      BY <1>5, <1>7, <2>2 DEF Waited, Idle, Rest, Calm
    <2> QED
      BY <1>3, <1>5, <2>2, <2>3 DEF Kept, Stage, Quiet
  <1>8. CASE Answered(m)
    <2>1. PICK class \in Given, rest \in {<<>>, Halt} :
            /\ After(class, rest) /\ m = Then(Prompt, rest)
            /\ got = [serial |-> call.serial, class |-> class]
            /\ call.op \in FuncOps \/ class = Expected(call.op)
      BY <1>8 DEF Answered
    <2>2. call.op \in CmdOps /\ Tail(m) = rest
      BY <1>8, <2>1, AnswerMarks DEF Answered
    <2>3. got # NoReply
      BY <2>1, <2>2, GivenIs DEF NoReply, Classes
    <2>4. pc' = "idle" /\ last'.op = call.op /\ last'.result = BatchOutcome
      BY <2>3 DEF EndOfBatch, Finish
    <2>5. Goes' => class # "running"
      <3>1. class = "running" => BatchOutcome = "ok" /\ call.op \in {"resume", "scriptRun"}
        BY <2>1, <2>2, OwnOutcome
      <3> QED
        BY <2>4, <3>1 DEF Goes, MustWait, Session!MustWait
    <2>6. Rest(rest)' /\ (Goes' => Calm(rest)')
      BY <1>5, <2>1, <2>5 DEF After, Rest, Calm
    <2>7. Idle(Tail(m))'
      BY <2>2, <2>4, <2>6 DEF Idle, CmdOps, ClassOps, FuncOps
    <2> QED
      BY <1>3, <1>5, <2>4, <2>7 DEF Kept, Stage, Quiet
  <1> QED
    BY <1>4, <1>6, <1>7, <1>8

\* After an error the batch is dropped, and no more than the batch.
LEMMA StageDrain ==
    ASSUME TypeOK, "inner" \notin Noise, NEW m \in Seq(Lines), Kept(m), Drain
    PROVE  \E n \in Seq(Lines) : Kept(n)'
  <1>1. pc = "drain" /\ toGdb = <<>> /\ Draining(m) /\ outBuf # <<>> /\ m # <<>>
    BY StageAt, PromptShown DEF Kept, Drain
  <1>2. /\ TakeLine /\ fromGdb' = fromGdb
        /\ pc' = IF Head(outBuf) = Prompt THEN "idle" ELSE "drain"
        /\ UNCHANGED <<toGdb, target, call, got, last, stops, heard>>
    BY <1>1 DEF Drain, gdbVars
  <1>3. /\ Plain(Head(outBuf)) => Shows(Unread', m)
        /\ ~Plain(Head(outBuf)) => /\ Head(m) = Head(outBuf) /\ Tail(m) \in Seq(Lines)
                                   /\ Shows(Unread', Tail(m))
    BY <1>1, <1>2, MarkTaken DEF Kept
  <1>4. Head(outBuf) # Prompt => HasPrompt(outBuf')
    BY <1>1, <1>2, PromptLeft DEF Kept
  <1>5. PICK class \in Given, rest \in {<<>>, Halt} :
          /\ After(class, rest)
          /\ m = Then(Record(class), Then(Prompt, rest)) \/ m = Then(Prompt, rest)
          /\ \/ last.result = "asyncToken"
             \/ last.result \in {"gdbError", "unexpected"} /\ class # "running"
    BY <1>1 DEF Draining
  <1>6. call.op \in CmdOps /\ last.op = call.op
    BY <1>1 DEF Draining
  <1>7. /\ After(class, rest)' /\ class \in Given' /\ Record(class)' = Record(class)
        /\ Rest(rest)'
    BY <1>2, <1>5 DEF After, Rest, Calm, Given, Record
  <1>8. CASE Plain(Head(outBuf))
    <2>1. pc' = pc /\ Shows(Unread', m) /\ HasPrompt(outBuf')
      BY <1>1, <1>2, <1>3, <1>4, <1>8, MarkKinds
    <2>2. Stage(m)'
      BY <1>2, <2>1, StageKept DEF Kept, stageVars
    <2> QED
      BY <2>1, <2>2 DEF Kept
  <1>9. CASE ~Plain(Head(outBuf)) /\ m = Then(Record(class), Then(Prompt, rest))
    <2>1. Head(m) = Record(class) /\ Tail(m) = Then(Prompt, rest)
      BY <1>6, <1>9, AnswerMarks
    <2>2. Head(outBuf) # Prompt
      BY <1>3, <1>9, <2>1, MarkKinds DEF Record
    <2>3. Draining(Tail(m))'
      BY <1>1, <1>2, <1>5, <1>6, <1>7, <2>1, <2>2 DEF Draining
    <2>4. Kept(Tail(m))'
      BY <1>1, <1>2, <1>3, <1>4, <1>9, <2>2, <2>3 DEF Kept, Stage, Quiet
    <2> QED
      BY <1>3, <1>9, <2>4
  <1>10. CASE ~Plain(Head(outBuf)) /\ m = Then(Prompt, rest)
    <2>1. Head(m) = Prompt /\ Tail(m) = rest
      BY <1>6, <1>10, AnswerMarks
    <2>2. pc' = "idle" /\ Shows(Unread', rest) /\ rest \in Seq(Lines)
      BY <1>2, <1>3, <1>10, <2>1
    <2>3. Goes' => class # "running"
      <3>1. class = "running" => call.op \in {"resume", "scriptRun"}
        BY <1>6, GivenIs
      <3> QED
        BY <1>2, <1>5, <1>6, <3>1 DEF Goes, MayGoOn, Session!MayGoOn
    <2>4. Idle(rest)'
      BY <1>2, <1>6, <1>7, <2>2, <2>3 DEF Idle, After, CmdOps, ClassOps, FuncOps
    <2>5. Kept(rest)'
      BY <1>1, <1>2, <2>2, <2>4 DEF Kept, Stage, Quiet
    <2> QED
      BY <2>2, <2>5
  <1> QED
    BY <1>5, <1>8, <1>9, <1>10

\* Two lines in a row.
LEMMA TwoInARow ==
    ASSUME NEW a \in Lines, NEW b \in Lines
    PROVE  <<a>> \o <<b>> = <<a, b>> /\ <<a, b>> \in Seq(Lines) /\ <<a>> \in Seq(Lines)
  <1> DEFINE one == <<a>>
             two == <<b>>
             all == one \o two
             both == <<a, b>>
  <1>1. /\ one \in Seq(Lines) /\ two \in Seq(Lines) /\ Len(one) = 1 /\ Len(two) = 1
        /\ one[1] = a /\ two[1] = b
        /\ both \in Seq(Lines) /\ Len(both) = 2 /\ both[1] = a /\ both[2] = b
    OBVIOUS
  <1> HIDE DEF one, two, both
  <1>2. /\ all \in Seq(Lines) /\ Len(all) = Len(one) + Len(two)
        /\ \A i \in 1 .. Len(one) + Len(two) :
             all[i] = IF i <= Len(one) THEN one[i] ELSE two[i - Len(one)]
    BY <1>1, ConcatProperties
  <1> HIDE DEF all
  <1>3. Len(all) = 2 /\ \A i \in 1 .. 2 : all[i] = both[i]
    BY <1>1, <1>2
  <1>4. all = both
    BY <1>1, <1>2, <1>3, SeqEqual
  <1> QED
    BY <1>1, <1>4 DEF all, one, two, both

\* The marks of what gdb may put before a record: none, or one.
LEMMA NoiseMarks ==
    ASSUME "inner" \notin Noise, NEW noise \in {<<>>} \union {<<Line(k)>> : k \in Noise}
    PROVE  /\ noise \in Seq(Lines)
           /\ Shows(noise, <<>>) \/ Shows(noise, <<TokenAsync>>)
  <1> DEFINE e == <<>>
  <1>1. Shows(e, e) /\ e \in Seq(Lines)
    BY ShowsOne, HaltIs
  <1> HIDE DEF e
  <1>2. ASSUME NEW k \in Noise, noise = <<Line(k)>>
        PROVE  noise \in Seq(Lines) /\ (Shows(noise, e) \/ Shows(noise, <<TokenAsync>>))
    <2>1. k \in {"stream", "async", "tokenAsync", "text"}
      BY ParametersAssumption DEF NoiseKinds
    <2>2. Line(k) \in Lines
      BY DEF Line, Lines, LineKinds
    <2>3. CASE k = "tokenAsync"
      BY <1>2, <2>2, <2>3, ShowsOne, MarkKinds DEF TokenAsync
    <2>4. CASE k \in {"stream", "async", "text"}
      <3>1. Plain(Line(k))
        BY <2>4, MarkKinds
      <3>2. Shows(<<Line(k)>>, e)
        BY <3>1, ShowsOne DEF e
      <3> QED
        BY <1>2, <2>2, <3>2
    <2> QED
      BY <2>1, <2>3, <2>4
  <1>3. noise = e \/ \E k \in Noise : noise = <<Line(k)>>
    BY DEF e
  <1> QED
    BY <1>1, <1>2, <1>3 DEF e

\* The marks of an answer that does not end gdb.
LEMMA AnswerShows ==
    ASSUME "inner" \notin Noise, NEW noise \in {<<>>} \union {<<Line(k)>> : k \in Noise},
           NEW r \in Lines, ~Plain(r), NEW end \in {<<Line("async"), Prompt>>, <<Prompt>>}
    PROVE  LET said == (noise \o <<r>>) \o end
               n == Then(r, Then(Prompt, <<>>))
           IN  said \in Seq(Lines) /\ (Shows(said, n) \/ Shows(said, Then(TokenAsync, n)))
  <1> DEFINE e    == <<>>
             one  == <<r>>
             ta   == <<TokenAsync>>
             p    == <<Prompt>>
             async == <<Line("async")>>
             last1 == Then(Prompt, e)
             n == Then(r, last1)
             said == (noise \o one) \o end
  <1>1. /\ e \in Seq(Lines) /\ one \in Seq(Lines) /\ ta \in Seq(Lines) /\ p \in Seq(Lines)
        /\ async \in Seq(Lines) /\ Prompt \in Lines /\ TokenAsync \in Lines
    BY StreamLines, HaltIs
  <1>2. Shows(one, one) /\ Shows(p, p) /\ Shows(async, e)
    BY ShowsOne, MarkKinds
  <1>3. noise \in Seq(Lines) /\ (Shows(noise, e) \/ Shows(noise, ta))
    BY NoiseMarks
  <1>4. last1 = p
    BY <1>1, NothingMore DEF Then
  <1>5. n = one \o p
    BY <1>4 DEF Then
  <1>6. async \o p = <<Line("async"), Prompt>>
    BY StreamLines, TwoInARow
  <1> HIDE DEF e, one, ta, p, async, last1
  <1>7. end \in Seq(Lines) /\ Shows(end, p)
    <2>1. Shows(async \o p, e \o p) /\ async \o p \in Seq(Lines)
      BY <1>1, <1>2, ShowsConcat, ConcatProperties
    <2>2. e \o p = p
      BY <1>1, NothingMore DEF e
    <2> QED
      BY <1>1, <1>2, <1>6, <2>1, <2>2 DEF p
  <1>8. noise \o one \in Seq(Lines) /\ said \in Seq(Lines)
    BY <1>1, <1>3, <1>7, ConcatProperties
  <1>9. ASSUME NEW f \in Seq(Lines), Shows(noise, f)
        PROVE  Shows(said, f \o n)
    <2>1. Shows(noise \o one, f \o one) /\ f \o one \in Seq(Lines)
      BY <1>1, <1>2, <1>3, <1>9, ShowsConcat, ConcatProperties
    <2>2. Shows(said, (f \o one) \o p)
      BY <1>1, <1>7, <1>8, <2>1, ShowsConcat
    <2>3. f \in Seq(Lines) /\ one \in Seq(Lines) /\ p \in Seq(Lines)
      BY <1>1
    <2>4. (f \o one) \o p = f \o (one \o p)
      BY <2>3, ThreeInARow, SMTT(30)
    <2> QED
      BY <1>5, <2>2, <2>4
  <1>10. Shows(noise, e) => Shows(said, n)
    <2>1. one \o p \in Seq(Lines)
      BY <1>1, ConcatProperties
    <2>2. e \o n = n
      BY <1>5, <2>1, NothingMore DEF e
    <2> QED
      BY <1>1, <1>9, <2>2
  <1>11. Shows(noise, ta) => Shows(said, Then(TokenAsync, n))
    BY <1>1, <1>9 DEF Then, ta
  <1> HIDE DEF said, n
  <1>12. said \in Seq(Lines) /\ (Shows(said, n) \/ Shows(said, Then(TokenAsync, n)))
    BY <1>3, <1>8, <1>10, <1>11
  <1> QED
    BY <1>12 DEF said, n, last1, e, one

\* gdb's answer is about the command it was sent, which is the call under way.
LEMMA StageGdbAnswers ==
    ASSUME TypeOK, "inner" \notin Noise, NEW m \in Seq(Lines), Kept(m), GdbAnswers, gdb' = "up"
    PROVE  \E n \in Seq(Lines) : Kept(n)'
  <1> DEFINE e == <<>>
  <1>1. toGdb = <<call>> /\ Sending(m) /\ m = e /\ target = "stopped"
    BY DEF GdbAnswers, Kept, Stage, Sending, Calm
  <1>2. Head(toGdb) = call /\ toGdb' = e
    <2>1. Head(<<call>>) = call /\ Tail(<<call>>) = e
      OBVIOUS
    <2> QED
      BY <1>1, <2>1 DEF GdbAnswers
  <1>3. PICK class \in Answers(call.op), noise \in {<<>>} \union {<<Line(k)>> : k \in Noise} :
          /\ fromGdb' = fromGdb \o (noise \o <<Record(class)>>) \o
                CASE class = "running" -> <<Line("async"), Prompt>>
                  [] class = "exit"    -> <<>>
                  [] OTHER             -> <<Prompt>>
          /\ target' = IF class = "running" THEN "running" ELSE "stopped"
          /\ gdb' = IF class = "exit" THEN "dead" ELSE "up"
    BY <1>2, Zenon DEF GdbAnswers, Record
  <1>4. class \in Given
    BY <1>3 DEF Given
  <1>5. PICK end \in {<<Line("async"), Prompt>>, <<Prompt>>} :
          fromGdb' = (fromGdb \o (noise \o <<Record(class)>>)) \o end
    <2>1. CASE class = "running"
      BY <1>3, <2>1
    <2>2. CASE class # "running"
      <3>1. class # "exit"
        BY <1>3
      <3> QED
        BY <1>3, <2>2, <3>1
    <2> QED
      BY <2>1, <2>2
  <1> DEFINE one == <<Record(class)>>
             first == noise \o one
             said == first \o end
             n == Then(Record(class), Then(Prompt, e))
  <1>6. Record(class) \in Lines /\ ~Plain(Record(class)) /\ call.op \in CmdOps
    <2>1. call.op \in CmdOps /\ call.serial \in Nat
      BY <1>1 DEF Sending, TypeOK, Calls
    <2>2. class \in Classes
      BY <1>4, <2>1, GivenIs
    <2> QED
      BY <2>1, <2>2, StreamLines, MarkKinds DEF Record
  <1>7. said \in Seq(Lines) /\ (Shows(said, n) \/ Shows(said, Then(TokenAsync, n)))
    BY <1>6, AnswerShows
  <1>8. /\ n \in Seq(Lines) /\ Then(TokenAsync, n) \in Seq(Lines)
    <2>1. e \in Seq(Lines) /\ Prompt \in Lines /\ TokenAsync \in Lines
      BY StreamLines, HaltIs
    <2> HIDE DEF e
    <2>2. Then(Prompt, e) \in Seq(Lines)
      BY <2>1, ThenIs
    <2>3. n \in Seq(Lines)
      BY <1>6, <2>2, ThenIs
    <2> HIDE DEF n
    <2>4. Then(TokenAsync, n) \in Seq(Lines)
      BY <2>1, <2>3, ThenIs
    <2> QED
      BY <2>3, <2>4
  <1>9. fromGdb' = fromGdb \o said
    <2>1. fromGdb \in Seq(Lines) /\ noise \in Seq(Lines) /\ one \in Seq(Lines) /\ end \in Seq(Lines)
      <3>1. <<Line("async"), Prompt>> \in Seq(Lines) /\ <<Prompt>> \in Seq(Lines)
        BY StreamLines, TwoInARow
      <3>2. one \in Seq(Lines)
        BY <1>6, TwoInARow
      <3>3. end \in Seq(Lines)
        BY <3>1
      <3>4. noise \in Seq(Lines)
        BY NoiseMarks
      <3> QED
        BY <3>2, <3>3, <3>4, StreamLines
    <2> HIDE DEF one
    <2>2. first \in Seq(Lines)
      BY <2>1, ConcatProperties
    <2> HIDE DEF first
    <2>3. fromGdb \in Seq(Lines) /\ first \in Seq(Lines) /\ end \in Seq(Lines)
      BY <2>1, <2>2
    <2> HIDE DEF said, n
    <2>4. (fromGdb \o first) \o end = fromGdb \o (first \o end)
      BY <2>3, ThreeInARow, SMTT(30)
    <2> QED
      BY <1>5, <2>4 DEF first, one, said
  <1>10. PICK k \in Seq(Lines) : (k = n \/ k = Then(TokenAsync, n)) /\ Shows(said, k)
    BY <1>7, <1>8
  <1> HIDE DEF said
  <1>11. Shows(Unread', k)
    <2>1. outBuf' = outBuf /\ Shows(Unread, m)
      BY DEF GdbAnswers, Kept
    <2>2. Shows(Unread', m \o k)
      BY <1>7, <1>9, <1>10, <2>1, MarksSaid
    <2>3. m \o k = k
      BY <1>1, NothingMore
    <2> QED
      BY <2>2, <2>3
  <1>12. /\ UNCHANGED <<pc, call, got, last, stops, heard>> /\ pc = "read"
         /\ got = NoReply /\ stops = heard
    BY <1>1 DEF GdbAnswers, Sending, Calm
  <1>13. After(class, e)' /\ class \in Given' /\ Record(class)' = Record(class)
    BY <1>3, <1>4, <1>12 DEF After, Rest, Calm, Given, Record
  <1>14. Answering(k)'
    BY <1>6, <1>10, <1>12, <1>13 DEF Answering
  <1> QED
    BY <1>2, <1>11, <1>12, <1>14 DEF Kept, Stage, Quiet

\* A stop finds the program running, so it is the first that is not waited for:
\* its batch follows what is left of the answer that set the program going.
LEMMA StageStops ==
    ASSUME TypeOK, "inner" \notin Noise, NEW m \in Seq(Lines), Kept(m), TargetStops
    PROVE  \E n \in Seq(Lines) : Kept(n)'
  <1> DEFINE e == <<>>
             stop == <<Line("stopped"), Prompt>>
  <1>1. PICK noise \in {<<>>} \union {<<Line(k)>> : k \in Noise \ {"tokenAsync"}} :
          fromGdb' = (fromGdb \o noise) \o stop
    BY DEF TargetStops
  <1> DEFINE said == noise \o stop
  <1>2. stop \in Seq(Lines) /\ Shows(stop, Halt) /\ Halt \in Seq(Lines) /\ e \in Seq(Lines)
    <2> HIDE DEF said
    <2> DEFINE one == <<Stopped>>
               two == <<Prompt>>
    <2>1. /\ Stopped \in Lines /\ Prompt \in Lines /\ Halt \in Seq(Lines)
          /\ e \in Seq(Lines) /\ ~Plain(Stopped) /\ ~Plain(Prompt)
      BY StreamLines, HaltIs, MarkKinds
    <2>2. one \o two = stop /\ stop \in Seq(Lines) /\ one \in Seq(Lines) /\ two \in Seq(Lines)
      BY <2>1, TwoInARow DEF Stopped
    <2>3. Halt = one \o two
      BY <2>2, NothingMore DEF Halt, Then
    <2>4. Shows(one, one) /\ Shows(two, two)
      BY <2>1, ShowsOne
    <2> HIDE DEF one, two, stop, e
    <2>5. Shows(one \o two, one \o two)
      BY <2>2, <2>4, ShowsConcat
    <2> QED
      BY <2>1, <2>2, <2>3, <2>5
  <1>3. noise \in Seq(Lines) /\ Shows(noise, e)
    <2>1. CASE noise = e
      BY <1>2, <2>1, ShowsOne
    <2>2. ASSUME NEW k \in Noise \ {"tokenAsync"}, noise = <<Line(k)>>
          PROVE  noise \in Seq(Lines) /\ Shows(noise, e)
      <3>1. k \in {"stream", "async", "text"}
        BY ParametersAssumption DEF NoiseKinds
      <3>2. Line(k) \in Lines /\ Plain(Line(k))
        BY <3>1, MarkKinds DEF Line, Lines, LineKinds
      <3>3. Shows(<<Line(k)>>, <<>>) /\ <<Line(k)>> \in Seq(Lines)
        BY <3>2, ShowsOne
      <3> QED
        BY <2>2, <3>3
    <2> QED
      BY <2>1, <2>2
  <1>4. said \in Seq(Lines) /\ Shows(said, Halt) /\ fromGdb' = fromGdb \o said
    <2>1. fromGdb \in Seq(Lines) /\ noise \in Seq(Lines) /\ stop \in Seq(Lines)
      BY <1>2, <1>3, StreamLines
    <2> HIDE DEF stop, e
    <2>2. (fromGdb \o noise) \o stop = fromGdb \o (noise \o stop)
      BY <2>1, ThreeInARow, SMTT(30)
    <2>3. Shows(noise \o stop, e \o Halt) /\ noise \o stop \in Seq(Lines)
      BY <1>2, <1>3, <2>1, ShowsConcat, ConcatProperties
    <2>4. e \o Halt = Halt
      BY <1>2, NothingMore DEF e
    <2> QED
      BY <1>1, <2>2, <2>3, <2>4
  <1> HIDE DEF said
  <1>5. target = "running" /\ target' = "stopped" /\ stops' = stops + 1 /\ stops \in Nat /\ heard \in Nat
    BY DEF TargetStops, TypeOK
  <1>6. UNCHANGED <<toGdb, outBuf, pc, call, got, last, heard>>
    BY DEF TargetStops
  <1>7. Shows(Unread', m \o Halt) /\ m \o Halt \in Seq(Lines)
    <2>1. Shows(Unread, m) /\ fromGdb' = fromGdb \o said /\ outBuf' = outBuf
      BY <1>4 DEF Kept, TargetStops
    <2>2. Shows(Unread', m \o Halt)
      BY <1>2, <1>4, <2>1, MarksSaid
    <2> QED
      BY <1>2, <2>2, ConcatProperties
  <1>8. e \o Halt = Halt
    BY <1>2, NothingMore
  <1>9. pc' \in {"lines", "drain"} => HasPrompt(outBuf')
    BY <1>6 DEF Kept
  <1>10. /\ Rest(e) => Rest(Halt)'
         /\ \A k : ~Calm(k)
         /\ \A k : Rest(k) => k = e /\ Rest(Halt)'
    BY <1>5, <1>6 DEF Rest, Calm
  <1> HIDE DEF e, stop
  <1>11. toGdb = <<>> /\ (Idle(m) \/ Waiting(m) \/ Answering(m) \/ Answered(m) \/ Draining(m))
    BY <1>5, <1>10 DEF Kept, Stage, Sending, Quiet, Fresh, Writing, Heading, Waited
  <1>12. ASSUME Quiet(m \o Halt)' PROVE \E n \in Seq(Lines) : Kept(n)'
    BY <1>6, <1>7, <1>9, <1>11, <1>12 DEF Kept, Stage
  <1>13. ASSUME call.op \in CmdOps, NEW class \in Given, NEW rest \in {<<>>, Halt}, After(class, rest)
         PROVE  /\ class \in Given' /\ class = "running" /\ After(class, Halt)'
                /\ Record(class)' = Record(class)
                /\ Then(Prompt, rest) \o Halt = Then(Prompt, Halt)
                /\ Then(Record(class), Then(Prompt, rest)) \o Halt
                     = Then(Record(class), Then(Prompt, Halt))
                /\ Then(TokenAsync, Then(Record(class), Then(Prompt, rest))) \o Halt
                     = Then(TokenAsync, Then(Record(class), Then(Prompt, Halt)))
    <2>1. rest = e /\ class = "running" /\ Rest(Halt)'
      BY <1>10, <1>13 DEF After
    <2>2. class \in Given' /\ Record(class)' = Record(class)
      BY <1>6 DEF Given, Record
    <2>3. After(class, Halt)'
      BY <2>1 DEF After
    <2>4. /\ Record(class) \in Lines /\ Prompt \in Lines /\ TokenAsync \in Lines
          /\ Then(Prompt, rest) \in Seq(Lines) /\ rest \in Seq(Lines)
          /\ Then(Record(class), Then(Prompt, rest)) \in Seq(Lines)
      BY <1>13, AnswerMarks, StreamLines
    <2> DEFINE end    == Then(Prompt, rest)
               answer == Then(Record(class), end)
    <2>5. end \o Halt = Then(Prompt, Halt)
      <3>1. Halt \in Seq(Lines) /\ rest \o Halt = Halt
        BY <1>2, <1>8, <2>1
      <3>2. end \o Halt = Then(Prompt, rest \o Halt)
        BY <2>4, <3>1, ThenConcat, Zenon
      <3> QED
        BY <3>1, <3>2
    <2> HIDE DEF end
    <2>6. answer \o Halt = Then(Record(class), Then(Prompt, Halt))
      <3>1. answer \o Halt = Then(Record(class), end \o Halt)
        <4>1. end \in Seq(Lines) /\ Halt \in Seq(Lines) /\ Record(class) \in Lines
          BY <1>2, <2>4 DEF end
        <4> QED
          BY <4>1, ThenConcat, ZenonT(60)
      <3> QED
        BY <2>5, <3>1
    <2>7. Then(TokenAsync, answer) \o Halt = Then(TokenAsync, Then(Record(class), Then(Prompt, Halt)))
      <3>1. Then(TokenAsync, answer) \o Halt = Then(TokenAsync, answer \o Halt)
        <4>1. answer \in Seq(Lines) /\ TokenAsync \in Lines /\ Halt \in Seq(Lines)
          BY <1>2, <2>4 DEF end
        <4> HIDE DEF answer
        <4> QED
          BY <4>1, ThenConcat, Zenon
      <3> QED
        BY <2>6, <3>1
    <2> QED
      BY <2>1, <2>2, <2>3, <2>5, <2>6, <2>7 DEF end
  <1>14. CASE Idle(m)
    <2>1. m = e /\ Rest(Halt)' /\ ~Goes
      BY <1>10, <1>14 DEF Idle
    <2>2. Idle(Halt)'
      BY <1>6, <1>14, <2>1 DEF Idle, Goes, MayGoOn, Session!MayGoOn, MustWait, Session!MustWait
    <2> QED
      BY <1>8, <1>12, <2>1, <2>2 DEF Quiet
  <1>15. CASE Waiting(m)
    <2>1. m = e /\ Rest(Halt)'
      BY <1>10, <1>15 DEF Waiting
    <2>2. Waiting(Halt)'
      BY <1>6, <1>15, <2>1 DEF Waiting
    <2> QED
      BY <1>8, <1>12, <2>1, <2>2 DEF Quiet
  <1>16. CASE Answering(m)
    <2>1. PICK class \in Given, rest \in {<<>>, Halt} :
            /\ After(class, rest)
            /\ \/ m = Then(Record(class), Then(Prompt, rest))
               \/ m = Then(TokenAsync, Then(Record(class), Then(Prompt, rest)))
      BY <1>16 DEF Answering
    <2>2. /\ class \in Given' /\ After(class, Halt)' /\ Record(class)' = Record(class)
          /\ \/ m \o Halt = Then(Record(class), Then(Prompt, Halt))
             \/ m \o Halt = Then(TokenAsync, Then(Record(class), Then(Prompt, Halt)))
      BY <1>13, <1>16, <2>1 DEF Answering
    <2>3. Answering(m \o Halt)'
      BY <1>6, <1>16, <2>2 DEF Answering
    <2> QED
      BY <1>12, <2>3 DEF Quiet
  <1>17. CASE Answered(m)
    <2>1. PICK class \in Given, rest \in {<<>>, Halt} :
            /\ After(class, rest) /\ m = Then(Prompt, rest)
            /\ got = [serial |-> call.serial, class |-> class]
            /\ call.op \in FuncOps \/ class = Expected(call.op)
      BY <1>17 DEF Answered
    <2>2. class \in Given' /\ After(class, Halt)' /\ m \o Halt = Then(Prompt, Halt)
      BY <1>13, <1>17, <2>1 DEF Answered
    <2>3. Answered(m \o Halt)'
      BY <1>6, <1>17, <2>1, <2>2 DEF Answered
    <2> QED
      BY <1>12, <2>3 DEF Quiet
  <1>18. CASE Draining(m)
    <2>1. PICK class \in Given, rest \in {<<>>, Halt} :
            /\ After(class, rest)
            /\ m = Then(Record(class), Then(Prompt, rest)) \/ m = Then(Prompt, rest)
            /\ \/ last.result = "asyncToken"
               \/ last.result \in {"gdbError", "unexpected"} /\ class # "running"
      BY <1>18 DEF Draining
    <2>2. /\ class \in Given' /\ class = "running" /\ After(class, Halt)'
          /\ Record(class)' = Record(class)
          /\ \/ m \o Halt = Then(Record(class), Then(Prompt, Halt))
             \/ m \o Halt = Then(Prompt, Halt)
      BY <1>13, <1>18, <2>1 DEF Draining
    <2>3. Draining(m \o Halt)'
      BY <1>6, <1>18, <2>1, <2>2 DEF Draining
    <2> QED
      BY <1>12, <2>3 DEF Quiet
  <1> QED
    BY <1>11, <1>14, <1>15, <1>16, <1>17, <1>18

\* The session starts with the banner.
LEMMA StagedInit == Init => Staged
  <1> DEFINE e == <<>>
             banner == <<Line("stream"), Prompt>>
             first == <<Line("stream")>>
             p == <<Prompt>>
  <1> SUFFICES ASSUME Init PROVE Staged
    OBVIOUS
  <1>1. /\ e \in Seq(Lines) /\ Line("stream") \in Lines /\ Prompt \in Lines
        /\ Plain(Line("stream")) /\ ~Plain(Prompt)
    BY StreamLines, HaltIs, MarkKinds
  <1>2. Unread = banner
    <2>1. banner \in Seq(Lines)
      BY <1>1, TwoInARow
    <2> HIDE DEF banner
    <2>2. e \o banner = banner
      BY <2>1, NothingMore
    <2> QED
      BY <2>2 DEF Init, Unread, banner
  <1>3. p \in Seq(Lines) /\ Shows(banner, p)
    <2>1. first \o p = banner /\ first \in Seq(Lines) /\ p \in Seq(Lines)
      BY <1>1, TwoInARow
    <2>2. Shows(first, e) /\ Shows(p, p)
      BY <1>1, ShowsOne
    <2>3. e \o p = p
      BY <2>1, NothingMore
    <2> HIDE DEF first, p, e, banner
    <2>4. Shows(first \o p, e \o p)
      BY <1>1, <2>1, <2>2, ShowsConcat
    <2> QED
      BY <2>1, <2>3, <2>4
  <1>4. p = Then(Prompt, e)
    BY <1>3, NothingMore DEF Then
  <1>5. Stage(p)
    BY <1>4 DEF Init, Stage, Quiet, Fresh
  <1> HIDE DEF p
  <1> QED
    BY <1>2, <1>3, <1>5 DEF Init, Staged

\* Every step keeps the marks those of the stage, with callers that keep to the
\* protocol.
LEMMA StagedNext ==
    ASSUME Disciplined, "inner" \notin Noise, Typing, Typing', Staged, [Next]_vars
    PROVE  Staged'
  <1> SUFFICES ASSUME gdb' = "up"
               PROVE  \E n \in Seq(Lines) : Kept(n)'
    BY DEF Staged, Kept
  <1>1. gdb = "up"
    BY DEF Next, Call, Write, Read, ReadChunk, ReadDone, ReadEof, Batch, SkipLine, StoppedLine,
       TokenAsyncLine, ResultLine, PartOfLine, EndOfBatch, Drain, Gdb, GdbAnswers, TargetStops, GdbDies,
       OnExit, gdbVars, vars
  <1>2. PICK m \in Seq(Lines) : Kept(m)
    BY <1>1 DEF Staged, Kept
  <1>3. TypeOK /\ TypeOK' /\ Shows(Unread, m) /\ Stage(m)
    BY <1>2 DEF Typing, Kept
  <1>4. ASSUME UNCHANGED <<fromGdb, outBuf>> PROVE Shows(Unread, m)'
    BY <1>3, <1>4 DEF Unread
  <1>5. CASE \E op \in Ops : Call(op)
    <2>1. Stage(m)'
      BY <1>3, <1>5, StageCall
    <2> QED
      BY <1>4, <1>5, <2>1 DEF Kept, Call, streams
  <1>6. CASE Write
    <2>1. Stage(m)' /\ pc' \notin {"lines", "drain"}
      BY <1>1, <1>3, <1>6, StageWrite DEF Write, Finish
    <2> QED
      BY <1>4, <1>6, <2>1 DEF Kept, Write
  <1>7. CASE ReadChunk
    <2>1. Shows(Unread', m)
      BY <1>3, <1>7, StreamRead
    <2>2. Stage(m)' /\ pc' = "read"
      BY <1>3, <1>7, StageKept DEF ReadChunk, stageVars, gdbVars
    <2> QED
      BY <2>1, <2>2 DEF Kept
  <1>8. CASE ReadDone
    <2>1. Stage(m)'
      BY <1>3, <1>8, StageReadDone
    <2>2. HasPrompt(outBuf') /\ UNCHANGED <<fromGdb, outBuf>>
      BY <1>8 DEF ReadDone, streams
    <2> QED
      BY <1>4, <2>1, <2>2 DEF Kept
  <1>9. CASE SkipLine
    BY <1>2, <1>3, <1>9, StageSkip
  <1>10. CASE StoppedLine
    BY <1>2, <1>3, <1>10, StageStopped
  <1>11. CASE TokenAsyncLine
    BY <1>2, <1>3, <1>11, StageTokenAsync
  <1>12. CASE ResultLine
    BY <1>2, <1>3, <1>12, StageResult
  <1>13. CASE EndOfBatch
    BY <1>2, <1>3, <1>13, StageEnd
  <1>14. CASE Drain
    BY <1>2, <1>3, <1>14, StageDrain
  <1>15. CASE GdbAnswers
    BY <1>2, <1>3, <1>15, StageGdbAnswers
  <1>16. CASE TargetStops
    BY <1>2, <1>3, <1>16, StageStops
  <1>17. CASE UNCHANGED vars
    <2>1. Stage(m)'
      BY <1>3, <1>17, StageKept DEF vars, stageVars
    <2> QED
      BY <1>2, <1>4, <1>17, <2>1 DEF Kept, vars
  <1>18. ~ReadEof /\ ~GdbDies /\ ~OnExit
    BY <1>1 DEF ReadEof, GdbDies, OnExit
  <1>19. ~PartOfLine
    <2>1. pc \in {"lines", "drain"} => outBuf # <<>>
      BY <1>2, <1>3, PromptShown DEF Kept
    <2> QED
      BY <2>1 DEF PartOfLine
  <1> QED
    BY <1>5, <1>6, <1>7, <1>8, <1>9, <1>10, <1>11, <1>12, <1>13, <1>14, <1>15, <1>16, <1>17,
       <1>18, <1>19 DEF Next, Read, Batch, Gdb

-----------------------------------------------------------------------------
(* What the marks say of the lines that are pending.                       *)

\* No mark of m is of the kind, or exactly one is.
NoneOf(m, kind) == \A j \in 1 .. Len(m) : m[j].kind # kind
OneOf(m, kind)  == \E k \in 1 .. Len(m) : \A j \in 1 .. Len(m) : m[j].kind = kind <=> j = k

\* The marks of a kind, counted from the back.
LEMMA CountThen ==
    ASSUME NEW a \in Lines, NEW m \in Seq(Lines), NEW kind
    PROVE  /\ a.kind # kind /\ NoneOf(m, kind) => NoneOf(Then(a, m), kind)
           /\ a.kind # kind /\ OneOf(m, kind) => OneOf(Then(a, m), kind)
           /\ a.kind = kind /\ NoneOf(m, kind) => OneOf(Then(a, m), kind)
  <1> DEFINE t == Then(a, m)
             L == Len(m)
  <1>1. Len(t) = L + 1 /\ t[1] = a /\ L \in Nat /\ \A j \in 1 .. L : t[j + 1] = m[j]
    BY ThenIs, LenProperties
  <1> HIDE DEF t, L
  <1>2. ASSUME NEW j \in 1 .. L + 1, j # 1 PROVE j - 1 \in 1 .. L /\ t[j] = m[j - 1]
    <2>1. j - 1 \in 1 .. L /\ (j - 1) + 1 = j
      BY <1>1, <1>2
    <2> QED
      BY <1>1, <2>1
  <1>3. ASSUME a.kind # kind, NoneOf(m, kind) PROVE NoneOf(t, kind)
    <2>1. \A j \in 1 .. L : m[j].kind # kind
      BY <1>3 DEF NoneOf, L
    <2> QED
      BY <1>1, <1>2, <1>3, <2>1 DEF NoneOf
  <1>4. ASSUME a.kind # kind, OneOf(m, kind) PROVE OneOf(t, kind)
    <2>1. PICK k \in 1 .. L : \A j \in 1 .. L : m[j].kind = kind <=> j = k
      BY <1>4 DEF OneOf, L
    <2>2. k + 1 \in 1 .. L + 1 /\ k + 1 # 1
      BY <1>1
    <2>3. ASSUME NEW j \in 1 .. L + 1 PROVE t[j].kind = kind <=> j = k + 1
      <3>1. CASE j = 1
        BY <1>1, <1>4, <2>2, <3>1
      <3>2. CASE j # 1
        <4>1. j - 1 \in 1 .. L /\ t[j] = m[j - 1]
          BY <1>2, <3>2
        <4>2. t[j].kind = kind <=> j - 1 = k
          BY <2>1, <4>1
        <4>3. j - 1 = k <=> j = k + 1
          <5>1. j \in Int /\ k \in Int
            BY <1>1
          <5> QED
            BY <5>1
        <4> QED
          BY <4>2, <4>3
      <3> QED
        BY <3>1, <3>2
    <2>4. k + 1 \in 1 .. Len(t) /\ 1 .. Len(t) = 1 .. L + 1
      BY <1>1, <2>2
    <2>5. \A j \in 1 .. L + 1 : t[j].kind = kind <=> j = k + 1
      BY <2>3
    <2>6. \E i \in 1 .. Len(t) : \A j \in 1 .. Len(t) : t[j].kind = kind <=> j = i
      BY <2>4, <2>5, Zenon
    <2> QED
      BY <2>6 DEF OneOf
  <1>5. ASSUME a.kind = kind, NoneOf(m, kind) PROVE OneOf(t, kind)
    <2>1. \A j \in 1 .. L : m[j].kind # kind
      BY <1>5 DEF NoneOf, L
    <2>2. ASSUME NEW j \in 1 .. L + 1 PROVE t[j].kind = kind <=> j = 1
      BY <1>1, <1>2, <1>5, <2>1
    <2>3. 1 \in 1 .. Len(t) /\ 1 .. Len(t) = 1 .. L + 1
      BY <1>1
    <2>4. \A j \in 1 .. Len(t) : t[j].kind = kind <=> j = 1
      <3>1. ASSUME NEW j \in 1 .. Len(t) PROVE t[j].kind = kind <=> j = 1
        <4>1. j \in 1 .. L + 1
          BY <2>3
        <4> QED
          BY <2>2, <4>1
      <3> QED
        BY <3>1
    <2>5. \E k \in 1 .. Len(t) : \A j \in 1 .. Len(t) : t[j].kind = kind <=> j = k
      BY <2>3, <2>4, Zenon
    <2> QED
      BY <2>5 DEF OneOf
  <1> QED
    BY <1>3, <1>4, <1>5 DEF t

\* The pending lines of a kind are as many as its marks.
LEMMA MarksPending ==
    ASSUME TypeOK, NEW m \in Seq(Lines), Shows(Unread, m),
           NEW kind \in {"prompt", "stopped", "result"}
    PROVE  /\ NoneOf(m, kind) => Pending(kind) = 0
           /\ OneOf(m, kind) => Pending(kind) = 1
  <1> DEFINE u == Unread
  <1>1. u \in Seq(Lines) /\ Shows(u, m) /\ kind \notin {"stream", "async", "text"}
    BY StreamLines
  <1> HIDE DEF u
  <1>2. /\ NoneOf(m, kind) => Cardinality({i \in DOMAIN u : u[i].kind = kind}) = 0
        /\ OneOf(m, kind) => Cardinality({i \in DOMAIN u : u[i].kind = kind}) = 1
    <2>1. /\ (\A j \in 1 .. Len(m) : m[j].kind # kind)
               => Cardinality({i \in DOMAIN u : u[i].kind = kind}) = 0
          /\ \A k \in 1 .. Len(m) : (\A j \in 1 .. Len(m) : m[j].kind = kind <=> j = k)
               => Cardinality({i \in DOMAIN u : u[i].kind = kind}) = 1
      BY <1>1, ShowsCount, Zenon
    <2> QED
      BY <2>1, Zenon DEF NoneOf, OneOf
  <1> QED
    BY <1>2 DEF Pending, u

\* The marks of a stop, and of nothing.
LEMMA HaltCounts ==
    /\ \A kind : NoneOf(<<>>, kind)
    /\ OneOf(Halt, "stopped") /\ OneOf(Halt, "prompt") /\ NoneOf(Halt, "result")
    /\ NoneOf(Then(Prompt, <<>>), "stopped")
  <1> DEFINE e == <<>>
             one == Then(Prompt, e)
  <1>1. e \in Seq(Lines) /\ Len(e) = 0 /\ Prompt \in Lines /\ Stopped \in Lines
    BY EmptySeq, StreamLines, HaltIs
  <1>2. Prompt.kind = "prompt" /\ Stopped.kind = "stopped"
    BY MarkKinds
  <1> HIDE DEF e
  <1>3. \A kind : NoneOf(e, kind)
    BY <1>1 DEF NoneOf
  <1>4. one \in Seq(Lines)
    BY <1>1, ThenIs
  <1>5. OneOf(one, "prompt") /\ NoneOf(one, "stopped") /\ NoneOf(one, "result")
    BY <1>1, <1>2, <1>3, CountThen
  <1> HIDE DEF one
  <1>6. /\ OneOf(Then(Stopped, one), "stopped") /\ OneOf(Then(Stopped, one), "prompt")
        /\ NoneOf(Then(Stopped, one), "result")
    BY <1>1, <1>2, <1>4, <1>5, CountThen
  <1> QED
    BY <1>3, <1>5, <1>6 DEF Halt, one, e

\* Marks in front that are no stops.
LEMMA NoStopBefore ==
    ASSUME NEW a \in Lines, NEW m \in Seq(Lines), a.kind # "stopped"
    PROVE  /\ NoneOf(m, "stopped") => NoneOf(Then(a, m), "stopped")
           /\ OneOf(m, "stopped") => OneOf(Then(a, m), "stopped")
           /\ Then(a, m) \in Seq(Lines)
  BY CountThen, ThenIs

\* Each stop that was not waited for is among the marks.
LEMMA StopsMarked ==
    ASSUME TypeOK, NEW m \in Seq(Lines), Stage(m)
    PROVE  \/ stops = heard /\ NoneOf(m, "stopped")
           \/ stops = heard + 1 /\ OneOf(m, "stopped")
  <1>1. ASSUME NEW k, Rest(k) PROVE \/ stops = heard /\ NoneOf(k, "stopped")
                                    \/ stops = heard + 1 /\ OneOf(k, "stopped")
    BY <1>1, HaltCounts DEF Rest
  <1>2. CASE Idle(m) \/ Waiting(m)
    BY <1>1, <1>2 DEF Idle, Waiting
  <1>3. CASE Writing(m) \/ Sending(m)
    BY <1>3, HaltCounts DEF Writing, Sending, Calm
  <1>4. CASE Fresh(m) \/ Heading(m) \/ Waited(m)
    BY <1>4, HaltCounts DEF Fresh, Heading, Waited
  <1>5. CASE Answering(m) \/ Answered(m) \/ Draining(m)
    <2>1. call.op \in CmdOps
      BY <1>5 DEF Answering, Answered, Draining
    <2>2. PICK class \in Given, rest \in {<<>>, Halt} :
            /\ After(class, rest)
            /\ \/ m = Then(Prompt, rest)
               \/ m = Then(Record(class), Then(Prompt, rest))
               \/ m = Then(TokenAsync, Then(Record(class), Then(Prompt, rest)))
      BY <1>5 DEF Answering, Answered, Draining
    <2> DEFINE end    == Then(Prompt, rest)
               answer == Then(Record(class), end)
               whole  == Then(TokenAsync, answer)
    <2>3. /\ rest \in Seq(Lines) /\ Prompt \in Lines /\ Record(class) \in Lines
          /\ TokenAsync \in Lines
      BY <2>1, AnswerMarks, StreamLines
    <2>4. /\ Prompt.kind # "stopped" /\ Record(class).kind # "stopped"
          /\ TokenAsync.kind # "stopped"
      BY MarkKinds DEF Record
    <2>5. /\ NoneOf(rest, "stopped") => NoneOf(end, "stopped")
          /\ OneOf(rest, "stopped") => OneOf(end, "stopped")
          /\ end \in Seq(Lines)
      BY <2>3, <2>4, NoStopBefore
    <2> HIDE DEF end
    <2>6. /\ NoneOf(end, "stopped") => NoneOf(answer, "stopped")
          /\ OneOf(end, "stopped") => OneOf(answer, "stopped")
          /\ answer \in Seq(Lines)
      BY <2>3, <2>4, <2>5, NoStopBefore
    <2> HIDE DEF answer
    <2>7. /\ NoneOf(answer, "stopped") => NoneOf(whole, "stopped")
          /\ OneOf(answer, "stopped") => OneOf(whole, "stopped")
      BY <2>3, <2>4, <2>6, NoStopBefore
    <2> HIDE DEF whole
    <2>8. \/ stops = heard /\ NoneOf(rest, "stopped")
          \/ stops = heard + 1 /\ OneOf(rest, "stopped")
      BY <1>1, <2>2 DEF After
    <2>9. m = end \/ m = answer \/ m = whole
      BY <2>2 DEF end, answer, whole
    <2> QED
      BY <2>5, <2>6, <2>7, <2>8, <2>9
  <1> QED
    BY <1>2, <1>3, <1>4, <1>5 DEF Stage, Quiet

-----------------------------------------------------------------------------
(* The theorems.                                                           *)

\* The state is well typed and the marks are those of the stage, always.
LEMMA AlwaysStaged ==
    ASSUME Disciplined, "inner" \notin Noise
    PROVE  Spec => [](Typing /\ Staged)
  <1>1. Init => Typing /\ Staged
    BY TypingInit, StagedInit
  <1>2. Typing /\ Staged /\ [Next]_vars => (Typing /\ Staged)'
    BY TypingNext, StagedNext
  <1> QED
    BY <1>1, <1>2, PTL DEF Spec

\* While gdb lives, each stop of the program is still in the streams or was
\* returned by wait_for_stop, however often it stops, whatever else gdb says,
\* and wherever reads are cut and calls end in errors, as long as no line holds
\* "(gdb)" inside (interpreter.cpp 69, 136-154).
THEOREM StopsAreHeard ==
    ASSUME Disciplined, "inner" \notin Noise
    PROVE  Spec => []NoStopLost
  <1>1. Typing /\ Staged => NoStopLost
    <2> SUFFICES ASSUME TypeOK, Staged, gdb = "up" PROVE stops = heard + Pending("stopped")
      BY DEF NoStopLost, Typing
    <2>1. PICK m \in Seq(Lines) : Shows(Unread, m) /\ Stage(m)
      BY DEF Staged
    <2>2. \/ stops = heard /\ Pending("stopped") = 0
          \/ stops = heard + 1 /\ Pending("stopped") = 1
      BY <2>1, StopsMarked, MarksPending
    <2>3. stops \in Nat /\ heard \in Nat
      BY DEF TypeOK
    <2> QED
      BY <2>2, <2>3
  <1> QED
    BY <1>1, AlwaysStaged, PTL

\* Between calls of a session with a living gdb nothing of an answered command
\* is left, and the only batch that may wait is that of a stop: the next call
\* reads its own answer, also after an error, as long as no line holds "(gdb)"
\* inside (interpreter.cpp 69, 84, 120-128).
THEOREM StreamInStep ==
    ASSUME Disciplined, "inner" \notin Noise
    PROVE  Spec => []Synchronised
  <1>1. Typing /\ Staged => Synchronised
    <2> SUFFICES ASSUME TypeOK, Staged, pc = "idle", last.op # "none", gdb = "up"
                 PROVE  /\ toGdb = <<>>
                        /\ Pending("result") = 0
                        /\ Pending("prompt") = stops - heard
      BY DEF Synchronised, Typing
    <2>1. PICK m \in Seq(Lines) : Shows(Unread, m) /\ Stage(m)
      BY DEF Staged
    <2>2. toGdb = <<>> /\ Idle(m)
      BY <2>1, StageAt DEF Fresh
    <2>3. stops \in Nat /\ heard \in Nat
      BY DEF TypeOK
    <2>4. CASE m = <<>> /\ stops = heard
      <3>1. NoneOf(m, "result") /\ NoneOf(m, "prompt")
        BY <2>4, HaltCounts
      <3>2. Pending("result") = 0 /\ Pending("prompt") = 0
        BY <2>1, <3>1, MarksPending
      <3> QED
        BY <2>2, <2>3, <2>4, <3>2
    <2>5. CASE m = Halt /\ stops = heard + 1
      <3>1. NoneOf(m, "result") /\ OneOf(m, "prompt")
        BY <2>5, HaltCounts
      <3>2. Pending("result") = 0 /\ Pending("prompt") = 1
        BY <2>1, <3>1, MarksPending
      <3> QED
        BY <2>2, <2>3, <2>5, <3>2
    <2> QED
      BY <2>2, <2>4, <2>5 DEF Idle, Rest
  <1> QED
    BY <1>1, AlwaysStaged, PTL
=============================================================================
