-------------------------- MODULE Mi2Commands_proof --------------------------
(***************************************************************************)
(* Every line the interpreter sends is made of words with gaps between     *)
(* them, whatever options are chosen and however many parameters a loop    *)
(* appends, and every function waits for what gdb answers its command      *)
(* with, but for those the theorems name.                                  *)
(*                                                                         *)
(* A form opens with a gap or closes with one; which of the two the parts  *)
(* of a line do is what makes it fall into words.  The first lemmas say it *)
(* of the ways parts are put together, those on the table go through it    *)
(* row by row, and an invariant of the call carries it along the line.     *)
(***************************************************************************)
EXTENDS Mi2Commands, SequenceTheorems, TLAPS

Gap == {Blank, Newline}

\* The forms: words apart, a gap ahead, a gap behind.
Form(s)   == \E S : s \in Seq(S)
Apart(s)  == \A i \in 1 .. Len(s) - 1 : {s[i], s[i + 1]} \intersect Gap # {}
Opens(s)  == s # <<>> => s[1] \in Gap
Closes(s) == s # <<>> => s[Len(s)] \in Gap

\* The parts: sets of such forms, and those that are always there.
Neat(part)   == \A s \in part : Form(s) /\ Apart(s)
Lead(part)   == Neat(part) /\ \A s \in part : Opens(s)
Trail(part)  == Neat(part) /\ \A s \in part : Closes(s)
Filled(part) == <<>> \notin part

-----------------------------------------------------------------------------
(* How parts are put together.                                             *)

\* Two forms one after the other.
LEMMA Joined ==
    ASSUME NEW s, NEW t, Form(s), Form(t)
    PROVE  /\ Form(s \o t)
           /\ s \o t = <<>> <=> s = <<>> /\ t = <<>>
           /\ Apart(s) /\ Apart(t) /\ (Closes(s) \/ Opens(t)) => Apart(s \o t)
           /\ Opens(s) /\ (s # <<>> \/ Opens(t)) => Opens(s \o t)
           /\ Closes(t) /\ (t # <<>> \/ Closes(s)) => Closes(s \o t)
           /\ s # <<>> => (s \o t)[1] = s[1]
           /\ t # <<>> => (s \o t)[Len(s \o t)] = t[Len(t)]
  <1> DEFINE u == s \o t
             S == Len(s)
             T == Len(t)
  <1> PICK A, B : s \in Seq(A) /\ t \in Seq(B)
    BY DEF Form
  <1> DEFINE Both == A \union B
  <1>0. s \in Seq(Both) /\ t \in Seq(Both)
    <2>1. A \subseteq Both /\ B \subseteq Both
      OBVIOUS
    <2> HIDE DEF Both
    <2> QED
      BY <2>1, SeqMonotonic
  <1> HIDE DEF Both
  <1>1. S \in Nat /\ T \in Nat /\ (s = <<>> <=> S = 0) /\ (t = <<>> <=> T = 0)
    BY <1>0, EmptySeq, LenProperties
  <1>2. /\ u \in Seq(Both) /\ Form(u) /\ Len(u) = S + T
        /\ \A i \in 1 .. S + T : u[i] = IF i <= S THEN s[i] ELSE t[i - S]
    BY <1>0, ConcatProperties DEF Form
  <1>3. u = <<>> <=> s = <<>> /\ t = <<>>
    BY <1>1, <1>2, EmptySeq
  <1>4. s # <<>> => u[1] = s[1]
    BY <1>1, <1>2
  <1>5. t # <<>> => u[S + T] = t[T]
    BY <1>1, <1>2
  <1>6. s = <<>> => u = t
    BY <1>0
  <1>7. t = <<>> => u = s
    BY <1>0
  <1> HIDE DEF u, S, T
  <1>8. Opens(s) /\ (s # <<>> \/ Opens(t)) => Opens(u)
    BY <1>3, <1>4, <1>6 DEF Opens
  <1>9. Closes(t) /\ (t # <<>> \/ Closes(s)) => Closes(u)
    BY <1>2, <1>3, <1>5, <1>7 DEF Closes, T
  <1>10. ASSUME Apart(s), Apart(t), Closes(s) \/ Opens(t), NEW i \in 1 .. Len(u) - 1
         PROVE  {u[i], u[i + 1]} \intersect Gap # {}
    <2>1. CASE i < S
      <3>1. u[i] = s[i] /\ u[i + 1] = s[i + 1] /\ i \in 1 .. S - 1
        BY <1>1, <1>2, <2>1
      <3> QED
        BY <1>10, <3>1 DEF Apart, S
    <2>2. CASE i > S
      <3>1. u[i] = t[i - S] /\ u[i + 1] = t[i - S + 1] /\ i - S \in 1 .. T - 1
        BY <1>1, <1>2, <2>2
      <3> QED
        BY <1>10, <3>1 DEF Apart, T
    <2>3. CASE i = S
      <3>1. u[i] = s[S] /\ u[i + 1] = t[1] /\ s # <<>> /\ t # <<>>
        BY <1>1, <1>2, <2>3
      <3> QED
        BY <1>10, <3>1 DEF Opens, Closes, S
    <2> QED
      BY <1>1, <2>1, <2>2, <2>3
  <1>11. Apart(s) /\ Apart(t) /\ (Closes(s) \/ Opens(t)) => Apart(u)
    <2> SUFFICES ASSUME Apart(s), Apart(t), Closes(s) \/ Opens(t) PROVE Apart(u)
      OBVIOUS
    <2>1. \A i \in 1 .. Len(u) - 1 : {u[i], u[i + 1]} \intersect Gap # {}
      BY <1>10
    <2> QED
      BY <2>1 DEF Apart
  <1>12. t # <<>> => u[Len(u)] = t[Len(t)]
    BY <1>2, <1>5 DEF T
  <1> QED
    BY <1>2, <1>3, <1>4, <1>8, <1>9, <1>11, <1>12 DEF u

\* A word is a part; a blank and a newline open and close.
LEMMA WordParts ==
    /\ \A w : Neat(Word(w)) /\ Filled(Word(w))
    /\ \A w \in Gap : Lead(Word(w)) /\ Trail(Word(w)) /\ Filled(Word(w))
  <1>1. ASSUME NEW w
        PROVE  /\ Form(<<w>>) /\ Len(<<w>>) = 1 /\ <<w>>[1] = w /\ <<w>> # <<>>
               /\ Apart(<<w>>)
    <2>1. <<w>> \in Seq({w}) /\ Len(<<w>>) = 1 /\ <<w>>[1] = w /\ <<w>> # <<>>
      OBVIOUS
    <2>2. Form(<<w>>)
      BY <2>1 DEF Form
    <2>3. Apart(<<w>>)
      BY <2>1 DEF Apart
    <2> QED
      BY <2>1, <2>2, <2>3
  <1>2. \A w : Neat(Word(w)) /\ Filled(Word(w))
    BY <1>1 DEF Neat, Filled, Word
  <1>3. \A w \in Gap : Opens(<<w>>) /\ Closes(<<w>>)
    BY <1>1 DEF Opens, Closes
  <1> QED
    BY <1>2, <1>3 DEF Lead, Trail, Word

\* A part that may be left out.
LEMMA OptParts ==
    ASSUME NEW part
    PROVE  /\ Neat(part) => Neat(Opt(part))
           /\ Lead(part) => Lead(Opt(part))
           /\ Trail(part) => Trail(Opt(part))
  <1>1. Form(<<>>) /\ Apart(<<>>) /\ Opens(<<>>) /\ Closes(<<>>)
    BY EmptySeq DEF Form, Apart, Opens, Closes
  <1> QED
    BY <1>1 DEF Opt, Neat, Lead, Trail

\* One part or another.
LEMMA EitherPart ==
    ASSUME NEW p, NEW q, Neat(p), Neat(q)
    PROVE  /\ Neat(p \union q)
           /\ Lead(p) /\ Lead(q) => Lead(p \union q)
           /\ Trail(p) /\ Trail(q) => Trail(p \union q)
           /\ Filled(p) /\ Filled(q) => Filled(p \union q)
  BY DEF Neat, Lead, Trail, Filled

\* A part glued to another: the one closes or the other opens.
LEMMA CatParts ==
    ASSUME NEW p, NEW q, Neat(p), Neat(q), Trail(p) \/ Lead(q)
    PROVE  /\ Neat(Cat(p, q))
           /\ Lead(p) /\ Filled(p) => Lead(Cat(p, q))
           /\ Lead(p) /\ Lead(q) => Lead(Cat(p, q))
           /\ Trail(q) /\ Filled(q) => Trail(Cat(p, q))
           /\ Trail(p) /\ Trail(q) => Trail(Cat(p, q))
           /\ Filled(p) \/ Filled(q) => Filled(Cat(p, q))
  <1>1. ASSUME NEW u \in Cat(p, q)
        PROVE  \E s \in p, t \in q :
                 /\ u = s \o t /\ Form(u) /\ Apart(u)
                 /\ u = <<>> <=> s = <<>> /\ t = <<>>
                 /\ Opens(s) /\ (s # <<>> \/ Opens(t)) => Opens(u)
                 /\ Closes(t) /\ (t # <<>> \/ Closes(s)) => Closes(u)
    <2>1. PICK s \in p, t \in q : u = s \o t
      BY DEF Cat
    <2>2. Form(s) /\ Form(t) /\ Apart(s) /\ Apart(t) /\ (Closes(s) \/ Opens(t))
      BY DEF Neat, Lead, Trail
    <2> QED
      BY <2>1, <2>2, Joined
  <1>2. Neat(Cat(p, q))
    BY <1>1 DEF Neat
  <1>3. Lead(p) /\ (Filled(p) \/ Lead(q)) => Lead(Cat(p, q))
    BY <1>1, <1>2 DEF Lead, Filled
  <1>4. Trail(q) /\ (Filled(q) \/ Trail(p)) => Trail(Cat(p, q))
    BY <1>1, <1>2 DEF Trail, Filled
  <1>5. Filled(p) \/ Filled(q) => Filled(Cat(p, q))
    BY <1>1 DEF Filled
  <1> QED
    BY <1>2, <1>3, <1>4, <1>5

\* A parameter behind its blank, and one ahead of it.
LEMMA ArgParts ==
    ASSUME NEW part, Neat(part)
    PROVE  /\ Lead(Arg(part)) /\ Filled(Arg(part)) /\ Neat(Arg(part))
           /\ Trail(Ahead(part)) /\ Filled(Ahead(part)) /\ Neat(Ahead(part))
  <1>1. Lead(Word(Blank)) /\ Trail(Word(Blank)) /\ Filled(Word(Blank)) /\ Neat(Word(Blank))
    BY WordParts DEF Gap, Lead
  <1> QED
    BY <1>1, CatParts DEF Arg, Ahead

\* A parameter between two blanks opens with the first.
LEMMA ArgBetween ==
    ASSUME NEW part, Neat(part)
    PROVE  Lead(Ahead(Arg(part)))
  <1>1. Lead(Arg(part)) /\ Filled(Arg(part)) /\ Neat(Arg(part))
    BY ArgParts
  <1>2. Lead(Word(Blank)) /\ Neat(Word(Blank))
    BY WordParts DEF Gap, Lead
  <1> QED
    BY <1>1, <1>2, CatParts DEF Ahead

\* The parts the table is made of.
LEMMA Pieces ==
    /\ Neat(Number) /\ Neat(String) /\ Neat(Quoted) /\ Neat(QuoteIf)
    /\ \A w : Lead(Flag(w)) /\ Trail(FlagAhead(w))
  <1>1. Neat(Number) /\ Neat(Quoted) /\ Neat(Word("string"))
    BY WordParts DEF Number, Quoted
  <1>2. Neat(QuoteIf)
    BY <1>1, EitherPart DEF QuoteIf
  <1>3. Neat(String)
    <2> DEFINE s == <<"string", Blank, Rest>>
    <2>1. Form(s) /\ Len(s) = 3 /\ s[2] = Blank
      <3>1. s \in Seq({"string", Blank, Rest})
        OBVIOUS
      <3> QED
        BY <3>1 DEF Form
    <2> HIDE DEF s
    <2>2. Apart(s)
      <3>1. \A i \in 1 .. 2 : s[i] = Blank \/ s[i + 1] = Blank
        BY <2>1
      <3> QED
        BY <2>1, <3>1, \A i : i \in 1 .. 3 - 1 <=> i \in 1 .. 2 DEF Apart, Gap
    <2>3. Form(<<"string">>) /\ Apart(<<"string">>)
      BY <1>1 DEF Word, Neat
    <2> QED
      BY <2>1, <2>2, <2>3 DEF String, Neat, s
  <1>4. ASSUME NEW w PROVE Lead(Flag(w)) /\ Trail(FlagAhead(w))
    BY WordParts, ArgParts, OptParts DEF Flag, FlagAhead
  <1> QED
    BY <1>1, <1>2, <1>3, <1>4

\* An option with its value.
LEMMA ValueParts ==
    ASSUME NEW w, NEW part, Neat(part)
    PROVE  /\ Trail(Value(w, part)) /\ Neat(Value(w, part))
           /\ Neat(Cat(Ahead(Word(w)), part)) /\ Lead(Cat(Arg(Word(w)), Arg(part)))
  <1>1. Trail(Ahead(Word(w))) /\ Neat(Ahead(Word(w))) /\ Neat(Arg(Word(w)))
        /\ Lead(Arg(Word(w))) /\ Filled(Arg(Word(w)))
    BY WordParts, ArgParts
  <1>2. Neat(Cat(Ahead(Word(w)), part))
    BY <1>1, CatParts
  <1>3. Trail(Value(w, part))
    BY <1>2, ArgParts, OptParts DEF Value
  <1>4. Lead(Cat(Arg(Word(w)), Arg(part)))
    BY <1>1, ArgParts, CatParts
  <1> QED
    BY <1>2, <1>3, <1>4 DEF Trail

\* A location, of whichever kind.
LEMMA LocationNeat == Neat(Location)
  <1>1. Neat(Linespec) /\ Neat(Address)
    BY Pieces, OptParts DEF Linespec, Address
  <1>2. Neat(Explicit)
    <2> DEFINE option == Value("--option", String)
               line   == Opt(Cat(Ahead(Word("--line")), Number))
    <2>1. Trail(option) /\ Neat(option)
      BY ValueParts, Pieces
    <2>2. Neat(line)
      BY ValueParts, Pieces, OptParts
    <2>3. Explicit = Cat(Cat(Cat(option, option), option), line)
      BY DEF Explicit
    <2> HIDE DEF option, line
    <2>4. Trail(Cat(option, option)) /\ Neat(Cat(option, option))
      BY <2>1, CatParts
    <2>5. Trail(Cat(Cat(option, option), option)) /\ Neat(Cat(Cat(option, option), option))
      BY <2>1, <2>4, CatParts
    <2> QED
      BY <2>2, <2>3, <2>5, CatParts
  <1> QED
    BY <1>1, <1>2, EitherPart DEF Location

-----------------------------------------------------------------------------
(* Lines.                                                                  *)

\* Each of the parts to come finds a gap, its own or one that is there by then:
\* that of the line so far, or of a part before it that is never left out.
Fits(buf, line) ==
    \A i \in 1 .. Len(line) :
        \/ Lead(line[i])
        \/ \E j \in 0 .. i - 1 :
             /\ IF j = 0 THEN Closes(buf) ELSE Trail(line[j]) /\ Filled(line[j])
             /\ \A k \in j + 1 .. i - 1 : Trail(line[k])
Parts(line) == Form(line) /\ \A i \in 1 .. Len(line) : Neat(line[i])

\* How the lines of the table are laid out: parts that open, up to a blank, then
\* parts that close, one of any kind, and parts that open.
Styled(line, blank, last) ==
    /\ Parts(line)
    /\ last = 0 \/ (blank \in 1 .. last /\ Filled(line[blank]))
    /\ \A i \in 1 .. Len(line) :
         /\ i <= blank \/ i > last => Lead(line[i])
         /\ blank <= i /\ i < last => Trail(line[i])
Line(line) == \E blank \in Nat, last \in Nat : Styled(line, blank, last)

\* The command ahead of a line is one more part.
LEMMA WholeLine ==
    ASSUME NEW command, NEW line, Parts(line)
    PROVE  LET whole == <<Word(command)>> \o line
           IN  /\ Parts(whole) /\ Len(whole) = Len(line) + 1 /\ Len(line) \in Nat
               /\ whole[1] = Word(command)
               /\ \A i \in 2 .. Len(line) + 1 : whole[i] = line[i - 1] /\ i - 1 \in 1 .. Len(line)
  <1> DEFINE first == <<Word(command)>>
             whole == first \o line
             L == Len(line)
  <1>1. PICK S : line \in Seq(S)
    BY DEF Parts, Form
  <1> DEFINE Both == S \union {Word(command)}
  <1>2. /\ line \in Seq(Both) /\ first \in Seq(Both)
        /\ Len(first) = 1 /\ first[1] = Word(command)
    <2>1. S \subseteq Both /\ Word(command) \in Both
      OBVIOUS
    <2> HIDE DEF Both
    <2> QED
      BY <1>1, <2>1, SeqMonotonic
  <1> HIDE DEF Both, first
  <1>3. L \in Nat
    BY <1>2, LenProperties
  <1>4. /\ whole \in Seq(Both) /\ Len(whole) = 1 + L
        /\ \A i \in 1 .. 1 + L : whole[i] = IF i <= 1 THEN first[i] ELSE line[i - 1]
    <2>1. /\ whole \in Seq(Both) /\ Len(whole) = Len(first) + Len(line)
          /\ \A i \in 1 .. Len(first) + Len(line) :
               whole[i] = IF i <= Len(first) THEN first[i] ELSE line[i - Len(first)]
      BY <1>2, ConcatProperties
    <2> QED
      BY <1>2, <2>1
  <1>5. /\ whole \in Seq(Both) /\ Len(whole) = L + 1 /\ whole[1] = Word(command)
        /\ \A i \in 2 .. L + 1 : whole[i] = line[i - 1] /\ i - 1 \in 1 .. L
    BY <1>2, <1>3, <1>4
  <1> HIDE DEF whole
  <1>6. ASSUME NEW i \in 1 .. L + 1 PROVE Neat(whole[i])
    <2>1. CASE i = 1
      BY <1>5, <2>1, WordParts
    <2>2. CASE i # 1
      <3>1. i \in 2 .. L + 1
        BY <1>3, <2>2
      <3> QED
        BY <1>5, <3>1 DEF Parts
    <2> QED
      BY <2>1, <2>2
  <1>7. Parts(whole)
    BY <1>5, <1>6 DEF Parts, Form
  <1> QED
    BY <1>3, <1>5, <1>7 DEF whole, first

\* Such a line fits behind its command.
LEMMA LineFits ==
    ASSUME NEW command, NEW line, Line(line)
    PROVE  Parts(line) /\ Fits(<<>>, <<Word(command)>> \o line)
  <1> DEFINE whole == <<Word(command)>> \o line
             L == Len(line)
  <1>1. PICK blank \in Nat, last \in Nat : Styled(line, blank, last)
    BY DEF Line
  <1>2. Parts(line)
    BY <1>1 DEF Styled
  <1>3. whole[1] = Word(command)
    BY <1>2, WholeLine
  <1>4. L \in Nat
    BY <1>2, WholeLine
  <1>5. /\ Len(whole) = L + 1
        /\ \A i \in 2 .. L + 1 : whole[i] = line[i - 1] /\ i - 1 \in 1 .. L
    BY <1>2, WholeLine
  <1> HIDE DEF whole, L
  <1>7. ASSUME NEW i \in 1 .. L + 1, ~Lead(whole[i])
        PROVE  \E j \in 0 .. i - 1 :
                 /\ IF j = 0 THEN Closes(<<>>) ELSE Trail(whole[j]) /\ Filled(whole[j])
                 /\ \A k \in j + 1 .. i - 1 : Trail(whole[k])
    <2>1. CASE i = 1
      <3>1. Closes(<<>>)
        BY DEF Closes
      <3> QED
        BY <2>1, <3>1
    <2>2. CASE i # 1
      <3>1. whole[i] = line[i - 1] /\ i - 1 \in 1 .. L
        BY <1>4, <1>5, <2>2
      <3>2. blank < i - 1 /\ i - 1 <= last /\ blank \in 1 .. last /\ Filled(line[blank])
        BY <1>1, <1>4, <1>7, <3>1 DEF Styled, L
      <3>3. Trail(line[blank]) /\ blank \in 1 .. L
        BY <1>1, <1>4, <3>1, <3>2 DEF Styled, L
      <3>4. blank + 1 \in 1 .. i - 1 /\ whole[blank + 1] = line[blank]
        BY <1>4, <1>5, <3>1, <3>2, <3>3
      <3>5. ASSUME NEW k \in blank + 2 .. i - 1 PROVE Trail(whole[k])
        <4>1. whole[k] = line[k - 1] /\ k - 1 \in 1 .. L /\ blank <= k - 1 /\ k - 1 < last
          BY <1>4, <1>5, <3>1, <3>2
        <4> QED
          BY <1>1, <1>4, <4>1 DEF Styled, L
      <3>6. (blank + 1) + 1 = blank + 2 /\ blank + 1 # 0
        OBVIOUS
      <3> QED
        BY <3>2, <3>3, <3>4, <3>5, <3>6
    <2> QED
      BY <2>1, <2>2
  <1>8. Fits(<<>>, whole)
    BY <1>5, <1>7 DEF Fits
  <1> QED
    BY <1>2, <1>8 DEF whole

\* Most lines only have parts that open.
LeadLine(line) == Form(line) /\ \A i \in 1 .. Len(line) : Lead(line[i])

\* Up to seven parts that open.
LEMMA LeadLines ==
    /\ LeadLine(<<>>)
    /\ \A p : Lead(p) => LeadLine(<<p>>)
    /\ \A p, q : Lead(p) /\ Lead(q) => LeadLine(<<p, q>>)
    /\ \A p, q, r : Lead(p) /\ Lead(q) /\ Lead(r) => LeadLine(<<p, q, r>>)
    /\ \A p, q, r, s : Lead(p) /\ Lead(q) /\ Lead(r) /\ Lead(s) => LeadLine(<<p, q, r, s>>)
    /\ \A p, q, r, s, t : Lead(p) /\ Lead(q) /\ Lead(r) /\ Lead(s) /\ Lead(t) => LeadLine(<<p, q, r, s, t>>)
    /\ \A p, q, r, s, t, u : Lead(p) /\ Lead(q) /\ Lead(r) /\ Lead(s) /\ Lead(t) /\ Lead(u) => LeadLine(<<p, q, r, s, t, u>>)
    /\ \A p, q, r, s, t, u, v : Lead(p) /\ Lead(q) /\ Lead(r) /\ Lead(s) /\ Lead(t) /\ Lead(u) /\ Lead(v) => LeadLine(<<p, q, r, s, t, u, v>>)
  <1>0. LeadLine(<<>>)
    BY EmptySeq DEF LeadLine, Form
  <1>1. ASSUME NEW p, Lead(p)
        PROVE  LeadLine(<<p>>)
    <2> DEFINE line == <<p>>
    <2>1. line \in Seq({p}) /\ Len(line) = 1
      OBVIOUS
    <2>2. line[1] = p
      OBVIOUS
    <2> HIDE DEF line
    <2> QED
      BY <1>1, <2>1, <2>2 DEF LeadLine, Form
  <1>2. ASSUME NEW p, NEW q, Lead(p), Lead(q)
        PROVE  LeadLine(<<p, q>>)
    <2> DEFINE line == <<p, q>>
    <2>1. line \in Seq({p, q}) /\ Len(line) = 2
      OBVIOUS
    <2>2. line[1] = p /\ line[2] = q
      OBVIOUS
    <2> HIDE DEF line
    <2>3. \A i \in 1 .. 2 : Lead(line[i])
      BY <1>2, <2>2
    <2> QED
      BY <2>1, <2>3 DEF LeadLine, Form, line
  <1>3. ASSUME NEW p, NEW q, NEW r, Lead(p), Lead(q), Lead(r)
        PROVE  LeadLine(<<p, q, r>>)
    <2> DEFINE line == <<p, q, r>>
    <2>1. line \in Seq({p, q, r}) /\ Len(line) = 3
      OBVIOUS
    <2>2. line[1] = p /\ line[2] = q /\ line[3] = r
      OBVIOUS
    <2> HIDE DEF line
    <2>3. \A i \in 1 .. 3 : Lead(line[i])
      BY <1>3, <2>2
    <2> QED
      BY <2>1, <2>3 DEF LeadLine, Form, line
  <1>4. ASSUME NEW p, NEW q, NEW r, NEW s, Lead(p), Lead(q), Lead(r), Lead(s)
        PROVE  LeadLine(<<p, q, r, s>>)
    <2> DEFINE line == <<p, q, r, s>>
    <2>1. line \in Seq({p, q, r, s}) /\ Len(line) = 4
      OBVIOUS
    <2>2. line[1] = p /\ line[2] = q /\ line[3] = r /\ line[4] = s
      OBVIOUS
    <2> HIDE DEF line
    <2>3. \A i \in 1 .. 4 : Lead(line[i])
      BY <1>4, <2>2
    <2> QED
      BY <2>1, <2>3 DEF LeadLine, Form, line
  <1>5. ASSUME NEW p, NEW q, NEW r, NEW s, NEW t, Lead(p), Lead(q), Lead(r), Lead(s), Lead(t)
        PROVE  LeadLine(<<p, q, r, s, t>>)
    <2> DEFINE line == <<p, q, r, s, t>>
    <2>1. line \in Seq({p, q, r, s, t}) /\ Len(line) = 5
      OBVIOUS
    <2>2. line[1] = p /\ line[2] = q /\ line[3] = r /\ line[4] = s /\ line[5] = t
      OBVIOUS
    <2> HIDE DEF line
    <2>3. \A i \in 1 .. 5 : Lead(line[i])
      BY <1>5, <2>2
    <2> QED
      BY <2>1, <2>3 DEF LeadLine, Form, line
  <1>6. ASSUME NEW p, NEW q, NEW r, NEW s, NEW t, NEW u, Lead(p), Lead(q), Lead(r), Lead(s), Lead(t), Lead(u)
        PROVE  LeadLine(<<p, q, r, s, t, u>>)
    <2> DEFINE line == <<p, q, r, s, t, u>>
    <2>1. line \in Seq({p, q, r, s, t, u}) /\ Len(line) = 6
      OBVIOUS
    <2>2. line[1] = p /\ line[2] = q /\ line[3] = r /\ line[4] = s /\ line[5] = t /\ line[6] = u
      OBVIOUS
    <2> HIDE DEF line
    <2>3. \A i \in 1 .. 6 : Lead(line[i])
      BY <1>6, <2>2
    <2> QED
      BY <2>1, <2>3 DEF LeadLine, Form, line
  <1>7. ASSUME NEW p, NEW q, NEW r, NEW s, NEW t, NEW u, NEW v, Lead(p), Lead(q), Lead(r), Lead(s), Lead(t), Lead(u), Lead(v)
        PROVE  LeadLine(<<p, q, r, s, t, u, v>>)
    <2> DEFINE line == <<p, q, r, s, t, u, v>>
    <2>1. line \in Seq({p, q, r, s, t, u, v}) /\ Len(line) = 7
      OBVIOUS
    <2>2. line[1] = p /\ line[2] = q /\ line[3] = r /\ line[4] = s /\ line[5] = t /\ line[6] = u /\ line[7] = v
      OBVIOUS
    <2> HIDE DEF line
    <2>3. \A i \in 1 .. 7 : Lead(line[i])
      BY <1>7, <2>2
    <2> QED
      BY <2>1, <2>3 DEF LeadLine, Form, line
  <1> QED
    BY <1>0, <1>1, <1>2, <1>3, <1>4, <1>5, <1>6, <1>7

\* They are lines, and so are two of them in a row.
LEMMA LeadIsLine ==
    /\ \A line : LeadLine(line) => Line(line)
    /\ \A line, more : LeadLine(line) /\ LeadLine(more) => LeadLine(line \o more)
  <1>1. ASSUME NEW line, LeadLine(line) PROVE Line(line)
    <2>1. Styled(line, 0, 0)
      BY <1>1 DEF LeadLine, Styled, Parts, Lead
    <2> QED
      BY <2>1 DEF Line
  <1>2. ASSUME NEW line, NEW more, LeadLine(line), LeadLine(more)
        PROVE  LeadLine(line \o more)
    <2>1. PICK A, B : line \in Seq(A) /\ more \in Seq(B)
      BY <1>2 DEF LeadLine, Form
    <2> DEFINE Both  == A \union B
               whole == line \o more
    <2>2. line \in Seq(Both) /\ more \in Seq(Both)
      <3>1. A \subseteq Both /\ B \subseteq Both
        OBVIOUS
      <3> HIDE DEF Both
      <3> QED
        BY <2>1, <3>1, SeqMonotonic
    <2> HIDE DEF Both
    <2>3. Len(line) \in Nat /\ Len(more) \in Nat
      BY <2>2, LenProperties
    <2>4. /\ whole \in Seq(Both) /\ Len(whole) = Len(line) + Len(more)
          /\ \A i \in 1 .. Len(line) + Len(more) :
               whole[i] = IF i <= Len(line) THEN line[i] ELSE more[i - Len(line)]
      BY <2>2, ConcatProperties
    <2> HIDE DEF whole
    <2>5. ASSUME NEW i \in 1 .. Len(whole) PROVE Lead(whole[i])
      <3>1. CASE i <= Len(line)
        BY <1>2, <2>3, <2>4, <3>1 DEF LeadLine
      <3>2. CASE ~(i <= Len(line))
        <4>1. whole[i] = more[i - Len(line)] /\ i - Len(line) \in 1 .. Len(more)
          BY <2>3, <2>4, <3>2
        <4> QED
          BY <1>2, <4>1 DEF LeadLine
      <3> QED
        BY <3>1, <3>2
    <2> QED
      BY <2>4, <2>5 DEF LeadLine, Form, whole
  <1> QED
    BY <1>1, <1>2

\* The lines that have a blank first, then parts that close, a last one, and
\* sometimes a part that opens.
LEMMA MixedLines ==
    /\ \A n : Neat(n) => Line(<<Word(Blank), n>>)
    /\ \A a, n : Trail(a) /\ Neat(n) => Line(<<Word(Blank), a, n>>)
    /\ \A a, b, n :
         Trail(a) /\ Trail(b) /\ Neat(n)
         => Line(<<Word(Blank), a, b, n>>)
    /\ \A a, n, l :
         Trail(a) /\ Neat(n) /\ Lead(l)
         => Line(<<Word(Blank), a, n, l>>)
    /\ \A a, b, n, l :
         Trail(a) /\ Trail(b) /\ Neat(n) /\ Lead(l)
         => Line(<<Word(Blank), a, b, n, l>>)
    /\ \A a, b, c, d, e, f, g, h, n :
         Trail(a) /\ Trail(b) /\ Trail(c) /\ Trail(d) /\ Trail(e) /\ Trail(f)
         /\ Trail(g) /\ Trail(h) /\ Neat(n)
         => Line(<<Word(Blank), a, b, c, d, e, f, g, h, n>>)
    /\ \A a, b, c, d, e, f, g, n :
         Trail(a) /\ Trail(b) /\ Trail(c) /\ Trail(d) /\ Trail(e) /\ Trail(f)
         /\ Trail(g) /\ Neat(n)
         => Line(<<Word(Blank), a, b, c, d, e, f, g, n>>)
  <1>0. Lead(Word(Blank)) /\ Trail(Word(Blank)) /\ Filled(Word(Blank))
    BY WordParts DEF Gap
  <1>1. ASSUME NEW n,
               Neat(n)
        PROVE  Line(<<Word(Blank), n>>)
    <2> DEFINE line == <<Word(Blank), n>>
    <2>1. line \in Seq({Word(Blank), n}) /\ Len(line) = 2
      OBVIOUS
    <2>2. /\ line[1] = Word(Blank)
          /\ line[2] = n
      OBVIOUS
    <2> HIDE DEF line
    <2>3. \A i \in 1 .. 2 : Neat(line[i]) /\ (i < 2 => Trail(line[i]))
      BY <1>1, <1>0, <2>2 DEF Trail, Lead
    <2>4. Lead(line[1]) /\ Filled(line[1])
      BY <1>1, <1>0, <2>2
    <2>5. Styled(line, 1, 2)
      BY <2>1, <2>3, <2>4 DEF Styled, Parts, Form
    <2> QED
      BY <2>5 DEF Line, line
  <1>2. ASSUME NEW a, NEW n,
               Trail(a), Neat(n)
        PROVE  Line(<<Word(Blank), a, n>>)
    <2> DEFINE line == <<Word(Blank), a, n>>
    <2>1. line \in Seq({Word(Blank), a, n}) /\ Len(line) = 3
      OBVIOUS
    <2>2. /\ line[1] = Word(Blank)
          /\ line[2] = a /\ line[3] = n
      OBVIOUS
    <2> HIDE DEF line
    <2>3. \A i \in 1 .. 3 : Neat(line[i]) /\ (i < 3 => Trail(line[i]))
      BY <1>2, <1>0, <2>2 DEF Trail, Lead
    <2>4. Lead(line[1]) /\ Filled(line[1])
      BY <1>2, <1>0, <2>2
    <2>5. Styled(line, 1, 3)
      BY <2>1, <2>3, <2>4 DEF Styled, Parts, Form
    <2> QED
      BY <2>5 DEF Line, line
  <1>3. ASSUME NEW a, NEW b, NEW n,
               Trail(a), Trail(b), Neat(n)
        PROVE  Line(<<Word(Blank), a, b, n>>)
    <2> DEFINE line == <<Word(Blank), a, b, n>>
    <2>1. line \in Seq({Word(Blank), a, b, n}) /\ Len(line) = 4
      OBVIOUS
    <2>2. /\ line[1] = Word(Blank)
          /\ line[2] = a /\ line[3] = b /\ line[4] = n
      OBVIOUS
    <2> HIDE DEF line
    <2>3. \A i \in 1 .. 4 : Neat(line[i]) /\ (i < 4 => Trail(line[i]))
      BY <1>3, <1>0, <2>2 DEF Trail, Lead
    <2>4. Lead(line[1]) /\ Filled(line[1])
      BY <1>3, <1>0, <2>2
    <2>5. Styled(line, 1, 4)
      BY <2>1, <2>3, <2>4 DEF Styled, Parts, Form
    <2> QED
      BY <2>5 DEF Line, line
  <1>4. ASSUME NEW a, NEW n, NEW l,
               Trail(a), Neat(n), Lead(l)
        PROVE  Line(<<Word(Blank), a, n, l>>)
    <2> DEFINE line == <<Word(Blank), a, n, l>>
    <2>1. line \in Seq({Word(Blank), a, n, l}) /\ Len(line) = 4
      OBVIOUS
    <2>2. /\ line[1] = Word(Blank)
          /\ line[2] = a /\ line[3] = n /\ line[4] = l
      OBVIOUS
    <2> HIDE DEF line
    <2>3. \A i \in 1 .. 4 : Neat(line[i]) /\ (i < 3 => Trail(line[i]))
      BY <1>4, <1>0, <2>2 DEF Trail, Lead
    <2>4. Lead(line[1]) /\ Filled(line[1]) /\ Lead(line[4])
      BY <1>4, <1>0, <2>2
    <2>5. Styled(line, 1, 3)
      BY <2>1, <2>3, <2>4 DEF Styled, Parts, Form
    <2> QED
      BY <2>5 DEF Line, line
  <1>5. ASSUME NEW a, NEW b, NEW n, NEW l,
               Trail(a), Trail(b), Neat(n), Lead(l)
        PROVE  Line(<<Word(Blank), a, b, n, l>>)
    <2> DEFINE line == <<Word(Blank), a, b, n, l>>
    <2>1. line \in Seq({Word(Blank), a, b, n, l}) /\ Len(line) = 5
      OBVIOUS
    <2>2. /\ line[1] = Word(Blank)
          /\ line[2] = a /\ line[3] = b /\ line[4] = n /\ line[5] = l
      OBVIOUS
    <2> HIDE DEF line
    <2>3. \A i \in 1 .. 5 : Neat(line[i]) /\ (i < 4 => Trail(line[i]))
      BY <1>5, <1>0, <2>2 DEF Trail, Lead
    <2>4. Lead(line[1]) /\ Filled(line[1]) /\ Lead(line[5])
      BY <1>5, <1>0, <2>2
    <2>5. Styled(line, 1, 4)
      BY <2>1, <2>3, <2>4 DEF Styled, Parts, Form
    <2> QED
      BY <2>5 DEF Line, line
  <1>6. ASSUME NEW a, NEW b, NEW c, NEW d, NEW e, NEW f, NEW g, NEW h, NEW n,
               Trail(a), Trail(b), Trail(c), Trail(d), Trail(e), Trail(f), Trail(g),
               Trail(h), Neat(n)
        PROVE  Line(<<Word(Blank), a, b, c, d, e, f, g, h, n>>)
    <2> DEFINE line == <<Word(Blank), a, b, c, d, e, f, g, h, n>>
    <2>1. line \in Seq({Word(Blank), a, b, c, d, e, f, g, h, n}) /\ Len(line) = 10
      OBVIOUS
    <2>2. /\ line[1] = Word(Blank)
          /\ line[2] = a /\ line[3] = b /\ line[4] = c /\ line[5] = d /\ line[6] = e
             /\ line[7] = f /\ line[8] = g /\ line[9] = h /\ line[10] = n
      OBVIOUS
    <2> HIDE DEF line
    <2>3. \A i \in 1 .. 10 : Neat(line[i]) /\ (i < 10 => Trail(line[i]))
      BY <1>6, <1>0, <2>2 DEF Trail, Lead
    <2>4. Lead(line[1]) /\ Filled(line[1])
      BY <1>6, <1>0, <2>2
    <2>5. Styled(line, 1, 10)
      BY <2>1, <2>3, <2>4 DEF Styled, Parts, Form
    <2> QED
      BY <2>5 DEF Line, line
  <1>7. ASSUME NEW a, NEW b, NEW c, NEW d, NEW e, NEW f, NEW g, NEW n,
               Trail(a), Trail(b), Trail(c), Trail(d), Trail(e), Trail(f), Trail(g),
               Neat(n)
        PROVE  Line(<<Word(Blank), a, b, c, d, e, f, g, n>>)
    <2> DEFINE line == <<Word(Blank), a, b, c, d, e, f, g, n>>
    <2>1. line \in Seq({Word(Blank), a, b, c, d, e, f, g, n}) /\ Len(line) = 9
      OBVIOUS
    <2>2. /\ line[1] = Word(Blank)
          /\ line[2] = a /\ line[3] = b /\ line[4] = c /\ line[5] = d /\ line[6] = e
             /\ line[7] = f /\ line[8] = g /\ line[9] = n
      OBVIOUS
    <2> HIDE DEF line
    <2>3. \A i \in 1 .. 9 : Neat(line[i]) /\ (i < 9 => Trail(line[i]))
      BY <1>7, <1>0, <2>2 DEF Trail, Lead
    <2>4. Lead(line[1]) /\ Filled(line[1])
      BY <1>7, <1>0, <2>2
    <2>5. Styled(line, 1, 9)
      BY <2>1, <2>3, <2>4 DEF Styled, Parts, Form
    <2> QED
      BY <2>5 DEF Line, line
  <1> QED
    BY <1>1, <1>2, <1>3, <1>4, <1>5, <1>6, <1>7

\* The one line that has two parts behind its blank which may both be left out,
\* the second of which opens.
LEMMA BytesLine ==
    Line(<<Arg(Number), Word(Blank), Opt(Word("bytes")), Opt(Arg(Number))>>)
  <1> DEFINE line == <<Arg(Number), Word(Blank), Opt(Word("bytes")), Opt(Arg(Number))>>
  <1>1. line \in Seq({Arg(Number), Word(Blank), Opt(Word("bytes")), Opt(Arg(Number))})
        /\ Len(line) = 4
    OBVIOUS
  <1>2. /\ line[1] = Arg(Number) /\ line[2] = Word(Blank)
        /\ line[3] = Opt(Word("bytes")) /\ line[4] = Opt(Arg(Number))
    OBVIOUS
  <1> HIDE DEF line
  <1>3. /\ Lead(line[1]) /\ Lead(line[2]) /\ Trail(line[2]) /\ Filled(line[2])
        /\ Neat(line[3]) /\ Lead(line[4])
    BY <1>2, Pieces, ArgParts, OptParts, WordParts DEF Gap
  <1>4. \A i \in 1 .. 4 : Neat(line[i])
    BY <1>3 DEF Lead
  <1>5. Styled(line, 2, 3)
    BY <1>1, <1>3, <1>4 DEF Styled, Parts, Form
  <1> QED
    BY <1>5 DEF Line, line

-----------------------------------------------------------------------------
(* Rows.                                                                   *)

\* The parts of a function's line, those its loop appends, and its end.
Typed(f) ==
    /\ Parts(f.parts) /\ Len(f.parts) # 0
    /\ Lead(f.many) /\ Lead(f.ending)
\* They fall into words.
Laid(f) == Fits(<<>>, f.parts)
\* It waits for what gdb answers its command with, if for anything: its class, and
\* by the class alone only where there are no results.
Bare(command) == FieldsOf(command) = {FALSE}
Suits(wait, class, command) ==
    /\ wait = "ignore" \/ class = ClassOf(command)
    /\ wait = "class" => Bare(command)
Expects(f) ==
    \E command : f.parts[1] = Word(command) /\ Suits(f.wait, f.class, command)
Sound(f) == Typed(f) /\ Laid(f) /\ Expects(f)

\* A row is as good as its line and its class, with a loop and without one.
LEMMA Rows ==
    ASSUME NEW name, NEW command, NEW line, NEW wait, NEW class, Parts(line)
    PROVE  LET row == Row(name, command, line, wait, class)
           IN  /\ Typed(row) /\ (Line(line) => Laid(row))
               /\ Suits(wait, class, command) => Expects(row)
               /\ \A part : Lead(part) =>
                    LET loop == Many(row, part)
                    IN  /\ Typed(loop) /\ (Line(line) => Laid(loop))
                        /\ Suits(wait, class, command) => Expects(loop)
  <1> DEFINE row   == Row(name, command, line, wait, class)
             whole == <<Word(command)>> \o line
  <1>1. /\ Parts(whole) /\ Len(whole) # 0 /\ whole[1] = Word(command)
        /\ Line(line) => Fits(<<>>, whole)
    BY LineFits, WholeLine
  <1> HIDE DEF whole
  <1>2. /\ row.parts = whole /\ row.wait = wait /\ row.class = class
        /\ row.many = {} /\ row.ending = Word(Newline)
    BY DEF Row, whole
  <1>3. ASSUME NEW part
        PROVE  /\ Many(row, part).parts = whole /\ Many(row, part).wait = wait
               /\ Many(row, part).class = class /\ Many(row, part).many = part
               /\ Many(row, part).ending = Word(Newline)
    BY DEF Row, Many, whole
  <1> HIDE DEF row
  <1>4. Lead({}) /\ Lead(Word(Newline))
    BY WordParts DEF Gap, Lead, Neat
  <1>5. /\ Typed(row) /\ (Line(line) => Laid(row))
        /\ Suits(wait, class, command) => Expects(row)
    BY <1>1, <1>2, <1>4 DEF Typed, Laid, Expects
  <1>6. ASSUME NEW part, Lead(part)
        PROVE  /\ Typed(Many(row, part)) /\ (Line(line) => Laid(Many(row, part)))
               /\ Suits(wait, class, command) => Expects(Many(row, part))
    BY <1>1, <1>3, <1>4, <1>6 DEF Typed, Laid, Expects
  <1> QED
    BY <1>5, <1>6 DEF row

\* Commands that are done, and those that set the program going, without results.
Quiet(command) == ClassOf(command) = "done" /\ Bare(command)
Runs(command)  == ClassOf(command) = "running" /\ Bare(command)

\* The rows of the table.
LEMMA RowsOfTable ==
    ASSUME NEW name, NEW command, NEW line, Line(line)
    PROVE  /\ ClassOf(command) = "done" =>
                /\ Sound(Ask(name, command, line))
                /\ \A part : Lead(part) => Sound(Many(Ask(name, command, line), part))
           /\ Quiet(command) =>
                /\ Sound(Set(name, command, line)) /\ Sound(Ask(name, command, line))
                /\ \A part : Lead(part) =>
                     /\ Sound(Many(Set(name, command, line), part))
                     /\ Sound(Many(Ask(name, command, line), part))
           /\ Runs(command) => Sound(Resume(name, command, line))
           /\ Typed(Resume(name, command, line)) /\ Laid(Resume(name, command, line))
           /\ Typed(Set(name, command, line)) /\ Laid(Set(name, command, line))
  <1>1. Parts(line)
    BY DEF Line, Styled
  <1> QED
    BY <1>1, Rows DEF Set, Ask, Resume, Sound, Suits, Quiet, Runs

\* A command is done, and says no more, but for these.
LEMMA Classes ==
    /\ \A command :
         command \notin {"-exec-continue", "-exec-finish", "-exec-jump", "-exec-next",
                         "-exec-next-instruction", "-exec-run", "-exec-step",
                         "-exec-step-instruction", "-exec-until", "-target-select",
                         "-gdb-exit", "-var-delete", "-var-set-format", "-trace-stop",
                         "-trace-find"}
         => Quiet(command)
    /\ \A command \in {"-exec-continue", "-exec-finish", "-exec-jump", "-exec-next",
                       "-exec-next-instruction", "-exec-run", "-exec-step",
                       "-exec-step-instruction", "-exec-until"} :
         Runs(command)
    /\ ClassOf("-trace-find") = "done" /\ ClassOf("-target-select") = "connected"
    /\ ClassOf("-gdb-exit") = "exit" /\ Bare("-gdb-exit")
  BY DEF ClassOf, FieldsOf, Bare, Quiet, Runs

\* The parameters that are used again and again.
LEMMA Parameters ==
    /\ Lead(Arg(Number)) /\ Lead(Arg(String)) /\ Lead(Arg(Quoted)) /\ Lead(Arg(QuoteIf))
    /\ Lead(Opt(Arg(Number))) /\ Lead(Opt(Arg(String))) /\ Lead(Arg(Location))
    /\ \A w : Lead(Arg(Word(w))) /\ Lead(Opt(Arg(Word(w)))) /\ Lead(Flag(w))
              /\ Lead(Opt(Cat(Arg(Word(w)), Arg(Number))))
              /\ Lead(Opt(Cat(Arg(Word(w)), Arg(String))))
    /\ Lead(ThreadGroup) /\ Lead(FromTo)
    /\ \A w : Trail(FlagAhead(w)) /\ Trail(Value(w, String)) /\ Trail(Value(w, Number))
              /\ Trail(Value(w, QuoteIf))
    /\ Trail(Opt(Ahead(Number))) /\ Trail(Opt(Ahead(Location)))
  <1>1. /\ Lead(Arg(Number)) /\ Lead(Arg(String)) /\ Lead(Arg(Quoted))
        /\ Lead(Arg(QuoteIf)) /\ Lead(Arg(Location))
    BY Pieces, LocationNeat, ArgParts
  <1>2. \A w : Lead(Arg(Word(w)))
    BY WordParts, ArgParts
  <1>3. \A w : Lead(Cat(Arg(Word(w)), Arg(Number))) /\ Lead(Cat(Arg(Word(w)), Arg(String)))
    BY ValueParts, Pieces
  <1>4. \A w : Lead(Opt(Cat(Arg(Word(w)), Arg(Number)))) /\ Lead(Opt(Cat(Arg(Word(w)), Arg(String))))
    BY <1>3, OptParts
  <1>5. Lead(ThreadGroup)
    BY <1>4 DEF ThreadGroup
  <1>6. Lead(FromTo)
    <2>1. Lead(Cat(Arg(Number), Arg(Number)))
      BY <1>1, Pieces, ArgParts, CatParts
    <2> QED
      BY <2>1, OptParts DEF FromTo
  <1>7. \A w : Trail(Value(w, String)) /\ Trail(Value(w, Number)) /\ Trail(Value(w, QuoteIf))
    BY ValueParts, Pieces
  <1>8. Trail(Opt(Ahead(Number))) /\ Trail(Opt(Ahead(Location)))
    BY Pieces, LocationNeat, ArgParts, OptParts
  <1>9. Lead(Opt(Arg(Number))) /\ Lead(Opt(Arg(String))) /\ \A w : Lead(Opt(Arg(Word(w))))
    BY <1>1, <1>2, OptParts
  <1> QED
    BY <1>1, <1>2, <1>4, <1>5, <1>6, <1>7, <1>8, <1>9, Pieces

-----------------------------------------------------------------------------
(* The table.                                                              *)

\* Conditions, counts and commands of breakpoints.
LEMMA BreakControlSound == \A f \in BreakControl : Sound(f)
  <1>1. /\ Line(<<Arg(Number)>>) /\ Line(<<Word(Blank)>>)
        /\ Line(<<Arg(Number), Arg(Number)>>) /\ Line(<<Arg(Number), Arg(String)>>)
    BY LeadLines, LeadIsLine, Parameters, WordParts DEF Gap
  <1>2. \A f \in {<<"break_delete", "-break-delete">>, <<"break_disable", "-break-disable">>,
                  <<"break_enable", "-break-enable">>} : Quiet(f[2])
    BY Classes
  <1>3. /\ Quiet("-break-after") /\ Quiet("-break-commands")
        /\ Quiet("-break-condition")
    BY Classes
  <1> QED
    BY <1>1, <1>2, <1>3, RowsOfTable, Parameters DEF BreakControl


\* break_info and break_insert.
LEMMA BreakInsertSound == \A f \in BreakInsert : Sound(f)
  <1>1. Line(<<Arg(Number)>>)
    BY LeadLines, LeadIsLine, Parameters
  <1>2. Line(<<Word(Blank), FlagAhead("-t"), FlagAhead("-h"), FlagAhead("-f"),
               FlagAhead("-d"), FlagAhead("-a"), Value("-c", QuoteIf),
               Value("-i", Number), Value("-p", Number), Location>>)
    BY MixedLines, Parameters, LocationNeat
  <1>3. Quiet("-break-info") /\ Quiet("-break-insert")
    BY Classes
  <1> QED
    BY <1>1, <1>2, <1>3, RowsOfTable DEF BreakInsert

\* dprintf_insert, whose arguments follow the format in a loop.
LEMMA DprintfInsertSound == \A f \in DprintfInsert : Sound(f)
  <1>1. Line(<<Word(Blank), FlagAhead("-t"), FlagAhead("-f"), FlagAhead("-d"),
               Value("-c", String), Value("-i", Number), Value("-p", Number),
               Opt(Ahead(Location)), String>>)
    BY MixedLines, Parameters, Pieces
  <1>2. Quiet("-dprintf-insert")
    BY Classes
  <1> QED
    BY <1>1, <1>2, RowsOfTable, Parameters DEF DprintfInsert

\* The list, the passes and the watchpoints.
LEMMA BreakWatchSound == \A f \in BreakWatch : Sound(f)
  <1>1. /\ Line(<<>>) /\ Line(<<Arg(Number), Arg(Number)>>)
        /\ Line(<<Word(Blank), FlagAhead("-a"), FlagAhead("-r"), String>>)
    BY LeadLines, LeadIsLine, MixedLines, Parameters, Pieces
  <1>2. /\ Quiet("-break-list") /\ Quiet("-break-passcount")
        /\ Quiet("-break-watch")
    BY Classes
  <1> QED
    BY <1>1, <1>2, RowsOfTable DEF BreakWatch

\* Catchpoints.
LEMMA CatchPointsSound == \A f \in CatchPoints : Sound(f)
  <1>1. /\ Line(<<Word(Blank), FlagAhead("-t"), FlagAhead("-d"), String>>)
        /\ Line(<<Opt(Cat(Arg(Word("-c")), Arg(String))), Flag("-t"), Flag("-d")>>)
    BY LeadLines, LeadIsLine, MixedLines, Parameters, Pieces
  <1>2. \A command \in {"-catch-load", "-catch-unload", "-catch-assert", "-catch-exception"} :
          Quiet(command)
    BY Classes
  <1> QED
    BY <1>1, <1>2, RowsOfTable DEF CatchPoints

\* Arguments and directories.
LEMMA EnvironmentSound == \A f \in Environment : Sound(f)
  <1>1. Line(<<>>) /\ Line(<<Arg(String)>>) /\ Line(<<Flag("-r")>>)
    BY LeadLines, LeadIsLine, Parameters
  <1>2. \A command \in {"-exec-arguments", "-environment-cd", "-environment-directory",
                        "-environment-path", "-environment-pwd"} : Quiet(command)
    BY Classes
  <1> QED
    BY <1>1, <1>2, RowsOfTable, Parameters DEF Environment

\* Threads.
LEMMA ThreadsSound == \A f \in Threads : Sound(f)
  <1>1. Line(<<>>) /\ Line(<<Arg(Number)>>) /\ Line(<<Opt(Arg(Number))>>)
    BY LeadLines, LeadIsLine, Parameters
  <1>2. \A command \in {"-thread-info", "-thread-list-ids", "-thread-select",
                        "-ada-task-info"} : Quiet(command)
    BY Classes
  <1> QED
    BY <1>1, <1>2, RowsOfTable DEF Threads

\* The functions that let the program go on; exec_interrupt waits for the wrong
\* class.
LEMMA ExecContinueSound ==
    \A f \in ExecContinue :
        Typed(f) /\ Laid(f) /\ (f.name # "exec_interrupt" => Expects(f))
  <1>1. /\ Line(<<Flag("--reverse")>> \o <<Flag("--all")>>)
        /\ Line(<<Flag("--reverse")>> \o <<ThreadGroup>>)
        /\ Line(<<Flag("--reverse")>> \o <<>>)
        /\ Line(<<Flag("--all")>>) /\ Line(<<ThreadGroup>>)
    <2>1. /\ LeadLine(<<Flag("--reverse")>>) /\ LeadLine(<<Flag("--all")>>)
          /\ LeadLine(<<ThreadGroup>>) /\ LeadLine(<<>>)
      BY LeadLines, Parameters
    <2> QED
      BY <2>1, LeadIsLine
  <1>2. \A command \in {"-exec-continue", "-exec-finish"} : Runs(command)
    BY Classes
  <1>3. \A command, line : Resume("exec_interrupt", command, line).name = "exec_interrupt"
    BY DEF Resume, Row
  <1>4. ASSUME NEW g \in {<<"exec_continue", "-exec-continue", <<Flag("--all")>>>>,
                          <<"exec_continue", "-exec-continue", <<ThreadGroup>>>>,
                          <<"exec_finish", "-exec-finish", <<>>>>}
        PROVE  Sound(Resume(g[1], g[2], <<Flag("--reverse")>> \o g[3]))
    <2>1. Runs(g[2])
      BY <1>2
    <2>2. Line(<<Flag("--reverse")>> \o g[3])
      <3>1. g[3] = <<Flag("--all")>> \/ g[3] = <<ThreadGroup>> \/ g[3] = <<>>
        OBVIOUS
      <3> QED
        BY <1>1, <3>1
    <2> QED
      BY <2>1, <2>2, RowsOfTable
  <1>5. \A f \in {Flag("--all"), ThreadGroup} :
          LET row == Resume("exec_interrupt", "-exec-interrupt", <<f>>)
          IN  Typed(row) /\ Laid(row) /\ row.name = "exec_interrupt"
    BY <1>1, <1>3, RowsOfTable
  <1> QED
    BY <1>4, <1>5 DEF ExecContinue, Sound

\* The functions that step the program; enable_frame_filters waits for the wrong
\* class.
LEMMA ExecStepSound ==
    \A f \in ExecStep :
        Typed(f) /\ Laid(f) /\ (f.name # "enable_frame_filters" => Expects(f))
  <1>1. /\ Line(<<>>) /\ Line(<<Arg(Location)>>) /\ Line(<<Flag("--reverse")>>)
        /\ Line(<<Opt(Arg(String))>>) /\ Line(<<Flag("--start"), Flag("--all")>>)
        /\ Line(<<Flag("--start"), Arg(Word("thread-group")), Arg(Number)>>)
    BY LeadLines, LeadIsLine, Parameters
  <1>2. \A command \in {"-exec-jump", "-exec-until", "-exec-next", "-exec-next-instruction",
                        "-exec-step", "-exec-step-instruction", "-exec-run"} :
          Runs(command)
    BY Classes
  <1>3. Quiet("-exec-return")
    BY Classes
  <1>4. \A command, line :
          Resume("enable_frame_filters", command, line).name = "enable_frame_filters"
    BY DEF Resume, Row
  <1> QED
    BY <1>1, <1>2, <1>3, <1>4, RowsOfTable DEF ExecStep, Sound

\* Frames.
LEMMA StackSound == \A f \in Stack : Sound(f)
  <1>1. /\ Line(<<>>)
        /\ Line(<<Word(Blank), FlagAhead("--no-frame-filters"),
                  FlagAhead("--skip-unavailable"), Number, FromTo>>)
        /\ Line(<<Word(Blank), Flag("--no-frame-filters"), FromTo>>)
    BY LeadLines, LeadIsLine, MixedLines, Parameters, Pieces, WordParts DEF Gap
  <1>2. \A command \in {"-stack-info-frame", "-stack-info-depth", "-stack-list-arguments",
                        "-stack-list-frames"} : Quiet(command)
    BY Classes
  <1> QED
    BY <1>1, <1>2, RowsOfTable DEF Stack

\* Locals and variables of a frame.
LEMMA StackListsSound == \A f \in StackLists : Sound(f)
  <1>1. /\ Line(<<>>) /\ Line(<<Arg(Number)>>)
        /\ Line(<<Word(Blank), FlagAhead("--no-frame-filters"),
                  FlagAhead("--skip-unavailable"), Number>>)
    BY LeadLines, LeadIsLine, MixedLines, Parameters, Pieces
  <1>2. \A command \in {"-stack-list-locals", "-stack-list-variables",
                        "-stack-select-frame", "-enable-pretty-printing"} :
          Quiet(command)
    BY Classes
  <1> QED
    BY <1>1, <1>2, RowsOfTable DEF StackLists


\* Variable objects; the line of var_set_format ends with the format, and gdb
\* answers it and var_delete with more than the class they wait for.
LEMMA VarObjectsSound ==
    \A f \in VarObjects :
        /\ Typed(f) /\ Laid(f)
        /\ f.name \notin {"var_delete", "var_set_format"} => Expects(f)
  <1> DEFINE name  == Ahead(String \union Word("-"))
             frame == Ahead(Number \union Word("*"))
             float == Ahead(Word("@"))
             row   == Set("var_set_format", "-var-set-format", <<Arg(String)>>)
             end   == Opt(Cat(Arg(Word("format")), Word(Newline)))
  <1>1. Trail(name) /\ Trail(frame) /\ Trail(float)
    <2>1. Neat(String \union Word("-")) /\ Neat(Number \union Word("*")) /\ Neat(Word("@"))
      BY Pieces, WordParts, EitherPart
    <2> QED
      BY <2>1, ArgParts
  <1>2. Lead(end)
    <2>1. Lead(Arg(Word("format"))) /\ Filled(Arg(Word("format"))) /\ Neat(Arg(Word("format")))
      BY WordParts, ArgParts
    <2>2. Lead(Word(Newline)) /\ Neat(Word(Newline))
      BY WordParts DEF Gap
    <2>3. Lead(Cat(Arg(Word("format")), Word(Newline)))
      BY <2>1, <2>2, CatParts
    <2> QED
      BY <2>3, OptParts
  <1> HIDE DEF name, frame, float, end
  <1>3. /\ Line(<<Word(Blank), name, frame, String>>)
        /\ Line(<<Word(Blank), name, float, String>>)
        /\ Line(<<Word(Blank), FlagAhead("-c"), String>>) /\ Line(<<Arg(String)>>)
    BY <1>1, LeadLines, LeadIsLine, MixedLines, Parameters, Pieces
  <1>4. Quiet("-var-create")
    BY Classes
  <1>5. /\ Typed([row EXCEPT !.ending = end]) /\ Laid([row EXCEPT !.ending = end])
        /\ [row EXCEPT !.ending = end].name = "var_set_format"
    <2>1. Typed(row) /\ Laid(row)
      BY <1>3, RowsOfTable
    <2>2. /\ [row EXCEPT !.ending = end].parts = row.parts
          /\ [row EXCEPT !.ending = end].name = "var_set_format"
          /\ [row EXCEPT !.ending = end].many = row.many
          /\ [row EXCEPT !.ending = end].ending = end
      BY DEF Set, Row
    <2> HIDE DEF row
    <2> QED
      BY <1>2, <2>1, <2>2 DEF Typed, Laid
  <1>6. VarObjects =
          {Ask("var_create", "-var-create", <<Word(Blank), name, frame, String>>),
           Ask("var_create", "-var-create", <<Word(Blank), name, float, String>>),
           Set("var_delete", "-var-delete", <<Word(Blank), FlagAhead("-c"), String>>),
           [row EXCEPT !.ending = end]}
    BY DEF VarObjects, name, frame, float, end
  <1> HIDE DEF row
  <1>7. \A command, line : Set("var_delete", command, line).name = "var_delete"
    BY DEF Set, Row
  <1>8. \A f \in VarObjects :
          \/ Sound(f)
          \/ f = Set("var_delete", "-var-delete", <<Word(Blank), FlagAhead("-c"), String>>)
          \/ f = [row EXCEPT !.ending = end]
    BY <1>3, <1>4, <1>6, RowsOfTable
  <1>9. LET delete == Set("var_delete", "-var-delete", <<Word(Blank), FlagAhead("-c"), String>>)
        IN  Typed(delete) /\ Laid(delete)
    BY <1>3, RowsOfTable
  <1> QED
    BY <1>5, <1>7, <1>8, <1>9 DEF Sound

\* What gdb knows of variable objects.
LEMMA VarInfoSound == \A f \in VarInfo : Sound(f)
  <1>1. /\ Line(<<Arg(String)>>)
        /\ Line(<<Word(Blank), Opt(Ahead(Number)), String, FromTo>>)
    BY LeadLines, LeadIsLine, MixedLines, Parameters, Pieces
  <1>2. \A command \in {"-var-show-format", "-var-info-num-children", "-var-info-type",
                        "-var-info-expression", "-var-info-path-expression",
                        "-var-show-attributes", "-var-list-children"} :
          Quiet(command)
    BY Classes
  <1> QED
    BY <1>1, <1>2, RowsOfTable DEF VarInfo

\* Their values; in var_set_frozen a part has no blank ahead of it.
LEMMA VarUpdateSound ==
    \A f \in VarUpdate :
        Typed(f) /\ Expects(f) /\ (f.name # "var_set_frozen" => Laid(f))
  <1> DEFINE which  == String \union Word("*")
             viewer == Arg(Quoted) \union Ahead(Arg(Word("None")))
             frozen == Set("var_set_frozen", "-var-set-frozen", <<Arg(String), Number>>)
  <1>1. Neat(which) /\ Lead(viewer)
    <2>1. Lead(Arg(Quoted)) /\ Lead(Ahead(Arg(Word("None"))))
      BY Parameters, WordParts, ArgBetween
    <2> QED
      BY <2>1, Pieces, WordParts, EitherPart DEF Lead
  <1> HIDE DEF which, viewer
  <1>2. /\ Line(<<Word(Blank), Value("-f", String), String>>)
        /\ Line(<<Arg(String), Arg(String)>>)
        /\ Line(<<Word(Blank), Opt(Ahead(Number)), which>>)
        /\ Line(<<Arg(String), Arg(Number), Arg(Number)>>)
        /\ Line(<<Arg(String), viewer>>)
        /\ Line(<<Arg(String), Arg(Word("gdb.default_visualizer"))>>)
    BY <1>1, LeadLines, LeadIsLine, MixedLines, Parameters, Pieces
  <1>3. \A command \in {"-var-evaluate-expression", "-var-assign", "-var-update",
                        "-var-set-frozen", "-var-set-update-range",
                        "-var-set-visualizer"} : Quiet(command)
    BY Classes
  <1>4. Typed(frozen) /\ Expects(frozen) /\ frozen.name = "var_set_frozen"
    <2> DEFINE line == <<Arg(String), Number>>
    <2>1. line \in Seq({Arg(String), Number}) /\ Len(line) = 2
          /\ line[1] = Arg(String) /\ line[2] = Number
      OBVIOUS
    <2>2. frozen = Row("var_set_frozen", "-var-set-frozen", line, "class", "done")
          /\ frozen.name = "var_set_frozen"
      BY DEF Set, Row
    <2> HIDE DEF line, frozen
    <2>3. Parts(line)
      <3>1. \A i \in 1 .. 2 : Neat(line[i])
        BY <2>1, Parameters, Pieces DEF Lead
      <3> QED
        BY <2>1, <3>1 DEF Parts, Form
    <2> QED
      BY <1>3, <2>2, <2>3, Rows DEF Quiet, Suits
  <1>5. \A f \in VarUpdate : Sound(f) \/ f = frozen
    <2> HIDE DEF frozen
    <2>1. VarUpdate =
            {Ask("var_evaluate_expression", "-var-evaluate-expression",
                 <<Word(Blank), Value("-f", String), String>>),
             Ask("var_assign", "-var-assign", <<Arg(String), Arg(String)>>),
             Ask("var_update", "-var-update", <<Word(Blank), Opt(Ahead(Number)), which>>),
             frozen,
             Set("var_set_update_range", "-var-set-update-range",
                 <<Arg(String), Arg(Number), Arg(Number)>>),
             Set("var_set_visualizer", "-var-set-visualizer", <<Arg(String), viewer>>),
             Set("var_set_default_visualizer", "-var-set-visualizer",
                 <<Arg(String), Arg(Word("gdb.default_visualizer"))>>)}
      BY DEF VarUpdate, which, viewer, frozen
    <2> QED
      BY <1>2, <1>3, <2>1, RowsOfTable
  <1> HIDE DEF frozen
  <1> QED
    BY <1>4, <1>5 DEF Sound

\* The ways to say what to disassemble.
LEMMA DisassembleSound == \A f \in Disassemble : Sound(f)
  <1> DEFINE end   == <<Arg(Word("--")), Arg(Number)>>
             range == <<Arg(Word("-s")), Arg(Number), Arg(Word("-e")), Arg(Number)>>
             file  == <<Word(Blank), Arg(Word("-f")), Arg(String), Arg(Word("-l")), Arg(Number),
                        Opt(Cat(Arg(Word("-n")), Arg(Number)))>>
  <1>1. LeadLine(end) /\ LeadLine(range) /\ LeadLine(file) /\ LeadLine(<<>>)
    BY LeadLines, Parameters, WordParts DEF Gap
  <1>2. Disassemble =
          {Ask("data_disassemble", "-data-disassemble", f \o end) : f \in {<<>>, range, file}}
    BY DEF Disassemble
  <1> HIDE DEF end, range, file
  <1>3. \A f \in {<<>>, range, file} : Line(f \o end)
    BY <1>1, LeadIsLine
  <1>4. Quiet("-data-disassemble")
    BY Classes
  <1> QED
    BY <1>2, <1>3, <1>4, RowsOfTable

\* Registers.
LEMMA DataRegistersSound == \A f \in DataRegisters : Sound(f)
  <1>1. /\ Line(<<>>) /\ Line(<<Arg(QuoteIf)>>)
        /\ Line(<<Word(Blank), FlagAhead("--skip-unavailable"), Opt(Word("format"))>>)
    BY LeadLines, LeadIsLine, MixedLines, Parameters, WordParts, OptParts
  <1>2. \A command \in {"-data-evaluate-expression", "-data-list-changed-registers",
                        "-data-list-register-names", "-data-list-register-values"} :
          Quiet(command)
    BY Classes
  <1> QED
    BY <1>1, <1>2, RowsOfTable, Parameters DEF DataRegisters

\* Memory.
LEMMA DataMemorySound == \A f \in DataMemory : Sound(f)
  <1> DEFINE offset == Opt(Cat(Arg(Word("-o")), Arg(Number)))
             read   == <<offset, Arg(String), Arg(Word("x")), Arg(Number), Arg(Number),
                         Arg(Number), Opt(Arg(Word("char")))>>
             bytes  == <<offset, Arg(Number), Arg(Number)>>
  <1>1. Line(read) /\ Line(bytes)
    BY LeadLines, LeadIsLine, Parameters
  <1>2. \A command \in {"-data-read-memory", "-data-read-memory-bytes",
                        "-data-write-memory-bytes"} : Quiet(command)
    BY Classes
  <1>3. DataMemory =
          {Ask("data_read_memory", "-data-read-memory", read),
           Ask("data_read_memory_bytes", "-data-read-memory-bytes", bytes),
           Set("data_write_memory_bytes", "-data-write-memory-bytes",
               <<Arg(Number), Word(Blank), Opt(Word("bytes")), Opt(Arg(Number))>>)}
    BY DEF DataMemory
  <1> HIDE DEF read, bytes
  <1> QED
    BY <1>1, <1>2, <1>3, BytesLine, RowsOfTable


\* trace_find in its modes; gdb may answer the one that ends the search with a frame.
LEMMA TraceFindSound ==
    \A f \in TraceFind :
        Typed(f) /\ Laid(f) /\ (f.name # "trace_find(none)" => Expects(f))
  <1> DEFINE where == Arg(Number \union String)
  <1>1. Lead(where)
    BY Pieces, EitherPart, ArgParts
  <1> HIDE DEF where
  <1>2. /\ Line(<<Arg(Word("none"))>>) /\ Line(<<Arg(String)>>)
        /\ \A how : /\ Line(<<Arg(Word(how)), Arg(Number)>>)
                    /\ Line(<<Arg(Word(how)), Arg(Number), Arg(Number)>>)
        /\ Line(<<Arg(Word("line")), where>>)
    BY <1>1, LeadLines, LeadIsLine, Parameters
  <1>3. ClassOf("-trace-find") = "done"
    BY Classes
  <1>4. Sound(Ask("trace_find", "-trace-find", <<Arg(Word("line")), Arg(Number \union String)>>))
    BY <1>2, <1>3, RowsOfTable DEF where
  <1>5. \A command, line : Set("trace_find(none)", command, line).name = "trace_find(none)"
    BY DEF Set, Row
  <1> QED
    BY <1>2, <1>3, <1>4, <1>5, RowsOfTable DEF TraceFind, Sound

\* The other functions for traces; trace_frame_collected has blanks ahead of some
\* options and behind others, and two options may follow each other without one.
\* trace_stop is answered with what trace_status is.
LEMMA TraceSound ==
    \A f \in Trace :
        /\ Typed(f) /\ (f.name # "trace_frame_collected" => Laid(f))
        /\ f.name # "trace_stop" => Expects(f)
  <1> DEFINE line == <<Ahead(Arg(Word("line"))),
                       Opt(Cat(Ahead(Word("--var-print-values")), String)),
                       Opt(Cat(Ahead(Word("--comp-print-valuess")), String)),
                       Opt(Cat(Ahead(Word("--registers-format")), String)),
                       Opt(Word("--memory-contents"))>>
             collected == Ask("trace_frame_collected", "-trace-find", line)
  <1>1. Parts(line)
    <2>1. /\ line \in Seq({line[1], line[2], line[3], line[4], line[5]}) /\ Len(line) = 5
          /\ line[1] = Ahead(Arg(Word("line")))
          /\ line[2] = Opt(Cat(Ahead(Word("--var-print-values")), String))
          /\ line[3] = Opt(Cat(Ahead(Word("--comp-print-valuess")), String))
          /\ line[4] = Opt(Cat(Ahead(Word("--registers-format")), String))
          /\ line[5] = Opt(Word("--memory-contents"))
      OBVIOUS
    <2>2. Neat(Ahead(Arg(Word("line"))))
      BY WordParts, ArgParts
    <2>3. \A w : Neat(Opt(Cat(Ahead(Word(w)), String))) /\ Neat(Opt(Word(w)))
      BY WordParts, Pieces, ValueParts, OptParts
    <2> HIDE DEF line
    <2>4. \A i \in 1 .. 5 : Neat(line[i])
      BY <2>1, <2>2, <2>3
    <2> QED
      BY <2>1, <2>4 DEF Parts, Form
  <1>2. collected = Row("trace_frame_collected", "-trace-find", line, "callback", "done")
        /\ collected.name = "trace_frame_collected"
    BY DEF Ask, Row
  <1>3. Trace =
          {Set("trace_define_variable", "-trace-define-variable",
               <<Arg(String), Opt(Arg(String))>>),
           collected,
           Ask("trace_list_variables", "-trace-list-variable", <<>>),
           Set("trace_save", "-trace-save", <<Word(Blank), FlagAhead("-r"), String>>),
           Set("trace_start", "-trace-start", <<>>),
           Ask("trace_status", "-trace-status", <<>>),
           Set("trace_stop", "-trace-stop", <<>>)}
    BY DEF Trace
  <1> HIDE DEF line, collected
  <1>4. /\ Line(<<Arg(String), Opt(Arg(String))>>) /\ Line(<<>>)
        /\ Line(<<Word(Blank), FlagAhead("-r"), String>>)
    BY LeadLines, LeadIsLine, MixedLines, Parameters, Pieces
  <1>5. /\ \A command \in {"-trace-define-variable", "-trace-list-variable",
                           "-trace-save", "-trace-start", "-trace-status"} :
             Quiet(command)
        /\ ClassOf("-trace-find") = "done"
    BY Classes
  <1>6. Typed(collected) /\ Expects(collected)
    BY <1>1, <1>2, <1>5, Rows DEF Suits
  <1>7. LET row == Set("trace_stop", "-trace-stop", <<>>)
        IN  Typed(row) /\ Laid(row) /\ row.name = "trace_stop"
    <2>1. Set("trace_stop", "-trace-stop", <<>>).name = "trace_stop"
      BY DEF Set, Row
    <2> QED
      BY <1>4, <2>1, RowsOfTable
  <1>8. \A f \in Trace :
          Sound(f) \/ f = collected \/ f = Set("trace_stop", "-trace-stop", <<>>)
    BY <1>3, <1>4, <1>5, RowsOfTable
  <1> QED
    BY <1>2, <1>6, <1>7, <1>8 DEF Sound

\* Files.
LEMMA FilesSound == \A f \in Files : Sound(f)
  <1>1. Line(<<>>) /\ Line(<<Arg(String)>>)
    BY LeadLines, LeadIsLine, Parameters
  <1>2. \A command \in {"-file-exec-and-symbols", "-file-exec-file", "-file-symbol-file",
                        "-trace-status", "-file-list-exec-source-file",
                        "-file-list-exec-source-files"} : Quiet(command)
    BY Classes
  <1> QED
    BY <1>1, <1>2, RowsOfTable DEF Files

\* The target, which answers its selection with a class of its own.
LEMMA TargetSound == \A f \in Target : Sound(f)
  <1> DEFINE select == Row("target_select", "-target-select", <<Arg(String)>>,
                           "callback", "connected")
  <1>1. /\ Line(<<>>) /\ Line(<<Arg(String)>>) /\ Line(<<Arg(String), Arg(String)>>)
    BY LeadLines, LeadIsLine, Parameters
  <1>2. /\ \A command \in {"-target-download", "-target-file-put", "-target-file-get",
                           "-target-file-delete"} : Quiet(command)
        /\ ClassOf("-target-select") = "connected"
    BY Classes
  <1>3. Sound(Many(select, Arg(String)))
    <2>1. Parts(<<Arg(String)>>)
      BY <1>1 DEF Line, Styled
    <2> QED
      BY <1>1, <1>2, <2>1, Rows, Parameters DEF Sound, Suits
  <1> QED
    BY <1>1, <1>2, <1>3, RowsOfTable DEF Target

\* What gdb says of itself.
LEMMA InfoSound == \A f \in Info : Sound(f)
  <1>1. Line(<<>>) /\ Line(<<Arg(String)>>)
    BY LeadLines, LeadIsLine, Parameters
  <1>2. \A command \in {"-info-ada-exceptions", "-info-gdb-mi-command", "-list-features",
                        "-list-target-features"} : Quiet(command)
    BY Classes
  <1> QED
    BY <1>1, <1>2, RowsOfTable DEF Info

\* gdb's settings and its end.
LEMMA GdbControlSound == \A f \in GdbControl : Sound(f)
  <1> DEFINE exit == Row("gdb_exit", "-gdb-exit", <<>>, "class", "exit")
  <1>1. /\ Line(<<>>) /\ Line(<<Arg(String)>>) /\ Line(<<Arg(String), Arg(String)>>)
    BY LeadLines, LeadIsLine, Parameters
  <1>2. /\ \A command \in {"-gdb-set", "-gdb-show", "-gdb-version"} :
             Quiet(command)
        /\ ClassOf("-gdb-exit") = "exit" /\ Bare("-gdb-exit")
    BY Classes
  <1>3. Sound(exit)
    <2>1. Parts(<<>>)
      BY <1>1 DEF Line, Styled
    <2> QED
      BY <1>1, <1>2, <2>1, Rows DEF Sound, Suits
  <1> QED
    BY <1>1, <1>2, <1>3, RowsOfTable DEF GdbControl

\* Thread groups and the system's tables.
LEMMA ThreadGroupsSound == \A f \in ThreadGroups : Sound(f)
  <1>1. /\ Line(<<Flag("--available"), Opt(Cat(Arg(Word("--recurse")), Arg(Number)))>>)
        /\ Line(<<Opt(Arg(String))>>)
    BY LeadLines, LeadIsLine, Parameters
  <1>2. Quiet("-list-thread-groups") /\ Quiet("-info-os")
    BY Classes
  <1> QED
    BY <1>1, <1>2, RowsOfTable, Parameters DEF ThreadGroups

\* Inferiors; interpreter_exec takes whatever class comes.
LEMMA InferiorSound == \A f \in Inferior : Sound(f)
  <1> DEFINE exec   == Row("interpreter_exec", "-interpreter-exec",
                           <<Arg(String), Arg(QuoteIf)>>, "ignore", "any")
             switch == Word("yes") \union Word("no")
  <1>1. Neat(switch)
    BY WordParts, EitherPart
  <1> HIDE DEF switch
  <1>2. /\ Line(<<>>) /\ Line(<<Arg(String)>>) /\ Line(<<Arg(String), Arg(QuoteIf)>>)
        /\ Line(<<Word(Blank), switch>>)
    BY <1>1, LeadLines, LeadIsLine, MixedLines, Parameters
  <1>3. \A command \in {"-add-inferior", "-inferior-tty-set", "-inferior-tty-show",
                        "-enable-timings"} : Quiet(command)
    BY Classes
  <1>4. Sound(exec)
    <2>1. Parts(<<Arg(String), Arg(QuoteIf)>>)
      BY <1>2 DEF Line, Styled
    <2> QED
      BY <1>2, <2>1, Rows DEF Sound, Suits
  <1>5. Sound(Set("enable_timings", "-enable-timings",
                  <<Word(Blank), Word("yes") \union Word("no")>>))
    BY <1>2, <1>3, RowsOfTable DEF switch
  <1> QED
    BY <1>2, <1>3, <1>4, <1>5, RowsOfTable DEF Inferior

\* The functions that put blanks on the wrong side, and those that wait for what
\* gdb does not answer with: another class, or results beside it.
Glued  == {"var_set_frozen", "trace_frame_collected"}
Misled == {"exec_interrupt", "enable_frame_filters", "var_delete", "var_set_format",
           "trace_stop", "trace_find(none)"}

\* The table: every row is laid out to fall into words but for two functions, and
\* every one waits for what its command is answered with but for six others.
LEMMA Table ==
    \A f \in Functions :
        Typed(f) /\ (f.name \notin Glued => Laid(f)) /\ (f.name \notin Misled => Expects(f))
  BY BreakControlSound, BreakInsertSound, DprintfInsertSound, BreakWatchSound,
     CatchPointsSound, EnvironmentSound, ThreadsSound, ExecContinueSound, ExecStepSound,
     StackSound, StackListsSound, VarObjectsSound, VarInfoSound, VarUpdateSound,
     DisassembleSound, DataRegistersSound, DataMemorySound, TraceFindSound, TraceSound,
     FilesSound, TargetSound, InfoSound, GdbControlSound, ThreadGroupsSound, InferiorSound
     DEF Functions, Glued, Misled, Sound


\* Every row but one ends with the newline, whatever is chosen.
Ended(f) == f.ending = Word(Newline)

\* The endings of the table: only var_set_format has a line without a newline.
LEMMA Endings == \A f \in Functions : f.name # "var_set_format" => Ended(f)
  <1>1. /\ \A name, command, line, wait, class :
             /\ Ended(Row(name, command, line, wait, class))
             /\ \A part : Ended(Many(Row(name, command, line, wait, class), part))
        /\ \A name, command, line :
             /\ Ended(Set(name, command, line)) /\ Ended(Ask(name, command, line))
             /\ Ended(Resume(name, command, line))
             /\ \A part : /\ Ended(Many(Set(name, command, line), part))
                          /\ Ended(Many(Ask(name, command, line), part))
    BY DEF Ended, Row, Many, Set, Ask, Resume
  <1>2. \A f \in BreakControl \union BreakInsert \union DprintfInsert \union BreakWatch
                 \union CatchPoints : Ended(f)
    BY <1>1 DEF BreakControl, BreakInsert, DprintfInsert, BreakWatch, CatchPoints
  <1>3. \A f \in Environment \union Threads \union ExecContinue \union ExecStep
                 \union Stack \union StackLists : Ended(f)
    BY <1>1 DEF Environment, Threads, ExecContinue, ExecStep, Stack, StackLists
  <1>4. \A f \in VarObjects : f.name # "var_set_format" => Ended(f)
    <2> DEFINE row == [Set("var_set_format", "-var-set-format", <<Arg(String)>>) EXCEPT
                         !.ending = Opt(Cat(Arg(Word("format")), Word(Newline)))]
    <2>1. row.name = "var_set_format"
      BY DEF Set, Row
    <2>2. \A f \in VarObjects \ {row} : Ended(f)
      BY <1>1 DEF VarObjects
    <2> QED
      BY <2>1, <2>2
  <1>5. \A f \in VarInfo \union VarUpdate \union Disassemble \union DataRegisters
                 \union DataMemory \union TraceFind \union Trace : Ended(f)
    BY <1>1 DEF VarInfo, VarUpdate, Disassemble, DataRegisters, DataMemory, TraceFind, Trace
  <1>6. \A f \in Files \union Target \union Info \union GdbControl \union ThreadGroups
                 \union Inferior : Ended(f)
    BY <1>1 DEF Files, Target, Info, GdbControl, ThreadGroups, Inferior
  <1> QED
    BY <1>2, <1>3, <1>4, <1>5, <1>6 DEF Functions

-----------------------------------------------------------------------------
(* A call.                                                                 *)

\* A line that fits goes on fitting when its next part is appended.
LEMMA AppendFits ==
    ASSUME NEW buf, NEW line, Form(buf), Apart(buf), Parts(line), line # <<>>,
           Fits(buf, line), NEW form \in Head(line)
    PROVE  Apart(buf \o form) /\ Fits(buf \o form, Tail(line))
  <1> DEFINE rest == Tail(line)
             more == buf \o form
             L    == Len(line)
  <1>1. PICK S : line \in Seq(S)
    BY DEF Parts, Form
  <1>2. /\ L \in Nat \ {0} /\ form \in line[1] /\ Len(rest) = L - 1
        /\ \A i \in 1 .. L - 1 : rest[i] = line[i + 1]
    BY <1>1, HeadTailProperties, EmptySeq, LenProperties
  <1>3. Form(form) /\ Apart(form) /\ 1 \in 1 .. L
    BY <1>2 DEF Parts, Neat
  <1>4. Closes(buf) \/ Opens(form)
    BY <1>2, <1>3 DEF Fits, Lead
  <1>5. /\ Apart(more)
        /\ Closes(form) /\ (form # <<>> \/ Closes(buf)) => Closes(more)
    BY <1>3, <1>4, Joined
  <1> HIDE DEF rest, more, L
  <1>6. ASSUME NEW i \in 1 .. Len(rest), ~Lead(rest[i])
        PROVE  \E j \in 0 .. i - 1 :
                 /\ IF j = 0 THEN Closes(more) ELSE Trail(rest[j]) /\ Filled(rest[j])
                 /\ \A k \in j + 1 .. i - 1 : Trail(rest[k])
    <2>1. i \in 1 .. L - 1 /\ i + 1 \in 1 .. L /\ rest[i] = line[i + 1]
      BY <1>2
    <2>2. PICK j \in 0 .. i :
            /\ IF j = 0 THEN Closes(buf) ELSE Trail(line[j]) /\ Filled(line[j])
            /\ \A k \in j + 1 .. i : Trail(line[k])
      <3>1. PICK j \in 0 .. (i + 1) - 1 :
              /\ IF j = 0 THEN Closes(buf) ELSE Trail(line[j]) /\ Filled(line[j])
              /\ \A k \in j + 1 .. (i + 1) - 1 : Trail(line[k])
        BY <1>6, <2>1 DEF Fits, L
      <3>2. (i + 1) - 1 = i
        OBVIOUS
      <3> QED
        BY <3>1, <3>2
    <2>3. ASSUME NEW k \in 1 .. i - 1, k + 1 > j PROVE Trail(rest[k])
      <3>1. k + 1 \in j + 1 .. i \/ k + 1 = j
        BY <2>1, <2>3
      <3>2. rest[k] = line[k + 1]
        BY <1>2, <2>1
      <3> QED
        BY <2>2, <2>3, <3>1, <3>2
    <2>4. CASE j \in {0, 1}
      <3>1. Trail(line[1]) /\ (Closes(buf) \/ Filled(line[1]))
        BY <2>1, <2>2, <2>4
      <3>2. Closes(more)
        BY <1>2, <1>5, <3>1 DEF Trail, Filled
      <3>3. \A k \in 0 + 1 .. i - 1 : Trail(rest[k])
        BY <2>3, <2>4
      <3> QED
        BY <2>1, <3>2, <3>3
    <2>5. CASE j \notin {0, 1}
      <3>1. j - 1 \in 0 .. i - 1 /\ j - 1 # 0 /\ rest[j - 1] = line[j]
        BY <1>2, <2>1, <2>2, <2>5
      <3>2. \A k \in (j - 1) + 1 .. i - 1 : Trail(rest[k])
        BY <2>2, <2>3, <2>5
      <3> QED
        BY <2>2, <2>5, <3>1, <3>2
    <2> QED
      BY <2>4, <2>5
  <1>7. Fits(more, rest)
    BY <1>6 DEF Fits
  <1> QED
    BY <1>5, <1>7 DEF more, rest

\* The part that is appended is a form, and the others stay parts.
LEMMA AppendForm ==
    ASSUME NEW buf, NEW line, Form(buf), Parts(line), line # <<>>, NEW form \in Head(line)
    PROVE  /\ Form(form) /\ Form(buf \o form) /\ Parts(Tail(line)) /\ Head(line) = line[1]
           /\ buf # <<>> => buf \o form # <<>> /\ (buf \o form)[1] = buf[1]
           /\ buf = <<>> => buf \o form = form
  <1>1. PICK S : line \in Seq(S)
    BY DEF Parts, Form
  <1>2. /\ Len(line) \in Nat \ {0} /\ Head(line) = line[1] /\ Tail(line) \in Seq(S)
        /\ Len(Tail(line)) = Len(line) - 1
        /\ \A i \in 1 .. Len(line) - 1 : Tail(line)[i] = line[i + 1]
    BY <1>1, HeadTailProperties, EmptySeq, LenProperties
  <1>3. Form(form)
    BY <1>2 DEF Parts, Neat
  <1>4. \A i \in 1 .. Len(line) - 1 : i + 1 \in 1 .. Len(line)
    BY <1>2
  <1>5. Parts(Tail(line))
    BY <1>2, <1>4 DEF Parts, Form
  <1>6. PICK A : form \in Seq(A)
    BY <1>3 DEF Form
  <1>7. <<>> \o form = form
    BY <1>6
  <1>8. /\ Form(buf \o form)
        /\ buf # <<>> => buf \o form # <<>> /\ (buf \o form)[1] = buf[1]
    BY <1>3, Joined
  <1> QED
    BY <1>2, <1>3, <1>5, <1>7, <1>8

\* What a call has, whichever functions are called.
Begun ==
    /\ pc \in {"idle", "build", "wait"}
    /\ pc = "idle" => inBuf = <<>> /\ gdbBuf = <<>>
    /\ pc # "idle" => function \in Functions /\ function.name \in Called
    /\ pc # "idle" => Form(inBuf)
    /\ pc = "build" => Parts(parts) /\ gdbBuf = <<>>
    /\ pc = "wait" => gdbBuf = inBuf

\* A line begins with nothing.
LEMMA BegunInit == Init => Begun
  BY DEF Init, Begun

\* Every step keeps it.
LEMMA BegunNext ==
    ASSUME Begun, [Next]_vars
    PROVE  Begun'
  <1>0. \A s : Form(s) => s \o <<>> = s /\ <<>> \o s = s
    BY DEF Form
  <1>1. ASSUME NEW f \in Functions, f.name \in Called, Call(f)
        PROVE  Begun'
    <2>1. Typed(f) /\ Form(<<>>)
      BY Table, EmptySeq DEF Form
    <2> QED
      BY <1>1, <2>1 DEF Begun, Call, Typed
  <1>2. ASSUME AppendPart PROVE Begun'
    <2>1. PICK form \in Head(parts) : inBuf' = inBuf \o form
      BY <1>2 DEF AppendPart
    <2> QED
      BY <1>2, <2>1, AppendForm DEF Begun, AppendPart
  <1>3. ASSUME AppendMore PROVE Begun'
    <2>1. PICK form \in function.many : inBuf' = inBuf \o form
      BY <1>3 DEF AppendMore
    <2>2. Form(inBuf) /\ Form(form)
      BY <1>3, <2>1, Table DEF Begun, AppendMore, Typed, Lead, Neat
    <2>3. Form(inBuf')
      BY <2>1, <2>2, Joined
    <2> QED
      BY <1>3, <2>3 DEF Begun, AppendMore
  <1>4. ASSUME Write PROVE Begun'
    <2>1. PICK end \in function.ending : inBuf' = inBuf \o end
      BY <1>4 DEF Write
    <2>2. Form(inBuf) /\ Form(end)
      BY <1>4, <2>1, Table DEF Begun, Write, Typed, Lead, Neat
    <2>3. Form(inBuf')
      BY <2>1, <2>2, Joined
    <2>4. gdbBuf' = inBuf'
      BY <1>0, <1>4, <2>3 DEF Begun, Write
    <2> QED
      BY <1>4, <2>3, <2>4 DEF Begun, Write
  <1>5. ASSUME Answer PROVE Begun'
    BY <1>5 DEF Begun, Answer
  <1>6. CASE UNCHANGED vars
    BY <1>6 DEF Begun, vars
  <1> QED
    BY <1>1, <1>2, <1>3, <1>4, <1>5, <1>6 DEF Next, CallAny

-----------------------------------------------------------------------------
(* The words of a line.                                                    *)

\* The line so far has its words apart, and the parts to come fit behind it.
LineFitsOn ==
    /\ pc = "build" => Apart(inBuf) /\ Fits(inBuf, parts)
    /\ pc = "wait" => Apart(inBuf)

\* Every step of a call keeps it, but in the two functions.
LEMMA LineFitsOnNext ==
    ASSUME Called \intersect Glued = {}, Begun, LineFitsOn, [Next]_vars
    PROVE  LineFitsOn'
  <1>1. ASSUME NEW f \in Functions, f.name \in Called, Call(f)
        PROVE  LineFitsOn'
    <2>1. Laid(f) /\ Apart(<<>>)
      BY <1>1, Table, EmptySeq DEF Apart
    <2> QED
      BY <1>1, <2>1 DEF Begun, LineFitsOn, Call, Laid
  <1>2. ASSUME AppendPart PROVE LineFitsOn'
    <2>1. PICK form \in Head(parts) : inBuf' = inBuf \o form
      BY <1>2 DEF AppendPart
    <2> QED
      BY <1>2, <2>1, AppendFits DEF Begun, LineFitsOn, AppendPart
  <1>3. ASSUME AppendMore PROVE LineFitsOn'
    <2>1. PICK form \in function.many : inBuf' = inBuf \o form
      BY <1>3 DEF AppendMore
    <2>2. /\ Form(inBuf) /\ Apart(inBuf) /\ Form(form) /\ Apart(form) /\ Opens(form)
      BY <1>3, <2>1, Table DEF Begun, LineFitsOn, AppendMore, Typed, Lead, Neat
    <2>3. Apart(inBuf') /\ Fits(inBuf', <<>>)
      BY <2>1, <2>2, Joined, EmptySeq DEF Fits
    <2> QED
      BY <1>3, <2>3 DEF LineFitsOn, AppendMore
  <1>4. ASSUME Write PROVE LineFitsOn'
    <2>1. PICK end \in function.ending : inBuf' = inBuf \o end
      BY <1>4 DEF Write
    <2>2. /\ Form(inBuf) /\ Apart(inBuf) /\ Form(end) /\ Apart(end) /\ Opens(end)
      BY <1>4, <2>1, Table DEF Begun, LineFitsOn, Write, Typed, Lead, Neat
    <2>3. Apart(inBuf')
      BY <2>1, <2>2, Joined
    <2> QED
      BY <1>4, <2>3 DEF LineFitsOn, Write
  <1>5. ASSUME Answer PROVE LineFitsOn'
    BY <1>5 DEF LineFitsOn, Answer
  <1>6. CASE UNCHANGED vars
    BY <1>6 DEF LineFitsOn, vars
  <1> QED
    BY <1>1, <1>2, <1>3, <1>4, <1>5, <1>6 DEF Next, CallAny

\* Whatever options and parameters are chosen, no option is glued to another, in
\* any function but var_set_frozen and trace_frame_collected.
THEOREM WordsStayApart ==
    ASSUME Called \intersect {"var_set_frozen", "trace_frame_collected"} = {}
    PROVE  Spec => []WordsApart
  <1>1. Called \intersect Glued = {}
    BY DEF Glued
  <1>2. Init => Begun /\ LineFitsOn
    BY BegunInit DEF Init, LineFitsOn
  <1>3. Begun /\ LineFitsOn /\ [Next]_vars => (Begun /\ LineFitsOn)'
    BY <1>1, BegunNext, LineFitsOnNext
  <1>4. Begun /\ LineFitsOn => WordsApart
    BY DEF LineFitsOn, WordsApart, Apart, Gap
  <1> QED
    BY <1>2, <1>3, <1>4, PTL DEF Spec

-----------------------------------------------------------------------------
(* The answer that is waited for.                                          *)

\* The line begins with the command whose answer is waited for, or is going to.
CommandFirst ==
    /\ timings \in BOOLEAN
    /\ outcome = "unexpected" => timings
    /\ pc # "idle" =>
         \E command :
           /\ Suits(function.wait, function.class, command)
           /\ \/ pc = "build" /\ inBuf = <<>> /\ parts # <<>> /\ parts[1] = Word(command)
              \/ inBuf # <<>> /\ inBuf[1] = command

\* Every step of a call keeps it, but in the six functions.
LEMMA CommandFirstNext ==
    ASSUME Called \intersect Misled = {}, Begun, CommandFirst, [Next]_vars
    PROVE  CommandFirst'
  <1>1. ASSUME NEW f \in Functions, f.name \in Called, Call(f)
        PROVE  CommandFirst'
    <2>1. Expects(f) /\ f.parts # <<>>
      BY <1>1, Table, EmptySeq DEF Typed
    <2>2. function' = f /\ parts' = f.parts /\ inBuf' = <<>> /\ outcome' = "none" /\ pc' = "build"
          /\ timings' = timings
      BY <1>1 DEF Begun, Call
    <2> QED
      BY <2>1, <2>2 DEF CommandFirst, Expects
  <1>2. ASSUME AppendPart PROVE CommandFirst'
    <2>1. PICK form \in Head(parts) : inBuf' = inBuf \o form
      BY <1>2 DEF AppendPart
    <2>2. PICK command :
            /\ Suits(function.wait, function.class, command)
            /\ \/ inBuf = <<>> /\ parts[1] = Word(command)
               \/ inBuf # <<>> /\ inBuf[1] = command
      BY <1>2 DEF CommandFirst, AppendPart
    <2>3. inBuf' # <<>> /\ inBuf'[1] = command
      <3>1. /\ Head(parts) = parts[1]
            /\ inBuf # <<>> => inBuf' # <<>> /\ inBuf'[1] = inBuf[1]
            /\ inBuf = <<>> => inBuf' = form
        BY <1>2, <2>1, AppendForm DEF Begun, AppendPart
      <3>2. CASE inBuf = <<>>
        <4>1. form = <<command>>
          BY <2>1, <2>2, <3>1, <3>2 DEF Word
        <4> QED
          BY <3>1, <3>2, <4>1
      <3>3. CASE inBuf # <<>>
        BY <2>2, <3>1, <3>3
      <3> QED
        BY <3>2, <3>3
    <2> QED
      BY <1>2, <2>2, <2>3 DEF CommandFirst, AppendPart
  <1>3. ASSUME NEW form, Form(form), inBuf' = inBuf \o form, pc = "build", parts = <<>>,
               UNCHANGED <<function, outcome, timings>>
        PROVE  CommandFirst'
    <2>1. PICK command :
            /\ Suits(function.wait, function.class, command)
            /\ inBuf # <<>> /\ inBuf[1] = command
      BY <1>3 DEF CommandFirst
    <2>2. inBuf' # <<>> /\ inBuf'[1] = command
      BY <1>3, <2>1, Joined DEF Begun
    <2> QED
      BY <1>3, <2>1, <2>2 DEF CommandFirst
  <1>4. ASSUME AppendMore PROVE CommandFirst'
    <2>1. PICK form \in function.many : inBuf' = inBuf \o form
      BY <1>4 DEF AppendMore
    <2>2. Form(form)
      BY <1>4, <2>1, Table DEF Begun, AppendMore, Typed, Lead, Neat
    <2> QED
      BY <1>3, <1>4, <2>1, <2>2 DEF AppendMore
  <1>5. ASSUME Write PROVE CommandFirst'
    <2>1. PICK end \in function.ending : inBuf' = inBuf \o end
      BY <1>5 DEF Write
    <2>2. Form(end)
      BY <1>5, <2>1, Table DEF Begun, Write, Typed, Lead, Neat
    <2> QED
      BY <1>3, <1>5, <2>1, <2>2 DEF Write
  <1>6. ASSUME Answer PROVE CommandFirst'
    <2>1. PICK command :
            /\ Suits(function.wait, function.class, command)
            /\ inBuf[1] = command
      BY <1>6 DEF CommandFirst, Answer
    <2>2. gdbBuf[1] = command /\ pc' = "idle"
      BY <1>6, <2>1 DEF Begun, Answer
    <2>3. CASE Execute
      <3>1. timings' \in BOOLEAN
        BY <1>6, <2>3 DEF Execute, CommandFirst
      <3>2. PICK fields \in FieldsOf(command) :
              outcome' = Outcome(function, ClassOf(command), fields \/ Timed(ClassOf(command)))
        BY <2>2, <2>3 DEF Execute
      <3>3. CASE timings'
        BY <2>2, <3>1, <3>3 DEF CommandFirst
      <3>4. CASE ~timings'
        <4>1. ~Timed(ClassOf(command))
          BY <3>4 DEF Timed
        <4>2. function.wait = "class" => ~fields
          BY <2>1, <3>2 DEF Suits, Bare
        <4>3. outcome' # "unexpected"
          BY <2>1, <3>2, <4>1, <4>2 DEF Outcome, Suits
        <4> QED
          BY <2>2, <3>1, <4>3 DEF CommandFirst
      <3> QED
        BY <3>3, <3>4
    <2>4. CASE Refuse
      <3>1. outcome' # "unexpected" /\ timings' = timings
        BY <2>4 DEF Refuse, Outcome
      <3> QED
        BY <2>2, <3>1 DEF CommandFirst
    <2> QED
      BY <1>6, <2>3, <2>4 DEF Answer
  <1>7. CASE UNCHANGED vars
    BY <1>7 DEF CommandFirst, vars
  <1> QED
    BY <1>1, <1>2, <1>4, <1>5, <1>6, <1>7 DEF Next, CallAny

\* A command gdb executes is taken for a failure only when timings were asked for,
\* by every function but the two that wait for the wrong class and the four gdb
\* answers with results.
THEOREM AnswersExpected ==
    ASSUME Called \intersect {"exec_interrupt", "enable_frame_filters", "var_delete",
                              "var_set_format", "trace_stop", "trace_find(none)"} = {}
    PROVE  Spec => []AnswerExpected
  <1>1. Called \intersect Misled = {}
    BY DEF Misled
  <1>2. Init => Begun /\ CommandFirst
    BY BegunInit DEF Init, CommandFirst
  <1>3. Begun /\ CommandFirst /\ [Next]_vars => (Begun /\ CommandFirst)'
    BY <1>1, BegunNext, CommandFirstNext
  <1>4. CommandFirst => AnswerExpected
    BY DEF CommandFirst, AnswerExpected
  <1> QED
    BY <1>2, <1>3, <1>4, PTL DEF Spec


-----------------------------------------------------------------------------
(* The end of a line.                                                      *)

\* What gdb waits for before it reads a line.
LineEnds == pc = "wait" => gdbBuf # <<>> /\ gdbBuf[Len(gdbBuf)] = Newline

\* gdb gets to read every line, so that an answer can come, whichever functions
\* but var_set_format are called: the guard of Answer holds whenever a call waits.
\* It is the part of CallReturns that is not about fairness.
THEOREM LinesEnd ==
    ASSUME "var_set_format" \notin Called
    PROVE  Spec => []LineEnds
  <1>1. Init => Begun /\ LineEnds
    BY BegunInit DEF Init, LineEnds
  <1>2. ASSUME Begun, LineEnds, [Next]_vars PROVE LineEnds'
    <2>1. ASSUME Write PROVE LineEnds'
      <3>1. inBuf' = inBuf \o <<Newline>>
        BY <1>2, <2>1, Endings DEF Begun, Write, Ended, Word
      <3>2. Form(inBuf) /\ Form(<<Newline>>)
        BY <1>2, <2>1, WordParts DEF Begun, Write, Neat, Word
      <3>3. /\ <<Newline>> # <<>> /\ <<Newline>>[Len(<<Newline>>)] = Newline
            /\ \A s : Form(s) => <<>> \o s = s
        BY DEF Form
      <3>4. /\ Form(inBuf') /\ inBuf' # <<>> /\ inBuf'[Len(inBuf')] = Newline
        BY <3>1, <3>2, <3>3, Joined
      <3>5. gdbBuf' = inBuf'
        BY <1>2, <2>1, <3>3, <3>4 DEF Begun, Write
      <3> QED
        BY <3>4, <3>5 DEF LineEnds
    <2>2. ASSUME ~Write PROVE LineEnds'
      BY <1>2, <2>2
         DEF Begun, LineEnds, Next, vars, CallAny, Call, AppendPart, AppendMore, Answer
    <2> QED
      BY <2>1, <2>2
  <1>3. Begun /\ LineEnds /\ [Next]_vars => (Begun /\ LineEnds)'
    BY <1>2, BegunNext
  <1> QED
    BY <1>1, <1>3, PTL DEF Spec
=============================================================================
