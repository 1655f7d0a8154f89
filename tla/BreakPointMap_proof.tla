------------------------- MODULE BreakPointMap_proof -------------------------
(***************************************************************************)
(* However many break_points there are and wherever gdb sets them or       *)
(* fails to, disable and enable reach the breakpoint that was set for the  *)
(* break_point, and no other.                                              *)
(*                                                                         *)
(* EnabledAsWanted is not inductive: it takes that the map has gdb's       *)
(* numbers, each for the break_point it was set for, and a break_point     *)
(* under one number only, or find_if would find the wrong one.             *)
(***************************************************************************)
EXTENDS BreakPointMap, SequenceTheorems, TLAPS

Breakpoint ==
    [of : DOMAIN Locations, places : {Locations[bp] : bp \in DOMAIN Locations},
     enabled : BOOLEAN]

TypeOK ==
    /\ next \in 0 .. Len(BreakPoints)
    /\ numbers \in Seq(Breakpoint)
    /\ wanted \in [DOMAIN Locations -> BOOLEAN]

\* The map has gdb's numbers, in the order of the break_points.
Mapped ==
    /\ DOMAIN bpMap = DOMAIN numbers
    /\ \A n \in DOMAIN numbers : bpMap[n] = numbers[n].of
    /\ \A n \in DOMAIN numbers : \E i \in 1 .. next : numbers[n].of = BreakPoints[i]
    /\ \A m, n \in DOMAIN numbers : numbers[m].of = numbers[n].of => m = n

\* Until all are set nobody has asked for anything.
Unasked == next < Len(BreakPoints) => \A bp \in DOMAIN Locations : wanted[bp]

MapInv == TypeOK /\ Mapped /\ Unasked /\ EnabledAsWanted

\* There are no breakpoints at first.
LEMMA MapInvInit == MapInit => MapInv
  <1> SUFFICES ASSUME MapInit PROVE MapInv
    OBVIOUS
  <1>1. numbers \in Seq(Breakpoint) /\ DOMAIN numbers = {} /\ DOMAIN bpMap = {}
    BY EmptySeq DEF MapInit
  <1>2. Len(BreakPoints) \in Nat
    BY BreakPointAssumption, LenProperties
  <1> QED
    BY <1>1, <1>2 DEF MapInit, MapInv, TypeOK, Mapped, Unasked, EnabledAsWanted

\* The next break_point is set under a number of its own.
LEMMA SetBpInv ==
    ASSUME MapInv, SetBp(Len(numbers) + 1)
    PROVE  MapInv'
  <1> DEFINE bp  == BreakPoints[next + 1]
             row == [of |-> bp, places |-> Locations[bp], enabled |-> TRUE]
             new == Len(numbers) + 1
  <1>1. /\ next < Len(BreakPoints) /\ next' = next + 1 /\ wanted' = wanted
        /\ Len(BreakPoints) \in Nat /\ DOMAIN BreakPoints = 1 .. Len(BreakPoints)
        /\ next \in Nat
    BY BreakPointAssumption, LenProperties DEF SetBp, MapInv, TypeOK
  <1>2. next + 1 \in DOMAIN BreakPoints /\ bp \in DOMAIN Locations /\ row \in Breakpoint
    <2>1. next + 1 \in DOMAIN BreakPoints
      BY <1>1
    <2>2. bp \in DOMAIN Locations
      BY <1>1, <2>1, BreakPointAssumption, ElementOfSeq
    <2> QED
      BY <2>1, <2>2 DEF Breakpoint
  <1>3. CASE Locations[bp] = <<>>
    <2>1. numbers' = numbers /\ bpMap' = bpMap
      BY <1>3 DEF SetBp
    <2>2. TypeOK' /\ Unasked' /\ EnabledAsWanted'
      BY <1>1, <2>1 DEF MapInv, TypeOK, Unasked, EnabledAsWanted
    <2>3. \A i \in 1 .. next : i \in 1 .. next'
      BY <1>1
    <2>4. Mapped'
      BY <2>1, <2>3 DEF MapInv, Mapped
    <2> QED
      BY <2>2, <2>4 DEF MapInv
  <1>4. CASE Locations[bp] # <<>>
    <2>1. /\ numbers' = Append(numbers, row)
          /\ bpMap' = [n \in DOMAIN bpMap \union {new} |-> IF n = new THEN bp ELSE bpMap[n]]
      BY <1>4 DEF SetBp
    <2> HIDE DEF row
    <2>2. /\ numbers \in Seq(Breakpoint) /\ Len(numbers) \in Nat
          /\ DOMAIN numbers = 1 .. Len(numbers)
      BY LenProperties DEF MapInv, TypeOK
    <2>3. /\ numbers' \in Seq(Breakpoint) /\ DOMAIN numbers' = 1 .. new
          /\ numbers'[new] = row /\ \A n \in DOMAIN numbers : numbers'[n] = numbers[n]
          /\ DOMAIN numbers' = DOMAIN numbers \union {new} /\ new \notin DOMAIN numbers
      <3>1. /\ numbers' \in Seq(Breakpoint) /\ Len(numbers') = new
            /\ \A n \in 1 .. Len(numbers) : numbers'[n] = numbers[n]
            /\ numbers'[Len(numbers) + 1] = row
        BY <1>2, <2>1, <2>2, AppendProperties
      <3>2. DOMAIN numbers' = 1 .. new
        BY <3>1, LenProperties
      <3> QED
        BY <2>2, <3>1, <3>2
    <2> HIDE DEF new, bp
    <2>4. row.of = bp /\ row.enabled = TRUE
      BY DEF row, bp
    <2>5. ASSUME NEW n \in DOMAIN numbers PROVE numbers[n].of # bp
      <3>1. PICK i \in 1 .. next : numbers[n].of = BreakPoints[i]
        BY <2>5 DEF MapInv, Mapped
      <3>2. i \in DOMAIN BreakPoints /\ i # next + 1
        BY <1>1, <3>1
      <3> QED
        BY <1>2, <3>1, <3>2, BreakPointAssumption DEF bp
    <2>6. TypeOK'
      BY <1>1, <2>3 DEF MapInv, TypeOK
    <2>7. Unasked' /\ wanted[bp] = TRUE
      BY <1>1, <1>2 DEF MapInv, Unasked, TypeOK
    <2>8. EnabledAsWanted'
      BY <1>1, <2>3, <2>4, <2>7 DEF MapInv, EnabledAsWanted
    <2>9. Mapped'
      <3>1. DOMAIN bpMap = DOMAIN numbers
        BY DEF MapInv, Mapped
      <3>2. DOMAIN bpMap' = DOMAIN numbers'
        BY <2>1, <2>3, <3>1
      <3>3. \A n \in DOMAIN numbers' : bpMap'[n] = numbers'[n].of
        BY <2>1, <2>3, <2>4, <3>1 DEF MapInv, Mapped
      <3>4. \A n \in DOMAIN numbers' : \E i \in 1 .. next' : numbers'[n].of = BreakPoints[i]
        <4>1. next + 1 \in 1 .. next' /\ \A i \in 1 .. next : i \in 1 .. next'
          BY <1>1
        <4>2. \E i \in 1 .. next' : numbers'[new].of = BreakPoints[i]
          BY <2>3, <2>4, <4>1 DEF bp
        <4>3. \A n \in DOMAIN numbers : \E i \in 1 .. next' : numbers'[n].of = BreakPoints[i]
          BY <2>3, <4>1 DEF MapInv, Mapped
        <4> QED
          BY <2>3, <4>2, <4>3
      <3>5. \A m, n \in DOMAIN numbers' : numbers'[m].of = numbers'[n].of => m = n
        BY <2>3, <2>4, <2>5 DEF MapInv, Mapped
      <3> QED
        BY <3>2, <3>3, <3>4, <3>5 DEF Mapped
    <2> QED
      BY <2>6, <2>7, <2>8, <2>9 DEF MapInv
  <1> QED
    BY <1>3, <1>4

\* disable and enable find the number of their break_point.
LEMMA EnableBpInv ==
    ASSUME MapInv, NEW bp \in DOMAIN Locations, NEW on \in BOOLEAN, EnableBp(bp, on)
    PROVE  MapInv'
  <1>1. /\ next' = next /\ bpMap' = bpMap /\ next = Len(BreakPoints)
        /\ wanted' = [wanted EXCEPT ![bp] = on]
        /\ DOMAIN numbers' = DOMAIN numbers
        /\ \A n \in DOMAIN numbers :
             numbers'[n] = IF n \in numberOf(bp) THEN [numbers[n] EXCEPT !.enabled = on]
                           ELSE numbers[n]
    BY DEF EnableBp
  <1>2. /\ numbers \in Seq(Breakpoint) /\ DOMAIN numbers = 1 .. Len(numbers)
        /\ Len(numbers) \in Nat
        /\ \A n \in DOMAIN numbers : numbers[n] \in Breakpoint
    BY LenProperties, ElementOfSeq DEF MapInv, TypeOK
  <1>3. \A n \in DOMAIN numbers : n \in numberOf(bp) <=> numbers[n].of = bp
    BY <1>2 DEF numberOf, MapInv, Mapped
  <1>4. ASSUME NEW n \in DOMAIN numbers
        PROVE  /\ numbers'[n] \in Breakpoint /\ numbers'[n].of = numbers[n].of
               /\ numbers[n].of \in DOMAIN Locations
               /\ numbers[n].of = bp => numbers'[n].enabled = on
               /\ numbers[n].of # bp => numbers'[n].enabled = numbers[n].enabled
    BY <1>1, <1>2, <1>3, <1>4 DEF Breakpoint
  <1>5. numbers' \in Seq(Breakpoint)
    <2>1. numbers' = [n \in 1 .. Len(numbers) |-> numbers'[n]]
      BY <1>2 DEF EnableBp
    <2>2. \A n \in 1 .. Len(numbers) : numbers'[n] \in Breakpoint
      BY <1>2, <1>4
    <2> QED
      BY <1>2, <2>1, <2>2, IsASeq
  <1>6. TypeOK'
    BY <1>1, <1>5 DEF MapInv, TypeOK
  <1>7. Mapped'
    BY <1>1, <1>4 DEF MapInv, Mapped
  <1>8. Unasked'
    BY <1>1, <1>6 DEF TypeOK, Unasked
  <1>9. EnabledAsWanted'
    BY <1>1, <1>4 DEF MapInv, TypeOK, EnabledAsWanted
  <1> QED
    BY <1>6, <1>7, <1>8, <1>9 DEF MapInv

\* Every step keeps the invariant.
LEMMA MapInvNext == MapInv /\ [MapNext]_mapVars => MapInv'
  <1>1. ASSUME MapInv, UNCHANGED mapVars PROVE MapInv'
    BY <1>1 DEF MapInv, TypeOK, Mapped, Unasked, EnabledAsWanted, mapVars
  <1> QED
    BY <1>1, SetBpInv, EnableBpInv DEF MapNext

\* disable and enable reach the breakpoint of their break_point, whatever gdb set
\* or failed to set before it.
THEOREM EnabledIsWanted == MapSpec => []EnabledAsWanted
  <1>1. MapInv => EnabledAsWanted
    BY DEF MapInv
  <1> QED
    BY <1>1, MapInvInit, MapInvNext, PTL DEF MapSpec
=============================================================================
