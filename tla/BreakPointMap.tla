---------------------------- MODULE BreakPointMap ----------------------------
(***************************************************************************)
(* gdb's breakpoints and the break_points of the plugins: _break_point_map *)
(* of process.cpp, which process::_init_bps fills, and by which            *)
(* frame_impl::disable and enable find gdb's number.  TargetFrame has the  *)
(* answers the numbers are read from and all else a frame does.            *)
(***************************************************************************)
EXTENDS Naturals, Sequences

CONSTANTS
    BreakPoints,    \* the break_points of the plugins, in their order
    Locations       \* the addresses of the program each identifier names

\* A break_point is an object of its own, whatever its identifier.
ASSUME BreakPointAssumption ==
    /\ BreakPoints \in Seq(DOMAIN Locations)
    /\ \A i, j \in DOMAIN BreakPoints : BreakPoints[i] = BreakPoints[j] => i = j

VARIABLES
    next,       \* the break_points inserted so far
    numbers,    \* gdb's breakpoints: what each was set for and where, and
                \* whether it is enabled
    bpMap,      \* _break_point_map
    wanted      \* what was asked for last, of each break_point: to be enabled or not

mapVars == <<next, numbers, bpMap, wanted>>

MapInit ==
    /\ next = 0 /\ numbers = <<>> /\ bpMap = <<>>
    /\ wanted = [bp \in DOMAIN Locations |-> TRUE]

\* _init_bps: gdb sets the next break_point, and its number is read from the
\* answer; gdb's error is ignored.
SetBp(number) ==
    LET bp     == BreakPoints[next + 1]
        places == Locations[bp]
    IN  /\ next < Len(BreakPoints) /\ next' = next + 1
        /\ IF places = <<>> THEN UNCHANGED <<numbers, bpMap>>
           ELSE /\ numbers' = Append(numbers, [of |-> bp, places |-> places, enabled |-> TRUE])
                /\ bpMap' = [n \in DOMAIN bpMap \union {number} |->
                                IF n = number THEN bp ELSE bpMap[n]]
        /\ UNCHANGED wanted

\* Mutant: the first number of the map is taken.
numberOf_First(bp) == {n \in DOMAIN bpMap : \A m \in DOMAIN bpMap : n <= m}

\* find_if: the first number of the break_point, if it has one.
numberOf(bp) ==
    {n \in DOMAIN bpMap :
        bpMap[n] = bp /\ \A m \in DOMAIN bpMap : bpMap[m] = bp => n <= m}

\* disable and enable, which a break_point calls when all have been set: nothing
\* is asked of gdb for one that has no number.
EnableBp(bp, on) ==
    /\ next = Len(BreakPoints)
    /\ numbers' = [n \in DOMAIN numbers |->
                      IF n \in numberOf(bp) THEN [numbers[n] EXCEPT !.enabled = on] ELSE numbers[n]]
    /\ wanted' = [wanted EXCEPT ![bp] = on]
    /\ UNCHANGED <<next, bpMap>>

\* The number in the answer is the one gdb has given.
MapNext ==
    \/ SetBp(Len(numbers) + 1)
    \/ \E bp \in DOMAIN Locations, on \in BOOLEAN : EnableBp(bp, on)

\* What the program keeps to in all that frames do: the number read from gdb's
\* answer is the one gdb has given, an insertion that fails leaves the map alone,
\* and no function of a frame but disable and enable changes a breakpoint.
MapSpec == MapInit /\ [][MapNext]_mapVars

-----------------------------------------------------------------------------
\* gdb has each of its breakpoints enabled or not as the plugin last wanted it,
\* also behind break_points it could not set, and those of other break_points
\* (frame_impl::disable and enable, over _break_point_map).
EnabledAsWanted == \A n \in DOMAIN numbers : numbers[n].enabled = wanted[numbers[n].of]
=============================================================================
