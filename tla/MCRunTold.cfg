\* A break_point whose place is not found.
CONSTANTS
    b1 = b1
    b2 = b2
    here = here
    there = there
    NoBp = NoBp
    BreakPoints = {b1, b2}
    Location <- TwoPlaces
    Settings <- Plain
    TimeOuts = {TRUE}
    MaxStops = 1
    MaxFrameOps = 0
SPECIFICATION Spec
INVARIANTS EveryBreakPointTold
CHECK_DEADLOCK FALSE
