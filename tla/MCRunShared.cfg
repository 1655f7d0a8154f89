\* Two break_points at one place.
CONSTANTS
    b1 = b1
    b2 = b2
    here = here
    there = there
    NoBp = NoBp
    BreakPoints = {b1, b2}
    Location <- OnePlace
    Settings <- Plain
    TimeOuts = {TRUE}
    MaxStops = 1
    MaxFrameOps = 0
SPECIFICATION Spec
INVARIANTS HitMeansInvoked
CHECK_DEADLOCK FALSE
