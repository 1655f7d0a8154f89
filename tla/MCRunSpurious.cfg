\* The timer's handler against a late answer.
CONSTANTS
    b1 = b1
    b2 = b2
    here = here
    there = there
    NoBp = NoBp
    BreakPoints = {b1, b2}
    Location <- TwoPlaces
    Settings <- Plain
    TimeOuts = {TRUE}
    MaxStops = 1
    MaxFrameOps = 0
SPECIFICATION Spec
PROPERTIES TimeOutMeansSilence
CHECK_DEADLOCK FALSE
