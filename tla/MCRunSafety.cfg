\* All option sets, with the timer and without it.
CONSTANTS
    b1 = b1
    b2 = b2
    here = here
    there = there
    NoBp = NoBp
    BreakPoints = {b1, b2}
    Location <- TwoPlaces
    Settings <- AllSettings
    TimeOuts = {TRUE, FALSE}
    MaxStops = 3
    MaxFrameOps = 2
SPECIFICATION FairSpec
INVARIANTS TypeOK NeverUnwatched KeepsProtocol RightBreakPoint OnlyForeignCrash HonestStatus
PROPERTIES CallsInTurn RunEnds GdbGoneEnds
CHECK_DEADLOCK FALSE
