\* The calls of gdb::process, in its order, under fairness; more commands than
\* tokens.
CONSTANTS
    MaxCalls = 4
    TokenMod = 3
    Ops <- AllOps
    Noise <- RunNoise
    Disciplined = TRUE
SPECIFICATION FairSpec
INVARIANTS TypeOK Synchronised NoStopLost
PROPERTIES ImplementsSession CommandReturns StopArrives
CHECK_DEADLOCK FALSE
