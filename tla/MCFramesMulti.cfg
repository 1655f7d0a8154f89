SPECIFICATION Spec
CONSTANTS
    f = f
    missing = missing
    g = g
    BreakPoints <- MCBreakPoints
    Locations <- MCLocations
    Params <- MCParams
    Cells <- MCCells
    Strings <- MCStrings
    PrintLimit = 2
    MaxStops = 2
    MaxOps = 2
INVARIANT
    MultipleTold
CHECK_DEADLOCK FALSE
