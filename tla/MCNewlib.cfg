\* Programs the buffers are made for, and programs that do everything else.
CONSTANTS
    Fd <- Both
    Writes <- Text
    Initially <- Data
    Newline <- NL
    HostBits <- OnHost
    TargetBits <- OnTarget
    Opens <- Opened
    Size = 2
    MaxCount = 2
    MaxLen = 4
    HabitSets <- NoneOrAll
SPECIFICATION Spec
INVARIANTS TypeOK OwnBytes BuffersOpen OpenedAsAsked
PROPERTIES BuffersHidden
CHECK_DEADLOCK FALSE
