\* A program that makes the stubs flush a buffer of one byte.
CONSTANTS
    Fd <- Both
    Writes <- Text
    Initially <- Data
    Newline <- NL
    HostBits <- OnHost
    TargetBits <- OnTarget
    Opens <- Opened
    Size = 2
    MaxCount = 2
    MaxLen = 3
    HabitSets <- LoneByte
SPECIFICATION Spec
PROPERTIES LikeOnHost
CHECK_DEADLOCK FALSE
