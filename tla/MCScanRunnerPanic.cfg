SPECIFICATION FairSpec
CONSTANTS
    NumTargets = 2
    Threads = 2
    EmptyHost <- None
    MayPanic <- Second
PROPERTIES
    Termination
CHECK_DEADLOCK FALSE
