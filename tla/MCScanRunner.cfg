SPECIFICATION FairSpec
CONSTANTS
    NumTargets = 4
    Threads = 3
    EmptyHost <- None
    MayPanic <- Second
INVARIANTS
    ExactlyOnce
    DoneAccounting
    QuitForEveryWorker
    ExitAfterAllTargets
PROPERTIES
    ImplementsPool
CHECK_DEADLOCK FALSE
