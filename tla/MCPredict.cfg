CONSTANTS
    Threads = {0, 1, 2}
    Main = 0
    Locks = {1, 2, 3}
    Vars = {"x"}
    SrcLocs = {1}
    NotifThreads = {0}
    Workload <- MixedWorkload
    FifoWake = TRUE
    SpuriousWakes = FALSE
    Capacity = 8
    Yields <- MixedYields
    Shortest = 41
SPECIFICATION MCSpec
CHECK_DEADLOCK FALSE
INVARIANT CheckerTypeOK
INVARIANT ClosureSound
PROPERTY ReportsAreDeadlocks
PROPERTY NoDeadlockMissed
PROPERTY CheckerEnds
INVARIANT QueuesPartitioned
INVARIANT OpenSectionsUntouched
