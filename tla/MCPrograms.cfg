CONSTANTS
    starter = starter
    m = m
    a = a
    b = b
    idle = idle
    Threads = {starter, m, a, b, idle}
    Main = starter
    Locks = {1, 2}
    Vars = {x}
    SrcLocs = {1, 2}
    NotifThreads = {b}
    Workload <- EitherWorkload
    FifoWake = TRUE
    SpuriousWakes = FALSE
    Capacity = 3
SPECIFICATION LogSpec
CHECK_DEADLOCK FALSE
ACTION_CONSTRAINT LocationsOfSecond
INVARIANT ClocksAreHappensBefore
INVARIANT EveryRequestKeptOnce
INVARIANT OwnTimeIsAhead
INVARIANT SectionsWellFormed
INVARIANT IndexConsistent
INVARIANT CondVarsAreNotifiedSince
INVARIANT CondVarsOnlyNotifiedSince
INVARIANT SortedUnlessForgotten
