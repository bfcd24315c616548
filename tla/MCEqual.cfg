CONSTANTS
    Threads = {0, 1, 2}
    Main = 0
    Locks = {1, 2, 3}
    Vars = {"x"}
    SrcLocs = {1}
    NotifThreads = {}
    Workload <- HeldOverWorkload
    FifoWake = TRUE
    SpuriousWakes = FALSE
    Capacity = 8
    Yields <- HeldOverYields
    Shortest = 22
SPECIFICATION MCSpec
CHECK_DEADLOCK FALSE
PROPERTY ConvergedReportsAreDeadlocks
