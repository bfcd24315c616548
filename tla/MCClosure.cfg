CONSTANTS
    Threads = {0, 1, 2}
    Main = 0
    Locks = {1, 2, 3, 4}
    Vars = {"x", "y"}
    SrcLocs = {1}
    NotifThreads = {}
    Workload <- HandOverWorkload
    FifoWake = TRUE
    SpuriousWakes = FALSE
    Capacity = 8
    Yields <- HandOverYields
    Shortest = 33
SPECIFICATION MCSpec
CHECK_DEADLOCK FALSE
PROPERTY EveryReportIsDeadlock
