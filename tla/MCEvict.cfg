CONSTANTS
    starter = starter
    m = m
    a = a
    b = b
    idle = idle
    Threads = {m, a}
    Main = m
    Locks = {1, 2}
    Vars = {x}
    SrcLocs = {1}
    NotifThreads = {m}
    Workload <- EvictWorkload
    FifoWake = TRUE
    SpuriousWakes = FALSE
    Capacity = 2
SPECIFICATION LogSpec
CHECK_DEADLOCK FALSE
INVARIANT EventsSorted
