CONSTANTS
    starter = starter
    m = m
    a = a
    b = b
    idle = idle
    Threads = {m, a, b}
    Main = m
    Locks = {1}
    Vars = {x}
    SrcLocs = {1}
    NotifThreads = {m}
    Workload <- SleepWorkload
    FifoWake = FALSE
    SpuriousWakes = FALSE
    Capacity = 8
SPECIFICATION LogSpec
CHECK_DEADLOCK FALSE
PROPERTY WakeSeesItsNotify
