CONSTANTS
    ThreadRange = 2
    TargetRange = 32
    ResourceRange = 16
    SrcLocRange = 8
    CountRange = 4
    Types = {"LK", "UK", "RD", "FORK", "BRANCH", "WAIT", "NOTIFYALL"}
    MaxThreads = 3
    MaxLocks = 2
    MaxVars = 1
    MaxEvents = 4
    MaxConversions = 3
SPECIFICATION Spec
CHECK_DEADLOCK FALSE
INVARIANT NeverAborts
