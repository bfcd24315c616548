CONSTANTS
    Threads = {0, 1, 2, 3, 4}
    Actors = {0, 1, 3}
    MaxTicks = 4
SPECIFICATION Spec
INVARIANT ComparisonsAgree
PROPERTY ImplementsStore
