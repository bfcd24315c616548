CONSTANTS
    Locks = {1, 2}
    WaitedOn = {1}
    MaxDepth = 2
    Capacity = 3
SPECIFICATION Spec
INVARIANT LinksConsistent
PROPERTY ImplementsThreadState
