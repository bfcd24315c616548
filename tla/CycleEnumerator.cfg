CONSTANTS
    N = 4
SPECIFICATION Spec
INVARIANT AllCyclesOnce
INVARIANT ComponentIsWhole
