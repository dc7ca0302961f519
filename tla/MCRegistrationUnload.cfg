CONSTANTS
    MaxLoads = 2
    MaxTimers = 1
SPECIFICATION Spec
INVARIANT
    UnloadTakesAll
