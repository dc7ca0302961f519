CONSTANTS
    MaxLoads = 2
    MaxTimers = 1
SPECIFICATION FairSpec
INVARIANTS
    FewStrays
    ShutdownOnce
PROPERTY
    OldTimersEnd
