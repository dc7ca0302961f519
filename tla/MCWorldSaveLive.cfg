\* Two timers, no symmetry, since a liveness property is checked.
SPECIFICATION FairSpec
CONSTANTS
    i1 = i1
    i2 = i2
    DmgRate = 2
    SaveRate = 4
    JoinWindow = 5
    JoinDelay = 1
    ForceRate = 7
    WordSize = 64
    MaxLag = 1
    MaxBack = 2
    Cap = 11
    TimerIds = {i1, i2}
PROPERTIES
    AnnouncedIsSaved
    KeepsPromise
