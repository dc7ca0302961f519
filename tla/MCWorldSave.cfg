\* A unit is about a minute; three timers; the wall clock set back by up
\* to two and forward at will.
SPECIFICATION Spec
CONSTANTS
    i1 = i1
    i2 = i2
    i3 = i3
    DmgRate = 2
    SaveRate = 4
    JoinWindow = 5
    JoinDelay = 1
    ForceRate = 7
    WordSize = 64
    MaxLag = 1
    MaxBack = 2
    Cap = 11
    TimerIds = {i1, i2, i3}
SYMMETRY Symmetry
INVARIANTS
    TypeOK
    PendingHasTimer
    ForceIsPending
    AnnouncedIsDue
    OneOfEach
    BoundedDeferral
