\* Two spyglasses, an engram, and two timers each.
CONSTANTS
    s1 = s1
    s2 = s2
    e1 = e1
    Spyglasses = {s1, s2}
    Lookalikes = {e1}
    MaxTimers = 2
SPECIFICATION FairSpec
INVARIANTS
    TypeOK
    BlindOnlyIfEarly
PROPERTY
    BuffComesBack
