\* Three workers (one more than the plugin has), the game thread and one more
\* caller, four tasks, and a second call of shutdown; no symmetry, since
\* liveness properties are checked.
SPECIFICATION FairSpec
CONSTANTS
    w1 = w1
    w2 = w2
    w3 = w3
    game = game
    other = other
    t1 = t1
    t2 = t2
    t3 = t3
    t4 = t4
    None = None
    Workers = {w1, w2, w3}
    Callers = {game, other}
    Owner = game
    Tasks = {t1, t2, t3, t4}
    MaxShutdowns = 2
INVARIANTS
    TypeOK
    InOrder
    RunOnce
    NoLostWakeup
    ShutdownDrains
PROPERTIES
    ShutdownEnds
    ImplementsContract
