\* Two workers, as in the plugin; every status text; two heartbeats; the wall
\* clock set back once; the verdict of an earlier run in status.txt; two files
\* that do not open, so that every status of a run may be lost.
SPECIFICATION FairSpec
CONSTANTS
    w1 = w1
    w2 = w2
    Game = Game
    None = None
    Workers = {w1, w2}
    TickRate = 1
    WordSize = 16
    MaxTicks = 2
    MaxBack = 1
    Left <- MCLeft
    MaxLost = 2
INVARIANTS
    TypeOK
    FinalStatus
    NoFalseVerdict
    NothingStale
    NeverBlank
    HeartbeatFresh
PROPERTIES
    ExitEnds
