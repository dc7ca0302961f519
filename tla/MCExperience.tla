----------------------------- MODULE MCExperience -----------------------------
EXTENDS Experience

Character(ours, player, rider, level, toNext) ==
    [ours |-> ours, player |-> player, rider |-> rider, level |-> level, toNext |-> toNext]

\* Riders of a low and of a high level, whose caps lie between floor and ceiling (the
\* first's) or at the ceiling, a player on foot, a young dinosaur, one at its last
\* level, and a wild one.
MCCharacters ==
    {Character(TRUE, TRUE, TRUE, 10, 10000), Character(TRUE, TRUE, TRUE, 101, 250000),
     Character(TRUE, TRUE, FALSE, 50, 30000), Character(TRUE, FALSE, FALSE, 29, 2000),
     Character(TRUE, FALSE, FALSE, 100, -10), Character(FALSE, FALSE, FALSE, 24, 100)}
===============================================================================
