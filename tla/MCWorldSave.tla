------------------------------ MODULE MCWorldSave ------------------------------
\* Small instances of WorldSave for TLC: the rates keep their order.
EXTENDS WorldSave, TLC

\* A timer's identity means nothing.
Symmetry == Permutations(TimerIds)
===============================================================================
