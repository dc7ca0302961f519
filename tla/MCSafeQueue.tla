------------------------------ MODULE MCSafeQueue ------------------------------
\* Small instances of SafeQueue for TLC.
EXTENDS SafeQueue, TLC

\* Consumers run the same code, and an element is only an identity.
Symmetry == Permutations(Consumers) \cup Permutations(Items)
===============================================================================
