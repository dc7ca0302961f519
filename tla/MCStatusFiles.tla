----------------------------- MODULE MCStatusFiles -----------------------------
\* Small instances of StatusFiles for TLC.
EXTENDS StatusFiles

Found(status, tick) ==
    [f \in Files |-> (IF f = "tick.txt" THEN tick ELSE status) \X {0}]

\* What is found of an earlier run: the verdict of a server that was shut down as it
\* should be, the text that this run must not show as its own, and a heartbeat.
MCLeft == {Found({"cleanshutdown"}, {"tick"})}
===============================================================================
