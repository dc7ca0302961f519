--------------------------- MODULE ExecutorContract ---------------------------
(***************************************************************************)
(* What the users of SA::TaskExecutor (Helpers/TaskExecutor.h) may rely    *)
(* on, with no thread, lock or condition variable in it: a task handed     *)
(* over while the executor is open is run exactly once on the pool, a task *)
(* handed over later is run by the thread that hands it over, and shutdown *)
(* returns only when no pooled task is left.  TaskExecutor implements it.  *)
(***************************************************************************)
CONSTANTS Tasks   \* the calls of run: each hands over one std::function

VARIABLES phase,    \* "open", "closing" (shutdown called), "drained" (it returned)
          pending,  \* accepted by run and not begun
          active,   \* being run by the pool
          inline,   \* being run by the thread that called run
          over      \* returned, or threw a std::exception that was logged

cvars == <<phase, pending, active, inline, over>>

Unseen(t) == t \notin pending \cup active \cup inline \cup over

CInit ==
    /\ phase = "open"
    /\ pending = {} /\ active = {} /\ inline = {} /\ over = {}

\* run, before shutdown.
Accept(t) ==
    /\ phase = "open"
    /\ Unseen(t)
    /\ pending' = pending \cup {t}
    /\ UNCHANGED <<phase, active, inline, over>>

\* run, after shutdown was called: the caller itself is about to run the task.
AcceptInline(t) ==
    /\ phase # "open"
    /\ Unseen(t)
    /\ inline' = inline \cup {t}
    /\ UNCHANGED <<phase, pending, active, over>>

Begin(t) ==
    /\ t \in pending
    /\ pending' = pending \ {t}
    /\ active' = active \cup {t}
    /\ UNCHANGED <<phase, inline, over>>

End(t) ==
    /\ t \in active \cup inline
    /\ active' = active \ {t}
    /\ inline' = inline \ {t}
    /\ over' = over \cup {t}
    /\ UNCHANGED <<phase, pending>>

Close ==
    /\ phase = "open"
    /\ phase' = "closing"
    /\ UNCHANGED <<pending, active, inline, over>>

\* shutdown returns: nothing that was accepted by the pool is left.
Drain ==
    /\ phase = "closing"
    /\ pending = {}
    /\ active = {}
    /\ phase' = "drained"
    /\ UNCHANGED <<pending, active, inline, over>>

CNext ==
    \/ \E t \in Tasks : Accept(t) \/ AcceptInline(t) \/ Begin(t) \/ End(t)
    \/ Close
    \/ Drain

CSafety == CInit /\ [][CNext]_cvars

\* An accepted task is begun, a task that was begun comes to an end.
CSpec ==
    /\ CSafety
    /\ \A t \in Tasks : WF_cvars(Begin(t)) /\ WF_cvars(End(t))
===============================================================================
