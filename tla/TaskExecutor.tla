----------------------------- MODULE TaskExecutor -----------------------------
(***************************************************************************)
(* SA::TaskExecutor (Helpers/TaskExecutor.h, Helpers/TaskExecutor.cpp): a  *)
(* pool of threads that take tasks from one queue under one mutex, wait on *)
(* one condition variable, and are drained and joined by shutdown.         *)
(*                                                                         *)
(* Every action is one step a thread takes between two points where        *)
(* another thread can be scheduled.  A thread blocked in the constructor   *)
(* of a lock is one whose Lock action is not enabled.  signal.wait gives   *)
(* the mutex back and blocks in one step, may wake up with no notification *)
(* and takes the mutex again before the loop condition is read again.      *)
(***************************************************************************)
EXTENDS Naturals, Sequences, SequencesExt, FiniteSets

CONSTANTS
    Workers,       \* the threads the constructor starts
    Callers,       \* the threads that call run
    Owner,         \* the caller that also calls shutdown (the game thread)
    Tasks,         \* the calls of run, each with a task of its own
    None,          \* no thread, no task
    MaxShutdowns   \* bound: how often Owner calls shutdown

\* The plugin constructs the pool with numThreads = 2 (saomega.cpp:19); a pool
\* of no threads, which the default argument allows, never runs anything.
ASSUME ExecutorAssumption ==
    /\ Workers # {}
    /\ Owner \in Callers
    /\ Workers \cap Callers = {}
    /\ None \notin Workers \cup Callers \cup Tasks
    /\ MaxShutdowns \in Nat

VARIABLES
    mutex,         \* the thread that holds mutex, or None
    queue,         \* the member queue
    isShuttingDownTaskQueue,
    wpc,           \* where each worker is in dispatchTasks
    task,          \* the local variable task of each worker
    cpc,           \* where each caller is in run or shutdown
    arg,           \* the parameter task of the caller's call of run
    joinable,      \* the members of threads not yet joined
    toJoin,        \* what is left of the loop in shutdown
    shutdowns,     \* calls of shutdown so far
    drained,       \* history: some call of shutdown has returned
    accepted,      \* history: the tasks pushed, in the order they were pushed
    started,       \* history: the tasks popped, in the order they were popped
    finished       \* history: the tasks whose operator() returned or threw

vars == <<mutex, queue, isShuttingDownTaskQueue, wpc, task, cpc, arg,
          joinable, toJoin, shutdowns, drained, accepted, started, finished>>

WorkerPC == {"loop", "locked", "waiting", "busy", "exited"}
CallerPC == {"idle", "run", "inline", "shutdown", "joining", "threw"}

Waiting == {w \in Workers : wpc[w] = "waiting"}

\* The tasks some run call was made with; a task is an argument only once.
Handed == {arg[c] : c \in Callers} \cup ToSet(accepted) \cup finished

Init ==
    /\ mutex = None
    /\ queue = <<>>
    /\ isShuttingDownTaskQueue = FALSE
    /\ wpc = [w \in Workers |-> "loop"]
    /\ task = [w \in Workers |-> None]
    /\ cpc = [c \in Callers |-> "idle"]
    /\ arg = [c \in Callers |-> None]
    /\ joinable = Workers
    /\ toJoin = {}
    /\ shutdowns = 0
    /\ drained = FALSE
    /\ accepted = <<>>
    /\ started = <<>>
    /\ finished = {}

-------------------------------------------------------------------------------
(* notify_one and notify_all of the condition variable: a notified worker  *)
(* is no longer blocked and competes for the mutex.                        *)

NotifyOne ==
    IF Waiting = {}
      THEN UNCHANGED wpc
      ELSE \E w \in Waiting : wpc' = [wpc EXCEPT ![w] = "loop"]

NotifyAll ==
    wpc' = [w \in Workers |-> IF w \in Waiting THEN "loop" ELSE wpc[w]]

(* run(task) *)

RunLock(c, t) ==
    /\ cpc[c] = "idle"
    /\ t \notin Handed
    /\ mutex = None
    /\ mutex' = c
    /\ cpc' = [cpc EXCEPT ![c] = "run"]
    /\ arg' = [arg EXCEPT ![c] = t]
    /\ UNCHANGED <<queue, isShuttingDownTaskQueue, wpc, task, joinable, toJoin,
                   shutdowns, drained, accepted, started, finished>>

\* Variant of RunEnqueue: the push is not followed by signal.notify_one().
RunEnqueue_Silent(c) ==
    /\ cpc[c] = "run"
    /\ ~isShuttingDownTaskQueue
    /\ queue' = Append(queue, arg[c])
    /\ accepted' = Append(accepted, arg[c])
    /\ mutex' = None
    /\ cpc' = [cpc EXCEPT ![c] = "idle"]
    /\ arg' = [arg EXCEPT ![c] = None]
    /\ UNCHANGED <<isShuttingDownTaskQueue, wpc, task, joinable, toJoin,
                   shutdowns, drained, started, finished>>

RunEnqueue(c) ==
    /\ cpc[c] = "run"
    /\ ~isShuttingDownTaskQueue
    /\ queue' = Append(queue, arg[c])
    /\ accepted' = Append(accepted, arg[c])
    /\ NotifyOne
    /\ mutex' = None
    /\ cpc' = [cpc EXCEPT ![c] = "idle"]
    /\ arg' = [arg EXCEPT ![c] = None]
    /\ UNCHANGED <<isShuttingDownTaskQueue, task, joinable, toJoin, shutdowns,
                   drained, started, finished>>

\* The pool is shutting down: the caller runs the task itself, and holds the
\* mutex while it does.
RunInline(c) ==
    /\ cpc[c] = "run"
    /\ isShuttingDownTaskQueue
    /\ cpc' = [cpc EXCEPT ![c] = "inline"]
    /\ UNCHANGED <<mutex, queue, isShuttingDownTaskQueue, wpc, task, arg,
                   joinable, toJoin, shutdowns, drained, accepted, started,
                   finished>>

\* task() returns, or throws a std::exception that run catches and logs.
RunInlineDone(c) ==
    /\ cpc[c] = "inline"
    /\ finished' = finished \cup {arg[c]}
    /\ mutex' = None
    /\ cpc' = [cpc EXCEPT ![c] = "idle"]
    /\ arg' = [arg EXCEPT ![c] = None]
    /\ UNCHANGED <<queue, isShuttingDownTaskQueue, wpc, task, joinable, toJoin,
                   shutdowns, drained, accepted, started>>

(* shutdown() *)

ShutdownLock(c) ==
    /\ c = Owner
    /\ shutdowns < MaxShutdowns
    /\ cpc[c] = "idle"
    /\ mutex = None
    /\ mutex' = c
    /\ cpc' = [cpc EXCEPT ![c] = "shutdown"]
    /\ shutdowns' = shutdowns + 1
    /\ UNCHANGED <<queue, isShuttingDownTaskQueue, wpc, task, arg, joinable,
                   toJoin, drained, accepted, started, finished>>

\* Variant of ShutdownFlag: signal.notify_one() instead of notify_all().
ShutdownFlag_NotifyOne(c) ==
    /\ cpc[c] = "shutdown"
    /\ IF isShuttingDownTaskQueue
         THEN UNCHANGED <<isShuttingDownTaskQueue, wpc>>
         ELSE isShuttingDownTaskQueue' = TRUE /\ NotifyOne
    /\ mutex' = None
    /\ cpc' = [cpc EXCEPT ![c] = "joining"]
    /\ toJoin' = Workers
    /\ UNCHANGED <<queue, task, arg, joinable, shutdowns, drained, accepted,
                   started, finished>>

ShutdownFlag(c) ==
    /\ cpc[c] = "shutdown"
    /\ IF isShuttingDownTaskQueue
         THEN UNCHANGED <<isShuttingDownTaskQueue, wpc>>
         ELSE isShuttingDownTaskQueue' = TRUE /\ NotifyAll
    /\ mutex' = None
    /\ cpc' = [cpc EXCEPT ![c] = "joining"]
    /\ toJoin' = Workers
    /\ UNCHANGED <<queue, task, arg, joinable, shutdowns, drained, accepted,
                   started, finished>>

\* Variant of ShutdownJoin: the thread is detached instead of joined.
ShutdownJoin_Detached(c, w) ==
    /\ cpc[c] = "joining"
    /\ w \in toJoin \cap joinable
    /\ joinable' = joinable \ {w}
    /\ toJoin' = toJoin \ {w}
    /\ UNCHANGED <<mutex, queue, isShuttingDownTaskQueue, wpc, task, cpc, arg,
                   shutdowns, drained, accepted, started, finished>>

\* One turn of "for (auto &item: threads) item.join()": join returns when the
\* thread has ended.  The order of the loop decides nothing.
ShutdownJoin(c, w) ==
    /\ cpc[c] = "joining"
    /\ w \in toJoin \cap joinable
    /\ wpc[w] = "exited"
    /\ joinable' = joinable \ {w}
    /\ toJoin' = toJoin \ {w}
    /\ UNCHANGED <<mutex, queue, isShuttingDownTaskQueue, wpc, task, cpc, arg,
                   shutdowns, drained, accepted, started, finished>>

\* join of a thread that was joined before throws a std::system_error, which
\* nothing in shutdown catches: a second call of shutdown ends here.
ShutdownThrows(c) ==
    /\ cpc[c] = "joining"
    /\ toJoin \ joinable # {}
    /\ cpc' = [cpc EXCEPT ![c] = "threw"]
    /\ toJoin' = {}
    /\ UNCHANGED <<mutex, queue, isShuttingDownTaskQueue, wpc, task, arg,
                   joinable, shutdowns, drained, accepted, started, finished>>

ShutdownReturn(c) ==
    /\ cpc[c] = "joining"
    /\ toJoin = {}
    /\ cpc' = [cpc EXCEPT ![c] = "idle"]
    /\ drained' = TRUE
    /\ UNCHANGED <<mutex, queue, isShuttingDownTaskQueue, wpc, task, arg,
                   joinable, toJoin, shutdowns, accepted, started, finished>>

-------------------------------------------------------------------------------
(* dispatchTasks() *)

\* Entering the block that holds the lock, or waking up inside signal.wait.
WorkerLock(w) ==
    /\ wpc[w] = "loop"
    /\ mutex = None
    /\ mutex' = w
    /\ wpc' = [wpc EXCEPT ![w] = "locked"]
    /\ UNCHANGED <<queue, isShuttingDownTaskQueue, task, cpc, arg, joinable,
                   toJoin, shutdowns, drained, accepted, started, finished>>

WorkerWait(w) ==
    /\ wpc[w] = "locked"
    /\ ~isShuttingDownTaskQueue
    /\ queue = <<>>
    /\ mutex' = None
    /\ wpc' = [wpc EXCEPT ![w] = "waiting"]
    /\ UNCHANGED <<queue, isShuttingDownTaskQueue, task, cpc, arg, joinable,
                   toJoin, shutdowns, drained, accepted, started, finished>>

SpuriousWakeup(w) ==
    /\ wpc[w] = "waiting"
    /\ wpc' = [wpc EXCEPT ![w] = "loop"]
    /\ UNCHANGED <<mutex, queue, isShuttingDownTaskQueue, task, cpc, arg,
                   joinable, toJoin, shutdowns, drained, accepted, started,
                   finished>>

\* Variant of WorkerExit: the flag alone ends the loop, whatever is queued.
WorkerExit_Undrained(w) ==
    /\ wpc[w] = "locked"
    /\ isShuttingDownTaskQueue
    /\ mutex' = None
    /\ wpc' = [wpc EXCEPT ![w] = "exited"]
    /\ UNCHANGED <<queue, isShuttingDownTaskQueue, task, cpc, arg, joinable,
                   toJoin, shutdowns, drained, accepted, started, finished>>

\* The loop is left only when the queue is empty, so a worker drains the queue
\* before it ends.
WorkerExit(w) ==
    /\ wpc[w] = "locked"
    /\ isShuttingDownTaskQueue
    /\ queue = <<>>
    /\ mutex' = None
    /\ wpc' = [wpc EXCEPT ![w] = "exited"]
    /\ UNCHANGED <<queue, isShuttingDownTaskQueue, task, cpc, arg, joinable,
                   toJoin, shutdowns, drained, accepted, started, finished>>

\* Variants of WorkerTake: queue.pop() is forgotten; queue.back() is taken.
WorkerTake_NoPop(w) ==
    /\ wpc[w] = "locked"
    /\ queue # <<>>
    /\ task' = [task EXCEPT ![w] = Head(queue)]
    /\ started' = Append(started, Head(queue))
    /\ mutex' = None
    /\ wpc' = [wpc EXCEPT ![w] = "busy"]
    /\ UNCHANGED <<queue, isShuttingDownTaskQueue, cpc, arg, joinable, toJoin,
                   shutdowns, drained, accepted, finished>>

WorkerTake_Back(w) ==
    /\ wpc[w] = "locked"
    /\ queue # <<>>
    /\ task' = [task EXCEPT ![w] = Last(queue)]
    /\ queue' = Front(queue)
    /\ started' = Append(started, Last(queue))
    /\ mutex' = None
    /\ wpc' = [wpc EXCEPT ![w] = "busy"]
    /\ UNCHANGED <<isShuttingDownTaskQueue, cpc, arg, joinable, toJoin,
                   shutdowns, drained, accepted, finished>>

WorkerTake(w) ==
    /\ wpc[w] = "locked"
    /\ queue # <<>>
    /\ task' = [task EXCEPT ![w] = Head(queue)]
    /\ queue' = Tail(queue)
    /\ started' = Append(started, Head(queue))
    /\ mutex' = None
    /\ wpc' = [wpc EXCEPT ![w] = "busy"]
    /\ UNCHANGED <<isShuttingDownTaskQueue, cpc, arg, joinable, toJoin,
                   shutdowns, drained, accepted, finished>>

\* Variant of WorkerDone: the shared pointer is reset before the task is called.
WorkerDone_ResetFirst(w) ==
    /\ wpc[w] = "busy"
    /\ task' = [task EXCEPT ![w] = None]
    /\ finished' = finished \cup {task'[w]}
    /\ wpc' = [wpc EXCEPT ![w] = "loop"]
    /\ UNCHANGED <<mutex, queue, isShuttingDownTaskQueue, cpc, arg, joinable,
                   toJoin, shutdowns, drained, accepted, started>>

\* task->operator()() returns, or throws a std::exception that is logged; the
\* thread goes back to the top of its loop either way.
WorkerDone(w) ==
    /\ wpc[w] = "busy"
    /\ finished' = finished \cup {task[w]}
    /\ task' = [task EXCEPT ![w] = None]
    /\ wpc' = [wpc EXCEPT ![w] = "loop"]
    /\ UNCHANGED <<mutex, queue, isShuttingDownTaskQueue, cpc, arg, joinable,
                   toJoin, shutdowns, drained, accepted, started>>

-------------------------------------------------------------------------------
CallerStep(c) ==
    \/ \E t \in Tasks : RunLock(c, t)
    \/ RunEnqueue(c)
    \/ RunInline(c)
    \/ RunInlineDone(c)
    \/ ShutdownLock(c)
    \/ ShutdownFlag(c)
    \/ \E w \in Workers : ShutdownJoin(c, w)
    \/ ShutdownThrows(c)
    \/ ShutdownReturn(c)

WorkerStep(w) ==
    \/ WorkerLock(w)
    \/ WorkerWait(w)
    \/ SpuriousWakeup(w)
    \/ WorkerExit(w)
    \/ WorkerTake(w)
    \/ WorkerDone(w)

\* The pool is gone and nobody has a call left to make.
Terminated ==
    /\ drained
    /\ shutdowns = MaxShutdowns
    /\ Tasks \subseteq finished
    /\ \A c \in Callers : cpc[c] \in {"idle", "threw"}
    /\ UNCHANGED vars

Next ==
    \/ \E c \in Callers : CallerStep(c)
    \/ \E w \in Workers : WorkerStep(w)
    \/ Terminated

Spec == Init /\ [][Next]_vars

\* The operating system runs every thread that can run, and a thread that
\* waits for a mutex which is released again and again gets it in the end
\* (strong fairness: others, woken spuriously, may take the mutex in between).
\* Tasks end.  Nothing is assumed about when run and shutdown are called, nor
\* about spurious wakeups.
Fairness ==
    /\ \A w \in Workers :
          /\ SF_vars(WorkerLock(w))
          /\ WF_vars(WorkerWait(w) \/ WorkerExit(w) \/ WorkerTake(w))
          /\ WF_vars(WorkerDone(w))
    /\ \A c \in Callers :
          /\ WF_vars(RunEnqueue(c) \/ RunInline(c))
          /\ WF_vars(RunInlineDone(c))
          /\ WF_vars(ShutdownFlag(c))
          /\ WF_vars(\E w \in Workers : ShutdownJoin(c, w))
          /\ WF_vars(ShutdownThrows(c) \/ ShutdownReturn(c))

FairSpec == Spec /\ Fairness

-------------------------------------------------------------------------------
Holding(t) == {w \in Workers : task[w] = t}

\* Every variable keeps its type.
TypeOK ==
    /\ mutex \in Workers \cup Callers \cup {None}
    /\ queue \in Seq(Tasks)
    /\ isShuttingDownTaskQueue \in BOOLEAN
    /\ wpc \in [Workers -> WorkerPC]
    /\ task \in [Workers -> Tasks \cup {None}]
    /\ cpc \in [Callers -> CallerPC]
    /\ arg \in [Callers -> Tasks \cup {None}]
    /\ joinable \subseteq Workers
    /\ toJoin \subseteq Workers
    /\ shutdowns \in 0..MaxShutdowns
    /\ drained \in BOOLEAN
    /\ accepted \in Seq(Tasks)
    /\ started \in Seq(Tasks)
    /\ finished \subseteq Tasks

\* The pool begins its tasks in the order run accepted them, none skipped and
\* none taken twice (run pushes at the back, dispatchTasks pops the front).
InOrder == accepted = started \o queue

\* A task run accepted is, at any time, either in the queue, or with exactly one
\* worker, or over: workers racing for the front of the queue, spurious wakeups
\* and a shutdown in between neither lose a task nor run one twice.
RunOnce ==
    \A t \in ToSet(accepted) :
        LET queued == t \in ToSet(queue)
            over   == t \in finished
            with   == Holding(t)
        IN  \/ queued /\ ~over /\ with = {}
            \/ ~queued /\ over /\ with = {}
            \/ ~queued /\ ~over /\ \E w \in with : with = {w}

\* While a task is queued some worker is on its way to it: the notify_one of
\* run is never missed by all of them, and no worker sleeps through shutdown.
NoLostWakeup ==
    /\ queue # <<>> => \E w \in Workers : wpc[w] \notin {"waiting", "exited"}
    /\ isShuttingDownTaskQueue => Waiting = {}

\* Once a call of shutdown has returned, every task accepted before it is over,
\* nothing is queued and every worker has left dispatchTasks for good.
ShutdownDrains ==
    drained => /\ queue = <<>>
               /\ ToSet(accepted) \subseteq finished
               /\ \A w \in Workers : wpc[w] = "exited"

\* shutdown comes back to its caller (with the exception of a second call, or
\* with every thread joined) however many tasks are queued when it is called.
ShutdownEnds == (cpc[Owner] = "joining") ~> (cpc[Owner] # "joining")

\* What the contract sees of the executor.
Phase ==
    IF drained THEN "drained"
    ELSE IF isShuttingDownTaskQueue THEN "closing" ELSE "open"
Active == {task[w] : w \in Workers} \ {None}
Inline == {arg[c] : c \in {d \in Callers : cpc[d] = "inline"}}

Contract ==
    INSTANCE ExecutorContract WITH
        phase <- Phase, pending <- ToSet(queue), active <- Active,
        inline <- Inline, over <- finished

\* The executor is an implementation of its contract: safety and, under the
\* fairness above, that every accepted task is begun and ends.
ImplementsContract == Contract!CSpec
===============================================================================
