------------------------------- MODULE SafeQueue -------------------------------
(***************************************************************************)
(* SafeQueue<T> (Helpers/SafeQueue.hpp): a queue with a blocking dequeue.  *)
(* worldsave.cpp includes it; no code in the repository creates one, so    *)
(* the threads that use it are any number of producers and consumers and   *)
(* one that calls shutdown, as often as it likes.                          *)
(*                                                                         *)
(* A critical section is one action.  shutdown takes no lock: its two      *)
(* steps may come between dequeue's look at _shutdown and its wait, and    *)
(* anything may come between the two.                                      *)
(***************************************************************************)
EXTENDS Naturals, Sequences, SequencesExt, FiniteSets

CONSTANTS
    Consumers,  \* the threads that call dequeue
    Items,      \* the elements that are enqueued, each once
    None

ASSUME SafeQueueAssumption ==
    None \notin Consumers \cup Items /\ IsFiniteSet(Consumers)

VARIABLES
    m,          \* the consumer that holds the mutex, or None
    q,
    _shutdown,
    notifying,  \* shutdown has set the flag and not notified yet
    pc,         \* where each consumer is in dequeue
    enqueued,   \* history: the elements in the order they were enqueued
    got,        \* history: the elements dequeue returned, in that order
    undefined   \* front() and pop() were called on an empty queue

vars == <<m, q, _shutdown, notifying, pc, enqueued, got, undefined>>

Waiting == {c \in Consumers : pc[c] = "waiting"}

Init ==
    /\ m = None
    /\ q = <<>>
    /\ _shutdown = FALSE
    /\ notifying = FALSE
    /\ pc = [c \in Consumers |-> "idle"]
    /\ enqueued = <<>>
    /\ got = <<>>
    /\ undefined = FALSE

-------------------------------------------------------------------------------
NotifyOne ==
    IF Waiting = {}
      THEN UNCHANGED pc
      ELSE \E c \in Waiting : pc' = [pc EXCEPT ![c] = "entering"]

\* Variant of Enqueue: waiting consumers are told only of the first element.
Enqueue_IfEmpty(t) ==
    /\ m = None
    /\ t \notin ToSet(enqueued)
    /\ q' = Append(q, t)
    /\ enqueued' = Append(enqueued, t)
    /\ IF q = <<>> THEN NotifyOne ELSE UNCHANGED pc
    /\ UNCHANGED <<m, _shutdown, notifying, got, undefined>>

Enqueue(t) ==
    /\ m = None
    /\ t \notin ToSet(enqueued)
    /\ q' = Append(q, t)
    /\ enqueued' = Append(enqueued, t)
    /\ NotifyOne
    /\ UNCHANGED <<m, _shutdown, notifying, got, undefined>>

DequeueCall(c) ==
    /\ pc[c] = "idle"
    /\ pc' = [pc EXCEPT ![c] = "entering"]
    /\ UNCHANGED <<m, q, _shutdown, notifying, enqueued, got, undefined>>

\* The lock is taken, on entry or by the wait that ends, and the condition of
\* the loop is read.
DequeueLook(c) ==
    /\ pc[c] = "entering"
    /\ m = None
    /\ m' = c
    /\ pc' = [pc EXCEPT ![c] = IF ~_shutdown /\ q = <<>> THEN "blocking" ELSE "taking"]
    /\ UNCHANGED <<q, _shutdown, notifying, enqueued, got, undefined>>

\* Variant of DequeueWait: the lock is kept, as by a sleep instead of a wait.
DequeueWait_KeepLock(c) ==
    /\ pc[c] = "blocking"
    /\ pc' = [pc EXCEPT ![c] = "waiting"]
    /\ UNCHANGED <<m, q, _shutdown, notifying, enqueued, got, undefined>>

DequeueWait(c) ==
    /\ pc[c] = "blocking"
    /\ m' = None
    /\ pc' = [pc EXCEPT ![c] = "waiting"]
    /\ UNCHANGED <<q, _shutdown, notifying, enqueued, got, undefined>>

SpuriousWakeup(c) ==
    /\ pc[c] = "waiting"
    /\ pc' = [pc EXCEPT ![c] = "entering"]
    /\ UNCHANGED <<m, q, _shutdown, notifying, enqueued, got, undefined>>

\* Variant of DequeueTake: the element is copied and not popped.
DequeueTake_NoPop(c) ==
    /\ pc[c] = "taking"
    /\ q # <<>>
    /\ got' = Append(got, Head(q))
    /\ m' = None
    /\ pc' = [pc EXCEPT ![c] = "idle"]
    /\ UNCHANGED <<q, _shutdown, notifying, enqueued, undefined>>

DequeueTake(c) ==
    /\ pc[c] = "taking"
    /\ q # <<>>
    /\ got' = Append(got, Head(q))
    /\ q' = Tail(q)
    /\ m' = None
    /\ pc' = [pc EXCEPT ![c] = "idle"]
    /\ UNCHANGED <<_shutdown, notifying, enqueued, undefined>>

\* front() and pop() of an empty std::queue: nothing is known of what follows,
\* and nothing follows here.
DequeueEmpty(c) ==
    /\ pc[c] = "taking"
    /\ q = <<>>
    /\ undefined' = TRUE
    /\ UNCHANGED <<m, q, _shutdown, notifying, pc, enqueued, got>>

ShutdownFlag ==
    /\ ~notifying
    /\ _shutdown' = TRUE
    /\ notifying' = TRUE
    /\ UNCHANGED <<m, q, pc, enqueued, got, undefined>>

ShutdownNotify ==
    /\ notifying
    /\ NotifyOne
    /\ notifying' = FALSE
    /\ UNCHANGED <<m, q, _shutdown, enqueued, got, undefined>>

Step ==
    \/ \E t \in Items : Enqueue(t)
    \/ \E c \in Consumers :
          \/ DequeueCall(c) \/ DequeueLook(c) \/ DequeueWait(c)
          \/ SpuriousWakeup(c) \/ DequeueTake(c) \/ DequeueEmpty(c)
    \/ ShutdownFlag \/ ShutdownNotify

Next == ~undefined /\ Step

Spec == Init /\ [][Next]_vars

-------------------------------------------------------------------------------
\* Every variable keeps its type, and the mutex belongs to the consumer that is
\* in its critical section.
TypeOK ==
    /\ m \in Consumers \cup {None}
    /\ q \in Seq(Items) /\ enqueued \in Seq(Items) /\ got \in Seq(Items)
    /\ {_shutdown, notifying, undefined} \subseteq BOOLEAN
    /\ pc \in [Consumers -> {"idle", "entering", "blocking", "waiting", "taking"}]
    /\ \A c \in Consumers : pc[c] \in {"blocking", "taking"} <=> m = c

\* Elements come out in the order they went in, each once, none lost, with
\* consumers racing for them.
FirstInFirstOut == enqueued = got \o q

\* No element is stranded while a consumer sleeps: for every queued element some
\* other consumer is awake in dequeue (one notify_one per element is enough,
\* although a third consumer may take it before the one that was woken).
NothingStranded ==
    Waiting # {} =>
        Cardinality({c \in Consumers : pc[c] \in {"entering", "taking"}}) >= Len(q)

\* "Get the "front"-element. If the queue is empty, wait till a element is
\* avaiable." (SafeQueue.hpp:34): dequeue never takes from an empty queue.
DequeueHasElement == ~undefined
===============================================================================
