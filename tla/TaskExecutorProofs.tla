------------------------- MODULE TaskExecutorProofs -------------------------
(***************************************************************************)
(* Proofs about TaskExecutor, for any number of workers, callers, tasks    *)
(* and shutdown calls: types, order, exactly-once execution, no lost       *)
(* wakeup, drained shutdown, and that it implements ExecutorContract.      *)
(***************************************************************************)
EXTENDS TaskExecutor, FiniteSetTheorems, SequenceTheorems, TLAPS

\* What a thread's program counter says of its own variables.
LocalInv ==
    /\ \A c \in Callers : cpc[c] \in {"run", "inline"} <=> arg[c] # None
    /\ \A w \in Workers : wpc[w] = "busy" <=> task[w] # None
    /\ \A c \in Callers : cpc[c] \in {"shutdown", "joining", "threw"} => c = Owner

\* A notification moves waiting workers back to their loop and nobody else.
Woken ==
    /\ wpc' \in [Workers -> WorkerPC]
    /\ \A w \in Workers : wpc'[w] # wpc[w] => wpc[w] = "waiting" /\ wpc'[w] = "loop"

LEMMA Notified ==
    ASSUME TypeOK, NotifyOne
    PROVE  /\ Woken
           /\ Waiting # {} => \E w \in Workers : wpc'[w] = "loop"
<1>1. CASE Waiting = {}
  BY <1>1 DEF NotifyOne, Woken, TypeOK
<1>2. CASE Waiting # {}
  <2>1. PICK w \in Waiting : wpc' = [wpc EXCEPT ![w] = "loop"]
    BY <1>2 DEF NotifyOne
  <2>2. QED
    BY <2>1 DEF Waiting, Woken, TypeOK, WorkerPC
<1>3. QED
  BY <1>1, <1>2

\* After ShutdownFlag the flag is set and it has woken every waiting worker.
LEMMA Flagged ==
    ASSUME TypeOK, NEW c \in Callers, ShutdownFlag(c)
    PROVE  /\ Woken
           /\ isShuttingDownTaskQueue' = TRUE
           /\ ~isShuttingDownTaskQueue => \A w \in Workers : wpc'[w] # "waiting"
           /\ isShuttingDownTaskQueue => wpc' = wpc
<1>1. CASE isShuttingDownTaskQueue
  <2>1. isShuttingDownTaskQueue' = isShuttingDownTaskQueue /\ wpc' = wpc
    BY <1>1 DEF ShutdownFlag
  <2>2. QED
    BY <1>1, <2>1 DEF Woken, TypeOK
<1>2. CASE ~isShuttingDownTaskQueue
  <2>1. isShuttingDownTaskQueue' = TRUE /\ NotifyAll
    BY <1>2 DEF ShutdownFlag
  <2>2. QED
    BY <1>2, <2>1 DEF NotifyAll, Waiting, Woken, TypeOK, WorkerPC
<1>3. QED
  BY <1>1, <1>2

\* Initially every variable has its type and no thread holds a task.
LEMMA LocalInit == Init => TypeOK /\ LocalInv
<1> SUFFICES ASSUME Init
             PROVE  TypeOK /\ LocalInv
  OBVIOUS
<1> USE ExecutorAssumption DEF Init
<1>1. queue \in Seq(Tasks) /\ accepted \in Seq(Tasks) /\ started \in Seq(Tasks)
  OBVIOUS
<1>2. shutdowns \in 0..MaxShutdowns
  OBVIOUS
<1>3. wpc \in [Workers -> WorkerPC] /\ cpc \in [Callers -> CallerPC]
  BY DEF WorkerPC, CallerPC
<1>4. /\ task \in [Workers -> Tasks \cup {None}]
      /\ arg \in [Callers -> Tasks \cup {None}]
  OBVIOUS
<1>5. LocalInv
  BY DEF LocalInv
<1>6. QED
  BY <1>1, <1>2, <1>3, <1>4, <1>5 DEF TypeOK

\* Every action keeps the types and the tie between a thread's program
\* counter and the task it holds.
LEMMA LocalStep == TypeOK /\ LocalInv /\ [Next]_vars => (TypeOK /\ LocalInv)'
<1> SUFFICES ASSUME TypeOK, LocalInv, [Next]_vars
             PROVE  (TypeOK /\ LocalInv)'
  OBVIOUS
<1> USE ExecutorAssumption
<1>1. ASSUME NEW c \in Callers, NEW t \in Tasks, RunLock(c, t)
      PROVE  (TypeOK /\ LocalInv)'
  BY <1>1 DEF RunLock, TypeOK, LocalInv, WorkerPC, CallerPC
<1>2. ASSUME NEW c \in Callers, RunEnqueue(c)
      PROVE  (TypeOK /\ LocalInv)'
  BY <1>2, Notified DEF Woken, RunEnqueue, TypeOK, LocalInv, WorkerPC, CallerPC
<1>3. ASSUME NEW c \in Callers, RunInline(c)
      PROVE  (TypeOK /\ LocalInv)'
  BY <1>3 DEF RunInline, TypeOK, LocalInv, WorkerPC, CallerPC
<1>4. ASSUME NEW c \in Callers, RunInlineDone(c)
      PROVE  (TypeOK /\ LocalInv)'
  BY <1>4 DEF RunInlineDone, TypeOK, LocalInv, WorkerPC, CallerPC
<1>5. ASSUME NEW c \in Callers, ShutdownLock(c)
      PROVE  (TypeOK /\ LocalInv)'
  BY <1>5 DEF ShutdownLock, TypeOK, LocalInv, WorkerPC, CallerPC
<1>6. ASSUME NEW c \in Callers, ShutdownFlag(c)
      PROVE  (TypeOK /\ LocalInv)'
  BY <1>6, Flagged DEF Woken, ShutdownFlag, TypeOK, LocalInv, WorkerPC, CallerPC
<1>7. ASSUME NEW c \in Callers, NEW w \in Workers, ShutdownJoin(c, w)
      PROVE  (TypeOK /\ LocalInv)'
  BY <1>7 DEF ShutdownJoin, TypeOK, LocalInv, WorkerPC, CallerPC
<1>8. ASSUME NEW c \in Callers, ShutdownThrows(c)
      PROVE  (TypeOK /\ LocalInv)'
  BY <1>8 DEF ShutdownThrows, TypeOK, LocalInv, WorkerPC, CallerPC
<1>9. ASSUME NEW c \in Callers, ShutdownReturn(c)
      PROVE  (TypeOK /\ LocalInv)'
  BY <1>9 DEF ShutdownReturn, TypeOK, LocalInv, WorkerPC, CallerPC
<1>10. ASSUME NEW w \in Workers, WorkerLock(w)
      PROVE  (TypeOK /\ LocalInv)'
  BY <1>10 DEF WorkerLock, TypeOK, LocalInv, WorkerPC, CallerPC
<1>11. ASSUME NEW w \in Workers, WorkerWait(w)
      PROVE  (TypeOK /\ LocalInv)'
  BY <1>11 DEF WorkerWait, TypeOK, LocalInv, WorkerPC, CallerPC
<1>12. ASSUME NEW w \in Workers, SpuriousWakeup(w)
      PROVE  (TypeOK /\ LocalInv)'
  BY <1>12 DEF SpuriousWakeup, TypeOK, LocalInv, WorkerPC, CallerPC
<1>13. ASSUME NEW w \in Workers, WorkerExit(w)
      PROVE  (TypeOK /\ LocalInv)'
  BY <1>13 DEF WorkerExit, TypeOK, LocalInv, WorkerPC, CallerPC
<1>14. ASSUME NEW w \in Workers, WorkerTake(w)
      PROVE  (TypeOK /\ LocalInv)'
  BY <1>14 DEF WorkerTake, TypeOK, LocalInv, WorkerPC, CallerPC
<1>15. ASSUME NEW w \in Workers, WorkerDone(w)
      PROVE  (TypeOK /\ LocalInv)'
  BY <1>15 DEF WorkerDone, TypeOK, LocalInv, WorkerPC, CallerPC
<1>16. CASE UNCHANGED vars
  BY <1>16 DEF TypeOK, LocalInv, WorkerPC, CallerPC, vars
<1>17. QED
  BY <1>1, <1>2, <1>3, <1>4, <1>5, <1>6, <1>7, <1>8, <1>9, <1>10, <1>11, <1>12, <1>13, <1>14, <1>15, <1>16 DEF Next, CallerStep, WorkerStep, Terminated

-------------------------------------------------------------------------------
\* The mutex belongs to the thread that is inside a critical section.
LockInv ==
    /\ \A w \in Workers : wpc[w] = "locked" <=> mutex = w
    /\ \A c \in Callers : cpc[c] \in {"run", "inline", "shutdown"} <=> mutex = c

\* Initially nobody holds the mutex.
LEMMA LockInit == Init => LockInv
  BY ExecutorAssumption DEF Init, LockInv

\* Every action keeps mutual exclusion: lock_guard and unique_lock take the
\* mutex only when it is free and give it back on every way out.
LEMMA LockStep == TypeOK /\ LocalInv /\ LockInv /\ [Next]_vars => LockInv'
<1> SUFFICES ASSUME TypeOK, LocalInv, LockInv, [Next]_vars
             PROVE  LockInv'
  OBVIOUS
<1> USE ExecutorAssumption
<1>1. ASSUME NEW c \in Callers, NEW t \in Tasks, RunLock(c, t)
      PROVE  LockInv'
  BY <1>1 DEF RunLock, TypeOK, LockInv
<1>2. ASSUME NEW c \in Callers, RunEnqueue(c)
      PROVE  LockInv'
  BY <1>2, Notified DEF Woken, RunEnqueue, TypeOK, LockInv
<1>3. ASSUME NEW c \in Callers, RunInline(c)
      PROVE  LockInv'
  BY <1>3 DEF RunInline, TypeOK, LockInv
<1>4. ASSUME NEW c \in Callers, RunInlineDone(c)
      PROVE  LockInv'
  BY <1>4 DEF RunInlineDone, TypeOK, LockInv
<1>5. ASSUME NEW c \in Callers, ShutdownLock(c)
      PROVE  LockInv'
  BY <1>5 DEF ShutdownLock, TypeOK, LockInv
<1>6. ASSUME NEW c \in Callers, ShutdownFlag(c)
      PROVE  LockInv'
  BY <1>6, Flagged DEF Woken, ShutdownFlag, TypeOK, LockInv
<1>7. ASSUME NEW c \in Callers, NEW w \in Workers, ShutdownJoin(c, w)
      PROVE  LockInv'
  BY <1>7 DEF ShutdownJoin, TypeOK, LockInv
<1>8. ASSUME NEW c \in Callers, ShutdownThrows(c)
      PROVE  LockInv'
  BY <1>8 DEF ShutdownThrows, TypeOK, LockInv
<1>9. ASSUME NEW c \in Callers, ShutdownReturn(c)
      PROVE  LockInv'
  BY <1>9 DEF ShutdownReturn, TypeOK, LockInv
<1>10. ASSUME NEW w \in Workers, WorkerLock(w)
      PROVE  LockInv'
  BY <1>10 DEF WorkerLock, TypeOK, LockInv
<1>11. ASSUME NEW w \in Workers, WorkerWait(w)
      PROVE  LockInv'
  BY <1>11 DEF WorkerWait, TypeOK, LockInv
<1>12. ASSUME NEW w \in Workers, SpuriousWakeup(w)
      PROVE  LockInv'
  BY <1>12 DEF SpuriousWakeup, TypeOK, LockInv
<1>13. ASSUME NEW w \in Workers, WorkerExit(w)
      PROVE  LockInv'
  BY <1>13 DEF WorkerExit, TypeOK, LockInv
<1>14. ASSUME NEW w \in Workers, WorkerTake(w)
      PROVE  LockInv'
  BY <1>14 DEF WorkerTake, TypeOK, LockInv
<1>15. ASSUME NEW w \in Workers, WorkerDone(w)
      PROVE  LockInv'
  BY <1>15 DEF WorkerDone, TypeOK, LockInv
<1>16. CASE UNCHANGED vars
  BY <1>16 DEF TypeOK, LockInv, vars
<1>17. QED
  BY <1>1, <1>2, <1>3, <1>4, <1>5, <1>6, <1>7, <1>8, <1>9, <1>10, <1>11, <1>12, <1>13, <1>14, <1>15, <1>16 DEF Next, CallerStep, WorkerStep, Terminated

-------------------------------------------------------------------------------
\* What the flag and the end of a worker say of the queue and of the others.
WakeInv ==
    /\ NoLostWakeup
    /\ \A w \in Workers : wpc[w] = "exited" => isShuttingDownTaskQueue /\ queue = <<>>
    /\ \A c \in Callers : cpc[c] \in {"inline", "joining"} => isShuttingDownTaskQueue

\* Initially the queue is empty and every worker is at the top of its loop.
LEMMA WakeInit == Init => WakeInv
  BY ExecutorAssumption DEF Init, WakeInv, NoLostWakeup, Waiting

\* A push is followed by notify_one, the flag by notify_all, and a worker
\* blocks or ends only when it has seen the queue empty under the mutex.
LEMMA WakeStep == TypeOK /\ WakeInv /\ [Next]_vars => WakeInv'
<1> SUFFICES ASSUME TypeOK, WakeInv, [Next]_vars
             PROVE  WakeInv'
  OBVIOUS
<1> USE ExecutorAssumption DEF WakeInv, NoLostWakeup, Waiting
<1>1. ASSUME NEW c \in Callers, NEW t \in Tasks, RunLock(c, t)
      PROVE  WakeInv'
  BY <1>1 DEF RunLock, TypeOK
<1>2. ASSUME NEW c \in Callers, RunEnqueue(c)
      PROVE  WakeInv'
  <2>1. ~isShuttingDownTaskQueue /\ ~isShuttingDownTaskQueue'
    BY <1>2 DEF RunEnqueue, TypeOK
  <2>2. \A w \in Workers : wpc[w] # "exited" /\ wpc'[w] # "exited"
    BY <1>2, <2>1, Notified DEF RunEnqueue, Woken
  <2>3. \E w \in Workers : wpc'[w] # "waiting"
    <3>1. CASE Waiting = {}
      BY <1>2, <3>1, Notified DEF RunEnqueue, Woken
    <3>2. CASE Waiting # {}
      BY <1>2, <3>2, Notified DEF RunEnqueue
    <3>3. QED
      BY <3>1, <3>2
  <2>4. QED
    BY <1>2, <2>1, <2>2, <2>3 DEF RunEnqueue, TypeOK
<1>3. ASSUME NEW c \in Callers, RunInline(c)
      PROVE  WakeInv'
  BY <1>3 DEF RunInline, TypeOK
<1>4. ASSUME NEW c \in Callers, RunInlineDone(c)
      PROVE  WakeInv'
  BY <1>4 DEF RunInlineDone, TypeOK
<1>5. ASSUME NEW c \in Callers, ShutdownLock(c)
      PROVE  WakeInv'
  BY <1>5 DEF ShutdownLock, TypeOK
<1>6. ASSUME NEW c \in Callers, ShutdownFlag(c)
      PROVE  WakeInv'
  <2>1. \A w \in Workers : wpc'[w] # "waiting"
    BY <1>6, Flagged
  <2>2. \A w \in Workers : wpc'[w] = "exited" <=> wpc[w] = "exited"
    BY <1>6, Flagged DEF Woken
  <2>3. isShuttingDownTaskQueue' /\ queue' = queue
    BY <1>6, Flagged DEF ShutdownFlag
  <2>4. QED
    BY <1>6, <2>1, <2>2, <2>3 DEF ShutdownFlag, TypeOK
<1>7. ASSUME NEW c \in Callers, NEW w \in Workers, ShutdownJoin(c, w)
      PROVE  WakeInv'
  BY <1>7 DEF ShutdownJoin, TypeOK
<1>8. ASSUME NEW c \in Callers, ShutdownThrows(c)
      PROVE  WakeInv'
  BY <1>8 DEF ShutdownThrows, TypeOK
<1>9. ASSUME NEW c \in Callers, ShutdownReturn(c)
      PROVE  WakeInv'
  BY <1>9 DEF ShutdownReturn, TypeOK
<1>10. ASSUME NEW w \in Workers, WorkerLock(w)
      PROVE  WakeInv'
  BY <1>10 DEF WorkerLock, TypeOK
<1>11. ASSUME NEW w \in Workers, WorkerWait(w)
      PROVE  WakeInv'
  BY <1>11 DEF WorkerWait, TypeOK
<1>12. ASSUME NEW w \in Workers, SpuriousWakeup(w)
      PROVE  WakeInv'
  BY <1>12 DEF SpuriousWakeup, TypeOK
<1>13. ASSUME NEW w \in Workers, WorkerExit(w)
      PROVE  WakeInv'
  BY <1>13 DEF WorkerExit, TypeOK
<1>14. ASSUME NEW w \in Workers, WorkerTake(w)
      PROVE  WakeInv'
  BY <1>14 DEF WorkerTake, TypeOK
<1>15. ASSUME NEW w \in Workers, WorkerDone(w)
      PROVE  WakeInv'
  BY <1>15 DEF WorkerDone, TypeOK
<1>16. CASE UNCHANGED vars
  BY <1>16 DEF TypeOK, vars
<1>17. QED
  BY <1>1, <1>2, <1>3, <1>4, <1>5, <1>6, <1>7, <1>8, <1>9, <1>10, <1>11, <1>12, <1>13, <1>14, <1>15, <1>16 DEF Next, CallerStep, WorkerStep, Terminated

-------------------------------------------------------------------------------
\* A thread shutdown has joined, or need not join any more, has ended.
JoinInv ==
    /\ \A w \in Workers \ joinable : wpc[w] = "exited"
    /\ cpc[Owner] = "joining" => \A w \in Workers \ toJoin : wpc[w] = "exited"
    /\ drained => \A w \in Workers : wpc[w] = "exited"

\* Initially no worker has been joined.
LEMMA JoinInit == Init => JoinInv
  BY ExecutorAssumption DEF Init, JoinInv

\* join returns only for a worker that has ended, and shutdown returns only
\* when the loop over all of threads is done.
LEMMA JoinStep == TypeOK /\ LocalInv /\ JoinInv /\ [Next]_vars => JoinInv'
<1> SUFFICES ASSUME TypeOK, LocalInv, JoinInv, [Next]_vars
             PROVE  JoinInv'
  OBVIOUS
<1> USE ExecutorAssumption DEF JoinInv
<1>1. ASSUME NEW c \in Callers, NEW t \in Tasks, RunLock(c, t)
      PROVE  JoinInv'
  BY <1>1 DEF RunLock, TypeOK, LocalInv
<1>2. ASSUME NEW c \in Callers, RunEnqueue(c)
      PROVE  JoinInv'
  BY <1>2, Notified DEF Woken, RunEnqueue, TypeOK
<1>3. ASSUME NEW c \in Callers, RunInline(c)
      PROVE  JoinInv'
  BY <1>3 DEF RunInline, TypeOK, LocalInv
<1>4. ASSUME NEW c \in Callers, RunInlineDone(c)
      PROVE  JoinInv'
  BY <1>4 DEF RunInlineDone, TypeOK, LocalInv
<1>5. ASSUME NEW c \in Callers, ShutdownLock(c)
      PROVE  JoinInv'
  BY <1>5 DEF ShutdownLock, TypeOK, LocalInv
<1>6. ASSUME NEW c \in Callers, ShutdownFlag(c)
      PROVE  JoinInv'
  BY <1>6, Flagged DEF Woken, ShutdownFlag, TypeOK, LocalInv
<1>7. ASSUME NEW c \in Callers, NEW w \in Workers, ShutdownJoin(c, w)
      PROVE  JoinInv'
  BY <1>7 DEF ShutdownJoin, TypeOK, LocalInv
<1>8. ASSUME NEW c \in Callers, ShutdownThrows(c)
      PROVE  JoinInv'
  BY <1>8 DEF ShutdownThrows, TypeOK, LocalInv
<1>9. ASSUME NEW c \in Callers, ShutdownReturn(c)
      PROVE  JoinInv'
  BY <1>9 DEF ShutdownReturn, TypeOK, LocalInv
<1>10. ASSUME NEW w \in Workers, WorkerLock(w)
      PROVE  JoinInv'
  BY <1>10 DEF WorkerLock, TypeOK, LocalInv
<1>11. ASSUME NEW w \in Workers, WorkerWait(w)
      PROVE  JoinInv'
  BY <1>11 DEF WorkerWait, TypeOK, LocalInv
<1>12. ASSUME NEW w \in Workers, SpuriousWakeup(w)
      PROVE  JoinInv'
  BY <1>12 DEF SpuriousWakeup, TypeOK, LocalInv
<1>13. ASSUME NEW w \in Workers, WorkerExit(w)
      PROVE  JoinInv'
  BY <1>13 DEF WorkerExit, TypeOK, LocalInv
<1>14. ASSUME NEW w \in Workers, WorkerTake(w)
      PROVE  JoinInv'
  BY <1>14 DEF WorkerTake, TypeOK, LocalInv
<1>15. ASSUME NEW w \in Workers, WorkerDone(w)
      PROVE  JoinInv'
  BY <1>15 DEF WorkerDone, TypeOK, LocalInv
<1>16. CASE UNCHANGED vars
  BY <1>16 DEF TypeOK, LocalInv, vars
<1>17. QED
  BY <1>1, <1>2, <1>3, <1>4, <1>5, <1>6, <1>7, <1>8, <1>9, <1>10, <1>11, <1>12, <1>13, <1>14, <1>15, <1>16 DEF Next, CallerStep, WorkerStep, Terminated

-------------------------------------------------------------------------------
(* Facts about sequences.                                                    *)

\* Append adds one element to the set of a sequence's elements.
LEMMA ToSetAppend ==
    ASSUME NEW S, NEW s \in Seq(S), NEW e \in S
    PROVE  ToSet(Append(s, e)) = ToSet(s) \cup {e}
<1>1. DOMAIN Append(s, e) = 1..(Len(s) + 1) /\ DOMAIN s = 1..Len(s)
  OBVIOUS
<1>2. \A i \in 1..Len(s) : Append(s, e)[i] = s[i]
  OBVIOUS
<1>3. Append(s, e)[Len(s) + 1] = e
  OBVIOUS
<1>4. 1..(Len(s) + 1) = (1..Len(s)) \cup {Len(s) + 1}
  OBVIOUS
<1>5. QED
  BY <1>1, <1>2, <1>3, <1>4 DEF ToSet

\* The elements of a concatenation are those of its two parts.
LEMMA ToSetConcat ==
    ASSUME NEW S, NEW s \in Seq(S), NEW u \in Seq(S)
    PROVE  ToSet(s \o u) = ToSet(s) \cup ToSet(u)
<1>1. /\ DOMAIN (s \o u) = 1..(Len(s) + Len(u))
      /\ DOMAIN s = 1..Len(s)
      /\ DOMAIN u = 1..Len(u)
  OBVIOUS
<1>2. \A i \in 1..Len(s) : (s \o u)[i] = s[i]
  OBVIOUS
<1>3. \A i \in 1..Len(u) : (s \o u)[Len(s) + i] = u[i]
  OBVIOUS
<1>4. ToSet(s \o u) \subseteq ToSet(s) \cup ToSet(u)
  <2>1. SUFFICES ASSUME NEW k \in 1..(Len(s) + Len(u))
                 PROVE  (s \o u)[k] \in ToSet(s) \cup ToSet(u)
    BY <1>1 DEF ToSet
  <2>2. CASE k \in 1..Len(s)
    BY <1>1, <1>2, <2>2 DEF ToSet
  <2>3. CASE k \notin 1..Len(s)
    <3>1. k - Len(s) \in 1..Len(u) /\ k = Len(s) + (k - Len(s))
      BY <2>3
    <3>2. QED
      BY <1>1, <1>3, <3>1 DEF ToSet
  <2>4. QED
    BY <2>2, <2>3
<1>5. ToSet(s) \subseteq ToSet(s \o u)
  <2>1. 1..Len(s) \subseteq 1..(Len(s) + Len(u))
    OBVIOUS
  <2>2. QED
    BY <1>1, <1>2, <2>1 DEF ToSet
<1>6. ToSet(u) \subseteq ToSet(s \o u)
  <2>1. \A i \in 1..Len(u) : Len(s) + i \in 1..(Len(s) + Len(u))
    OBVIOUS
  <2>2. QED
    BY <1>1, <1>3, <2>1 DEF ToSet
<1>7. QED
  BY <1>4, <1>5, <1>6

\* A sequence without repetition.
Distinct(s) == \A i, j \in 1..Len(s) : s[i] = s[j] => i = j

\* front() and pop(): the first element and the rest.
LEMMA TakeFirst ==
    ASSUME NEW S, NEW s \in Seq(S), s # <<>>
    PROVE  /\ Head(s) \in S /\ Tail(s) \in Seq(S)
           /\ ToSet(s) = {Head(s)} \cup ToSet(Tail(s))
           /\ Distinct(s) => Head(s) \notin ToSet(Tail(s)) /\ Distinct(Tail(s))
<1>1. /\ Tail(s) \in Seq(S) /\ Len(Tail(s)) = Len(s) - 1 /\ Len(s) >= 1
      /\ Head(s) = s[1] /\ Head(s) \in S
      /\ DOMAIN s = 1..Len(s) /\ DOMAIN Tail(s) = 1..(Len(s) - 1)
  BY EmptySeq
<1>2. \A i \in 1..(Len(s) - 1) : Tail(s)[i] = s[i + 1]
  BY <1>1
<1>3. \A i \in 1..(Len(s) - 1) : i + 1 \in 1..Len(s) /\ i + 1 # 1
  BY <1>1
<1>4. \A k \in 1..Len(s) : k = 1 \/ (k - 1 \in 1..(Len(s) - 1) /\ k = (k - 1) + 1)
  BY <1>1
<1>5. ToSet(s) = {Head(s)} \cup ToSet(Tail(s))
  <2>1. ToSet(s) \subseteq {Head(s)} \cup ToSet(Tail(s))
    <3>1. SUFFICES ASSUME NEW k \in 1..Len(s)
                   PROVE  s[k] \in {Head(s)} \cup ToSet(Tail(s))
      BY <1>1 DEF ToSet
    <3>2. CASE k = 1
      BY <1>1, <3>2
    <3>3. CASE k # 1
      <4>1. k - 1 \in DOMAIN Tail(s) /\ Tail(s)[k - 1] = s[k]
        BY <1>1, <1>2, <1>4, <3>3
      <4>2. QED
        BY <4>1 DEF ToSet
    <3>4. QED
      BY <3>2, <3>3
  <2>2. Head(s) \in ToSet(s)
    BY <1>1 DEF ToSet
  <2>3. ToSet(Tail(s)) \subseteq ToSet(s)
    BY <1>1, <1>2, <1>3 DEF ToSet
  <2>4. QED
    BY <2>1, <2>2, <2>3
<1>6. ASSUME Distinct(s)
      PROVE  Head(s) \notin ToSet(Tail(s))
  BY <1>1, <1>2, <1>3, <1>6 DEF ToSet, Distinct
<1>7. ASSUME Distinct(s)
      PROVE  Distinct(Tail(s))
  BY <1>1, <1>2, <1>3, <1>7 DEF Distinct
<1>8. QED
  BY <1>1, <1>5, <1>6, <1>7

\* Appending a new element to a sequence without repetition adds none.
LEMMA DistinctAppend ==
    ASSUME NEW S, NEW s \in Seq(S), NEW e \in S, Distinct(s), e \notin ToSet(s)
    PROVE  Distinct(Append(s, e))
<1>1. Len(Append(s, e)) = Len(s) + 1
  OBVIOUS
<1>2. \A i \in 1..Len(s) : Append(s, e)[i] = s[i] /\ s[i] # e
  BY DEF ToSet
<1>3. Append(s, e)[Len(s) + 1] = e
  OBVIOUS
<1>4. \A i \in 1..(Len(s) + 1) : i \in 1..Len(s) \/ i = Len(s) + 1
  OBVIOUS
<1>5. QED
  BY <1>1, <1>2, <1>3, <1>4 DEF Distinct

-------------------------------------------------------------------------------
(* The order of the tasks.                                                   *)

\* Initially nothing was accepted, started or queued.
LEMMA OrderInit == Init => InOrder
<1> SUFFICES ASSUME Init PROVE InOrder
  OBVIOUS
<1>1. accepted = <<>> /\ started = <<>> /\ queue = <<>>
  BY DEF Init
<1>2. <<>> \o <<>> = <<>>
  BY ConcatEmptySeq, EmptySeq
<1>3. QED
  BY <1>1, <1>2 DEF InOrder

\* run appends to queue and accepted alike, WorkerTake moves the first queued
\* task to the end of started: the concatenation is unchanged.
LEMMA OrderStep == TypeOK /\ LocalInv /\ InOrder /\ [Next]_vars => InOrder'
<1> SUFFICES ASSUME TypeOK, LocalInv, InOrder, [Next]_vars
             PROVE  InOrder'
  OBVIOUS
<1> USE ExecutorAssumption DEF InOrder
<1>1. ASSUME NEW c \in Callers, NEW t \in Tasks, RunLock(c, t)
      PROVE  InOrder'
  BY <1>1 DEF RunLock
<1>2. ASSUME NEW c \in Callers, RunEnqueue(c)
      PROVE  InOrder'
  <2>1. arg[c] \in Tasks /\ queue \in Seq(Tasks) /\ started \in Seq(Tasks)
    BY <1>2 DEF RunEnqueue, TypeOK, LocalInv
  <2>2. Append(started \o queue, arg[c]) = started \o Append(queue, arg[c])
    <3>1. <<arg[c]>> \in Seq(Tasks) /\ started \o queue \in Seq(Tasks)
      BY <2>1
    <3>2. (started \o queue) \o <<arg[c]>> = started \o (queue \o <<arg[c]>>)
      BY <2>1, <3>1, ConcatAssociative
    <3>3. QED
      BY <2>1, <3>1, <3>2, AppendIsConcat
  <2>3. QED
    BY <1>2, <2>2 DEF RunEnqueue
<1>3. ASSUME NEW c \in Callers, RunInline(c)
      PROVE  InOrder'
  BY <1>3 DEF RunInline
<1>4. ASSUME NEW c \in Callers, RunInlineDone(c)
      PROVE  InOrder'
  BY <1>4 DEF RunInlineDone
<1>5. ASSUME NEW c \in Callers, ShutdownLock(c)
      PROVE  InOrder'
  BY <1>5 DEF ShutdownLock
<1>6. ASSUME NEW c \in Callers, ShutdownFlag(c)
      PROVE  InOrder'
  BY <1>6 DEF ShutdownFlag
<1>7. ASSUME NEW c \in Callers, NEW w \in Workers, ShutdownJoin(c, w)
      PROVE  InOrder'
  BY <1>7 DEF ShutdownJoin
<1>8. ASSUME NEW c \in Callers, ShutdownThrows(c)
      PROVE  InOrder'
  BY <1>8 DEF ShutdownThrows
<1>9. ASSUME NEW c \in Callers, ShutdownReturn(c)
      PROVE  InOrder'
  BY <1>9 DEF ShutdownReturn
<1>10. ASSUME NEW w \in Workers, WorkerLock(w)
      PROVE  InOrder'
  BY <1>10 DEF WorkerLock
<1>11. ASSUME NEW w \in Workers, WorkerWait(w)
      PROVE  InOrder'
  BY <1>11 DEF WorkerWait
<1>12. ASSUME NEW w \in Workers, SpuriousWakeup(w)
      PROVE  InOrder'
  BY <1>12 DEF SpuriousWakeup
<1>13. ASSUME NEW w \in Workers, WorkerExit(w)
      PROVE  InOrder'
  BY <1>13 DEF WorkerExit
<1>14. ASSUME NEW w \in Workers, WorkerTake(w)
      PROVE  InOrder'
  <2>1. queue \in Seq(Tasks) /\ started \in Seq(Tasks) /\ queue # <<>>
    BY <1>14 DEF WorkerTake, TypeOK
  <2>2. started \o queue = Append(started, Head(queue)) \o Tail(queue)
    BY <2>1
  <2>3. QED
    BY <1>14, <2>2 DEF WorkerTake
<1>15. ASSUME NEW w \in Workers, WorkerDone(w)
      PROVE  InOrder'
  BY <1>15 DEF WorkerDone
<1>16. CASE UNCHANGED vars
  BY <1>16 DEF vars
<1>17. QED
  BY <1>1, <1>2, <1>3, <1>4, <1>5, <1>6, <1>7, <1>8, <1>9, <1>10, <1>11, <1>12, <1>13, <1>14, <1>15, <1>16 DEF Next, CallerStep, WorkerStep, Terminated

-------------------------------------------------------------------------------
(* Where a task can be.                                                      *)

\* A task is in one place only: queued once, with one worker, with one caller,
\* or over.
OnceInv ==
    /\ Distinct(queue)
    /\ ToSet(started) \cap ToSet(queue) = {}
    /\ finished \cap ToSet(queue) = {}
    /\ \A w \in Workers : task[w] # None => task[w] \in ToSet(started) \ finished
    /\ \A v, w \in Workers : task[v] = task[w] /\ task[v] # None => v = w
    /\ ToSet(started) \subseteq finished \cup {task[w] : w \in Workers}
    /\ \A c \in Callers :
          arg[c] # None => arg[c] \notin ToSet(started) \cup ToSet(queue) \cup finished

\* Initially no task is anywhere.
LEMMA OnceInit == Init => OnceInv
<1> SUFFICES ASSUME Init
             PROVE  OnceInv
  OBVIOUS
<1>1. ToSet(queue) = {} /\ ToSet(started) = {} /\ Distinct(queue)
  BY DEF Init, ToSet, Distinct
<1>2. finished = {} /\ \A w \in Workers : task[w] = None
  BY DEF Init
<1>3. \A c \in Callers : arg[c] = None
  BY DEF Init
<1>4. QED
  BY <1>1, <1>2, <1>3 DEF OnceInv

\* What a step that moves no task leaves as it was.
LEMMA OnceFrame ==
    ASSUME OnceInv, UNCHANGED <<queue, started, finished, task, arg>>
    PROVE  OnceInv'
  BY DEF OnceInv, Distinct, ToSet

\* Every action moves a task from one place to the next and copies none.
LEMMA OnceStep ==
    TypeOK /\ LocalInv /\ LockInv /\ InOrder /\ OnceInv /\ [Next]_vars => OnceInv'
<1> SUFFICES ASSUME TypeOK, LocalInv, LockInv, InOrder, OnceInv, [Next]_vars
             PROVE  OnceInv'
  OBVIOUS
<1> USE ExecutorAssumption
<1>1. ASSUME NEW c \in Callers, NEW t \in Tasks, RunLock(c, t)
      PROVE  OnceInv'
  <2>1. t \notin ToSet(accepted) /\ t \notin finished
    BY <1>1 DEF RunLock, Handed
  <2>2. ToSet(accepted) = ToSet(started) \cup ToSet(queue)
    BY ToSetConcat DEF InOrder, TypeOK
  <2>3. \A d \in Callers : arg'[d] # None => arg'[d] = arg[d] \/ arg'[d] = t
    BY <1>1 DEF RunLock, TypeOK
  <2>4. queue' = queue /\ started' = started /\ finished' = finished /\ task' = task
    BY <1>1 DEF RunLock
  <2>5. ToSet(queue)' = ToSet(queue) /\ ToSet(started)' = ToSet(started)
    BY <2>4 DEF ToSet
  <2>6. Distinct(queue)'
    BY <2>4 DEF OnceInv, Distinct
  <2>7. QED
    BY <2>1, <2>2, <2>3, <2>4, <2>5, <2>6 DEF OnceInv
<1>2. ASSUME NEW c \in Callers, RunEnqueue(c)
      PROVE  OnceInv'
  <2>1. /\ arg[c] \in Tasks /\ arg[c] # None
        /\ queue \in Seq(Tasks) /\ queue' = Append(queue, arg[c])
        /\ started' = started /\ finished' = finished /\ task' = task
    BY <1>2 DEF RunEnqueue, TypeOK, LocalInv
  <2>2. arg[c] \notin ToSet(started) \cup ToSet(queue) \cup finished
    BY <2>1 DEF OnceInv
  <2>3. ToSet(queue)' = ToSet(queue) \cup {arg[c]} /\ ToSet(started)' = ToSet(started)
    BY <2>1, ToSetAppend DEF ToSet
  <2>4. Distinct(queue)'
    BY <2>1, <2>2, DistinctAppend DEF OnceInv, Distinct
  <2>5. \A d \in Callers : arg'[d] = None
    BY <1>2 DEF RunEnqueue, TypeOK, LocalInv, LockInv
  <2>6. QED
    BY <2>1, <2>2, <2>3, <2>4, <2>5 DEF OnceInv
<1>3. ASSUME NEW c \in Callers, RunInline(c)
      PROVE  OnceInv'
  BY <1>3, OnceFrame DEF RunInline
<1>4. ASSUME NEW c \in Callers, RunInlineDone(c)
      PROVE  OnceInv'
  <2>1. /\ arg[c] \in Tasks /\ arg[c] # None
        /\ finished' = finished \cup {arg[c]}
        /\ queue' = queue /\ started' = started /\ task' = task
    BY <1>4 DEF RunInlineDone, TypeOK, LocalInv
  <2>2. arg[c] \notin ToSet(started) \cup ToSet(queue) \cup finished
    BY <2>1 DEF OnceInv
  <2>3. ToSet(queue)' = ToSet(queue) /\ ToSet(started)' = ToSet(started)
    BY <2>1 DEF ToSet
  <2>4. Distinct(queue)'
    BY <2>1 DEF OnceInv, Distinct
  <2>5. \A d \in Callers : arg'[d] = None
    BY <1>4 DEF RunInlineDone, TypeOK, LocalInv, LockInv
  <2>6. QED
    BY <2>1, <2>2, <2>3, <2>4, <2>5 DEF OnceInv
<1>5. ASSUME NEW c \in Callers, ShutdownLock(c)
      PROVE  OnceInv'
  BY <1>5, OnceFrame DEF ShutdownLock
<1>6. ASSUME NEW c \in Callers, ShutdownFlag(c)
      PROVE  OnceInv'
  BY <1>6, OnceFrame DEF ShutdownFlag
<1>7. ASSUME NEW c \in Callers, NEW w \in Workers, ShutdownJoin(c, w)
      PROVE  OnceInv'
  BY <1>7, OnceFrame DEF ShutdownJoin
<1>8. ASSUME NEW c \in Callers, ShutdownThrows(c)
      PROVE  OnceInv'
  BY <1>8, OnceFrame DEF ShutdownThrows
<1>9. ASSUME NEW c \in Callers, ShutdownReturn(c)
      PROVE  OnceInv'
  BY <1>9, OnceFrame DEF ShutdownReturn
<1>10. ASSUME NEW w \in Workers, WorkerLock(w)
      PROVE  OnceInv'
  BY <1>10, OnceFrame DEF WorkerLock
<1>11. ASSUME NEW w \in Workers, WorkerWait(w)
      PROVE  OnceInv'
  BY <1>11, OnceFrame DEF WorkerWait
<1>12. ASSUME NEW w \in Workers, SpuriousWakeup(w)
      PROVE  OnceInv'
  BY <1>12, OnceFrame DEF SpuriousWakeup
<1>13. ASSUME NEW w \in Workers, WorkerExit(w)
      PROVE  OnceInv'
  BY <1>13, OnceFrame DEF WorkerExit
<1>14. ASSUME NEW w \in Workers, WorkerTake(w)
      PROVE  OnceInv'
  <2> DEFINE t == Head(queue)
  <2>1. /\ queue \in Seq(Tasks) /\ started \in Seq(Tasks) /\ queue # <<>>
        /\ queue' = Tail(queue) /\ started' = Append(started, t)
        /\ finished' = finished /\ arg' = arg
    BY <1>14 DEF WorkerTake, TypeOK
  <2>2. /\ t \in Tasks
        /\ ToSet(queue) = {t} \cup ToSet(queue)'
        /\ t \notin ToSet(queue)'
        /\ Distinct(queue)'
    <3>1. Distinct(queue)
      BY DEF OnceInv
    <3>2. /\ t \in Tasks
          /\ ToSet(queue) = {t} \cup ToSet(Tail(queue))
          /\ t \notin ToSet(Tail(queue)) /\ Distinct(Tail(queue))
      BY <2>1, <3>1, TakeFirst
    <3>3. QED
      BY <2>1, <3>2 DEF ToSet, Distinct
  <2>3. ToSet(started)' = ToSet(started) \cup {t}
    <3>1. ToSet(started)' = ToSet(Append(started, t))
      BY <2>1 DEF ToSet
    <3>2. QED
      BY <2>1, <2>2, <3>1, ToSetAppend
  <2>4. task[w] = None /\ task' = [task EXCEPT ![w] = t]
    BY <1>14 DEF WorkerTake, TypeOK, LocalInv
  <2>5. \A v \in Workers : task'[v] = IF v = w THEN t ELSE task[v]
    BY <2>4 DEF TypeOK
  <2>6. t \notin ToSet(started) /\ t \notin finished /\ t # None
    BY <2>2 DEF OnceInv
  <2>7. \A v \in Workers : task'[v] # None => task'[v] \in ToSet(started)' \ finished'
    BY <2>1, <2>3, <2>5, <2>6 DEF OnceInv
  <2>8. \A u, v \in Workers : task'[u] = task'[v] /\ task'[u] # None => u = v
    BY <2>5, <2>6 DEF OnceInv
  <2>9. ToSet(started)' \subseteq finished' \cup {task'[v] : v \in Workers}
    <3>1. SUFFICES ASSUME NEW s \in ToSet(started)', s \notin finished
                   PROVE  \E v \in Workers : task'[v] = s
      BY <2>1
    <3>2. CASE s = t
      BY <2>5, <3>2
    <3>3. CASE s # t
      <4>1. s \in ToSet(started)
        BY <2>3, <3>3
      <4>2. PICK v \in Workers : task[v] = s
        BY <3>1, <4>1 DEF OnceInv
      <4>3. s # None
        BY <2>1, <4>1 DEF ToSet
      <4>4. v # w
        BY <2>4, <4>1, <4>2, <4>3
      <4>5. QED
        BY <2>5, <4>2, <4>4
    <3>4. QED
      BY <3>2, <3>3
  <2>10. \A c \in Callers : arg'[c] # None =>
            arg'[c] \notin ToSet(started)' \cup ToSet(queue)' \cup finished'
    BY <2>1, <2>2, <2>3 DEF OnceInv
  <2>11. ToSet(started)' \cap ToSet(queue)' = {} /\ finished' \cap ToSet(queue)' = {}
    BY <2>1, <2>2, <2>3 DEF OnceInv
  <2>12. QED
    BY <2>2, <2>7, <2>8, <2>9, <2>10, <2>11 DEF OnceInv
<1>15. ASSUME NEW w \in Workers, WorkerDone(w)
      PROVE  OnceInv'
  <2> DEFINE t == task[w]
  <2>1. /\ finished' = finished \cup {t}
        /\ queue' = queue /\ started' = started /\ arg' = arg
        /\ \A v \in Workers : task'[v] = IF v = w THEN None ELSE task[v]
    BY <1>15 DEF WorkerDone, TypeOK
  <2>2. t # None /\ t \in ToSet(started) /\ t \notin finished /\ t \notin ToSet(queue)
    BY <1>15 DEF WorkerDone, LocalInv, OnceInv
  <2>3. ToSet(queue)' = ToSet(queue) /\ ToSet(started)' = ToSet(started)
    BY <2>1 DEF ToSet
  <2>4. Distinct(queue)'
    BY <2>1 DEF OnceInv, Distinct
  <2>5. \A v \in Workers : task'[v] # None => task'[v] \in ToSet(started)' \ finished'
    BY <2>1, <2>3 DEF OnceInv
  <2>6. \A u, v \in Workers : task'[u] = task'[v] /\ task'[u] # None => u = v
    BY <2>1 DEF OnceInv
  <2>7. ToSet(started)' \subseteq finished' \cup {task'[v] : v \in Workers}
    <3>1. SUFFICES ASSUME NEW s \in ToSet(started), s \notin finished, s # t
                   PROVE  \E v \in Workers : task'[v] = s
      BY <2>1, <2>3
    <3>2. PICK v \in Workers : task[v] = s
      BY <3>1 DEF OnceInv
    <3>3. QED
      BY <2>1, <3>1, <3>2
  <2>8. \A c \in Callers : arg'[c] # None =>
            arg'[c] \notin ToSet(started)' \cup ToSet(queue)' \cup finished'
    BY <2>1, <2>2, <2>3 DEF OnceInv
  <2>9. ToSet(started)' \cap ToSet(queue)' = {} /\ finished' \cap ToSet(queue)' = {}
    BY <2>1, <2>2, <2>3 DEF OnceInv
  <2>10. QED
    BY <2>4, <2>5, <2>6, <2>7, <2>8, <2>9 DEF OnceInv
<1>16. CASE UNCHANGED vars
  BY <1>16, OnceFrame DEF vars
<1>17. QED
  BY <1>1, <1>2, <1>3, <1>4, <1>5, <1>6, <1>7, <1>8, <1>9, <1>10, <1>11, <1>12, <1>13, <1>14, <1>15, <1>16 DEF Next, CallerStep, WorkerStep, Terminated

-------------------------------------------------------------------------------
(* The inductive invariant.                                                  *)

\* NoLostWakeup, ShutdownDrains, RunOnce and InOrder are not inductive: who is
\* in the critical section, what the flag says of ended workers, which workers
\* are joined and where a task can be have to be known as well.
IInv ==
    /\ TypeOK
    /\ LocalInv
    /\ LockInv
    /\ WakeInv
    /\ JoinInv
    /\ InOrder
    /\ OnceInv

\* Every reachable state satisfies the inductive invariant.
THEOREM Invariance == Spec => []IInv
<1>1. Init => IInv
  BY LocalInit, LockInit, WakeInit, JoinInit, OrderInit, OnceInit DEF IInv
<1>2. IInv /\ [Next]_vars => IInv'
  BY LocalStep, LockStep, WakeStep, JoinStep, OrderStep, OnceStep DEF IInv
<1>3. QED
  BY <1>1, <1>2, PTL DEF Spec

\* Type correctness, for any number of workers, callers and tasks.
THEOREM TypeCorrect == Spec => []TypeOK
<1>1. IInv => TypeOK
  BY DEF IInv
<1>2. QED
  BY <1>1, Invariance, PTL

\* Tasks begin in the order run accepted them, none is skipped.
THEOREM OrderTheorem == Spec => []InOrder
<1>1. IInv => InOrder
  BY DEF IInv
<1>2. QED
  BY <1>1, Invariance, PTL

\* A queued task always has a worker on its way to it, and no worker sleeps
\* through shutdown.
THEOREM WakeTheorem == Spec => []NoLostWakeup
<1>1. IInv => NoLostWakeup
  BY DEF IInv, WakeInv
<1>2. QED
  BY <1>1, Invariance, PTL

\* accepted is the disjoint union of what was started and what is queued.
LEMMA AcceptedParts ==
    ASSUME IInv
    PROVE  /\ ToSet(accepted) = ToSet(started) \cup ToSet(queue)
           /\ ToSet(started) \subseteq Tasks /\ ToSet(queue) \subseteq Tasks
           /\ None \notin Tasks
<1>1. queue \in Seq(Tasks) /\ started \in Seq(Tasks)
  BY DEF IInv, TypeOK
<1>2. ToSet(accepted) = ToSet(started) \cup ToSet(queue)
  BY <1>1, ToSetConcat DEF IInv, InOrder
<1>3. ToSet(started) \subseteq Tasks /\ ToSet(queue) \subseteq Tasks
  BY <1>1 DEF ToSet
<1>4. QED
  BY <1>2, <1>3, ExecutorAssumption

\* An accepted task is in exactly one of three places: the queue, one worker, or
\* the set of those that are over.
THEOREM OnceTheorem == Spec => []RunOnce
<1>1. ASSUME IInv
      PROVE  RunOnce
  <2>1. SUFFICES ASSUME NEW t \in ToSet(accepted)
                 PROVE  \/ t \in ToSet(queue) /\ t \notin finished /\ Holding(t) = {}
                        \/ t \notin ToSet(queue) /\ t \in finished /\ Holding(t) = {}
                        \/ /\ t \notin ToSet(queue) /\ t \notin finished
                           /\ \E w \in Holding(t) : Holding(t) = {w}
    BY DEF RunOnce
  <2>2. t # None
    BY <1>1, AcceptedParts
  <2>3. CASE t \in ToSet(queue)
    BY <1>1, <2>2, <2>3 DEF IInv, OnceInv, Holding
  <2>4. CASE t \notin ToSet(queue)
    <3>1. t \in ToSet(started)
      BY <1>1, <2>4, AcceptedParts
    <3>2. CASE t \in finished
      BY <1>1, <2>2, <2>4, <3>2 DEF IInv, OnceInv, Holding
    <3>3. CASE t \notin finished
      <4>1. PICK w \in Workers : task[w] = t
        BY <1>1, <3>1, <3>3 DEF IInv, OnceInv
      <4>2. Holding(t) = {w}
        BY <1>1, <2>2, <4>1 DEF IInv, OnceInv, Holding
      <4>3. QED
        BY <2>4, <3>3, <4>2
    <3>4. QED
      BY <3>2, <3>3
  <2>5. QED
    BY <2>3, <2>4
<1>2. QED
  BY <1>1, Invariance, PTL

\* When every worker has ended the queue is empty and all tasks are over.
LEMMA DrainedState ==
    ASSUME IInv, \A w \in Workers : wpc[w] = "exited"
    PROVE  /\ queue = <<>>
           /\ isShuttingDownTaskQueue
           /\ \A w \in Workers : task[w] = None
           /\ ToSet(accepted) \subseteq finished
<1>1. PICK w \in Workers : wpc[w] = "exited"
  BY ExecutorAssumption
<1>2. queue = <<>> /\ isShuttingDownTaskQueue
  BY <1>1 DEF IInv, WakeInv
<1>3. \A v \in Workers : task[v] = None
  BY DEF IInv, LocalInv
<1>4. ToSet(queue) = {}
  BY <1>2 DEF ToSet
<1>5. ToSet(accepted) \subseteq finished
  BY <1>3, <1>4, AcceptedParts DEF IInv, OnceInv
<1>6. QED
  BY <1>2, <1>3, <1>5

\* When shutdown has returned nothing accepted is left and every worker ended.
THEOREM DrainTheorem == Spec => []ShutdownDrains
<1>1. IInv => ShutdownDrains
  BY DrainedState DEF IInv, JoinInv, ShutdownDrains
<1>2. QED
  BY <1>1, Invariance, PTL

-------------------------------------------------------------------------------
(* The executor implements its contract.                                     *)

\* The initial state of the executor is the initial state of the contract.
LEMMA ContractInit == Init => Contract!CInit
<1> SUFFICES ASSUME Init
             PROVE  Contract!CInit
  OBVIOUS
<1>1. Phase = "open" /\ Active = {} /\ Inline = {}
  BY DEF Init, Phase, Active, Inline
<1>2. ToSet(queue) = {} /\ finished = {}
  BY DEF Init, ToSet
<1>3. QED
  BY <1>1, <1>2 DEF Contract!CInit

\* A step that changes nothing the contract sees.
Stutter == UNCHANGED <<Phase, ToSet(queue), Active, Inline, finished>>

\* No task is held by a caller and anywhere else.
LEMMA FreshArgument ==
    ASSUME IInv, NEW c \in Callers, arg[c] # None, cpc[c] # "inline"
    PROVE  /\ arg[c] \in Tasks
           /\ arg[c] \notin ToSet(queue) \cup Active \cup Inline \cup finished
<1>1. arg[c] \in Tasks /\ arg[c] \notin ToSet(started) \cup ToSet(queue) \cup finished
  BY DEF IInv, OnceInv, TypeOK
<1>2. Active \subseteq ToSet(started)
  BY DEF IInv, OnceInv, Active
<1>3. Inline = {}
  BY DEF IInv, LockInv, LocalInv, Inline
<1>4. QED
  BY <1>1, <1>2, <1>3

\* shutdown cannot have returned before the flag was set.
LEMMA PhaseClosed ==
    ASSUME IInv
    PROVE  drained => isShuttingDownTaskQueue
  BY DrainedState DEF IInv, JoinInv

\* Every action of the executor is an action of the contract or invisible.
LEMMA ContractStep == IInv /\ [Next]_vars => Contract!CNext \/ Stutter
<1> SUFFICES ASSUME IInv, [Next]_vars
             PROVE  Contract!CNext \/ Stutter
  OBVIOUS
<1>0. TypeOK /\ LocalInv /\ LockInv
  BY DEF IInv
<1> USE ExecutorAssumption
<1>1. ASSUME NEW c \in Callers, NEW t \in Tasks, RunLock(c, t)
      PROVE  Contract!CNext \/ Stutter
  BY <1>0, <1>1 DEF RunLock, Stutter, Phase, Active, Inline, TypeOK, LocalInv, LockInv, ToSet
<1>2. ASSUME NEW c \in Callers, RunEnqueue(c)
      PROVE  Contract!CNext \/ Stutter
  <2>1. /\ arg[c] \in Tasks
        /\ arg[c] \notin ToSet(queue) \cup Active \cup Inline \cup finished
    BY <1>0, <1>2, FreshArgument DEF RunEnqueue, LocalInv
  <2>2. ToSet(queue)' = ToSet(queue) \cup {arg[c]}
    <3>1. queue \in Seq(Tasks) /\ queue' = Append(queue, arg[c])
      BY <1>0, <1>2 DEF RunEnqueue, TypeOK
    <3>2. ToSet(queue)' = ToSet(Append(queue, arg[c]))
      BY <3>1 DEF ToSet
    <3>3. QED
      BY <2>1, <3>1, <3>2, ToSetAppend
  <2>3. Phase = "open" /\ Phase' = Phase
    BY <1>2, PhaseClosed DEF RunEnqueue, Phase
  <2>4. Active' = Active /\ finished' = finished
    BY <1>2 DEF RunEnqueue, Active
  <2>5. Inline' = Inline
    BY <1>0, <1>2 DEF RunEnqueue, Inline, TypeOK
  <2>6. Contract!Accept(arg[c])
    BY <2>1, <2>2, <2>3, <2>4, <2>5 DEF Contract!Accept, Contract!Unseen
  <2>7. QED
    BY <2>1, <2>6 DEF Contract!CNext
<1>3. ASSUME NEW c \in Callers, RunInline(c)
      PROVE  Contract!CNext \/ Stutter
  <2>1. /\ arg[c] \in Tasks
        /\ arg[c] \notin ToSet(queue) \cup Active \cup Inline \cup finished
    BY <1>0, <1>3, FreshArgument DEF RunInline, LocalInv
  <2>2. Inline' = Inline \cup {arg[c]}
    BY <1>0, <1>3 DEF RunInline, Inline, TypeOK
  <2>3. Phase # "open" /\ Phase' = Phase
    BY <1>3 DEF RunInline, Phase
  <2>4. ToSet(queue)' = ToSet(queue) /\ Active' = Active /\ finished' = finished
    BY <1>3 DEF RunInline, Active, ToSet
  <2>5. Contract!AcceptInline(arg[c])
    BY <2>1, <2>2, <2>3, <2>4 DEF Contract!AcceptInline, Contract!Unseen
  <2>6. QED
    BY <2>1, <2>5 DEF Contract!CNext
<1>4. ASSUME NEW c \in Callers, RunInlineDone(c)
      PROVE  Contract!CNext \/ Stutter
  <2>1. arg[c] \in Tasks /\ arg[c] # None /\ mutex = c /\ cpc[c] = "inline"
    BY <1>0, <1>4 DEF RunInlineDone, TypeOK, LocalInv, LockInv
  <2>2. \A d \in Callers : cpc[d] = "inline" => d = c
    BY <1>0, <2>1 DEF LockInv
  <2>3. Inline = {arg[c]} /\ Inline' = {}
    BY <1>0, <1>4, <2>1, <2>2 DEF RunInlineDone, Inline, TypeOK
  <2>4. arg[c] \notin Active
    BY <2>1 DEF IInv, OnceInv, Active
  <2>5. /\ ToSet(queue)' = ToSet(queue) /\ Active' = Active /\ Phase' = Phase
        /\ finished' = finished \cup {arg[c]}
    BY <1>4 DEF RunInlineDone, Active, ToSet, Phase
  <2>6. Contract!End(arg[c])
    BY <2>3, <2>4, <2>5 DEF Contract!End
  <2>7. QED
    BY <2>1, <2>6 DEF Contract!CNext
<1>5. ASSUME NEW c \in Callers, ShutdownLock(c)
      PROVE  Contract!CNext \/ Stutter
  BY <1>0, <1>5 DEF ShutdownLock, Stutter, Phase, Active, Inline, TypeOK, LocalInv, LockInv, ToSet
<1>6. ASSUME NEW c \in Callers, ShutdownFlag(c)
      PROVE  Contract!CNext \/ Stutter
  <2>1. /\ ToSet(queue)' = ToSet(queue) /\ Active' = Active /\ finished' = finished
        /\ drained' = drained
    BY <1>6 DEF ShutdownFlag, Active, ToSet
  <2>2. Inline' = Inline
    BY <1>0, <1>6 DEF ShutdownFlag, Inline, TypeOK
  <2>3. isShuttingDownTaskQueue'
    BY <1>0, <1>6, Flagged
  <2>4. CASE isShuttingDownTaskQueue
    BY <2>1, <2>2, <2>3, <2>4 DEF Stutter, Phase
  <2>5. CASE ~isShuttingDownTaskQueue
    <3>1. Phase = "open" /\ Phase' = "closing"
      BY <2>1, <2>3, <2>5, PhaseClosed DEF Phase
    <3>2. QED
      BY <2>1, <2>2, <3>1 DEF Contract!CNext, Contract!Close
  <2>6. QED
    BY <2>4, <2>5
<1>7. ASSUME NEW c \in Callers, NEW w \in Workers, ShutdownJoin(c, w)
      PROVE  Contract!CNext \/ Stutter
  BY <1>0, <1>7 DEF ShutdownJoin, Stutter, Phase, Active, Inline, TypeOK, LocalInv, LockInv, ToSet
<1>8. ASSUME NEW c \in Callers, ShutdownThrows(c)
      PROVE  Contract!CNext \/ Stutter
  BY <1>0, <1>8 DEF ShutdownThrows, Stutter, Phase, Active, Inline, TypeOK, LocalInv, LockInv, ToSet
<1>9. ASSUME NEW c \in Callers, ShutdownReturn(c)
      PROVE  Contract!CNext \/ Stutter
  <2>1. /\ ToSet(queue)' = ToSet(queue) /\ Active' = Active /\ finished' = finished
        /\ drained' /\ Phase' = "drained"
    BY <1>9 DEF ShutdownReturn, Active, ToSet, Phase
  <2>2. Inline' = Inline
    BY <1>0, <1>9 DEF ShutdownReturn, Inline, TypeOK
  <2>3. CASE drained
    BY <2>1, <2>2, <2>3 DEF Stutter, Phase
  <2>4. CASE ~drained
    <3>1. \A w \in Workers : wpc[w] = "exited"
      BY <1>0, <1>9 DEF ShutdownReturn, LocalInv, IInv, JoinInv
    <3>2. /\ queue = <<>> /\ isShuttingDownTaskQueue
          /\ \A w \in Workers : task[w] = None
      BY <3>1, DrainedState
    <3>3. Phase = "closing" /\ ToSet(queue) = {} /\ Active = {}
      BY <2>4, <3>2 DEF Phase, ToSet, Active
    <3>4. QED
      BY <2>1, <2>2, <3>3 DEF Contract!CNext, Contract!Drain
  <2>5. QED
    BY <2>3, <2>4
<1>10. ASSUME NEW w \in Workers, WorkerLock(w)
      PROVE  Contract!CNext \/ Stutter
  BY <1>0, <1>10 DEF WorkerLock, Stutter, Phase, Active, Inline, TypeOK, LocalInv, LockInv, ToSet
<1>11. ASSUME NEW w \in Workers, WorkerWait(w)
      PROVE  Contract!CNext \/ Stutter
  BY <1>0, <1>11 DEF WorkerWait, Stutter, Phase, Active, Inline, TypeOK, LocalInv, LockInv, ToSet
<1>12. ASSUME NEW w \in Workers, SpuriousWakeup(w)
      PROVE  Contract!CNext \/ Stutter
  BY <1>0, <1>12 DEF SpuriousWakeup, Stutter, Phase, Active, Inline, TypeOK, LocalInv, LockInv, ToSet
<1>13. ASSUME NEW w \in Workers, WorkerExit(w)
      PROVE  Contract!CNext \/ Stutter
  BY <1>0, <1>13 DEF WorkerExit, Stutter, Phase, Active, Inline, TypeOK, LocalInv, LockInv, ToSet
<1>14. ASSUME NEW w \in Workers, WorkerTake(w)
      PROVE  Contract!CNext \/ Stutter
  <2> DEFINE t == Head(queue)
  <2>1. /\ t \in Tasks
        /\ ToSet(queue) = {t} \cup ToSet(queue)'
        /\ t \notin ToSet(queue)'
    <3>1. queue \in Seq(Tasks) /\ queue # <<>> /\ queue' = Tail(queue)
      BY <1>0, <1>14 DEF WorkerTake, TypeOK
    <3>2. Distinct(queue)
      BY DEF IInv, OnceInv
    <3>3. /\ t \in Tasks
          /\ ToSet(queue) = {t} \cup ToSet(Tail(queue))
          /\ t \notin ToSet(Tail(queue))
      BY <3>1, <3>2, TakeFirst
    <3>4. QED
      BY <3>1, <3>3 DEF ToSet
  <2>2. \A v \in Workers : task'[v] = IF v = w THEN t ELSE task[v]
    BY <1>0, <1>14 DEF WorkerTake, TypeOK
  <2>3. task[w] = None /\ t # None
    BY <1>0, <1>14, <2>1 DEF WorkerTake, LocalInv
  <2>4. Active' = Active \cup {t}
    BY <2>2, <2>3 DEF Active
  <2>5. Phase' = Phase /\ Inline' = Inline /\ finished' = finished
    BY <1>14 DEF WorkerTake, Phase, Inline
  <2>6. Contract!Begin(t)
    BY <2>1, <2>4, <2>5 DEF Contract!Begin
  <2>7. QED
    BY <2>1, <2>6 DEF Contract!CNext
<1>15. ASSUME NEW w \in Workers, WorkerDone(w)
      PROVE  Contract!CNext \/ Stutter
  <2> DEFINE t == task[w]
  <2>1. t \in Tasks /\ t # None
    BY <1>0, <1>15 DEF WorkerDone, TypeOK, LocalInv
  <2>2. \A v \in Workers : task'[v] = IF v = w THEN None ELSE task[v]
    BY <1>0, <1>15 DEF WorkerDone, TypeOK
  <2>3. \A v \in Workers : task[v] = t => v = w
    BY <2>1 DEF IInv, OnceInv
  <2>4. t \in Active /\ Active' = Active \ {t}
    BY <2>1, <2>2, <2>3 DEF Active
  <2>5. t \notin Inline
    BY <1>0, <2>1 DEF IInv, OnceInv, Inline, LocalInv
  <2>6. /\ Phase' = Phase /\ Inline' = Inline /\ ToSet(queue)' = ToSet(queue)
        /\ finished' = finished \cup {t}
    BY <1>15 DEF WorkerDone, Phase, Inline, ToSet
  <2>7. Contract!End(t)
    BY <2>4, <2>5, <2>6 DEF Contract!End
  <2>8. QED
    BY <2>1, <2>7 DEF Contract!CNext
<1>16. CASE UNCHANGED vars
  BY <1>16 DEF vars, Stutter, Phase, Active, Inline, ToSet
<1>17. QED
  BY <1>1, <1>2, <1>3, <1>4, <1>5, <1>6, <1>7, <1>8, <1>9, <1>10, <1>11, <1>12, <1>13, <1>14, <1>15, <1>16 DEF Next, CallerStep, WorkerStep, Terminated

\* Every behaviour of the executor is, seen through Contract, a behaviour of
\* the safety part of the contract that ImplementsContract checks.
THEOREM Implementation == Spec => Contract!CSafety
<1>1. IInv /\ [Next]_vars => [Contract!CNext]_(Contract!cvars)
  BY ContractStep DEF Stutter, Contract!cvars
<1>2. QED
  BY <1>1, ContractInit, Invariance, PTL DEF Spec, Contract!CSafety

-------------------------------------------------------------------------------
(* What ShutdownEnds and the liveness of the contract rest on, apart from the  *)
(* fairness: somebody can always go on, and a pool that closes only drains.    *)

\* A step of its own is open to the thread, and waits for no other thread.
WorkerGoesOn(w) == wpc[w] \in {"locked", "busy"} \/ (wpc[w] = "loop" /\ mutex = None)
CallerGoesOn(c) ==
    \/ cpc[c] \in {"run", "inline", "shutdown"}
    \/ /\ cpc[c] = "joining"
       /\ \/ toJoin = {} \/ toJoin \ joinable # {}
          \/ \E w \in toJoin \cap joinable : wpc[w] = "exited"

\* As long as shutdown joins, a task is queued or being run, or a thread has the
\* mutex, there is a thread that goes on: no cycle of threads waiting for the mutex,
\* for the condition variable and for each other's end is ever closed.
NeverStuck ==
    cpc[Owner] = "joining" \/ queue # <<>> \/ Active # {} \/ mutex # None =>
        (\E w \in Workers : WorkerGoesOn(w)) \/ (\E c \in Callers : CallerGoesOn(c))

\* Whoever has the mutex goes on with it.
LEMMA HolderGoesOn ==
    ASSUME IInv, mutex # None
    PROVE  (\E w \in Workers : WorkerGoesOn(w)) \/ (\E c \in Callers : CallerGoesOn(c))
  BY DEF IInv, TypeOK, LockInv, WorkerGoesOn, CallerGoesOn

\* A worker that neither sleeps nor has ended goes on, or the mutex is another's.
LEMMA AwakeGoesOn ==
    ASSUME IInv, NEW w \in Workers, wpc[w] \notin {"waiting", "exited"}
    PROVE  (\E v \in Workers : WorkerGoesOn(v)) \/ (\E c \in Callers : CallerGoesOn(c))
<1>1. wpc[w] \in {"loop", "locked", "busy"}
  BY DEF IInv, TypeOK, WorkerPC
<1>2. CASE mutex = None
  BY <1>1, <1>2 DEF WorkerGoesOn
<1>3. CASE mutex # None
  BY <1>3, HolderGoesOn
<1>4. QED
  BY <1>2, <1>3

\* The executor is never stuck, with any number of threads.
THEOREM StuckTheorem == Spec => []NeverStuck
<1>1. IInv => NeverStuck
  <2>1. SUFFICES ASSUME IInv,
                        cpc[Owner] = "joining" \/ queue # <<>> \/ Active # {} \/ mutex # None
                 PROVE  \/ \E w \in Workers : WorkerGoesOn(w)
                        \/ \E c \in Callers : CallerGoesOn(c)
    BY DEF NeverStuck
  <2>2. CASE mutex # None
    BY <2>1, <2>2, HolderGoesOn
  <2>3. CASE queue # <<>>
    BY <2>1, <2>3, AwakeGoesOn DEF IInv, WakeInv, NoLostWakeup
  <2>4. CASE Active # {}
    BY <2>1, <2>4 DEF IInv, LocalInv, Active, WorkerGoesOn
  <2>5. CASE cpc[Owner] = "joining"
    <3>1. Owner \in Callers /\ Waiting = {}
      BY <2>1, <2>5, ExecutorAssumption DEF IInv, WakeInv, NoLostWakeup
    <3>2. CASE toJoin = {} \/ toJoin \ joinable # {}
      BY <2>5, <3>1, <3>2 DEF CallerGoesOn
    <3>3. CASE \E w \in toJoin : w \in joinable
      <4>1. PICK w \in Workers : w \in toJoin \cap joinable
        BY <2>1, <3>3 DEF IInv, TypeOK
      <4>2. CASE wpc[w] = "exited"
        BY <2>5, <3>1, <4>1, <4>2 DEF CallerGoesOn
      <4>3. CASE wpc[w] # "exited"
        BY <2>1, <3>1, <4>3, AwakeGoesOn DEF Waiting
      <4>4. QED
        BY <4>2, <4>3
    <3>4. QED
      BY <3>2, <3>3
  <2>6. QED
    BY <2>1, <2>2, <2>3, <2>4, <2>5
<1>2. QED
  BY <1>1, Invariance, PTL

\* After the flag is set the pool takes no task, the queue loses its front or stays,
\* no worker goes to sleep and none that has ended comes back.
OnlyDrains ==
    isShuttingDownTaskQueue =>
        /\ isShuttingDownTaskQueue' /\ accepted' = accepted
        /\ queue' = queue \/ (queue # <<>> /\ queue' = Tail(queue))
        /\ \A w \in Workers : /\ wpc'[w] # "waiting"
                              /\ wpc[w] = "exited" => wpc'[w] = "exited"

\* A pool that shuts down only drains, whatever its callers do meanwhile.
THEOREM ClosingTheorem == Spec => [][OnlyDrains]_vars
<1>1. IInv /\ IInv' /\ [Next]_vars => [OnlyDrains]_vars
  <2>1. SUFFICES ASSUME IInv, IInv', Next, isShuttingDownTaskQueue
                 PROVE  /\ isShuttingDownTaskQueue' /\ accepted' = accepted
                        /\ queue' = queue \/ (queue # <<>> /\ queue' = Tail(queue))
                        /\ \A w \in Workers : wpc[w] = "exited" => wpc'[w] = "exited"
    BY DEF OnlyDrains, IInv, WakeInv, NoLostWakeup, Waiting
  <2>2. wpc \in [Workers -> WorkerPC]
    BY <2>1 DEF IInv, TypeOK
  <2>3. ASSUME NEW c \in Callers, CallerStep(c)
        PROVE  /\ isShuttingDownTaskQueue' /\ accepted' = accepted
               /\ queue' = queue /\ wpc' = wpc
    BY <2>1, <2>3 DEF CallerStep, RunLock, RunEnqueue, RunInline, RunInlineDone,
       ShutdownLock, ShutdownFlag, ShutdownJoin, ShutdownThrows, ShutdownReturn
  <2>4. ASSUME NEW w \in Workers, WorkerStep(w)
        PROVE  /\ isShuttingDownTaskQueue' = isShuttingDownTaskQueue /\ accepted' = accepted
               /\ queue' = queue \/ (queue # <<>> /\ queue' = Tail(queue))
               /\ wpc[w] # "exited" /\ \A v \in Workers \ {w} : wpc'[v] = wpc[v]
    BY <2>2, <2>4 DEF WorkerStep, WorkerLock, WorkerWait, SpuriousWakeup, WorkerExit,
       WorkerTake, WorkerDone
  <2>5. QED
    BY <2>1, <2>3, <2>4 DEF Next, Terminated, vars
<1>2. QED
  BY <1>1, Invariance, PTL DEF Spec

-------------------------------------------------------------------------------
\* The loop over threads of a first shutdown finds every thread joinable, so it
\* joins each of them once and does not throw; when a shutdown has returned none
\* is joinable, so that the threads can be destroyed.
FirstJoins ==
    /\ shutdowns = 0 => /\ cpc[Owner] \notin {"shutdown", "joining", "threw"}
                        /\ joinable = Workers /\ ~drained
    /\ shutdowns = 1 => /\ cpc[Owner] = "shutdown" => joinable = Workers
                        /\ cpc[Owner] = "joining" => toJoin = joinable
                        /\ cpc[Owner] # "threw"
    /\ cpc[Owner] = "joining" => joinable \subseteq toJoin
    /\ drained => joinable = {}

\* Only the owner joins, and what it joined it does not meet again.
LEMMA FirstStep == IInv /\ FirstJoins /\ [Next]_vars => FirstJoins'
<1> SUFFICES ASSUME IInv, FirstJoins, [Next]_vars
             PROVE  FirstJoins'
  OBVIOUS
<1> USE ExecutorAssumption
<1>0. /\ cpc \in [Callers -> CallerPC] /\ shutdowns \in Nat /\ joinable \subseteq Workers
      /\ toJoin \subseteq Workers
      /\ \A c \in Callers : cpc[c] \in {"shutdown", "joining", "threw"} => c = Owner
  BY DEF IInv, TypeOK, LocalInv
<1>1. CASE UNCHANGED <<shutdowns, joinable, toJoin, drained, cpc>>
  BY <1>1 DEF FirstJoins
<1>2. ASSUME NEW c \in Callers,
             RunEnqueue(c) \/ RunInline(c) \/ RunInlineDone(c) \/ \E t \in Tasks : RunLock(c, t)
      PROVE  FirstJoins'
  <2>1. /\ UNCHANGED <<shutdowns, joinable, toJoin, drained>>
        /\ \A d \in Callers \ {c} : cpc'[d] = cpc[d]
        /\ cpc'[c] \in {"idle", "run", "inline"}
    BY <1>0, <1>2 DEF RunEnqueue, RunInline, RunInlineDone, RunLock
  <2>2. QED
    BY <2>1 DEF FirstJoins
<1>3. ASSUME NEW c \in Callers, ShutdownLock(c)
      PROVE  FirstJoins'
  <2>1. /\ c = Owner /\ shutdowns' = shutdowns + 1 /\ cpc'[Owner] = "shutdown"
        /\ UNCHANGED <<joinable, toJoin, drained>>
    BY <1>0, <1>3 DEF ShutdownLock
  <2>2. QED
    BY <1>0, <2>1 DEF FirstJoins
<1>4. ASSUME NEW c \in Callers, ShutdownFlag(c)
      PROVE  FirstJoins'
  <2>1. /\ c = Owner /\ cpc[Owner] = "shutdown" /\ cpc'[Owner] = "joining"
        /\ toJoin' = Workers /\ UNCHANGED <<shutdowns, joinable, drained>>
    BY <1>0, <1>4 DEF ShutdownFlag
  <2>2. QED
    BY <1>0, <2>1 DEF FirstJoins
<1>5. ASSUME NEW c \in Callers, NEW w \in Workers, ShutdownJoin(c, w)
      PROVE  FirstJoins'
  <2>1. /\ c = Owner /\ cpc[Owner] = "joining" /\ w \in joinable
        /\ joinable' = joinable \ {w} /\ toJoin' = toJoin \ {w}
        /\ UNCHANGED <<shutdowns, drained, cpc>>
    BY <1>0, <1>5 DEF ShutdownJoin
  <2>2. QED
    BY <2>1 DEF FirstJoins
<1>6. ASSUME NEW c \in Callers, ShutdownThrows(c)
      PROVE  FirstJoins'
  <2>1. /\ c = Owner /\ cpc[Owner] = "joining" /\ toJoin \ joinable # {}
        /\ cpc'[Owner] = "threw" /\ UNCHANGED <<shutdowns, joinable, drained>>
    BY <1>0, <1>6 DEF ShutdownThrows
  <2>2. QED
    BY <2>1 DEF FirstJoins
<1>7. ASSUME NEW c \in Callers, ShutdownReturn(c)
      PROVE  FirstJoins'
  <2>1. /\ c = Owner /\ cpc[Owner] = "joining" /\ toJoin = {} /\ cpc'[Owner] = "idle"
        /\ UNCHANGED <<shutdowns, joinable>>
    BY <1>0, <1>7 DEF ShutdownReturn
  <2>2. QED
    BY <2>1 DEF FirstJoins
<1>8. ASSUME NEW w \in Workers, WorkerStep(w)
      PROVE  FirstJoins'
  BY <1>1, <1>8 DEF WorkerStep, WorkerLock, WorkerWait, SpuriousWakeup, WorkerExit,
     WorkerTake, WorkerDone
<1>9. QED
  BY <1>1, <1>2, <1>3, <1>4, <1>5, <1>6, <1>7, <1>8 DEF Next, CallerStep, Terminated, vars

\* A first shutdown never throws, and none that returns leaves a thread to join.
THEOREM FirstTheorem == Spec => []FirstJoins
<1>1. Init => FirstJoins
  BY ExecutorAssumption DEF Init, FirstJoins
<1>2. QED
  BY <1>1, FirstStep, Invariance, PTL DEF Spec

-------------------------------------------------------------------------------
\* How many steps the workers have left at most, once no task comes any more: three
\* for each task in the queue (the lock, the task and the end of the task), and for
\* each worker what it needs to come back to its loop and to leave it.
At(pc)    == {w \in Workers : wpc[w] = pc}
StepsLeft == 3 * Len(queue) + 3 * Cardinality(At("busy"))
             + 2 * Cardinality(At("loop")) + Cardinality(At("locked"))

\* A worker that goes from one place in dispatchTasks to another is counted there.
LEMMA Counted ==
    ASSUME IsFiniteSet(Workers), wpc \in [Workers -> WorkerPC],
           NEW w \in Workers, NEW pc, pc # wpc[w], wpc' = [wpc EXCEPT ![w] = pc]
    PROVE  /\ \A q : Cardinality(At(q)) \in Nat
           /\ \A q : Cardinality(At(q))' =
                 IF q = pc THEN Cardinality(At(q)) + 1
                 ELSE IF q = wpc[w] THEN Cardinality(At(q)) - 1 ELSE Cardinality(At(q))
           /\ \A q : Cardinality(At(q))' \in Nat
<1>1. \A q : IsFiniteSet(At(q)) /\ Cardinality(At(q)) \in Nat
  <2>1. \A q : At(q) \in SUBSET Workers
    BY DEF At
  <2>2. QED
    BY <2>1, FS_Subset, FS_CardinalityType
<1>2. ASSUME NEW q
      PROVE  Cardinality(At(q))' =
                 IF q = pc THEN Cardinality(At(q)) + 1
                 ELSE IF q = wpc[w] THEN Cardinality(At(q)) - 1 ELSE Cardinality(At(q))
  <2>1. CASE q = pc
    <3>1. At(q)' = At(q) \cup {w} /\ w \notin At(q)
      BY <2>1 DEF At
    <3>2. QED
      BY <1>1, <2>1, <3>1, FS_AddElement
  <2>2. CASE q = wpc[w]
    <3>1. At(q)' = At(q) \ {w} /\ w \in At(q)
      BY <2>2 DEF At
    <3>2. QED
      BY <1>1, <2>2, <3>1, FS_RemoveElement
  <2>3. CASE q # pc /\ q # wpc[w]
    <3>1. At(q)' = At(q)
      BY <2>3 DEF At
    <3>2. QED
      BY <2>3, <3>1
  <2>4. QED
    BY <2>1, <2>2, <2>3
<1>3. \A q : Cardinality(At(q))' \in Nat
  <2>1. \A q : At(q)' \in SUBSET Workers
    BY DEF At
  <2>2. QED
    BY <2>1, FS_Subset, FS_CardinalityType
<1>4. QED
  BY <1>1, <1>2, <1>3

\* A pool that shuts down comes nearer to its end with each step of a worker, and no
\* step of a caller takes it further away.
ComesToEnd ==
    isShuttingDownTaskQueue =>
        /\ StepsLeft \in Nat /\ StepsLeft' \in Nat
        /\ StepsLeft' <= StepsLeft
        /\ \A w \in Workers : WorkerStep(w) => StepsLeft' < StepsLeft

\* Shutdown is over after a number of steps that is bounded when the flag is set: with
\* NeverStuck, whatever lets some thread go on again and again lets it end.
THEOREM EndTheorem == ASSUME IsFiniteSet(Workers) PROVE Spec => [][ComesToEnd]_vars
<1>1. ASSUME IInv, Next, isShuttingDownTaskQueue
      PROVE  /\ StepsLeft \in Nat /\ StepsLeft' \in Nat
             /\ StepsLeft' <= StepsLeft
             /\ \A w \in Workers : WorkerStep(w) => StepsLeft' < StepsLeft
  <2>1. /\ wpc \in [Workers -> WorkerPC] /\ queue \in Seq(Tasks) /\ Len(queue) \in Nat
        /\ At("waiting") = {}
    BY <1>1 DEF IInv, TypeOK, WakeInv, NoLostWakeup, Waiting, At
  <2>2. \A q : Cardinality(At(q)) \in Nat
    <3>1. \A q : At(q) \in SUBSET Workers
      BY DEF At
    <3>2. QED
      BY <3>1, FS_Subset, FS_CardinalityType
  <2>3. StepsLeft \in Nat
    BY <2>1, <2>2 DEF StepsLeft
  <2>4. ASSUME NEW w \in Workers, WorkerStep(w)
        PROVE  StepsLeft' \in Nat /\ StepsLeft' < StepsLeft
    <3>0. \A pc : pc # wpc[w] /\ wpc' = [wpc EXCEPT ![w] = pc] =>
              /\ \A q : Cardinality(At(q))' =
                     IF q = pc THEN Cardinality(At(q)) + 1
                     ELSE IF q = wpc[w] THEN Cardinality(At(q)) - 1 ELSE Cardinality(At(q))
              /\ \A q : Cardinality(At(q))' \in Nat
      BY <2>1, Counted
    <3>. DEFINE busy == Cardinality(At("busy"))
                loop == Cardinality(At("loop"))
                locked == Cardinality(At("locked"))
    <3>a. busy \in Nat /\ loop \in Nat /\ locked \in Nat
      BY <2>2
    <3>b. StepsLeft = 3 * Len(queue) + 3 * busy + 2 * loop + locked
      BY DEF StepsLeft
    <3>c. StepsLeft' = 3 * Len(queue') + 3 * busy' + 2 * loop' + locked'
      BY DEF StepsLeft
    <3>1. CASE WorkerLock(w)
      <4>1. wpc[w] = "loop" /\ wpc' = [wpc EXCEPT ![w] = "locked"] /\ Len(queue') = Len(queue)
        BY <3>1 DEF WorkerLock
      <4>2. busy' = busy /\ loop' = loop - 1 /\ locked' = locked + 1 /\ loop' \in Nat
        BY <3>0, <4>1
      <4>. HIDE DEF busy, loop, locked
      <4>3. QED
        BY <2>1, <3>a, <3>b, <3>c, <4>1, <4>2
    <3>2. CASE WorkerExit(w)
      <4>1. wpc[w] = "locked" /\ wpc' = [wpc EXCEPT ![w] = "exited"] /\ Len(queue') = Len(queue)
        BY <3>2 DEF WorkerExit
      <4>2. busy' = busy /\ loop' = loop /\ locked' = locked - 1 /\ locked' \in Nat
        BY <3>0, <4>1
      <4>. HIDE DEF busy, loop, locked
      <4>3. QED
        BY <2>1, <3>a, <3>b, <3>c, <4>1, <4>2
    <3>3. CASE WorkerTake(w)
      <4>1. /\ wpc[w] = "locked" /\ wpc' = [wpc EXCEPT ![w] = "busy"]
            /\ Len(queue') = Len(queue) - 1 /\ Len(queue') \in Nat
        BY <2>1, <3>3 DEF WorkerTake
      <4>2. busy' = busy + 1 /\ loop' = loop /\ locked' = locked - 1 /\ locked' \in Nat
        BY <3>0, <4>1
      <4>. HIDE DEF busy, loop, locked
      <4>3. QED
        BY <2>1, <3>a, <3>b, <3>c, <4>1, <4>2
    <3>4. CASE WorkerDone(w)
      <4>1. wpc[w] = "busy" /\ wpc' = [wpc EXCEPT ![w] = "loop"] /\ Len(queue') = Len(queue)
        BY <3>4 DEF WorkerDone
      <4>2. busy' = busy - 1 /\ loop' = loop + 1 /\ locked' = locked /\ busy' \in Nat
        BY <3>0, <4>1
      <4>. HIDE DEF busy, loop, locked
      <4>3. QED
        BY <2>1, <3>a, <3>b, <3>c, <4>1, <4>2
    <3>5. CASE WorkerWait(w) \/ SpuriousWakeup(w)
      BY <1>1, <2>1, <3>5 DEF WorkerWait, SpuriousWakeup, At
    <3>6. QED
      BY <2>4, <3>1, <3>2, <3>3, <3>4, <3>5 DEF WorkerStep
  <2>5. ASSUME ~\E w \in Workers : WorkerStep(w)
        PROVE  StepsLeft' = StepsLeft
    <3>1. queue' = queue /\ wpc' = wpc
      BY <1>1, <2>5 DEF Next, CallerStep, RunLock, RunEnqueue, RunInline, RunInlineDone,
         ShutdownLock, ShutdownFlag, ShutdownJoin, ShutdownThrows, ShutdownReturn,
         Terminated, vars
    <3>2. QED
      BY <3>1 DEF StepsLeft, At
  <2>6. QED
    BY <2>3, <2>4, <2>5
<1>2. IInv /\ [Next]_vars => [ComesToEnd]_vars
  BY <1>1 DEF ComesToEnd
<1>3. QED
  BY <1>2, Invariance, PTL DEF Spec
=============================================================================
