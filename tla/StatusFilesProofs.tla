--------------------------- MODULE StatusFilesProofs ---------------------------
(***************************************************************************)
(* Proofs about StatusFiles, for any number of workers and heartbeats.     *)
(* The game thread with its handlers uses the executor as TaskExecutor     *)
(* allows, so what is proved of the executor holds inside the plugin; what *)
(* is proved of the files and of the exit follows from it.                 *)
(***************************************************************************)
EXTENDS StatusFiles, TLAPS

Executor == INSTANCE TaskExecutorProofs WITH
                Callers <- {Game}, Owner <- Game, Tasks <- Texts, MaxShutdowns <- 1

\* The plugin constructs its executor as TaskExecutor assumes.
LEMMA ExecutorGiven == Executor!ExecutorAssumption
  BY StatusAssumption, NoneAssumption DEF Executor!ExecutorAssumption

-------------------------------------------------------------------------------
\* The actions of the instance that StatusFiles is built from are those the
\* theorems are about.
LEMMA SameInit == Pool!Init = Executor!Init
  BY DEF Pool!Init, Executor!Init

LEMMA SameRun ==
    ASSUME NEW t
    PROVE  /\ Pool!RunLock(Game, t) = Executor!RunLock(Game, t)
           /\ Pool!RunEnqueue(Game) = Executor!RunEnqueue(Game)
           /\ Pool!RunInline(Game) = Executor!RunInline(Game)
           /\ Pool!RunInlineDone(Game) = Executor!RunInlineDone(Game)
<1>1. Pool!RunLock(Game, t) = Executor!RunLock(Game, t)
  BY DEF Pool!RunLock, Executor!RunLock, Pool!Handed, Executor!Handed,
     Pool!ToSet, Executor!ToSet
<1>2. Pool!RunEnqueue(Game) = Executor!RunEnqueue(Game)
  BY DEF Pool!RunEnqueue, Executor!RunEnqueue, Pool!NotifyOne, Executor!NotifyOne,
     Pool!Waiting, Executor!Waiting
<1>3. Pool!RunInline(Game) = Executor!RunInline(Game)
  BY DEF Pool!RunInline, Executor!RunInline
<1>4. Pool!RunInlineDone(Game) = Executor!RunInlineDone(Game)
  BY DEF Pool!RunInlineDone, Executor!RunInlineDone
<1>5. QED
  BY <1>1, <1>2, <1>3, <1>4

LEMMA SameShutdown ==
    ASSUME NEW w
    PROVE  /\ Pool!ShutdownLock(Game) = Executor!ShutdownLock(Game)
           /\ Pool!ShutdownFlag(Game) = Executor!ShutdownFlag(Game)
           /\ Pool!ShutdownJoin(Game, w) = Executor!ShutdownJoin(Game, w)
           /\ Pool!ShutdownReturn(Game) = Executor!ShutdownReturn(Game)
<1>1. Pool!ShutdownLock(Game) = Executor!ShutdownLock(Game)
  BY DEF Pool!ShutdownLock, Executor!ShutdownLock
<1>2. Pool!ShutdownFlag(Game) = Executor!ShutdownFlag(Game)
  BY DEF Pool!ShutdownFlag, Executor!ShutdownFlag, Pool!NotifyAll, Executor!NotifyAll,
     Pool!Waiting, Executor!Waiting
<1>3. Pool!ShutdownJoin(Game, w) = Executor!ShutdownJoin(Game, w)
  BY DEF Pool!ShutdownJoin, Executor!ShutdownJoin
<1>4. Pool!ShutdownReturn(Game) = Executor!ShutdownReturn(Game)
  BY DEF Pool!ShutdownReturn, Executor!ShutdownReturn
<1>5. QED
  BY <1>1, <1>2, <1>3, <1>4

LEMMA SameWorker ==
    ASSUME NEW w
    PROVE  /\ WorkerInPool(w) => Executor!WorkerStep(w)
           /\ Pool!WorkerDone(w) => Executor!WorkerStep(w)
<1>1. Pool!WorkerLock(w) = Executor!WorkerLock(w)
  BY DEF Pool!WorkerLock, Executor!WorkerLock
<1>2. Pool!WorkerWait(w) = Executor!WorkerWait(w)
  BY DEF Pool!WorkerWait, Executor!WorkerWait
<1>3. Pool!SpuriousWakeup(w) = Executor!SpuriousWakeup(w)
  BY DEF Pool!SpuriousWakeup, Executor!SpuriousWakeup
<1>4. Pool!WorkerExit(w) = Executor!WorkerExit(w)
  BY DEF Pool!WorkerExit, Executor!WorkerExit
<1>5. Pool!WorkerTake(w) = Executor!WorkerTake(w)
  BY DEF Pool!WorkerTake, Executor!WorkerTake
<1>6. Pool!WorkerDone(w) = Executor!WorkerDone(w)
  BY DEF Pool!WorkerDone, Executor!WorkerDone
<1>7. QED
  BY <1>1, <1>2, <1>3, <1>4, <1>5, <1>6 DEF WorkerInPool, Executor!WorkerStep

\* The files, the clock and the handlers touch nothing of the executor but by
\* run and shutdown.
LEMMA PoolStep ==
    ASSUME todo \in Seq(Texts), [Next]_vars
    PROVE  [Executor!Next]_(Executor!vars)
<1>1. CASE InPool
  <2>1. GameInPool => Executor!CallerStep(Game)
    BY SameRun, SameShutdown DEF GameInPool, Executor!CallerStep
  <2>2. QED
    BY <1>1, <2>1, SameWorker DEF InPool, Executor!Next
<1>2. ASSUME NEW x \in Workers \cup {Game}, Close(x)
      PROVE  Executor!Next
  BY <1>2, SameRun, SameWorker DEF Close, Executor!Next, Executor!CallerStep
<1>3. CASE WriteFile
  <2>1. Head(todo) \in Texts
    BY <1>3 DEF WriteFile
  <2>2. QED
    BY <1>3, <2>1, SameRun DEF WriteFile, Executor!Next, Executor!CallerStep
<1>4. CASE Exit \/ Unload
  BY <1>4, SameShutdown DEF Exit, Unload, Executor!Next, Executor!CallerStep
<1>5. ASSUME UNCHANGED poolVars
      PROVE  UNCHANGED Executor!vars
  BY <1>5 DEF poolVars, Executor!vars
<1>6. ASSUME \/ \E x \in Workers \cup {Game} : Open(x) \/ OpenFails(x)
             \/ Load \/ BeginPlay \/ OnTick
             \/ \E b \in BOOLEAN : ServerChat(b)
             \/ Verdict \/ Exited \/ Unloaded \/ Second
             \/ \E d \in 1..MaxBack : StepBack(d)
             \/ Gone \/ UNCHANGED vars
      PROVE  UNCHANGED poolVars
  BY <1>6 DEF Open, OpenFails, Load, BeginPlay, OnTick, ServerChat, Verdict, Exited,
     Unloaded, Second, StepBack, Gone, vars
<1>7. QED
  BY <1>1, <1>2, <1>3, <1>4, <1>5, <1>6 DEF Next

-------------------------------------------------------------------------------
\* What the executor's invariant says of the threads that run a write: a write
\* is run by one thread, once, and by none when shutdown has returned.
LEMMA PoolFacts ==
    ASSUME Executor!IInv
    PROVE  /\ queue \in Seq(Texts) /\ finished \subseteq Texts
           /\ wpc \in [Workers -> Executor!WorkerPC]
           /\ task \in [Workers -> Texts \cup {None}]
           /\ cpc \in [{Game} -> Executor!CallerPC]
           /\ arg \in [{Game} -> Texts \cup {None}]
           /\ cpc[Game] \in {"run", "inline"} => arg[Game] # None
           /\ \A x \in Running : Current(x) \in Texts \ finished
           /\ \A x, y \in Running : Current(x) = Current(y) => x = y
           /\ cpc[Game] \in {"inline", "joining"} => isShuttingDownTaskQueue
           /\ drained => /\ queue = <<>> /\ isShuttingDownTaskQueue
                         /\ \A w \in Workers : wpc[w] = "exited"
<1> USE StatusAssumption, NoneAssumption
<1>1. Executor!TypeOK /\ Executor!LocalInv /\ Executor!WakeInv /\ Executor!JoinInv
      /\ Executor!OnceInv
  BY DEF Executor!IInv
<1>2. /\ queue \in Seq(Texts) /\ finished \subseteq Texts
      /\ wpc \in [Workers -> Executor!WorkerPC]
      /\ task \in [Workers -> Texts \cup {None}]
      /\ cpc \in [{Game} -> Executor!CallerPC]
      /\ arg \in [{Game} -> Texts \cup {None}]
  BY <1>1 DEF Executor!TypeOK
<1>3. cpc[Game] \in {"run", "inline"} => arg[Game] # None
  BY <1>1 DEF Executor!LocalInv
<1>4. \A w \in Workers :
         wpc[w] = "busy" => task[w] \in Texts \ finished /\ task[w] \in Executor!ToSet(started)
  BY <1>1, <1>2 DEF Executor!LocalInv, Executor!OnceInv
<1>5. cpc[Game] = "inline" =>
         arg[Game] \in Texts \ finished /\ arg[Game] \notin Executor!ToSet(started)
  BY <1>1, <1>2, <1>3 DEF Executor!OnceInv
<1>6. \A x \in Running : x # Game => x \in Workers /\ wpc[x] = "busy"
  BY DEF Running
<1>7. Game \in Running => cpc[Game] = "inline"
  BY DEF Running
<1>8. \A x \in Running : Current(x) \in Texts \ finished
  BY <1>4, <1>5, <1>6, <1>7 DEF Current
<1>9. ASSUME NEW x \in Running, NEW y \in Running, Current(x) = Current(y)
      PROVE  x = y
  <2>1. CASE x # Game /\ y # Game
    <3>1. task[x] = task[y] /\ task[x] # None /\ x \in Workers /\ y \in Workers
      BY <1>4, <1>6, <1>9, <2>1 DEF Current
    <3>2. QED
      BY <1>1, <3>1 DEF Executor!OnceInv
  <2>2. CASE x = Game /\ y # Game
    BY <1>4, <1>5, <1>6, <1>7, <1>9, <2>2 DEF Current
  <2>3. CASE x # Game /\ y = Game
    BY <1>4, <1>5, <1>6, <1>7, <1>9, <2>3 DEF Current
  <2>4. QED
    BY <2>1, <2>2, <2>3
<1>10. cpc[Game] \in {"inline", "joining"} => isShuttingDownTaskQueue
  BY <1>1 DEF Executor!WakeInv
<1>11. ASSUME drained
       PROVE  /\ queue = <<>> /\ isShuttingDownTaskQueue
              /\ \A w \in Workers : wpc[w] = "exited"
  BY <1>1, <1>11 DEF Executor!JoinInv, Executor!WakeInv
<1>12. QED
  BY <1>2, <1>3, <1>8, <1>9, <1>10, <1>11

\* A thread runs its write until it closes the file.
LEMMA Frame ==
    ASSUME Executor!IInv, [Next]_vars, \A x \in Workers \cup {Game} : ~Close(x)
    PROVE  /\ finished' = finished
           /\ Running \subseteq Running'
           /\ \A x \in Running : Current(x)' = Current(x)
<1> USE StatusAssumption
<1>0. /\ wpc \in [Workers -> Executor!WorkerPC] /\ task \in [Workers -> Texts \cup {None}]
      /\ cpc \in [{Game} -> Executor!CallerPC] /\ arg \in [{Game} -> Texts \cup {None}]
  BY PoolFacts
<1>a. ASSUME UNCHANGED <<wpc, cpc, arg, task, finished>>
      PROVE  /\ finished' = finished /\ Running \subseteq Running'
             /\ \A x \in Running : Current(x)' = Current(x)
  BY <1>a DEF Running, Current
\* It is enough that the thread stays where it is and keeps its text.
<1>b. ASSUME finished' = finished,
             \A w \in Workers : wpc[w] = "busy" => wpc'[w] = "busy" /\ task'[w] = task[w],
             cpc[Game] = "inline" => cpc'[Game] = "inline" /\ arg'[Game] = arg[Game]
      PROVE  /\ finished' = finished /\ Running \subseteq Running'
             /\ \A x \in Running : Current(x)' = Current(x)
  BY <1>b DEF Running, Current
<1>1. CASE GameInPool
  <2>1. CASE Pool!RunEnqueue(Game)
    BY <1>0, <1>b, <2>1 DEF Pool!RunEnqueue, Pool!NotifyOne, Pool!Waiting
  <2>2. CASE Pool!RunInline(Game)
    BY <1>0, <1>b, <2>2 DEF Pool!RunInline
  <2>3. CASE Pool!ShutdownFlag(Game)
    BY <1>0, <1>b, <2>3 DEF Pool!ShutdownFlag, Pool!NotifyAll, Pool!Waiting
  <2>4. CASE Pool!ShutdownReturn(Game)
    BY <1>0, <1>b, <2>4 DEF Pool!ShutdownReturn
  <2>5. CASE \E w \in Workers : Pool!ShutdownJoin(Game, w)
    BY <1>0, <1>b, <2>5 DEF Pool!ShutdownJoin
  <2>6. QED
    BY <1>1, <2>1, <2>2, <2>3, <2>4, <2>5 DEF GameInPool
<1>2. ASSUME NEW w \in Workers, WorkerInPool(w)
      PROVE  /\ finished' = finished /\ Running \subseteq Running'
             /\ \A x \in Running : Current(x)' = Current(x)
  <2>1. CASE Pool!WorkerLock(w)
    BY <1>0, <1>b, <2>1 DEF Pool!WorkerLock
  <2>2. CASE Pool!WorkerWait(w)
    BY <1>0, <1>b, <2>2 DEF Pool!WorkerWait
  <2>3. CASE Pool!SpuriousWakeup(w)
    BY <1>0, <1>b, <2>3 DEF Pool!SpuriousWakeup
  <2>4. CASE Pool!WorkerExit(w)
    BY <1>0, <1>b, <2>4 DEF Pool!WorkerExit
  <2>5. CASE Pool!WorkerTake(w)
    BY <1>0, <1>b, <2>5 DEF Pool!WorkerTake
  <2>6. QED
    BY <1>2, <2>1, <2>2, <2>3, <2>4, <2>5 DEF WorkerInPool
<1>3. CASE WriteFile
  BY <1>0, <1>b, <1>3 DEF WriteFile, Pool!RunLock
<1>4. CASE Exit \/ Unload
  BY <1>0, <1>b, <1>4 DEF Exit, Unload, Pool!ShutdownLock
<1>5. CASE \/ \E x \in Workers \cup {Game} : Open(x) \/ OpenFails(x)
           \/ Load \/ BeginPlay \/ OnTick
           \/ \E b \in BOOLEAN : ServerChat(b)
           \/ Verdict \/ Exited \/ Unloaded \/ Second
           \/ \E d \in 1..MaxBack : StepBack(d)
           \/ Gone \/ UNCHANGED vars
  <2>1. UNCHANGED poolVars
    BY <1>5 DEF Open, OpenFails, Load, BeginPlay, OnTick, ServerChat, Verdict, Exited,
       Unloaded, Second, StepBack, Gone, vars
  <2>2. QED
    BY <1>a, <2>1 DEF poolVars
<1>6. QED
  BY <1>1, <1>2, <1>3, <1>4, <1>5 DEF Next, InPool

-------------------------------------------------------------------------------
\* What is in the files.  NothingStale and NeverBlank are not inductive: a file
\* holds texts of its own, a thread that has opened one is still running, and a
\* text that was lost is over or with such a thread.  What an earlier run left in a
\* file no write has opened yet: those that tried were lost.
Filled ==
    \A f \in Files :
        (\E t \in finished \ lost : File(t) = f) /\ file[f] = {} =>
            \E x \in opened : File(Current(x)) = f /\ Current(x) \notin lost

Untouched ==
    \A f \in Files : file[f] \cap Earlier # {} =>
        /\ \A t \in finished : File(t) = f => t \in lost
        /\ \A x \in opened : File(Current(x)) = f => Current(x) \in lost

FileInv ==
    /\ opened \subseteq Running
    /\ file \in [Files -> SUBSET (Texts \cup Earlier)]
    /\ \A f \in Files : \A t \in file[f] : File(t) = f
    /\ superseded \subseteq finished \cup Earlier
    /\ Untouched
    /\ lost \subseteq finished \cup {Current(x) : x \in opened}
    /\ NothingStale
    /\ Filled

\* No text of this run is one of an earlier run.
LEMMA EarlierTexts == Texts \cap Earlier = {}
<1>1. \A t \in Earlier : t[2] = 0
  BY DEF Earlier
<1>2. \A t \in Texts : t[2] # 0
  BY StatusAssumption DEF Texts, Load_, Ready_, Clean, Unexpected
<1>3. QED
  BY <1>1, <1>2

\* The files hold at first what an earlier run left.
LEMMA FileInit == Init => FileInv
<1> SUFFICES ASSUME Init
             PROVE  FileInv
  OBVIOUS
<1>1. /\ file \in [Files -> SUBSET Earlier]
      /\ \A f \in Files : \A t \in file[f] : File(t) = f
  BY LeftAssumption DEF Init
<1>2. opened = {} /\ finished = {} /\ superseded = {} /\ lost = {}
  BY DEF Init, Pool!Init
<1>3. file \in [Files -> SUBSET (Texts \cup Earlier)]
  BY <1>1
<1>4. QED
  BY <1>1, <1>2, <1>3 DEF FileInv, NothingStale, Filled, Untouched

\* Every text belongs to one of the files.
LEMMA FileOf == \A t : File(t) \in Files
  BY DEF File, Files

\* A thread that closes its file is done with its text, the others go on.
LEMMA CloseFrame ==
    ASSUME Executor!IInv, NEW x \in Workers \cup {Game}, Close(x)
    PROVE  /\ x \in Running /\ finished' = finished \cup {Current(x)}
           /\ Running' = Running \ {x}
           /\ \A y \in Running \ {x} : Current(y)' = Current(y)
<1> USE StatusAssumption
<1>0. /\ wpc \in [Workers -> Executor!WorkerPC] /\ task \in [Workers -> Texts \cup {None}]
      /\ cpc \in [{Game} -> Executor!CallerPC] /\ arg \in [{Game} -> Texts \cup {None}]
  BY PoolFacts
<1>1. x \in Running
  BY DEF Close
<1>2. CASE x = Game
  <2>1. Pool!RunInlineDone(Game)
    BY <1>2 DEF Close
  <2>2. /\ finished' = finished \cup {arg[Game]} /\ wpc' = wpc /\ task' = task
        /\ cpc[Game] = "inline" /\ cpc'[Game] = "idle"
    BY <1>0, <2>1 DEF Pool!RunInlineDone
  <2>3. QED
    BY <1>1, <1>2, <2>2 DEF Running, Current
<1>3. CASE x # Game
  <2>1. x \in Workers /\ Pool!WorkerDone(x)
    BY <1>3 DEF Close
  <2>2. /\ finished' = finished \cup {task[x]} /\ cpc' = cpc /\ arg' = arg
        /\ wpc[x] = "busy" /\ wpc'[x] = "loop"
        /\ \A w \in Workers \ {x} : wpc'[w] = wpc[w] /\ task'[w] = task[w]
    BY <1>0, <2>1 DEF Pool!WorkerDone
  <2>3. QED
    BY <1>1, <1>3, <2>1, <2>2 DEF Running, Current
<1>4. QED
  BY <1>2, <1>3

\* Opening, writing and closing keep what is said of the files, however the
\* threads that do it overlap.
LEMMA FileStep == Executor!IInv /\ FileInv /\ [Next]_vars => FileInv'
<1> SUFFICES ASSUME Executor!IInv, FileInv, [Next]_vars
             PROVE  FileInv'
  OBVIOUS
<1>0. /\ \A x \in Running : Current(x) \in Texts \ finished
      /\ \A x, y \in Running : Current(x) = Current(y) => x = y
  BY PoolFacts
<1>a. \A x \in opened : x \in Running
  BY DEF FileInv
<1>1. ASSUME NEW x \in Workers \cup {Game}, Open(x)
      PROVE  FileInv'
  <2> DEFINE t == Current(x)
  <2>1. /\ x \in Running \ opened /\ opened' = opened \cup {x} /\ lost' = lost
        /\ file' = [file EXCEPT ![File(t)] = {}]
        /\ superseded' = superseded \cup {u \in finished \cup Earlier : File(u) = File(t)}
        /\ UNCHANGED poolVars
    BY <1>1 DEF Open
  <2>2. /\ finished' = finished /\ Running' = Running
        /\ \A y \in Running : Current(y)' = Current(y)
    BY <2>1 DEF poolVars, Running, Current
  <2>3. t \notin lost
    BY <1>0, <1>a, <2>1 DEF FileInv
  <2>4. /\ file' \in [Files -> SUBSET (Texts \cup Earlier)]
        /\ file'[File(t)] = {}
        /\ \A f \in Files : f # File(t) => file'[f] = file[f]
    BY <2>1, FileOf DEF FileInv
  <2> HIDE DEF t
  <2>5. NothingStale'
    <3>1. ASSUME NEW f \in Files
          PROVE  file'[f] \cap superseded' = {}
      <4>1. CASE f = File(t)
        BY <2>4, <4>1
      <4>2. CASE f # File(t)
        BY <2>1, <2>4, <4>2 DEF FileInv, NothingStale
      <4>3. QED
        BY <4>1, <4>2
    <3>2. QED
      BY <3>1 DEF NothingStale
  <2>6. Filled'
    <3>1. ASSUME NEW f \in Files, \E u \in finished \ lost : File(u) = f, file'[f] = {}
          PROVE  \E y \in opened' : File(Current(y)') = f /\ Current(y)' \notin lost
      <4>1. CASE f = File(t)
        BY <2>1, <2>2, <2>3, <4>1 DEF t
      <4>2. CASE f # File(t)
        <5>1. PICK y \in opened : File(Current(y)) = f /\ Current(y) \notin lost
          BY <2>4, <3>1, <4>2 DEF FileInv, Filled
        <5>2. QED
          BY <1>a, <2>1, <2>2, <5>1
      <4>3. QED
        BY <4>1, <4>2
    <3>2. QED
      BY <2>1, <2>2, <3>1 DEF Filled, Current, File
  <2>7. opened' \subseteq Running' /\ superseded' \subseteq finished' \cup Earlier
    BY <1>a, <2>1, <2>2 DEF FileInv
  <2>11. Untouched'
    <3>1. ASSUME NEW f \in Files, file'[f] \cap Earlier # {}
          PROVE  /\ \A u \in finished' : File(u) = f => u \in lost'
                 /\ \A y \in opened' : File(Current(y)') = f => Current(y)' \in lost'
      <4>1. f # File(t) /\ file'[f] = file[f]
        BY <2>4, <3>1
      <4>2. QED
        BY <1>a, <2>1, <2>2, <3>1, <4>1 DEF FileInv, Untouched, t
    <3>2. QED
      BY <3>1 DEF Untouched, Current, File
  <2>8. \A f \in Files : \A u \in file'[f] : File(u) = f
    BY <2>4 DEF FileInv
  <2>9. lost' \subseteq finished' \cup {Current(y)' : y \in opened'}
    BY <1>a, <2>1, <2>2 DEF FileInv
  <2>10. QED
    BY <2>4, <2>5, <2>6, <2>7, <2>8, <2>9, <2>11 DEF FileInv, Current, File
<1>2. ASSUME NEW x \in Workers \cup {Game}, OpenFails(x)
      PROVE  FileInv'
  <2>1. /\ x \in Running \ opened /\ opened' = opened \cup {x}
        /\ lost' = lost \cup {Current(x)}
        /\ file' = file /\ superseded' = superseded /\ UNCHANGED poolVars
    BY <1>2 DEF OpenFails
  <2>2. /\ finished' = finished /\ Running' = Running
        /\ \A y \in Running : Current(y)' = Current(y)
    BY <2>1 DEF poolVars, Running, Current
  <2>3. Filled'
    <3>1. ASSUME NEW f \in Files, \E u \in finished \ lost' : File(u) = f, file[f] = {}
          PROVE  \E y \in opened' : File(Current(y)') = f /\ Current(y)' \notin lost'
      <4>1. PICK y \in opened : File(Current(y)) = f /\ Current(y) \notin lost
        BY <2>1, <3>1 DEF FileInv, Filled
      <4>2. Current(y) # Current(x)
        BY <1>0, <1>a, <2>1, <4>1
      <4>3. QED
        BY <1>a, <2>1, <2>2, <4>1, <4>2
    <3>2. QED
      BY <2>1, <2>2, <3>1 DEF Filled, Current, File
  <2>4. /\ opened' \subseteq Running' /\ superseded' \subseteq finished' \cup Earlier
        /\ NothingStale'
    BY <1>a, <2>1, <2>2 DEF FileInv, NothingStale
  <2>7. Untouched'
    <3>1. ASSUME NEW f \in Files, file[f] \cap Earlier # {}
          PROVE  /\ \A u \in finished : File(u) = f => u \in lost'
                 /\ \A y \in opened' : File(Current(y)') = f => Current(y)' \in lost'
      BY <1>a, <2>1, <2>2, <3>1 DEF FileInv, Untouched
    <3>2. QED
      BY <2>1, <2>2, <3>1 DEF Untouched, Current, File
  <2>5. lost' \subseteq finished' \cup {Current(y)' : y \in opened'}
    BY <1>a, <2>1, <2>2 DEF FileInv
  <2>6. QED
    BY <2>1, <2>3, <2>4, <2>5, <2>7 DEF FileInv, Current, File
<1>3. ASSUME NEW x \in Workers \cup {Game}, Close(x)
      PROVE  FileInv'
  <2> DEFINE t == Current(x)
  <2>1. /\ x \in opened /\ opened' = opened \ {x}
        /\ lost' = lost /\ superseded' = superseded
        /\ file' = [file EXCEPT ![File(t)] = Written(t, file[File(t)])]
    BY <1>3 DEF Close
  <2>2. /\ x \in Running /\ finished' = finished \cup {t}
        /\ Running' = Running \ {x}
        /\ \A y \in Running \ {x} : Current(y)' = Current(y)
    BY <1>3, CloseFrame
  <2>3. t \in Texts /\ t \notin finished
    BY <1>0, <2>2
  <2>4. \A y \in opened \ {x} : Current(y) # t
    BY <1>0, <1>a, <2>2
  <2>5. /\ file'[File(t)] = Written(t, file[File(t)])
        /\ \A f \in Files : f # File(t) => file'[f] = file[f]
        /\ DOMAIN file' = Files
    BY <2>1, FileOf DEF FileInv
  <2> HIDE DEF t
  <2>6. /\ t \in lost => file'[File(t)] = file[File(t)]
        /\ t \notin lost => t \in file'[File(t)]
        /\ file'[File(t)] \subseteq file[File(t)] \cup {t}
    BY <2>5 DEF Written
  <2>7. file' \in [Files -> SUBSET (Texts \cup Earlier)]
    <3>1. ASSUME NEW f \in Files
          PROVE  file'[f] \in SUBSET (Texts \cup Earlier)
      BY <2>3, <2>5, <2>6, FileOf DEF FileInv
    <3>2. file' = [f \in Files |-> file'[f]]
      BY <2>1 DEF FileInv
    <3>3. QED
      BY <3>1, <3>2
  <2>8. \A f \in Files : \A u \in file'[f] : File(u) = f
    BY <2>5, <2>6, FileOf DEF FileInv
  <2>9. NothingStale'
    <3>1. ASSUME NEW f \in Files
          PROVE  file'[f] \cap superseded = {}
      <4>1. file[f] \cap superseded = {} /\ t \notin superseded
        BY <2>3, EarlierTexts DEF FileInv, NothingStale
      <4>2. QED
        BY <2>5, <2>6, <4>1
    <3>2. QED
      BY <2>1, <3>1 DEF NothingStale
  <2>10. Filled'
    <3>1. ASSUME NEW f \in Files, NEW u \in finished' \ lost, File(u) = f, file'[f] = {}
          PROVE  \E y \in opened' : File(Current(y)') = f /\ Current(y)' \notin lost
      <4>1. f = File(t) => t \in lost
        BY <2>6, <3>1
      <4>2. u \in finished \ lost /\ file[f] = {}
        BY <2>2, <2>5, <2>6, <3>1, <4>1
      <4>3. PICK y \in opened : File(Current(y)) = f /\ Current(y) \notin lost
        BY <3>1, <4>2 DEF FileInv, Filled
      <4>4. y # x
        BY <4>1, <4>3 DEF t
      <4>5. QED
        BY <1>a, <2>1, <2>2, <4>3, <4>4
    <3>2. QED
      BY <2>1, <3>1 DEF Filled, Current, File
  <2>11. opened' \subseteq Running' /\ superseded' \subseteq finished' \cup Earlier
    BY <1>a, <2>1, <2>2 DEF FileInv
  <2>14. Untouched'
    <3>1. ASSUME NEW f \in Files, file'[f] \cap Earlier # {}
          PROVE  /\ \A u \in finished' : File(u) = f => u \in lost
                 /\ \A y \in opened' : File(Current(y)') = f => Current(y)' \in lost
      <4>1. file[f] \cap Earlier # {}
        BY <2>3, <2>5, <2>6, <3>1, EarlierTexts
      <4>2. /\ \A u \in finished : File(u) = f => u \in lost
            /\ \A y \in opened : File(Current(y)) = f => Current(y) \in lost
        BY <3>1, <4>1 DEF FileInv, Untouched
      <4>3. File(t) = f => t \in lost
        BY <2>1, <4>2 DEF t
      <4>4. QED
        BY <1>a, <2>1, <2>2, <4>2, <4>3
    <3>2. QED
      BY <2>1, <3>1 DEF Untouched, Current, File
  <2>12. lost' \subseteq finished' \cup {Current(y)' : y \in opened'}
    <3>1. ASSUME NEW u \in lost, u \notin finished'
          PROVE  \E y \in opened' : u = Current(y)'
      <4>1. PICK y \in opened : u = Current(y)
        BY <2>2, <3>1 DEF FileInv
      <4>2. y # x
        BY <2>2, <3>1, <4>1 DEF t
      <4>3. QED
        BY <1>a, <2>1, <2>2, <4>1, <4>2
    <3>2. QED
      BY <2>1, <3>1
  <2>13. QED
    BY <2>7, <2>8, <2>9, <2>10, <2>11, <2>12, <2>14 DEF FileInv, Current, File
<1>4. ASSUME \A x \in Workers \cup {Game} : ~Open(x) /\ ~OpenFails(x) /\ ~Close(x)
      PROVE  FileInv'
  <2>1. opened' = opened /\ file' = file /\ superseded' = superseded /\ lost' = lost
    BY <1>4 DEF Next, InPool, Load, BeginPlay, OnTick, ServerChat, WriteFile, Exit,
       Verdict, Exited, Unload, Unloaded, Second, StepBack, Gone, vars, fileVars
  <2>2. /\ finished' = finished /\ Running \subseteq Running'
        /\ \A y \in Running : Current(y)' = Current(y)
    BY <1>4, Frame
  <2>3. Filled'
    <3>1. ASSUME NEW f \in Files, \E u \in finished \ lost : File(u) = f, file[f] = {}
          PROVE  \E y \in opened : File(Current(y)') = f /\ Current(y)' \notin lost
      BY <1>a, <2>2, <3>1 DEF FileInv, Filled
    <3>2. QED
      BY <2>1, <2>2, <3>1 DEF Filled, Current, File
  <2>4. lost' \subseteq finished' \cup {Current(y)' : y \in opened'}
    BY <1>a, <2>1, <2>2 DEF FileInv
  <2>5. Untouched'
    <3>1. ASSUME NEW f \in Files, file[f] \cap Earlier # {}
          PROVE  /\ \A u \in finished : File(u) = f => u \in lost
                 /\ \A y \in opened : File(Current(y)') = f => Current(y)' \in lost
      BY <1>a, <2>2, <3>1 DEF FileInv, Untouched
    <3>2. QED
      BY <2>1, <2>2, <3>1 DEF Untouched, Current, File
  <2>6. QED
    BY <1>a, <2>1, <2>2, <2>3, <2>4, <2>5 DEF FileInv, NothingStale
<1>5. QED
  BY <1>1, <1>2, <1>3, <1>4

-------------------------------------------------------------------------------
\* The clock and the heartbeat: the age of the last one is wrapped, and so due,
\* whenever it is negative.
ClockInv ==
    /\ framed \in BOOLEAN /\ ticks \in 0..MaxTicks /\ stepped \in 0..MaxBack
    /\ sinceTick \in (-stepped)..(TickRate + 1)
    /\ HeartbeatFresh

LEMMA Numbers ==
    /\ TickRate \in Nat /\ WordSize \in Nat /\ MaxTicks \in Nat /\ MaxBack \in Nat
    /\ TickRate + 1 + MaxBack < WordSize
  BY StatusAssumption

\* No heartbeat has been written, which makes one due.
LEMMA ClockInit == Init => ClockInv
<1> SUFFICES ASSUME Init
             PROVE  ClockInv
  OBVIOUS
<1>1. sinceTick = TickRate + 1 /\ framed = FALSE /\ ticks = 0 /\ stepped = 0
  BY DEF Init
<1>2. TickRate + 1 \in (-0)..(TickRate + 1) /\ 0 \in 0..MaxTicks /\ 0 \in 0..MaxBack
  BY Numbers
<1>3. QED
  BY <1>1, <1>2 DEF ClockInv, HeartbeatFresh

\* onTick leaves an age of 0..TickRate, and a second or a step back is no frame.
LEMMA ClockStep == ClockInv /\ [Next]_vars => ClockInv'
<1> SUFFICES ASSUME ClockInv, [Next]_vars
             PROVE  ClockInv'
  OBVIOUS
<1> USE Numbers DEF ClockInv, HeartbeatFresh
<1>1. CASE OnTick
  BY <1>1 DEF OnTick, TickDue
<1>2. CASE Second
  <2>1. sinceTick \in 0..TickRate /\ sinceTick' = sinceTick + 1 /\ framed' = FALSE
        /\ ticks' = ticks /\ stepped' = stepped
    BY <1>2 DEF Second
  <2>2. sinceTick' \in (-stepped)..(TickRate + 1)
    BY <2>1
  <2>3. QED
    BY <2>1, <2>2
<1>3. ASSUME NEW d \in 1..MaxBack, StepBack(d)
      PROVE  ClockInv'
  <2>1. sinceTick' = sinceTick - d /\ framed' = FALSE /\ ticks' = ticks
        /\ stepped' = stepped + d /\ stepped + d <= MaxBack
    BY <1>3 DEF StepBack
  <2>2. stepped' \in 0..MaxBack /\ sinceTick' \in (-stepped')..(TickRate + 1)
    BY <2>1
  <2>3. QED
    BY <2>1, <2>2
<1>4. CASE UNCHANGED timeVars
  BY <1>4 DEF timeVars
<1>5. QED
  <2>1. OnTick \/ Second \/ (\E d \in 1..MaxBack : StepBack(d)) \/ UNCHANGED timeVars
    BY DEF Next, InPool, Open, OpenFails, Close, Load, BeginPlay, ServerChat, WriteFile,
       Exit, Verdict, Exited, Unload, Unloaded, Gone, vars
  <2>2. QED
    BY <1>1, <1>2, <1>3, <1>4, <2>1

-------------------------------------------------------------------------------
\* The exit.  FinalStatus is not inductive: where the game thread is in its last
\* write says what is left to be done, and that there is no other verdict to be
\* written says what can be in the file.
Verdicts == {Clean, Unexpected}
NoVerdict ==
    /\ todo \in Seq(Texts \ Verdicts) /\ queue \in Seq(Texts \ Verdicts)
    /\ arg[Game] \notin Verdicts
    /\ \A w \in Workers : task[w] \notin Verdicts
    /\ file["status.txt"] \cap Verdicts = {}

Deciding ==
    /\ todo = <<Reached>> /\ cpc[Game] = "idle"
    /\ file["status.txt"] \cap Verdicts = {}

Writing ==
    /\ todo = <<>> /\ cpc[Game] \in {"run", "inline"} /\ arg[Game] = Reached
    /\ file["status.txt"] \cap Verdicts = {}
    /\ Game \in opened /\ Reached \notin lost => file["status.txt"] = {}

Decided ==
    /\ todo = <<>> /\ cpc[Game] = "idle"
    /\ file["status.txt"] \cap Verdicts \subseteq {Reached}
    /\ Reached \notin lost => file["status.txt"] = {Reached}

Phases == {"out", "loaded", "exiting", "verdict", "exited", "unloading", "unloaded"}

LifeInv ==
    /\ phase \in Phases /\ serverReady \in BOOLEAN /\ shuttingDown \in BOOLEAN
    /\ todo \in Seq(Texts)
    /\ phase \notin {"verdict", "exited"} => NoVerdict
    /\ phase \in {"out", "loaded"} => ~drained /\ cpc[Game] \in {"idle", "run", "inline"}
    /\ phase \in {"exiting", "unloading"} =>
          /\ todo = <<>>
          /\ \/ cpc[Game] \in {"shutdown", "joining"} /\ ~drained
             \/ cpc[Game] = "idle" /\ drained
    /\ phase = "verdict" => drained /\ (Deciding \/ Writing \/ Decided)
    /\ phase = "exited" => drained /\ Decided
    /\ phase = "unloaded" => drained /\ cpc[Game] = "idle" /\ todo = <<>>

\* The verdicts are texts of status.txt, like load and ready.
LEMMA VerdictTexts ==
    /\ Clean # Unexpected /\ Verdicts \subseteq Texts /\ Reached \in Verdicts
    /\ {Load_, Ready_} \subseteq Texts \ Verdicts
    /\ \A n \in 1..MaxTicks : <<"tick", n>> \in Texts \ Verdicts
    /\ \A t \in Verdicts : File(t) = "status.txt"
<1>1. Clean # Unexpected
  BY DEF Clean, Unexpected
<1>2. {Load_, Ready_} \cap Verdicts = {}
  BY DEF Load_, Ready_, Clean, Unexpected, Verdicts
<1>3. \A n \in 1..MaxTicks : <<"tick", n>> \notin Verdicts /\ <<"tick", n>> \in Texts
  BY DEF Clean, Unexpected, Verdicts, Texts
<1>4. File(Clean) = "status.txt" /\ File(Unexpected) = "status.txt"
  BY DEF File, Clean, Unexpected
<1>5. QED
  BY <1>1, <1>2, <1>3, <1>4 DEF Verdicts, Texts, Reached

\* One or two texts are a sequence of texts.
LEMMA ShortSeq ==
    ASSUME NEW S, NEW a \in S, NEW b \in S
    PROVE  <<a>> \in Seq(S) /\ <<a, b>> \in Seq(S)
  OBVIOUS

\* Nothing is to be written before the plugin is loaded.
LEMMA LifeInit == Init => LifeInv
<1> SUFFICES ASSUME Init
             PROVE  LifeInv
  OBVIOUS
<1> USE StatusAssumption, NoneAssumption
<1>1. /\ queue = <<>> /\ todo = <<>> /\ cpc[Game] = "idle" /\ arg[Game] = None /\ ~drained
      /\ \A w \in Workers : task[w] = None
  BY DEF Init, Pool!Init
<1>6. file["status.txt"] \cap Verdicts = {}
  <2>1. file["status.txt"] \subseteq Earlier
    BY LeftAssumption DEF Init, Files
  <2>2. QED
    BY <2>1, EarlierTexts, VerdictTexts
<1>2. None \notin Verdicts
  BY VerdictTexts
<1>3. <<>> \in Seq(Texts \ Verdicts) /\ <<>> \in Seq(Texts)
  OBVIOUS
<1>4. NoVerdict
  BY <1>1, <1>2, <1>3, <1>6 DEF NoVerdict
<1>5. QED
  BY <1>1, <1>3, <1>4 DEF Init, LifeInv, Phases

\* What the workers do takes no verdict into a file before there is one, and
\* they have all ended when there is.
LEMMA WorkerLife ==
    ASSUME Executor!IInv, LifeInv, NEW w \in Workers, WorkerInPool(w),
           UNCHANGED <<fileVars, timeVars, lifeVars>>
    PROVE  LifeInv'
<1> USE StatusAssumption
<1>0. /\ queue \in Seq(Texts) /\ wpc \in [Workers -> Executor!WorkerPC]
      /\ task \in [Workers -> Texts \cup {None}]
      /\ drained => wpc[w] = "exited"
  BY PoolFacts
<1>1. /\ cpc' = cpc /\ arg' = arg /\ drained' = drained /\ ~drained
  BY <1>0 DEF WorkerInPool, Pool!WorkerLock, Pool!WorkerWait, Pool!SpuriousWakeup,
     Pool!WorkerExit, Pool!WorkerTake
<1>2. /\ phase' = phase /\ serverReady' = serverReady /\ shuttingDown' = shuttingDown
      /\ todo' = todo /\ file' = file
  BY DEF fileVars, lifeVars
<1>3. NoVerdict => NoVerdict'
  <2>1. SUFFICES ASSUME NoVerdict
                 PROVE  queue' \in Seq(Texts \ Verdicts) /\ \A v \in Workers : task'[v] \notin Verdicts
    BY <1>1, <1>2 DEF NoVerdict
  <2>2. CASE Pool!WorkerTake(w)
    <3>1. queue # <<>> /\ queue' = Tail(queue) /\ task' = [task EXCEPT ![w] = Head(queue)]
      BY <2>2 DEF Pool!WorkerTake
    <3>2. Head(queue) \in Texts \ Verdicts /\ queue' \in Seq(Texts \ Verdicts)
      BY <2>1, <3>1 DEF NoVerdict
    <3>3. QED
      BY <1>0, <2>1, <3>1, <3>2 DEF NoVerdict
  <2>3. CASE ~Pool!WorkerTake(w)
    <3>1. queue' = queue /\ task' = task
      BY <2>3 DEF WorkerInPool, Pool!WorkerLock, Pool!WorkerWait, Pool!SpuriousWakeup,
         Pool!WorkerExit
    <3>2. QED
      BY <2>1, <3>1 DEF NoVerdict
  <2>4. QED
    BY <2>2, <2>3
<1>4. QED
  BY <1>1, <1>2, <1>3 DEF LifeInv

\* Before the exit hook run and shutdown carry no verdict; in its last write the
\* executor is shut down, so that run writes the verdict itself.
LEMMA GameLife ==
    ASSUME Executor!IInv, FileInv, LifeInv, GameInPool,
           UNCHANGED <<fileVars, timeVars, lifeVars>>
    PROVE  LifeInv'
<1> USE StatusAssumption
<1>0. /\ queue \in Seq(Texts) /\ cpc \in [{Game} -> Executor!CallerPC]
      /\ arg \in [{Game} -> Texts \cup {None}]
      /\ cpc[Game] \in {"run", "inline"} => arg[Game] # None
      /\ drained => isShuttingDownTaskQueue
  BY PoolFacts
<1>1. /\ phase' = phase /\ serverReady' = serverReady /\ shuttingDown' = shuttingDown
      /\ todo' = todo /\ file' = file /\ opened' = opened /\ lost' = lost
  BY DEF fileVars, lifeVars
<1>a. None \notin Verdicts
  BY NoneAssumption, VerdictTexts
<1>2. CASE Pool!RunEnqueue(Game)
  <2>1. /\ cpc[Game] = "run" /\ ~isShuttingDownTaskQueue /\ drained' = drained
        /\ cpc' = [cpc EXCEPT ![Game] = "idle"] /\ arg' = [arg EXCEPT ![Game] = None]
        /\ queue' = Append(queue, arg[Game]) /\ task' = task
    BY <1>2 DEF Pool!RunEnqueue
  <2>2. cpc'[Game] = "idle" /\ arg'[Game] = None /\ phase \in {"out", "loaded"}
    BY <1>0, <2>1 DEF LifeInv, Phases
  <2>3. NoVerdict /\ arg[Game] \in Texts \ Verdicts
    BY <1>0, <2>1, <2>2 DEF LifeInv, NoVerdict
  <2>4. queue' \in Seq(Texts \ Verdicts)
    BY <2>1, <2>3 DEF NoVerdict
  <2>5. NoVerdict'
    BY <1>1, <1>a, <2>1, <2>2, <2>3, <2>4 DEF NoVerdict
  <2>6. QED
    BY <1>1, <2>1, <2>2, <2>5 DEF LifeInv
<1>3. CASE Pool!RunInline(Game)
  <2>1. /\ cpc[Game] = "run" /\ cpc' = [cpc EXCEPT ![Game] = "inline"]
        /\ UNCHANGED <<arg, queue, task, drained>>
    BY <1>3 DEF Pool!RunInline
  <2>2. cpc'[Game] = "inline" /\ phase \in {"out", "loaded", "verdict"}
    BY <1>0, <2>1 DEF LifeInv, Phases, Decided
  <2>3. Game \notin opened
    BY <2>1 DEF FileInv, Running
  <2>4. NoVerdict => NoVerdict'
    BY <1>1, <2>1 DEF NoVerdict
  <2>5. phase = "verdict" => Writing'
    BY <1>1, <2>1, <2>2, <2>3 DEF LifeInv, Deciding, Writing, Decided, Reached
  <2>6. QED
    BY <1>1, <2>1, <2>2, <2>4, <2>5 DEF LifeInv
<1>4. CASE Pool!ShutdownFlag(Game) \/ \E w \in Workers : Pool!ShutdownJoin(Game, w)
  <2>1. /\ cpc[Game] \in {"shutdown", "joining"} /\ cpc'[Game] = "joining"
        /\ UNCHANGED <<arg, queue, task, drained>>
    BY <1>0, <1>4 DEF Pool!ShutdownFlag, Pool!ShutdownJoin
  <2>2. phase \in {"exiting", "unloading"}
    BY <2>1 DEF LifeInv, Phases, Deciding, Writing, Decided
  <2>3. NoVerdict => NoVerdict'
    BY <1>1, <2>1 DEF NoVerdict
  <2>4. QED
    BY <1>1, <2>1, <2>2, <2>3 DEF LifeInv
<1>5. CASE Pool!ShutdownReturn(Game)
  <2>1. /\ cpc[Game] = "joining" /\ cpc'[Game] = "idle" /\ drained' = TRUE
        /\ UNCHANGED <<arg, queue, task>>
    BY <1>0, <1>5 DEF Pool!ShutdownReturn
  <2>2. phase \in {"exiting", "unloading"}
    BY <2>1 DEF LifeInv, Phases, Deciding, Writing, Decided
  <2>3. NoVerdict => NoVerdict'
    BY <1>1, <2>1 DEF NoVerdict
  <2>4. QED
    BY <1>1, <2>1, <2>2, <2>3 DEF LifeInv
<1>6. QED
  BY <1>2, <1>3, <1>4, <1>5 DEF GameInPool

\* Opening and closing the file of the verdict; other files do not matter.
LEMMA WriteLife ==
    ASSUME Executor!IInv, FileInv, LifeInv, NEW x \in Workers \cup {Game},
           Open(x) \/ OpenFails(x) \/ Close(x)
    PROVE  LifeInv'
<1> USE StatusAssumption
<1> DEFINE t == Current(x)
           status == file["status.txt"]
<1>0. /\ wpc \in [Workers -> Executor!WorkerPC] /\ task \in [Workers -> Texts \cup {None}]
      /\ cpc \in [{Game} -> Executor!CallerPC] /\ arg \in [{Game} -> Texts \cup {None}]
      /\ drained => \A w \in Workers : wpc[w] = "exited"
  BY PoolFacts
<1>1. /\ phase' = phase /\ serverReady' = serverReady /\ shuttingDown' = shuttingDown
      /\ todo' = todo /\ drained' = drained /\ queue' = queue
  BY DEF Open, OpenFails, Close, lifeVars, poolVars, Pool!RunInlineDone, Pool!WorkerDone
<1>2. x \in Running /\ (x # Game => x \in Workers /\ wpc[x] = "busy")
      /\ (x = Game => cpc[Game] = "inline")
  BY DEF Open, OpenFails, Close, Running
<1>3. drained => x = Game
  BY <1>0, <1>2
<1>4. file \in [Files -> SUBSET (Texts \cup Earlier)] /\ "status.txt" \in Files
  BY DEF FileInv, Files
<1>5. /\ Open(x) => file'["status.txt"] \in {status, {}}
      /\ OpenFails(x) => file'["status.txt"] = status
      /\ Close(x) => file'["status.txt"] \in {status, Written(t, status)}
  BY <1>4, FileOf DEF Open, OpenFails, Close
<1>6. file'["status.txt"] \subseteq status \cup {t}
  BY <1>5 DEF Written
<1>7. CASE phase \notin {"verdict", "exited"}
  <2>1. NoVerdict
    BY <1>7 DEF LifeInv
  <2>2. t \notin Verdicts
    BY <1>2, <2>1 DEF NoVerdict, Current
  <2>3. /\ arg'[Game] \in {arg[Game], None} /\ \A w \in Workers : task'[w] \in {task[w], None}
        /\ cpc'[Game] \in {cpc[Game], "idle"}
    BY <1>0 DEF Open, OpenFails, Close, poolVars, Pool!RunInlineDone, Pool!WorkerDone
  <2>4. None \notin Verdicts
    BY NoneAssumption, VerdictTexts
  <2>5. NoVerdict'
    BY <1>1, <1>6, <2>1, <2>2, <2>3, <2>4 DEF NoVerdict
  <2>6. cpc'[Game] = "idle" => cpc[Game] = "idle" \/ cpc[Game] = "inline"
    BY <1>0 DEF Open, OpenFails, Close, poolVars, Pool!RunInlineDone, Pool!WorkerDone
  <2>7. QED
    BY <1>1, <1>7, <2>3, <2>5, <2>6 DEF LifeInv
<1>8. CASE phase \in {"verdict", "exited"}
  <2>1. x = Game /\ cpc[Game] = "inline" /\ phase = "verdict" /\ Writing /\ drained
    BY <1>2, <1>3, <1>8 DEF LifeInv, Deciding, Decided
  <2>2. t = Reached /\ Reached \in Verdicts /\ File(t) = "status.txt" /\ Reached' = Reached
    BY <1>1, <2>1, VerdictTexts DEF Writing, Current, Reached
  <2>3. CASE Open(x)
    <3>1. file'["status.txt"] = {} /\ UNCHANGED <<cpc, arg>>
      BY <1>4, <2>2, <2>3 DEF Open, poolVars
    <3>2. Writing'
      BY <1>1, <2>1, <2>2, <3>1 DEF Writing
    <3>3. QED
      BY <1>1, <2>1, <3>2 DEF LifeInv
  <2>4. CASE OpenFails(x)
    <3>1. Reached \in lost' /\ UNCHANGED <<cpc, arg, file>>
      BY <2>2, <2>4 DEF OpenFails, poolVars
    <3>2. Writing'
      BY <1>1, <2>1, <2>2, <3>1 DEF Writing
    <3>3. QED
      BY <1>1, <2>1, <3>2 DEF LifeInv
  <2>5. CASE Close(x)
    <3>1. /\ Game \in opened /\ cpc'[Game] = "idle" /\ lost' = lost
          /\ file'["status.txt"] = Written(Reached, status)
      BY <1>0, <1>4, <2>1, <2>2, <2>5 DEF Close, Pool!RunInlineDone
    <3>2. Reached \notin lost => file'["status.txt"] = {Reached}
      BY <2>1, <3>1 DEF Writing, Written
    <3>3. Reached \in lost => file'["status.txt"] = status
      BY <3>1 DEF Written
    <3>4. Decided'
      BY <1>1, <2>1, <2>2, <3>1, <3>2, <3>3 DEF Writing, Decided
    <3>5. QED
      BY <1>1, <2>1, <3>4 DEF LifeInv
  <2>6. QED
    BY <2>3, <2>4, <2>5
<1>9. QED
  BY <1>7, <1>8

\* The handlers of the game thread: only Verdict has a verdict written.
LEMMA HandlerLife ==
    ASSUME Executor!IInv, ClockInv, FileInv, LifeInv,
           \/ Load \/ BeginPlay \/ OnTick \/ WriteFile
           \/ \E b \in BOOLEAN : ServerChat(b)
           \/ Exit \/ Verdict \/ Exited \/ Unload \/ Unloaded
    PROVE  LifeInv'
<1> USE StatusAssumption
<1>0. cpc \in [{Game} -> Executor!CallerPC] /\ arg \in [{Game} -> Texts \cup {None}]
  BY PoolFacts
\* A handler that leaves the executor alone and has only other texts written.
<1>a. ASSUME phase' \in Phases, phase' \notin {"verdict", "exited"},
             phase \notin {"verdict", "exited"},
             todo' \in Seq(Texts \ Verdicts), UNCHANGED <<poolVars, file>>
      PROVE  NoVerdict' /\ todo' \in Seq(Texts)
  BY <1>a DEF LifeInv, NoVerdict, poolVars
<1>1. CASE Load
  <2>1. todo' \in Seq(Texts \ Verdicts)
    <3>1. Load_ \in Texts \ Verdicts /\ Ready_ \in Texts \ Verdicts
      BY VerdictTexts
    <3>2. <<Load_>> \in Seq(Texts \ Verdicts) /\ <<Load_, Ready_>> \in Seq(Texts \ Verdicts)
      BY <3>1, ShortSeq
    <3>3. QED
      BY <1>1, <3>2 DEF Load
  <2>2. NoVerdict' /\ todo' \in Seq(Texts)
    BY <1>1, <1>a, <2>1 DEF Load, Phases, fileVars
  <2>3. QED
    BY <1>1, <2>2 DEF Load, LifeInv, Phases, poolVars
<1>2. CASE BeginPlay
  <2>1. todo' \in Seq(Texts \ Verdicts)
    <3>1. Ready_ \in Texts \ Verdicts
      BY VerdictTexts
    <3>2. <<Ready_>> \in Seq(Texts \ Verdicts)
      BY <3>1, ShortSeq
    <3>3. QED
      BY <1>2, <3>2 DEF BeginPlay
  <2>2. NoVerdict' /\ todo' \in Seq(Texts)
    BY <1>2, <1>a, <2>1 DEF BeginPlay, Phases, fileVars
  <2>3. QED
    BY <1>2, <2>2 DEF BeginPlay, LifeInv, Phases, poolVars
<1>3. CASE OnTick
  <2>1. phase = "loaded" /\ NoVerdict
    BY <1>3 DEF OnTick, LifeInv
  <2>2. ticks + 1 \in 1..MaxTicks
    BY <1>3, Numbers DEF OnTick, ClockInv
  <2>3. <<"tick", ticks + 1>> \in Texts \ Verdicts
    BY <2>2, VerdictTexts
  <2>4. todo' = todo \/ todo' = <<(<<"tick", ticks + 1>>)>>
    BY <1>3 DEF OnTick
  <2>5. todo' \in Seq(Texts \ Verdicts)
    <3>1. <<(<<"tick", ticks + 1>>)>> \in Seq(Texts \ Verdicts)
      BY <2>3, ShortSeq
    <3>2. QED
      BY <2>1, <2>4, <3>1 DEF NoVerdict
  <2>6. /\ phase' = phase /\ serverReady' = serverReady /\ shuttingDown' = shuttingDown
        /\ UNCHANGED <<poolVars, file>>
    BY <1>3 DEF OnTick, fileVars
  <2>7. QED
    BY <1>a, <2>1, <2>5, <2>6 DEF LifeInv, Phases, poolVars
<1>4. ASSUME NEW b \in BOOLEAN, ServerChat(b)
      PROVE  LifeInv'
  <2>1. todo' \in Seq(Texts \ Verdicts)
    BY <1>4 DEF ServerChat, LifeInv, NoVerdict
  <2>2. NoVerdict' /\ todo' \in Seq(Texts)
    BY <1>4, <1>a, <2>1 DEF ServerChat, Phases, fileVars
  <2>3. QED
    BY <1>4, <2>2 DEF ServerChat, LifeInv, Phases, poolVars
<1>5. CASE WriteFile
  <2>1. /\ todo # <<>> /\ cpc[Game] = "idle" /\ todo' = Tail(todo)
        /\ cpc'[Game] = "run" /\ arg'[Game] = Head(todo)
        /\ UNCHANGED <<queue, task, drained, file, phase, serverReady, shuttingDown>>
    BY <1>0, <1>5 DEF WriteFile, Pool!RunLock, fileVars
  <2>2. todo' \in Seq(Texts) /\ Head(todo) \in Texts
    BY <2>1 DEF LifeInv
  <2>3. CASE phase = "verdict"
    <3>1. Deciding
      BY <2>1, <2>3 DEF LifeInv, Writing, Decided
    <3>2. todo' = <<>> /\ arg'[Game] = Reached /\ Reached' = Reached
      BY <2>1, <3>1 DEF Deciding, Reached
    <3>3. Writing'
      <4>1. Game \notin opened'
        BY <1>5, <2>1 DEF WriteFile, FileInv, Running, fileVars
      <4>2. file["status.txt"] \cap Verdicts = {}
        BY <3>1 DEF Deciding
      <4>3. QED
        BY <2>1, <3>2, <4>1, <4>2 DEF Writing
    <3>4. QED
      BY <2>1, <2>2, <2>3, <3>3 DEF LifeInv
  <2>4. CASE phase \in {"out", "loaded"}
    <3>1. Head(todo) \in Texts \ Verdicts /\ todo' \in Seq(Texts \ Verdicts)
      BY <2>1, <2>4 DEF LifeInv, NoVerdict
    <3>2. NoVerdict'
      BY <2>1, <2>4, <3>1 DEF LifeInv, NoVerdict
    <3>3. QED
      BY <2>1, <2>2, <2>4, <3>2 DEF LifeInv
  <2>5. QED
    BY <2>1, <2>3, <2>4 DEF LifeInv, Phases, Decided
<1>6. CASE Exit \/ Unload
  <2>1. /\ phase = "loaded" /\ todo = <<>> /\ phase' \in {"exiting", "unloading"}
        /\ todo' = todo /\ serverReady' = serverReady /\ shuttingDown' \in BOOLEAN
        /\ cpc'[Game] = "shutdown" /\ UNCHANGED <<queue, task, arg, drained, file>>
    BY <1>0, <1>6 DEF Exit, Unload, Free, Pool!ShutdownLock, fileVars, LifeInv
  <2>2. NoVerdict'
    BY <2>1 DEF LifeInv, NoVerdict
  <2>3. QED
    BY <2>1, <2>2 DEF LifeInv, Phases
<1>7. CASE Verdict
  <2>1. /\ phase = "exiting" /\ drained /\ phase' = "verdict"
        /\ todo' = <<Reached>> /\ serverReady' = serverReady /\ shuttingDown' = shuttingDown
        /\ UNCHANGED <<cpc, drained, file>>
    BY <1>7 DEF Verdict, Reached, poolVars, fileVars
  <2>2. Reached' = Reached /\ Reached \in Texts
    BY <2>1, VerdictTexts DEF Reached
  <2>3. Deciding'
    BY <2>1, <2>2 DEF Deciding, LifeInv, NoVerdict
  <2>4. todo' \in Seq(Texts)
    BY <2>1, <2>2
  <2>5. QED
    BY <2>1, <2>3, <2>4 DEF LifeInv, Phases
<1>8. CASE Exited
  BY <1>8 DEF Exited, Free, LifeInv, Phases, Deciding, Writing, Decided, Reached,
     poolVars, fileVars
<1>9. CASE Unloaded
  BY <1>9 DEF Unloaded, LifeInv, Phases, NoVerdict, poolVars, fileVars
<1>10. QED
  BY <1>1, <1>2, <1>3, <1>4, <1>5, <1>6, <1>7, <1>8, <1>9

LEMMA LifeStep ==
    Executor!IInv /\ ClockInv /\ FileInv /\ LifeInv /\ [Next]_vars => LifeInv'
<1> SUFFICES ASSUME Executor!IInv, ClockInv, FileInv, LifeInv, [Next]_vars
             PROVE  LifeInv'
  OBVIOUS
<1>1. CASE InPool
  BY <1>1, WorkerLife, GameLife DEF InPool
<1>2. CASE \E x \in Workers \cup {Game} : Open(x) \/ OpenFails(x) \/ Close(x)
  BY <1>2, WriteLife
<1>3. CASE \/ Load \/ BeginPlay \/ OnTick \/ WriteFile
           \/ \E b \in BOOLEAN : ServerChat(b)
           \/ Exit \/ Verdict \/ Exited \/ Unload \/ Unloaded
  BY <1>3, HandlerLife
<1>4. CASE Second \/ (\E d \in 1..MaxBack : StepBack(d)) \/ Gone \/ UNCHANGED vars
  <2>1. UNCHANGED <<poolVars, fileVars, lifeVars>>
    BY <1>4 DEF Second, StepBack, Gone, vars
  <2>2. QED
    BY <2>1 DEF LifeInv, NoVerdict, Deciding, Writing, Decided, Reached,
       poolVars, fileVars, lifeVars
<1>5. QED
  BY <1>1, <1>2, <1>3, <1>4 DEF Next

\* Handlers have only texts written.
LEMMA TodoStep ==
    ASSUME ClockInv, todo \in Seq(Texts), [Next]_vars
    PROVE  todo' \in Seq(Texts)
<1>1. CASE OnTick
  <2>1. ticks + 1 \in 1..MaxTicks
    BY <1>1, Numbers DEF OnTick, ClockInv
  <2>2. <<"tick", ticks + 1>> \in Texts
    BY <2>1, VerdictTexts
  <2>3. <<(<<"tick", ticks + 1>>)>> \in Seq(Texts)
    BY <2>2, ShortSeq
  <2>4. QED
    BY <1>1, <2>3 DEF OnTick
<1>2. CASE Load \/ BeginPlay \/ Verdict
  <2>1. Load_ \in Texts /\ Ready_ \in Texts /\ Clean \in Texts /\ Unexpected \in Texts
    BY DEF Texts
  <2>2. /\ <<Load_>> \in Seq(Texts) /\ <<Load_, Ready_>> \in Seq(Texts)
        /\ <<Ready_>> \in Seq(Texts) /\ <<Clean>> \in Seq(Texts)
        /\ <<Unexpected>> \in Seq(Texts)
    BY <2>1, ShortSeq
  <2>3. QED
    BY <1>2, <2>2 DEF Load, BeginPlay, Verdict
<1>3. CASE WriteFile
  BY <1>3 DEF WriteFile
<1>4. CASE todo' = todo
  BY <1>4
<1>5. QED
  BY <1>1, <1>2, <1>3, <1>4 DEF Next, InPool, Open, OpenFails, Close, ServerChat, Exit,
     Exited, Unload, Unloaded, Second, StepBack, Gone, vars, lifeVars

-------------------------------------------------------------------------------
\* The properties of the heartbeat, of the files and of the exit.
IInv == ClockInv /\ FileInv /\ LifeInv

\* The plugin is a user of the executor that TaskExecutor allows: all that is
\* proved of the executor (every text accepted is written once, none is lost by
\* shutdown, which leaves no thread behind) holds inside the plugin.
THEOREM PoolTheorem == Spec => Executor!Spec
<1>1. Init => Executor!Init /\ ClockInv /\ todo \in Seq(Texts)
  BY SameInit, ClockInit DEF Init
<1>2. ClockInv /\ todo \in Seq(Texts) /\ [Next]_vars
         => ClockInv' /\ (todo \in Seq(Texts))'
  BY ClockStep, TodoStep
<1>3. todo \in Seq(Texts) /\ [Next]_vars => [Executor!Next]_(Executor!vars)
  BY PoolStep
<1>4. QED
  BY <1>1, <1>2, <1>3, PTL DEF Spec, Executor!Spec

\* Inside the plugin the executor keeps its contract: what run accepts is run once,
\* by the pool or, after shutdown, by the game thread; shutdown returns when it is over.
THEOREM ContractTheorem == Spec => Executor!Contract!CSafety
  BY PoolTheorem, ExecutorGiven, Executor!Implementation, PTL

\* Every reachable state satisfies the inductive invariant, next to that of the
\* executor.
THEOREM Invariance == Spec => [](Executor!IInv /\ IInv)
<1>1. Init => IInv
  BY ClockInit, FileInit, LifeInit DEF IInv
<1>2. Executor!IInv /\ IInv /\ [Next]_vars => IInv'
  BY ClockStep, FileStep, LifeStep DEF IInv
<1>3. Spec => []Executor!IInv
  BY PoolTheorem, ExecutorGiven, Executor!Invariance, PTL
<1>4. QED
  BY <1>1, <1>2, <1>3, PTL DEF Spec

\* Every variable keeps its type.
THEOREM TypeCorrect == Spec => []TypeOK
<1>1. ASSUME Executor!IInv, IInv
      PROVE  TypeOK
  <2>1. Pool!TypeOK
    BY <1>1 DEF Executor!IInv, Executor!TypeOK, Pool!TypeOK, Executor!WorkerPC,
       Pool!WorkerPC, Executor!CallerPC, Pool!CallerPC
  <2>2. sinceTick \in (-MaxBack)..(TickRate + 1)
    BY <1>1, Numbers DEF IInv, ClockInv
  <2>3. Running \subseteq Workers \cup {Game} /\ finished \subseteq Texts
    BY <1>1, PoolFacts DEF Running
  <2>4. \A x \in opened : Current(x) \in Texts
    BY <1>1, PoolFacts DEF IInv, FileInv
  <2>5. /\ opened \subseteq Workers \cup {Game}
        /\ file \in [Files -> SUBSET (Texts \cup Earlier)]
        /\ superseded \subseteq Texts \cup Earlier /\ lost \subseteq Texts
    BY <1>1, <2>3, <2>4 DEF IInv, FileInv
  <2>6. /\ phase \in Phases /\ serverReady \in BOOLEAN /\ shuttingDown \in BOOLEAN
        /\ todo \in Seq(Texts)
    BY <1>1 DEF IInv, LifeInv
  <2>7. framed \in BOOLEAN /\ ticks \in 0..MaxTicks /\ stepped \in 0..MaxBack
    BY <1>1 DEF IInv, ClockInv
  <2>8. QED
    BY <2>1, <2>2, <2>5, <2>6, <2>7 DEF TypeOK, Phases
<1>2. QED
  BY <1>1, Invariance, PTL

\* After the exit hook status.txt holds the verdict, unless it did not open, and
\* nothing is left that could write over it.
THEOREM FinalTheorem == Spec => []FinalStatus
<1>1. ASSUME Executor!IInv, IInv
      PROVE  FinalStatus
  <2>1. SUFFICES ASSUME phase = "exited"
                 PROVE  /\ Reached \notin lost => file["status.txt"] = {Reached}
                        /\ opened = {} /\ queue = <<>>
                        /\ \A w \in Workers : wpc[w] = "exited"
    BY DEF FinalStatus
  <2>2. drained /\ Decided
    BY <1>1, <2>1 DEF IInv, LifeInv
  <2>3. queue = <<>> /\ \A w \in Workers : wpc[w] = "exited"
    BY <1>1, <2>2, PoolFacts
  <2>4. opened = {}
    BY <1>1, <2>2, <2>3 DEF IInv, FileInv, Running, Decided
  <2>5. QED
    BY <2>2, <2>3, <2>4 DEF Decided
<1>2. QED
  BY <1>1, Invariance, PTL

\* status.txt shows no verdict of this run but the one that was reached, and one of an
\* earlier run only while every status of this run that was written has been lost.
THEOREM VerdictTheorem == Spec => []NoFalseVerdict
<1>1. ASSUME IInv
      PROVE  NoFalseVerdict
  <2>1. \A t \in Verdicts :
           t \in file["status.txt"] => phase \in {"verdict", "exited"} /\ t = Reached
    <3>1. CASE phase \notin {"verdict", "exited"}
      BY <1>1, <3>1 DEF IInv, LifeInv, NoVerdict
    <3>2. CASE phase \in {"verdict", "exited"}
      BY <1>1, <3>2 DEF IInv, LifeInv, Deciding, Writing, Decided
    <3>3. QED
      BY <3>1, <3>2
  <2>2. file["status.txt"] \cap Earlier # {} =>
           \A t \in finished \cup {Current(x) : x \in opened} :
               File(t) = "status.txt" => t \in lost
    BY <1>1 DEF IInv, FileInv, Untouched, Files
  <2>3. QED
    BY <2>1, <2>2 DEF NoFalseVerdict, Verdicts
<1>2. QED
  BY <1>1, Invariance, PTL

\* No file shows what was over, in an earlier run or in this one, before its last
\* write began.
THEOREM StaleTheorem == Spec => []NothingStale
<1>1. IInv => NothingStale
  BY DEF IInv, FileInv
<1>2. QED
  BY <1>1, Invariance, PTL

\* No file is blank once a write to it is over, but while another is under way.
THEOREM BlankTheorem == Spec => []NeverBlank
<1>1. IInv => NeverBlank
  BY DEF IInv, FileInv, Filled, NeverBlank
<1>2. QED
  BY <1>1, Invariance, PTL

\* The heartbeat is never older than TickRate after onTick.
THEOREM HeartbeatTheorem == Spec => []HeartbeatFresh
<1>1. IInv => HeartbeatFresh
  BY DEF IInv, ClockInv
<1>2. QED
  BY <1>1, Invariance, PTL

-------------------------------------------------------------------------------
(* Every text is asked for once.  RunLock takes a task only if it is new to     *)
(* the executor; the plugin never calls it with another.                       *)

\* What was given to run, and what the current handler still gives to it.
Promised == Executor!Handed \cup {todo[i] : i \in DOMAIN todo}

\* A handler's texts are new when it begins: each status belongs to a point of the
\* plugin's life that is passed once, each heartbeat has its number.
Fresh ==
    /\ \A i \in DOMAIN todo : todo[i] \notin Executor!Handed
    /\ \A i, j \in DOMAIN todo : todo[i] = todo[j] => i = j
    /\ phase = "out" => Load_ \notin Promised
    /\ phase = "out" \/ ~serverReady => Ready_ \notin Promised
    /\ \A n \in 1..MaxTicks : n > ticks => <<"tick", n>> \notin Promised
    /\ phase \notin {"verdict", "exited"} => Promised \cap Verdicts = {}

\* Nothing is given to run but by writeFile.
LEMMA HandedStep ==
    ASSUME Executor!IInv, todo \in Seq(Texts), [Next]_vars
    PROVE  /\ Executor!Handed' \subseteq
                  Executor!Handed \cup {None} \cup (IF WriteFile THEN {Head(todo)} ELSE {})
           /\ WriteFile => todo # <<>> /\ todo' = Tail(todo)
<1> USE StatusAssumption
<1>0. /\ accepted \in Seq(Texts) /\ started \in Seq(Texts) /\ queue \in Seq(Texts)
      /\ accepted = started \o queue
      /\ arg \in [{Game} -> Texts \cup {None}]
      /\ \A w \in Workers : wpc[w] = "busy" => task[w] \in Executor!ToSet(started)
  BY DEF Executor!IInv, Executor!TypeOK, Executor!InOrder, Executor!LocalInv, Executor!OnceInv
<1>1. Executor!Handed = {arg[Game]} \cup {accepted[i] : i \in DOMAIN accepted} \cup finished
  BY DEF Executor!Handed, Executor!ToSet
<1>2. Executor!Handed' =
         {arg'[Game]} \cup {accepted'[i] : i \in DOMAIN accepted'} \cup finished'
  BY DEF Executor!Handed, Executor!ToSet
<1>3. CASE UNCHANGED <<arg, accepted, finished>> /\ ~WriteFile
  BY <1>1, <1>2, <1>3
<1>4. CASE WriteFile
  <2>1. todo # <<>> /\ todo' = Tail(todo) /\ accepted' = accepted /\ finished' = finished
        /\ arg' = [arg EXCEPT ![Game] = Head(todo)]
    BY <1>4 DEF WriteFile, Pool!RunLock
  <2>2. arg'[Game] = Head(todo)
    BY <1>0, <2>1
  <2>3. QED
    BY <1>1, <1>2, <1>4, <2>1, <2>2
<1>5. CASE Pool!RunEnqueue(Game) /\ ~WriteFile
  <2>1. /\ accepted' = Append(accepted, arg[Game]) /\ finished' = finished
        /\ arg' = [arg EXCEPT ![Game] = None]
    BY <1>5 DEF Pool!RunEnqueue
  <2>2. arg'[Game] = None
    BY <1>0, <2>1
  <2>3. \A i \in DOMAIN accepted' : accepted'[i] \in {accepted[j] : j \in DOMAIN accepted} \cup {arg[Game]}
    BY <1>0, <2>1
  <2>4. QED
    BY <1>1, <1>2, <1>5, <2>1, <2>2, <2>3
<1>6. CASE Pool!RunInlineDone(Game) /\ ~WriteFile
  <2>1. /\ accepted' = accepted /\ finished' = finished \cup {arg[Game]}
        /\ arg' = [arg EXCEPT ![Game] = None]
    BY <1>6 DEF Pool!RunInlineDone
  <2>2. arg'[Game] = None
    BY <1>0, <2>1
  <2>3. QED
    BY <1>1, <1>2, <1>6, <2>1, <2>2
<1>7. ASSUME NEW w \in Workers, Pool!WorkerDone(w), ~WriteFile
      PROVE  Executor!Handed' \subseteq Executor!Handed
  <2>1. /\ accepted' = accepted /\ finished' = finished \cup {task[w]} /\ arg' = arg
        /\ wpc[w] = "busy"
    BY <1>7 DEF Pool!WorkerDone
  <2>2. PICK i \in DOMAIN started : task[w] = started[i]
    BY <1>0, <2>1 DEF Executor!ToSet
  <2>3. i \in DOMAIN accepted /\ accepted[i] = task[w]
    BY <1>0, <2>2
  <2>4. QED
    BY <1>1, <1>2, <2>1, <2>3
<1>8. QED
  <2>1. CASE InPool
    <3>1. Pool!RunEnqueue(Game) \/ UNCHANGED <<arg, accepted, finished>>
      BY <2>1 DEF InPool, GameInPool, WorkerInPool, Pool!RunInline, Pool!ShutdownFlag,
         Pool!ShutdownReturn, Pool!ShutdownJoin, Pool!WorkerLock, Pool!WorkerWait,
         Pool!SpuriousWakeup, Pool!WorkerExit, Pool!WorkerTake
    <3>2. QED
      BY <1>3, <1>4, <1>5, <3>1
  <2>2. ASSUME NEW x \in Workers \cup {Game}, Close(x)
        PROVE  Pool!RunInlineDone(Game) \/ \E w \in Workers : Pool!WorkerDone(w)
    BY <2>2 DEF Close
  <2>3. CASE Exit \/ Unload
    BY <1>3, <1>4, <2>3 DEF Exit, Unload, Pool!ShutdownLock
  <2>4. CASE \/ \E x \in Workers \cup {Game} : Open(x) \/ OpenFails(x)
             \/ Load \/ BeginPlay \/ OnTick
             \/ \E b \in BOOLEAN : ServerChat(b)
             \/ Verdict \/ Exited \/ Unloaded \/ Second
             \/ \E d \in 1..MaxBack : StepBack(d)
             \/ Gone \/ UNCHANGED vars
    <3>1. UNCHANGED poolVars
      BY <2>4 DEF Open, OpenFails, Load, BeginPlay, OnTick, ServerChat, Verdict, Exited,
         Unloaded, Second, StepBack, Gone, vars
    <3>2. QED
      BY <1>3, <1>4, <3>1 DEF poolVars
  <2>5. QED
    BY <1>4, <1>6, <1>7, <2>1, <2>2, <2>3, <2>4 DEF Next

\* The texts are different ones.
LEMMA OtherTexts ==
    /\ Load_ # Ready_ /\ None \notin Texts
    /\ \A n \in 1..MaxTicks : <<"tick", n>> # Load_ /\ <<"tick", n>> # Ready_
    /\ \A m, n \in 1..MaxTicks : <<"tick", m>> = <<"tick", n>> => m = n
  BY NoneAssumption DEF Load_, Ready_

\* Nothing new is promised by what begins no handler with something to write.
LEMMA FreshKept ==
    ASSUME Fresh, Executor!Handed' \subseteq Executor!Handed \cup {None},
           todo \in Seq(Texts), UNCHANGED <<todo, serverReady, ticks>>,
           phase' = "out" => phase = "out",
           phase \in {"verdict", "exited"} => phase' \in {"verdict", "exited"}
    PROVE  Fresh'
<1>1. Promised' \subseteq Promised \cup {None} /\ \A i \in DOMAIN todo : todo[i] # None
  BY OtherTexts DEF Promised
<1>2. /\ None \notin Verdicts /\ Load_ # None /\ Ready_ # None
      /\ \A n \in 1..MaxTicks : <<"tick", n>> # None
  BY OtherTexts, VerdictTexts
<1>3. QED
  BY <1>1, <1>2 DEF Fresh

\* writeFile takes the first text of the handler to the executor.
LEMMA FreshWrite ==
    ASSUME Fresh, WriteFile, todo \in Seq(Texts), todo # <<>>, todo' = Tail(todo),
           Executor!Handed' \subseteq Executor!Handed \cup {None, Head(todo)}
    PROVE  Fresh'
<1>1. /\ \A i \in DOMAIN todo' : i + 1 \in DOMAIN todo /\ todo'[i] = todo[i + 1]
                                /\ i \in Int
      /\ 1 \in DOMAIN todo /\ Head(todo) = todo[1]
  OBVIOUS
<1>2. \A i \in DOMAIN todo' : todo'[i] # todo[1] /\ todo'[i] \notin Executor!Handed
  <2>1. SUFFICES ASSUME NEW i \in DOMAIN todo'
                 PROVE  todo'[i] # todo[1] /\ todo'[i] \notin Executor!Handed
    OBVIOUS
  <2>2. i + 1 # 1
    <3>1. i \in 1..Len(todo')
      OBVIOUS
    <3>2. QED
      BY <3>1
  <2>3. QED
    BY <1>1, <2>1, <2>2 DEF Fresh
<1>3. /\ \A i \in DOMAIN todo' : todo'[i] # None
      /\ None \notin Verdicts /\ Load_ # None /\ Ready_ # None
      /\ \A n \in 1..MaxTicks : <<"tick", n>> # None
  BY <1>1, OtherTexts, VerdictTexts
<1>4. Promised' \subseteq Promised \cup {None}
  BY <1>1 DEF Promised
<1>5. \A i \in DOMAIN todo' : todo'[i] \notin Executor!Handed'
  BY <1>1, <1>2, <1>3
<1>6. \A i, j \in DOMAIN todo' : todo'[i] = todo'[j] => i = j
  <2>1. SUFFICES ASSUME NEW i \in DOMAIN todo', NEW j \in DOMAIN todo', todo'[i] = todo'[j]
                 PROVE  i = j
    OBVIOUS
  <2>2. i + 1 = j + 1
    BY <1>1, <2>1 DEF Fresh
  <2>3. QED
    BY <1>1, <2>2
<1>7. UNCHANGED <<phase, serverReady, ticks>>
  BY DEF WriteFile, timeVars
<1>8. QED
  BY <1>3, <1>4, <1>5, <1>6, <1>7 DEF Fresh

\* A handler adds texts for which its point of the plugin's life has come.
LEMMA FreshBegun ==
    ASSUME Fresh, Executor!Handed' \subseteq Executor!Handed \cup {None}, ClockInv, LifeInv,
           Load \/ BeginPlay \/ OnTick \/ Verdict
    PROVE  Fresh'
<1> USE Numbers
<1>0. /\ None \notin Verdicts /\ Load_ # None /\ Ready_ # None /\ Load_ # Ready_
      /\ Load_ \notin Verdicts /\ Ready_ \notin Verdicts
      /\ Reached \in Verdicts /\ None \notin Verdicts
      /\ \A n \in 1..MaxTicks : /\ <<"tick", n>> # None /\ <<"tick", n>> \notin Verdicts
                                /\ <<"tick", n>> # Load_ /\ <<"tick", n>> # Ready_
      /\ \A m, n \in 1..MaxTicks : <<"tick", m>> = <<"tick", n>> => m = n
  BY OtherTexts, VerdictTexts
<1>1. Executor!Handed \subseteq Promised
  BY DEF Promised
<1>2. Promised' = Executor!Handed' \cup {todo'[i] : i \in DOMAIN todo'}
  BY DEF Promised
<1>3. CASE Load
  <2>1. /\ phase = "out" /\ phase' = "loaded" /\ serverReady' = serverReady /\ ticks' = ticks
        /\ todo' = IF serverReady THEN <<Load_, Ready_>> ELSE <<Load_>>
    BY <1>3 DEF Load, timeVars
  <2>2. {todo'[i] : i \in DOMAIN todo'} =
            IF serverReady THEN {Load_, Ready_} ELSE {Load_}
    BY <2>1
  <2>3. \A i, j \in DOMAIN todo' : todo'[i] = todo'[j] => i = j
    BY <1>0, <2>1
  <2>4. \A i \in DOMAIN todo' : todo'[i] \notin Executor!Handed'
    BY <1>0, <1>1, <2>1, <2>2 DEF Fresh
  <2>5. QED
    BY <1>0, <1>1, <1>2, <2>1, <2>2, <2>3, <2>4 DEF Fresh
<1>4. CASE BeginPlay
  <2>1. /\ phase = "loaded" /\ phase' = phase /\ ~serverReady /\ serverReady' /\ ticks' = ticks
        /\ todo' = <<Ready_>>
    BY <1>4 DEF BeginPlay, timeVars
  <2>2. {todo'[i] : i \in DOMAIN todo'} = {Ready_} /\ DOMAIN todo' = {1} /\ todo'[1] = Ready_
    BY <2>1
  <2>3. QED
    BY <1>0, <1>1, <1>2, <2>1, <2>2 DEF Fresh
<1>5. CASE Verdict
  <2>1. /\ phase = "exiting" /\ phase' = "verdict" /\ serverReady' = serverReady
        /\ ticks' = ticks /\ todo' = <<Reached>>
    BY <1>5 DEF Verdict, timeVars, Reached
  <2>2. {todo'[i] : i \in DOMAIN todo'} = {Reached} /\ DOMAIN todo' = {1} /\ todo'[1] = Reached
    BY <2>1
  <2>3. QED
    BY <1>0, <1>1, <1>2, <2>1, <2>2 DEF Fresh
<1>6. CASE OnTick /\ TickDue(sinceTick)
  <2> DEFINE t == <<"tick", ticks + 1>>
  <2>1. /\ phase = "loaded" /\ phase' = phase /\ serverReady' = serverReady
        /\ ticks' = ticks + 1 /\ todo' = <<t>> /\ ticks + 1 \in 1..MaxTicks
    BY <1>6 DEF OnTick, ClockInv
  <2>2. /\ t # None /\ t \notin Verdicts /\ t # Load_ /\ t # Ready_ /\ t \notin Promised
        /\ \A n \in 1..MaxTicks : n > ticks + 1 => <<"tick", n>> # t
    BY <1>0, <2>1 DEF Fresh, ClockInv
  <2> HIDE DEF t
  <2>3. {todo'[i] : i \in DOMAIN todo'} = {t} /\ DOMAIN todo' = {1} /\ todo'[1] = t
    BY <2>1
  <2>4. \A n \in 1..MaxTicks : n > ticks' => n > ticks
    BY <2>1 DEF ClockInv
  <2>5. QED
    BY <1>0, <1>1, <1>2, <2>1, <2>2, <2>3, <2>4 DEF Fresh
<1>7. CASE OnTick /\ ~TickDue(sinceTick)
  BY <1>7, FreshKept DEF OnTick, LifeInv
<1>8. QED
  BY <1>3, <1>4, <1>5, <1>6, <1>7

LEMMA FreshStep ==
    Executor!IInv /\ IInv /\ Fresh /\ [Next]_vars => Fresh'
<1> SUFFICES ASSUME Executor!IInv, IInv, Fresh, [Next]_vars
             PROVE  Fresh'
  OBVIOUS
<1>0. todo \in Seq(Texts) /\ LifeInv /\ ClockInv
  BY DEF IInv, LifeInv
<1>1. CASE WriteFile
  BY <1>0, <1>1, HandedStep, FreshWrite
<1>2. CASE ~WriteFile
  <2>1. Executor!Handed' \subseteq Executor!Handed \cup {None}
    BY <1>0, <1>2, HandedStep
  <2>2. CASE Load \/ BeginPlay \/ OnTick \/ Verdict
    BY <1>0, <2>1, <2>2, FreshBegun
  <2>3. CASE ~(Load \/ BeginPlay \/ OnTick \/ Verdict)
    <3>1. /\ UNCHANGED <<todo, serverReady, ticks>>
          /\ phase' = "out" => phase = "out"
          /\ phase \in {"verdict", "exited"} => phase' \in {"verdict", "exited"}
      BY <1>2, <2>3 DEF Next, InPool, Open, OpenFails, Close, ServerChat, Exit, Exited,
         Unload, Unloaded, Second, StepBack, Gone, vars, lifeVars, timeVars
    <3>2. QED
      BY <1>0, <2>1, <3>1, FreshKept
  <2>4. QED
    BY <2>2, <2>3
<1>3. QED
  BY <1>1, <1>2

\* Every status and every heartbeat is given to the executor once, and nothing
\* that a handler still has to write has been given to it before.
THEOREM FreshTheorem == Spec => []Fresh
<1>1. Init => Fresh
  <2>1. SUFFICES ASSUME Init
                 PROVE  Fresh
    OBVIOUS
  <2>2. todo = <<>> /\ Executor!Handed \subseteq {None}
    <3>1. /\ todo = <<>> /\ accepted = <<>> /\ finished = {}
          /\ \A c \in {Game} : arg[c] = None
      BY <2>1 DEF Init, Pool!Init
    <3>2. {accepted[i] : i \in DOMAIN accepted} = {}
      BY <3>1
    <3>3. QED
      BY <3>1, <3>2 DEF Executor!Handed, Executor!ToSet
  <2>3. Promised \subseteq {None} /\ DOMAIN todo = {}
    BY <2>2 DEF Promised
  <2>4. /\ Verdicts \subseteq Texts /\ Load_ \in Texts /\ Ready_ \in Texts
        /\ \A n \in 1..MaxTicks : <<"tick", n>> \in Texts
    BY VerdictTexts
  <2>5. QED
    BY <2>3, <2>4, NoneAssumption DEF Fresh
<1>2. QED
  BY <1>1, FreshStep, Invariance, PTL DEF Spec

-------------------------------------------------------------------------------
(* What ExitEnds rests on, apart from the fairness: there is always a thread   *)
(* that can go on until the plugin is gone, and then nothing moves.            *)

\* The game thread waits for nobody: the rest of a handler is open to it, or the
\* call of run it is about to make, or a step inside run and shutdown, which does
\* not throw (a thread that runs a task can always open or close its file).
GameGoesOn ==
    \/ phase \in {"exiting", "unloading"} /\ drained
    \/ phase = "verdict" /\ Free
    \/ /\ todo # <<>> /\ cpc[Game] = "idle" /\ mutex = None
       /\ Head(todo) \notin Executor!Handed
    \/ cpc[Game] \in {"run", "inline", "shutdown"}
    \/ /\ cpc[Game] = "joining"
       /\ toJoin = {} \/ \E w \in toJoin \cap joinable : wpc[w] = "exited"

ExitGoesOn ==
    phase \in {"exiting", "verdict", "unloading"} \/ todo # <<>> =>
        GameGoesOn \/ \E w \in Workers : Executor!WorkerGoesOn(w)

\* Neither the exit nor a handler that writes is ever stuck: not by the mutex that
\* run holds while it runs a task, not by a join, not by an exception of join.
THEOREM ExitTheorem == Spec => []ExitGoesOn
<1>1. ASSUME Executor!IInv, IInv, Fresh, Executor!NeverStuck, Executor!FirstJoins
      PROVE  ExitGoesOn
  <2> USE StatusAssumption
  <2>1. SUFFICES ASSUME phase \in {"exiting", "verdict", "unloading"} \/ todo # <<>>
                 PROVE  GameGoesOn \/ \E w \in Workers : Executor!WorkerGoesOn(w)
    BY DEF ExitGoesOn
  <2>2. /\ cpc \in [{Game} -> Executor!CallerPC] /\ LifeInv
        /\ shutdowns \in 0..1 /\ mutex \in Workers \cup {Game} \cup {None}
        /\ \A w \in Workers : wpc[w] = "locked" <=> mutex = w
        /\ cpc[Game] \in {"run", "inline", "shutdown"} <=> mutex = Game
    BY <1>1 DEF Executor!IInv, Executor!TypeOK, Executor!LockInv, IInv
  <2>3. CASE cpc[Game] \in {"run", "inline", "shutdown"}
    BY <2>3 DEF GameGoesOn
  <2>4. CASE cpc[Game] = "joining"
    <3>1. toJoin = joinable
      BY <1>1, <2>2, <2>4 DEF Executor!FirstJoins
    <3>2. (\E w \in Workers : Executor!WorkerGoesOn(w)) \/ Executor!CallerGoesOn(Game)
      BY <1>1, <2>4 DEF Executor!NeverStuck
    <3>3. QED
      BY <2>4, <3>1, <3>2 DEF GameGoesOn, Executor!CallerGoesOn
  <2>5. CASE cpc[Game] = "threw"
    BY <1>1, <2>2, <2>5 DEF Executor!FirstJoins
  <2>6. CASE cpc[Game] = "idle"
    <3>1. CASE phase \in {"exiting", "unloading"}
      BY <2>2, <2>6, <3>1 DEF LifeInv, GameGoesOn
    <3>2. CASE phase = "verdict" /\ todo = <<>>
      BY <2>6, <3>2 DEF Free, GameGoesOn
    <3>3. CASE todo # <<>>
      <4>1. CASE mutex = None
        <5>1. 1 \in DOMAIN todo /\ Head(todo) = todo[1]
          BY <2>2, <3>3 DEF LifeInv
        <5>2. QED
          BY <1>1, <2>6, <3>3, <4>1, <5>1 DEF Fresh, GameGoesOn
      <4>2. CASE mutex # None
        BY <2>2, <2>6, <4>2 DEF Executor!WorkerGoesOn
      <4>3. QED
        BY <4>1, <4>2
    <3>4. QED
      BY <2>1, <3>1, <3>2, <3>3
  <2>7. QED
    BY <2>2, <2>3, <2>4, <2>5, <2>6 DEF Executor!CallerPC
<1>2. Spec => [](Executor!NeverStuck /\ Executor!FirstJoins)
  BY PoolTheorem, ExecutorGiven, Executor!StuckTheorem, Executor!FirstTheorem, PTL
<1>3. QED
  BY <1>1, <1>2, Invariance, FreshTheorem, PTL

\* When the exit hook or Unload is over no thread of the plugin has a step left:
\* no file changes any more, whatever the clock does.
AllRests == phase \in {"exited", "unloaded"} => UNCHANGED <<poolVars, fileVars, lifeVars>>

THEOREM RestTheorem == Spec => [][AllRests]_vars
<1>1. ASSUME Executor!IInv, IInv, [Next]_vars, phase \in {"exited", "unloaded"}
      PROVE  UNCHANGED <<poolVars, fileVars, lifeVars>>
  <2>1. drained /\ cpc[Game] = "idle" /\ todo = <<>>
    BY <1>1 DEF IInv, LifeInv, Decided
  <2>2. Running = {} /\ \A w \in Workers : wpc[w] = "exited"
    BY <1>1, <2>1, PoolFacts DEF Running
  <2>3. ~InPool
    BY <2>1, <2>2 DEF InPool, GameInPool, WorkerInPool, Pool!RunEnqueue, Pool!RunInline,
       Pool!ShutdownFlag, Pool!ShutdownReturn, Pool!ShutdownJoin, Pool!WorkerLock,
       Pool!WorkerWait, Pool!SpuriousWakeup, Pool!WorkerExit, Pool!WorkerTake
  <2>4. \A x \in Workers \cup {Game} : ~Open(x) /\ ~OpenFails(x) /\ ~Close(x)
    BY <2>2 DEF Open, OpenFails, Close
  <2>5. /\ ~Load /\ ~BeginPlay /\ ~OnTick /\ ~WriteFile /\ ~Exit /\ ~Verdict /\ ~Exited
        /\ ~Unload /\ ~Unloaded /\ \A b \in BOOLEAN : ~ServerChat(b)
    BY <1>1, <2>1 DEF Load, BeginPlay, OnTick, WriteFile, Exit, Verdict, Exited, Unload,
       Unloaded, ServerChat
  <2>6. QED
    BY <1>1, <2>3, <2>4, <2>5 DEF Next, Second, StepBack, Gone, vars
<1>2. Executor!IInv /\ IInv /\ [Next]_vars => [AllRests]_vars
  BY <1>1 DEF AllRests
<1>3. QED
  BY <1>2, Invariance, PTL DEF Spec
===============================================================================
