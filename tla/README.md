# A verification of the SA plugin

The repository is a plugin for the ARK game server (a DLL loaded by ARK-Server-API). It hooks
functions of the game, runs callbacks on the game thread and writes two files for a supervisor
outside the process. This directory holds TLA+ models of the parts with state that other steps
can disturb, TLC configurations that check them, and TLAPS proofs.

All paths below are under `src/`.

## 1. Inventory

| Component | State it keeps | Operations | Talks to | Hard behaviour | What makes it correct |
|---|---|---|---|---|---|
| **TaskExecutor** `Helpers/TaskExecutor.{h,cpp}` | `queue`, `mutex`, `signal`, `isShuttingDownTaskQueue`, `threads` | `run`, `shutdown`, `dispatchTasks` (each worker) | called by `writeFile`, the exit hook, `Unload` | threads, condition variable, spurious wakeups, tasks that come after shutdown, second shutdown | no task lost, doubled or reordered; no worker sleeps while a task is queued; shutdown drains and ends |
| **WorldSave** `Plugin/worldsave.cpp` | `lastDmg`, `lastSave`, `hasPendingSave`, `pendingForceSave`; `shuttingDown` (shared) | hooks SaveWorld, TakeDamage, StartNewShooterPlayer, ServerChat/Broadcast, PreLogin; three timer callbacks; Load, Unload | game (hooks), `API::Timer` (`DELAYEXECUTE`), wall clock | callbacks that meet flags changed since they were scheduled; unsigned time; re-entrant SaveWorld | flags agree with the outstanding timers; announced saves are made; deferral is bounded |
| **Plugin life and status files** `Plugin/saomega.cpp`, `Plugin/util.cpp` | `exiting`, `shuttingDown`, `lastTickStatus`; `status.txt`, `tick.txt` | Load, BeginPlay hook, onTick, FEngineLoop_Exit hook, Unload, `writeFile` | TaskExecutor, WorldSave (`shuttingDown`), supervisor | two workers write one file at once; exit with writes queued; files that do not open and hold an earlier run's text; wall clock set back | the verdict on the shutdown is the last text; nothing stale is left; the heartbeat does not stop |
| **SafeQueue** `Helpers/SafeQueue.hpp` | `q`, `_shutdown`, `m`, `c` | `enqueue`, `dequeue`, `shutdown` | nobody: included by `worldsave.cpp`, never instantiated | waiting consumers, shutdown without the lock | first in first out, nothing stranded, dequeue returns an element |
| **Registration** `Plugin/saomega.cpp`, `Plugin/commands.cpp`, `Helpers/macros.h` | hooks, commands, tick callback and timers the server holds | each `Load` and `Unload` | ARK-Server-API, `API::Timer` | load/unload/load sequences, timers that outlive Unload, exit after Unload | the server calls no code of an image that is gone; an image shuts its executor down once |
| **Experience** `Plugin/experience.cpp` | `addExpAmount` | AddExperience hook, which nests in its own original | game | saved and restored global around a re-entrant call; caps of the last level | each call sees the amount of the one around it; shares and caps hold together |
| **Breeding** `Plugin/breeding.cpp` | none of its own; the game's counters and rolls | DoMate hook (rolls set to 0 around the original), BeginPlay, UpdateBabyCuddling | game | int sums of mutation counts overflow; counts add up twice in inbred lines | a line gathers no more mutations than the limit; rolls restored |
| **Spyglass** `Plugin/spyglass.cpp` | blueprints in static locals, item held by a timer | hooks StartNewShooterPlayer (the same function as WorldSave's) and NotifyItemAdded, 5 s timer | timer, BlueprintCache | the item's life during the timer; a blueprint asked for too early | a buff taken off comes back; a spyglass is recognised once the mod is there |
| **BlueprintCache** `Helpers/BlueprintCache.h` | `cls` | Get | game | null kept by the callers' statics | a class that can be found is found |
| **Commands** `Plugin/commands.cpp` | none | SendNotification (rcon), /dumptarget (chat, writes to the log) | game | order of checks; empty fields dropped | what is well formed is shown as written (but for its alpha), what is not is refused |
| **Config** `Plugin/config.cpp` | one JSON value | ReadConfig; ReloadConfig, never registered | file | read by no other code | |
| **Loot** `Plugin/loot.cpp` | none | one pass over the engine's objects, by a timer of Load | game | classes loaded after the pass | |
| **Alliance, damage** `Plugin/saomega.cpp` | none | `isEitherAdminTribe` and four hooks | game | none | |
| **DB, singleton** `Plugin/DB.h`, `Helpers/singleton.h` | none in the program | none | nobody includes them | | |
| **Vendored code, build** `libs`, `includes.h`, CMake | | | | | |

How they interact. The game thread runs every hook, timer callback and `onTick`, one at a time.
The workers of the executor are the only other threads, and `writeFile` is the only code that
gives them work; what they share with the game thread is the executor's own state and the two
files. `shuttingDown` ties WorldSave to the life of the plugin: its chat hooks set it, the exit
hook reads it to choose the last status. WorldSave and Spyglass both hook StartNewShooterPlayer;
they share no state. Registration ties all parts to the life of the library: what each gave the
server (hooks, commands, timers) is a pointer into it.

## 2. Modules

| Module | Role |
|---|---|
| `ExecutorContract` | abstract specification: what `run` and `shutdown` promise their callers |
| `TaskExecutor` | the pool, thread by thread; refines `ExecutorContract` |
| `TaskExecutorProofs` | theorems about it, the refinement included |
| `SavePromise` | abstract specification: a save that is promised is made |
| `WorldSave` | the save gate, its timers and the clock; refines `SavePromise` |
| `WorldSaveProofs` | theorems about it, the refinement included |
| `StatusFiles` | plugin life, `writeFile` and the files, composed with `TaskExecutor` (`Pool`) |
| `StatusFilesProofs` | theorems about it, on top of those of `TaskExecutorProofs` |
| `SafeQueue`, `SafeQueueProofs` | the blocking queue |
| `Registration` | what is registered with the server, through loads and unloads |
| `SendNotification` | the rcon command that is registered |
| `RegistrationProofs` | theorems about both |
| `Experience`, `ExperienceProofs` | the nested AddExperience hook with its shares and caps |
| `Breeding`, `BreedingProofs` | the DoMate hook over generations |
| `Spyglass`, `SpyglassProofs` | the spyglass and its blueprints (`BlueprintCache`) |
| `MC*` | model values, symmetry |

A definition whose name ends in `_Something` and whose comment begins with "Variant" is a
plausible bug in the definition after it. No specification uses it; each property is violated
when its variant takes the original's place, which shows that the property depends on the code.

### TaskExecutor

The variables are the class's members, the locals of the threads and four histories
(`accepted`, `started`, `finished`, `drained`).

| Code | Action |
|---|---|
| `run`: take the lock | `RunLock` |
| `run`: push, `notify_one`, unlock | `RunEnqueue` |
| `run` after shutdown: call the task, lock held; it returns or throws | `RunInline`, `RunInlineDone` |
| `shutdown`: lock; set the flag, `notify_all`, unlock | `ShutdownLock`, `ShutdownFlag` |
| `shutdown`: one join; the loop's end; `std::system_error` of a second join | `ShutdownJoin`, `ShutdownReturn`, `ShutdownThrows` |
| `dispatchTasks`: lock, wait, spurious wakeup, leave, take, call | `WorkerLock`, `WorkerWait`, `SpuriousWakeup`, `WorkerExit`, `WorkerTake`, `WorkerDone` |

A step ends where another thread can be scheduled: at a lock, an unlock, a wait and the call of a
task. What a thread does with the mutex held to the end of the block is one step, because every
other access to this state is under the same mutex. A notified worker goes back to `loop` and
must get the mutex like everybody else; the code then reads the loop condition again.
`MaxShutdowns` bounds calls of `shutdown`. The plugin makes one per image of the library
(`ShutdownOnce` of `Registration`), from Unload or from the exit hook; the executor is checked with two.

### WorldSave

One hook or callback is one action. SaveWorld is an operator because it is called from
five places; its parameters are the flags as the caller has set them before the call.

| Code | Definition |
|---|---|
| `Hook_AShooterGameMode_SaveWorld` | `SaveWorld`: `Gated` is the first `if`, `Held` the second; `SaveDropped`, `SaveDeferred`, `SaveAnnounced`, `SaveNow` its outcomes; `SaveUnhooked` after Unload |
| the callbacks of lines 77, 117, 127 | `RespawnFires`, `DelayedFires`, `AnnouncedFires` |
| `Hook_..._StartNewShooterPlayer`, `..._TakeDamage`, `..._ServerChat`, `..._Broadcast` | `StartNewShooterPlayer`, `TakeDamage`, `ChatSaves`, `ChatShutdown` |
| `Unload` | `Unload`: hooks off, timers stay |

*Time.* `lastDmg` and `lastSave` are compared only with `timestamp()`, so they are kept as ages,
`now - lastDmg` and `now - lastSave`. `timestamp()` is `std::time`, which may be set. Set back
(`StepBack`), an age may be negative, and the subtraction of two `uint64_t` wraps (`Since`, with
`WordSize` for 2^64). Set forward (`StepForward`), every age grows at once while the timers keep
their delay. An age of `Cap` stands for any older time; when the clock is set back such an age
may become any value the real one could. `jumped` remembers a clock set forward: after it two
deferred saves may be outstanding and a save may be pending longer than the limit by the wall
clock, so `OneOfEach` and `BoundedDeferral` speak of the other servers. All else holds of both.
Timers run on a steady clock; the game loop is at most `MaxLag` late with one.

External, modelled from their use: the timer (`Schedule`), the game's own saves (`RequestSave`),
`SaveWorldDisableTransfer` (taken to call `SaveWorld`, forced or not), and the clock.

*The promise.* `SavePromise` has three variables: a save is promised, the last step saved, the
clock slipped. `WorldSave` implements it with `promised <- hasPendingSave \/ owed` and
`slipped <- stepped # 0`: a save that was put off or announced is made, never forgotten. The one
exception is real: a clock set back lets the callback of a deferred save find less than 300 s
since the last save; `SaveWorld` then drops the request although `hasPendingSave` has been
cleared for it (`worldsave.cpp:111-118`).

`PreLogin` changes no state and has no action. `TakeDamage` is enabled for the hits that pass the
hook's condition; the others change nothing.

### StatusFiles

`Pool == INSTANCE TaskExecutor` with the game thread as the only caller and the texts written as
the tasks. A handler of the game thread sets `todo`, the `writeFile` calls it still makes;
`WriteFile` hands the next one to the pool. While `todo` is not empty or the thread is inside the
pool no other handler begins. A task is two steps: `Open`, which truncates the file, and `Close`,
which writes the text from the file's start (the stream buffers it till then). Two threads that
have the same file open overwrite each other, and the end of a longer text stays visible under a
shorter one (`Written`). A text is an identity with a length. A file may also fail to open
(`OpenFails`): nothing in `writeFile` looks at the stream, so the text is `lost` and the file
keeps what it held; `MaxLost` bounds how often.

The files lie on disk and outlive the server. `Left` are the contents an earlier run may have left,
in texts of their own (`Earlier`, with the number 0), and `Init` finds any of them: a status or two that
overlapped, a verdict, nothing. They stay until a write of this run opens the file, which cuts it to
nothing, so that a restarted server shows the verdict of its last run until the write of 'load' begins, and
for ever if no status.txt opens. `NoFalseVerdict` says exactly this: an earlier run's text only while every status
so far was lost, a verdict of this run only when it was reached. `NothingStale` counts the earlier
texts among the writes that were over before.

`Load` starts with the server ready or not (the plugin can be loaded late, line 150). `Exit` is
the exit hook up to `taskExecutor.shutdown()`, `Verdict` what follows; the last status goes
through `run` after shutdown and so is written by the game thread itself. `ServerChat` stands for
the chat hooks of WorldSave that set and reset `shuttingDown`.

### SafeQueue

A critical section is one action. `shutdown` takes no lock: it is two steps, the flag (`ShutdownFlag`) and
the notification (`ShutdownNotify`, with `notifying` between them), which may come between a
consumer's look at `_shutdown` and its wait, and between which anything may come. One thread calls
it, as often as it likes. Once `front()` is called on an empty queue the
behaviour is undefined, and the model stops there.

### Experience

`calls` is the stack of hook calls under way: for each, its parameter (`amount`, the local
`origHowMuch`), whether it is for the kill of an alpha (`alpha`, which the cap depends on), what it saved (`saved`, `origAddExpAmount`), whom it is for and what it passed to the
original (`given`). `Enter` is the hook up to the original, `Leave` the return from it. Inside
the original the game may call AddExperience for anybody with any amount, any number of times.
Level, riding and experience to the next level are read anew at each call, so any character record
may appear. `Granted` translates lines 17-64; amounts are even whole numbers, so that half of one
is exact, and rounding of floats is not modelled. `RiderGetsHalf` asks for half of the call around or
everything the rider's own cap (`ExpCap`) allows; the run has halves below, between and above
its riders' floors and ceilings. Limits and factors are those of the code.
`MaxDepth` bounds the nesting in the run; the proofs do not depend on it.

### Registration

An entry is a pair: the part that registers it and the game's function or the command's name. What
the server holds are entries of images: each `Load` is a new image of the library, with globals of
its own, `Unload` takes away what its lines name. `Removed` lists them; a hook is taken back with
its own detour (`macros.h`), everything else by name alone. `Call` lets the server call a name,
with every entry under it; `Schedules` says which entry may start which timer; `Fires` runs a
callback, and the three of WorldSave call `SaveWorld`, hooked by whichever image is there. Whether
`SaveWorld` starts a timer depends on WorldSave's flags, which this module leaves open: it may or may
not, except that an image whose `pendingForceSave` has just been set starts none. `strays` is a
history of what was called of an image that was gone.

### Breeding

`DoMate` is the hook up to the original, `Child` a child the original makes (the game's, external:
a child starts with all of its father's mutations as its male and all of its mother's as its female
count, and adds at most as many as the rolls allow), `Restore` what follows. The counts are ints
(`Int32`, `WordSize` for 2^32; signed overflow is undefined in C++, the build wraps). `line` is a
history the code does not have: the mutations in the worst line of ancestors, which the counts
overestimate, since an ancestor reached twice counts twice. `wrapped` are the dinos with an overflow
among their ancestors; of them nothing is claimed.

### Spyglass

`kept` are the three static locals that hold a blueprint, `cls` is the cache of `BlueprintCache`,
`loadable` what the engine can find by now. `Use` is what a call of a hook does to both. The item a
timer holds may be dropped, picked up again or destroyed; what using a destroyed one does is not
known, so it gives no buff back.

### SendNotification

A packet is a pair of lists of texts: those between the commas of the first field, and the
fields after it. `Outcome` translates the handler: the split (`ParseIntoArray`, which drops empty parts),
the checks in their order and what is shown. The n-th text the split keeps is the one with n texts that are
not empty up to its own place (`Rank`, `Nth`); this says what a loop or a `SelectSeq` would without recursion, so that
proofs reach it. The module's specification is `RconSpec` and its type invariant `AnswerOK`, because
`RegistrationProofs` extends it together with `Registration`. `Number` says what `std::stof` reads of a text: it may
read only its beginning. `AsWritten` speaks of the three numbers the handler reads and of the alpha it
sets; what the usage text says of the fourth the code does not do (section 5).

## 3. What is checked

| Run | Question | Bounds |
|---|---|---|
| `executor` | `TypeOK`, `InOrder`, `RunOnce`, `NoLostWakeup`, `ShutdownDrains`: is a task ever lost, doubled, reordered or left with every worker asleep? `ShutdownEnds`, `ImplementsContract` (safety and progress) | 3 workers, 2 callers, 4 tasks, 2 shutdowns, fairness |
| `world_save` | `TypeOK`, `PendingHasTimer`, `ForceIsPending`, `AnnouncedIsDue`, `OneOfEach`, `BoundedDeferral`: do flags and timers agree, in every order of saves, spawns, hits, chat, Unload and clock changes? | 3 timers, clock set back by up to 2 and forward at will |
| `world_save_live` | `AnnouncedIsSaved`, `KeepsPromise`: is an announced save made, whatever the clock does, and is a save that was put off made, though the boss is hit for ever? | 2 timers, clock set back by up to 2 and forward at will, fairness |
| `status_files` | `TypeOK`, `FinalStatus`, `NoFalseVerdict`, `NothingStale`, `NeverBlank`, `HeartbeatFresh`: what can the supervisor find in the files? `ExitEnds`: do the exit hook and Unload come to their end? | 2 workers (as in the plugin), all four statuses, 2 heartbeats, 2 files that do not open, the verdict of an earlier run in status.txt, fairness |
| `experience` | `AmountIsEnclosing`, `RiderGetsHalf`, `WithinCaps`: does a nested call ever see another call's amount, and do share and caps hold together? | calls three deep, 6 characters, amounts 0, 2, 8000, 100000, 600000 |
| `safe_queue` | `FirstInFirstOut`, `NothingStranded` | 3 consumers, 3 elements, any number of shutdowns |
| `registration` | `FewStrays`, `ShutdownOnce`, `OldTimersEnd`: what of an unloaded image does the server still call, does each image that is unloaded or sees the exit shut its executor down exactly once, and no other, and do an old image's timers end? | 2 images, 1 timer per callback and image, fairness of the timers |
| `breeding` | `RollsRestored`, `LineBounded`: does a dino keep its rolls, and does any line, inbred ones included, gather more mutations than the limit and its last children allow? | 2 founders, 2 children, rolls 1 and 3, limit 2, ints of 3 bits |
| `spyglass` | `TypeOK`, `BlindOnlyIfEarly`, `BuffComesBack` | 2 spyglasses, 1 engram, 2 timers each, fairness of the timers |
| `send_notification` | `AnswerOK`, `AsWritten`, `ShiftIsCaught`: is a well formed packet shown as written, but for its alpha, and one whose fields shifted refused? | 4 texts, 4 in the color, as the usage names them, 4 further fields |
| `registration_unload` | `UnloadTakesAll`, expected to be **violated** | as `registration` |
| `safe_queue_shutdown` | `DequeueHasElement`, expected to be **violated** | as `safe_queue` |

`TypeOK` of `Registration` and `Breeding` is in no run, being proved. All pass, but the two that are the findings below.

*Why the bounds are enough.* Three workers are the fewest with one that waits, one that works and
one that is between the two; two callers are the fewest that race in `run`; with four tasks one
can be queued while three are under way. Where a theorem states
the property (section 4) the proof removes the bounds. In `WorldSave` a unit is about a minute: the rates 60, 300, 480, 1200 and 30 s become 2,
4, 5, 7 and 1, which keeps their order, and that order (`WorldSaveAssumption`) is all the proofs use of them. Three timers hold one of each
kind, or two respawns and an announced save. `WordSize` only has to be larger than any rate plus
the set-back for a wrapped value to be what it is in the program: larger than every limit. In
`StatusFiles` the number of heartbeats bounds the run; two are enough for two to overlap; two files that
do not open are enough to lose every status of a run, 'load' and the verdict, so that the earlier
verdict the run begins with may stay to the end; the theorems hold for any other content. In
`Experience` three calls are the fewest in which one beside, one around and one further out
differ; the amounts and their halves lie
below every floor, between floors and caps, and above every cap and ceiling. In `Registration` two images
are an old and a new one, and every hook that can start a timer does. In `Breeding` two children
are the fewest for a line of three generations and for inbreeding, and in three bits the sums
overflow (without `wrapped`, `LineBounded` is violated). In `Spyglass` two items are the fewest of
which a spawn takes one. In `SendNotification` four texts are the color the
usage names, four fields the fewest with a blank inside a message, and a text is blank, a word, a number or a number
followed by letters, which is all that the code tells apart.

`CHECK_DEADLOCK FALSE` stands only in the SafeQueue configurations: consumers of a queue that
nobody fills wait for ever, and undefined behaviour ends the model. The other models end in an
explicit stuttering step (`Terminated`, `Gone`, `Ended`), or never.

*Fairness and why the code justifies it.* The operating system runs threads that can run: weak
fairness for the steps of a thread that holds the mutex, runs a task or joins. A worker that
wants the mutex competes with others that may be woken spuriously again and again; that it gets
the mutex in the end is strong fairness of `WorkerLock` (and of `WriteFile` for the game
thread). Nothing is assumed about how often the game calls anything, about chat or about spurious
wakeups. In WorldSave the game loop goes on (`WF(Tick)`) and calls each timer that is due
(`WF(Fires(i))`); no fairness is assumed of saves, hits or spawns. The timers of
`Registration` and `Spyglass` are called by the same loop (`WF(Fires)`, `WF(TimerFires)`), as long
as the server has not exited; nothing is assumed of loads, spawns and items.

## 4. What is proved

For every value of the constants that satisfies the module's assumption.

*TaskExecutor* (`TaskExecutorProofs`, from `ExecutorAssumption`: some worker, the owner is a
caller, workers and callers are different threads). `TypeCorrect`, `OrderTheorem`,
`OnceTheorem`, `WakeTheorem`, `DrainTheorem`, and `Implementation`: `Spec => Contract!CSafety`.
The invariants are not inductive by themselves. `IInv` adds what a thread's program counter says
of its own variables (`LocalInv`: a worker is busy exactly when it has a task), who holds the
mutex, that a task handed over as an argument is in no other place, and, for `NoLostWakeup`, the
link the code relies on: a worker waits only if it saw an empty queue and no flag, and whoever
ends that situation wakes one. `ShutdownDrains` needs in addition that a worker that
exited, or was joined, did so with the queue empty and the flag set, after which nothing is pushed.
`Implementation` maps each action to a step of the contract or to a stutter.

*WorldSave* (`WorldSaveProofs`, from `WorldSaveAssumption`: the order of the rates).
`TypeCorrect`, `PendingTheorem`, `ForceTheorem`, `AnnouncedTheorem`, `OneOfEachTheorem`,
`DeferralTheorem`, and `PromiseTheorem`: `Spec => Promise!Spec`, the safety part of `KeepsPromise`. The key of `TimerInv` is a sum: `sinceSave + left[i]` does not change as time
passes, so it remembers when the timer was set. A pending save has a timer whose sum is
below `ForceRate + DmgRate`; a deferred save that is no longer pending was overtaken by a save,
so its sum is at most `DmgRate`; an announced one has a sum of at most 0. Hence no second timer
of a kind can be started (that needs an age of at least `SaveRate`, or one under which the
first would have run), and a pending save cannot outlast the limit. `NoWrap` shows that an age
which passes a comparison is the true one although the subtraction wraps. A clock set forward makes the sum
larger, so these facts are claimed while `~jumped`. For `PromiseTheorem`, `DueWhenKept` says that a
pending save that no spawn forces was put off when it was due, which only a clock set back undoes. Type correctness
includes that a delay is between 0 and `dmgRate`, that is, the cast to `int` in line 120 loses nothing.

*Experience* (`ExperienceProofs`, from `ExperienceAssumption`: the types of the data).
`TypeCorrect`, `EnclosingTheorem`, `RiderTheorem` (half of the call around, or the rider's cap), `CapsTheorem`. `AmountIsEnclosing` is not inductive: a return
restores what the call saved, of which it says nothing. `Chained` adds that every call on the
stack saved the amount of the call below it, and granted what the rules give for that
amount; `CapBounds` and `GrantedBounds` are the arithmetic, for any level and any experience to the next.

*StatusFiles* (`StatusFilesProofs`, from `StatusAssumption`, `NoneAssumption` and `LeftAssumption`: an earlier run's
texts, each in its own file). `PoolTheorem`:
the composition implements `TaskExecutor`, so all that is proved of the executor holds inside the
plugin; its inductive invariant is used as a lemma (`PoolFacts`: a write is run by one thread, once,
and by none when `shutdown` has returned). On top of it `TypeCorrect`, `FinalTheorem`,
`VerdictTheorem`, `StaleTheorem`, `BlankTheorem`, `HeartbeatTheorem`; `ContractTheorem` carries the contract over
(`Executor!Contract!CSafety`). What they need beyond the properties is
what each phase of the plugin's life says of `todo` and the executor, which texts can still be
written in it, that a write under way is in no set of those that are over, and that a file which still
shows an earlier run's text has been opened by no write of this one (`Untouched`).

*SafeQueue* (`SafeQueueProofs`, from `SafeQueueAssumption`). `TypeCorrect`, `OrderTheorem`,
`StrandTheorem`. `NothingStranded` needs that a consumer about to wait has seen the queue empty and
nothing was enqueued since.

*Registration* (`RegistrationProofs`, from `RegistrationAssumption`). `TypeCorrect`, `StrayTheorem`,
`ShutdownTheorem`, `RegistryTheorem`. Neither `FewStrays` nor `ShutdownOnce` is inductive; `Registry` says exactly
what the server holds: all of `Load` for the image in memory, and /dumptarget of the images before it.
`ShutdownOnce` needs it because the exit reaches an image only through its exit hook.

*SendNotification* (`RegistrationProofs`, from `SendNotificationAssumption`). `NotificationType`,
`AsWrittenTheorem`, `ShiftTheorem`, for texts and packets of any number. All three follow from `Answered` (the
answer is the outcome of the packet) and from `Split`: the split keeps each text that is not blank at the place
of its rank. `NthPlace` finds the text of a rank as the least place that reaches it (`Least`: a nonempty set of
naturals has a least one), which takes the place of an induction over the list.

*Breeding* (`BreedingProofs`, from `BreedingAssumption`). `TypeCorrect`, `RollsTheorem`,
`LineTheorem`. `Counted`: without an overflow the counts are at least the line. `PairOK`: while the
original runs, a pair with rolls is one that is below the limit and does not have three each.

*Spyglass* (`SpyglassProofs`, from `SpyglassAssumption`). `TypeCorrect`, `BlindTheorem`, `HeldTheorem`. `Blind`: a
spyglass can have been overlooked only if the static local of additions is null.

*What the liveness properties rest on.* TLAPS does not reach ENABLED and fairness, so that something
*will* happen stays with TLC. What can be proved of it is that nothing stands in its way: that a thread with a
step of its own is always there, that what is left to do only shrinks, and that what is to come is never taken away.

| Liveness, checked by TLC | Its core, proved |
|---|---|
| `ShutdownEnds`, progress of `ImplementsContract` | `StuckTheorem`: while a task is queued or run, the mutex is held or shutdown joins, some thread can go on. `EndTheorem`: after the flag each step of a worker lowers `StepsLeft`, which no caller raises (for a finite set of workers; `threads` is a vector). `ClosingTheorem`: after the flag nothing is accepted, the queue loses its front or stays, no worker sleeps and none that ended comes back. `FirstTheorem`: a first shutdown joins every thread once and does not throw |
| `ExitEnds` | `ExitTheorem`: until the exit hook or Unload is over some thread can go on; `FreshTheorem`: the guard of `RunLock` that a task is new never holds a `writeFile` back, as every text is given to `run` once; `RestTheorem`: afterwards no thread of the plugin takes a step |
| `AnnouncedIsSaved` | `TimersTheorem`: a timer runs down to its own callback, whatever comes in between, and the callback of an announced save is never refused |
| progress of `KeepsPromise` | the same, with `DeferralTheorem` as the limit |
| `OldTimersEnd` | `OldTimersTheorem`: an image that is gone never gets a timer, and each that fires is one less |
| `BuffComesBack` | `HeldTheorem`: a buff that is off has a timer that holds its item, or the item is destroyed |

`FirstTheorem` and `ShutdownOnce` belong together: the first says that a shutdown that is the only one does not
throw, the second that it is the only one of its image. No property of these theorems is in a run; each was found
to hold on the instance of its module before it was proved.

## 5. Findings

`Helpers/SafeQueue.hpp:34-35` says of `dequeue`: "Get the "front"-element. If the queue is empty,
wait till a element is avaiable." After `shutdown` the loop of line 39 ends on an empty queue and
lines 44-45 call `front()` and `pop()` on it. `safe_queue_shutdown` shows the steps. Nothing
in the repository instantiates the class.

`saomega.cpp:4` says: "This file controls what is loaded and unloaded in the plugin." `Load` adds the
chat command "/dumptarget" (`commands.cpp:127`), `Unload` removes "dumptarget" (`commands.cpp:133`), so
the command stays, and calls code that is gone. `registration_unload` shows it; `FewStrays` shows
that it is the only entry of its kind (the others left are timers).

Things a maintainer may want to know that no run is expected to violate; all but the first are hazards in `PROJECT.json`:
- The usage text of SendNotification names "r,g,b,a" (`commands.cpp:61`), but the fourth number is never read: `a` is
  255 (line 68), and line 95 shows every notification with it. `AsWritten` states it: opaque, whatever alpha is given.
- "Server shutdown required." makes a later "about to shutdown, performing a world save" save
  nothing (`worldsave.cpp:91`).
- A respawn's 30 s timer saves once more after a forced save served it (line 77). No property is about
  it: `OneOfEach` counts deferred and announced saves.
- Two statuses given to two workers have no order: 'load' may stay in status.txt over 'ready'.
  `NothingStale` and `NeverBlank` allow it; nothing in the repository promises more.
- A run whose every status is lost (`util.cpp:21` does not look at the stream) leaves an earlier run's text in
  status.txt, its verdict included, at its own exit too.
- A server that unloads the plugin and then exits shows no verdict of this run; `NoFalseVerdict` says that much and no more.
- After an overflow of a line's mutation counts nothing bounds it (`wrapped`).

## 6. Not modelled, and why

- Wording, logging and colours: data no property is about.
- Loot: one pass over arrays, in one call that nothing comes into, with no state of its own; that
  its timer outlives Unload is in `Registration`.
- Alliance and damage hooks: each is one condition on its arguments; a property would restate it.
- Breeding's `BeginPlay` and `UpdateBabyCuddling`: one value replaced, nothing kept.
- `PreLogin`, `onDumpTarget`, `sendTags`, `onDumpSouls`, the command line in `Load`: no state that
  anything reads but the log. `exiting`: written, never read.
- Config: its value is read by nobody, and `Config::Load` is never called.
- A task that throws something other than `std::exception`: the only task is that of `writeFile`, whose stream does not throw.
- A task that calls `run` after `shutdown` (it would lock a mutex its own thread holds): there is no such task.
- Code after `FreeLibrary`: what the loader does is not in the repository. The models let callbacks run.
- The use of a destroyed item, and a null item or owner (`spyglass.cpp:43`): what the game does then is not in the repository.
- `DB.h`, `singleton.h`: included by nothing. `libs` (MySQL headers, mysql++, polyfills) and the
  empty ARK-Server-API submodule: third party, and nearly all of the repository's lines. The plugin's own
  code is about 1 200 lines.

## 7. Plan

Done, in this order: `ExecutorContract`, `TaskExecutor` and its proofs; `WorldSave` and its proofs;
`StatusFiles` on top of `TaskExecutor`; `SafeQueue`; `Experience` and its proofs; files that do not
open, the clock set forward and `SavePromise`; proofs of `StatusFiles` and `SafeQueue`;
`Registration`, `Breeding`, `Spyglass`, with proofs; `SendNotification`; its proofs, and the cores of the liveness properties.

What could be proved next: that the steps left until the exit are bounded in the composition, as `EndTheorem` does for the
executor (the writes of the files in two steps each); that `SafeQueue` implements a queue whose two operations are
single steps; that a save put off is asked for again at most once per hit of the boss.

What could be added: `Registration` composed with the flags of `WorldSave`, to say which saves
of an old image are still made when the plugin is loaded again before they are due; a task that
calls the executor, if one is ever written.
