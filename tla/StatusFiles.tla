------------------------------ MODULE StatusFiles ------------------------------
(***************************************************************************)
(* The plugin's life (Plugin/saomega.cpp) and the two files by which it    *)
(* tells a supervisor of it (Plugin/util.cpp): status.txt, written when    *)
(* the plugin is loaded, when the server is ready and when it exits, and   *)
(* tick.txt, a heartbeat.                                                  *)
(*                                                                         *)
(* writeFile hands each write to the TaskExecutor, whose workers do the    *)
(* writes in parallel; this module composes the executor with the game     *)
(* thread, its only caller, and with the files.  A text is an identity     *)
(* with a length: what matters is which of two overlapping writes shows.   *)
(* A file that cannot be opened (a supervisor is reading it, say) loses    *)
(* its text, and nothing notices.  The files outlive the server: when the  *)
(* plugin is loaded they hold what an earlier run left.                    *)
(***************************************************************************)
EXTENDS Integers, Sequences, FiniteSets

CONSTANTS
    Workers,    \* the threads of taskExecutor
    Game,       \* the game thread
    None,
    TickRate,   \* 15 s between two heartbeats
    WordSize,   \* 2^64, the range of a uint64_t
    MaxTicks,   \* bound: the heartbeats written
    Left,       \* what an earlier run may have left in the files
    MaxBack,    \* bound: how far the wall clock is set back, in all
    MaxLost     \* bound: the texts lost because their file did not open

ASSUME StatusAssumption ==
    /\ {TickRate, WordSize, MaxTicks, MaxBack, MaxLost} \subseteq Nat
    /\ TickRate + 1 + MaxBack < WordSize
    /\ Workers # {} /\ Game \notin Workers
    /\ None \notin Workers \cup {Game}

VARIABLES
    mutex, queue, isShuttingDownTaskQueue, wpc, task, cpc, arg, joinable,
    toJoin, shutdowns, drained, accepted, started, finished,  \* TaskExecutor
    phase,         \* how far the plugin's life has come
    serverReady,   \* the game has begun play
    shuttingDown,
    todo,          \* the writeFile calls the current handler still makes
    sinceTick,     \* now - lastTickStatus, in seconds (WorldSave says why)
    framed,        \* onTick has been called in this second
    ticks,         \* heartbeats so far
    stepped,       \* how far the wall clock has been set back so far
    opened,        \* the threads that have opened their file
    file,          \* the texts of which something is seen in each file
    superseded,    \* history: writes that were over when a later one began
    lost           \* history: the texts whose file did not open

poolVars == <<mutex, queue, isShuttingDownTaskQueue, wpc, task, cpc, arg,
              joinable, toJoin, shutdowns, drained, accepted, started, finished>>
fileVars == <<opened, file, superseded, lost>>
timeVars == <<sinceTick, framed, ticks, stepped>>
lifeVars == <<phase, serverReady, shuttingDown, todo>>
vars     == <<poolVars, fileVars, timeVars, lifeVars>>

\* The texts that are written; the number tells one heartbeat from another, and
\* is 0 in those of an earlier run of the server, or of the plugin in this one.
Load_      == <<"load", 1>>
Ready_     == <<"ready", 1>>
Clean      == <<"cleanshutdown", 1>>
Unexpected == <<"unexpectedshutdown", 1>>
Texts      == {Load_, Ready_, Clean, Unexpected} \cup ({"tick"} \X (1..MaxTicks))

ASSUME NoneAssumption == None \notin Texts

Size(t) == [load |-> 4, ready |-> 5, cleanshutdown |-> 13,
            unexpectedshutdown |-> 18, tick |-> 10][t[1]]
File(t) == IF t[1] = "tick" THEN "tick.txt" ELSE "status.txt"
Files   == {"status.txt", "tick.txt"}
Earlier == {"load", "ready", "cleanshutdown", "unexpectedshutdown", "tick"} \X {0}

ASSUME LeftAssumption ==
    /\ Left \subseteq [Files -> SUBSET Earlier]
    /\ \A l \in Left, f \in Files : \A t \in l[f] : File(t) = f

Pool == INSTANCE TaskExecutor WITH
            Callers <- {Game}, Owner <- Game, Tasks <- Texts, MaxShutdowns <- 1

Init ==
    /\ Pool!Init
    /\ phase = "out" /\ serverReady \in BOOLEAN /\ shuttingDown = FALSE
    /\ todo = <<>>
    /\ sinceTick = TickRate + 1 /\ framed = FALSE /\ ticks = 0 /\ stepped = 0
    /\ opened = {} /\ file \in Left
    /\ superseded = {} /\ lost = {}

-------------------------------------------------------------------------------
(* The task of writeFile: open, which cuts the file to nothing; write; close. *)

\* What each thread is executing, if it is executing a task.
Current(x) == IF x = Game THEN arg[Game] ELSE task[x]
Running ==
    {w \in Workers : wpc[w] = "busy"} \cup {g \in {Game} : cpc[g] = "inline"}

\* Variant of Open: the file is opened without truncation.
Open_NoTrunc(x) ==
    /\ x \in Running \ opened
    /\ opened' = opened \cup {x}
    /\ superseded' = superseded \cup {u \in finished \cup Earlier : File(u) = File(Current(x))}
    /\ UNCHANGED <<poolVars, file, lost, timeVars, lifeVars>>

Open(x) ==
    /\ x \in Running \ opened
    /\ opened' = opened \cup {x}
    /\ file' = [file EXCEPT ![File(Current(x))] = {}]
    /\ superseded' = superseded \cup {u \in finished \cup Earlier : File(u) = File(Current(x))}
    /\ UNCHANGED <<poolVars, lost, timeVars, lifeVars>>

\* Nothing looks at the state of the stream, whose write and close do nothing.
OpenFails(x) ==
    /\ x \in Running \ opened
    /\ Current(x) \notin lost /\ Cardinality(lost) < MaxLost
    /\ opened' = opened \cup {x}
    /\ lost' = lost \cup {Current(x)}
    /\ UNCHANGED <<poolVars, file, superseded, timeVars, lifeVars>>

\* Variant of Written: the text is put into the stream after it was closed.
Written_Lost(t, content) == content

\* The stream writes its text from the start of the file when it is closed: of
\* what another thread wrote meanwhile only a longer text's end stays visible.
Written(t, content) ==
    IF t \in lost THEN content ELSE {t} \cup {u \in content : Size(u) > Size(t)}

Close(x) ==
    /\ x \in Running \cap opened
    /\ opened' = opened \ {x}
    /\ file' = [file EXCEPT ![File(Current(x))] = Written(Current(x), @)]
    /\ IF x = Game THEN Pool!RunInlineDone(Game) ELSE Pool!WorkerDone(x)
    /\ UNCHANGED <<superseded, lost, timeVars, lifeVars>>

-------------------------------------------------------------------------------
(* The game thread: one handler at a time.                                    *)

Free == todo = <<>> /\ cpc[Game] = "idle"

Load ==
    /\ phase = "out"
    /\ phase' = "loaded"
    /\ todo' = IF serverReady THEN <<Load_, Ready_>> ELSE <<Load_>>
    /\ UNCHANGED <<poolVars, fileVars, timeVars, serverReady, shuttingDown>>

BeginPlay ==
    /\ phase = "loaded" /\ Free
    /\ ~serverReady
    /\ serverReady' = TRUE
    /\ todo' = <<Ready_>>
    /\ UNCHANGED <<poolVars, fileVars, timeVars, phase, shuttingDown>>

\* Variant of TickDue: the difference is a signed number.
TickDue_Signed(age) == age > TickRate

\* now - lastTickStatus > 15, in uint64_t.
TickDue(age) == (IF age < 0 THEN age + WordSize ELSE age) > TickRate

\* Variant of OnTick: lastTickStatus is not set.
OnTick_NoStamp ==
    /\ phase = "loaded" /\ Free
    /\ ~framed
    /\ ticks < MaxTicks
    /\ framed' = TRUE
    /\ IF TickDue(sinceTick)
         THEN /\ ticks' = ticks + 1
              /\ todo' = <<(<<"tick", ticks + 1>>)>>
         ELSE UNCHANGED <<ticks, todo>>
    /\ UNCHANGED <<poolVars, fileVars, sinceTick, stepped, phase, serverReady,
                   shuttingDown>>

OnTick ==
    /\ phase = "loaded" /\ Free
    /\ ~framed
    /\ ticks < MaxTicks
    /\ framed' = TRUE
    /\ IF TickDue(sinceTick)
         THEN /\ sinceTick' = 0
              /\ ticks' = ticks + 1
              /\ todo' = <<(<<"tick", ticks + 1>>)>>
         ELSE UNCHANGED <<sinceTick, ticks, todo>>
    /\ UNCHANGED <<poolVars, fileVars, stepped, phase, serverReady, shuttingDown>>

\* Variant of ServerChat: another thread handles the message, at any time.
ServerChat_AnyTime(b) ==
    /\ shuttingDown' = b
    /\ UNCHANGED <<poolVars, fileVars, timeVars, phase, serverReady, todo>>

\* The chat messages of WorldSave that set and reset the flag.
ServerChat(b) ==
    /\ phase = "loaded" /\ Free
    /\ shuttingDown' = b
    /\ UNCHANGED <<poolVars, fileVars, timeVars, phase, serverReady, todo>>

\* writeFile: one call of taskExecutor.run after the other.
WriteFile ==
    /\ todo # <<>>
    /\ Pool!RunLock(Game, Head(todo))
    /\ todo' = Tail(todo)
    /\ UNCHANGED <<fileVars, timeVars, phase, serverReady, shuttingDown>>

\* Hook_FEngineLoop_Exit: shutdown of the executor, then the last status.
Exit ==
    /\ phase = "loaded" /\ Free
    /\ Pool!ShutdownLock(Game)
    /\ phase' = "exiting"
    /\ UNCHANGED <<fileVars, timeVars, serverReady, shuttingDown, todo>>

Verdict ==
    /\ phase = "exiting" /\ drained
    /\ phase' = "verdict"
    /\ todo' = IF shuttingDown THEN <<Clean>> ELSE <<Unexpected>>
    /\ UNCHANGED <<poolVars, fileVars, timeVars, serverReady, shuttingDown>>

Exited ==
    /\ phase = "verdict" /\ Free
    /\ phase' = "exited"
    /\ UNCHANGED <<poolVars, fileVars, timeVars, serverReady, shuttingDown, todo>>

Unload ==
    /\ phase = "loaded" /\ Free
    /\ Pool!ShutdownLock(Game)
    /\ phase' = "unloading"
    /\ shuttingDown' = TRUE
    /\ UNCHANGED <<fileVars, timeVars, serverReady, todo>>

Unloaded ==
    /\ phase = "unloading" /\ drained
    /\ phase' = "unloaded"
    /\ UNCHANGED <<poolVars, fileVars, timeVars, serverReady, shuttingDown, todo>>

\* The rest of run and shutdown, and the workers.
GameInPool ==
    \/ Pool!RunEnqueue(Game) \/ Pool!RunInline(Game)
    \/ Pool!ShutdownFlag(Game) \/ Pool!ShutdownReturn(Game)
    \/ \E w \in Workers : Pool!ShutdownJoin(Game, w)
WorkerInPool(w) ==
    \/ Pool!WorkerLock(w) \/ Pool!WorkerWait(w) \/ Pool!SpuriousWakeup(w)
    \/ Pool!WorkerExit(w) \/ Pool!WorkerTake(w)
InPool ==
    /\ GameInPool \/ \E w \in Workers : WorkerInPool(w)
    /\ UNCHANGED <<fileVars, timeVars, lifeVars>>

-------------------------------------------------------------------------------
(* The wall clock.  The game loop makes a frame every second.                 *)

Second ==
    /\ framed
    /\ framed' = FALSE
    /\ sinceTick' = sinceTick + 1
    /\ UNCHANGED <<poolVars, fileVars, ticks, stepped, lifeVars>>

\* Before the first heartbeat lastTickStatus is 0, decades ago: nothing changes.
StepBack(d) ==
    /\ ticks > 0
    /\ stepped + d <= MaxBack
    /\ stepped' = stepped + d
    /\ sinceTick' = sinceTick - d
    /\ framed' = FALSE
    /\ UNCHANGED <<poolVars, fileVars, ticks, lifeVars>>

Gone == phase \in {"exited", "unloaded"} /\ UNCHANGED vars

Next ==
    \/ InPool
    \/ \E x \in Workers \cup {Game} : Open(x) \/ OpenFails(x) \/ Close(x)
    \/ Load \/ BeginPlay \/ OnTick \/ WriteFile
    \/ \E b \in BOOLEAN : ServerChat(b)
    \/ Exit \/ Verdict \/ Exited
    \/ Unload \/ Unloaded
    \/ Second
    \/ \E d \in 1..MaxBack : StepBack(d)
    \/ Gone

Spec == Init /\ [][Next]_vars

\* Every thread that can run does: see TaskExecutor.  Nothing is assumed of the
\* game's calls, the clock or the chat.
Others == <<fileVars, timeVars, lifeVars>>
Fairness ==
    /\ \A w \in Workers :
          /\ SF_vars(Pool!WorkerLock(w) /\ UNCHANGED Others)
          /\ WF_vars(/\ Pool!WorkerWait(w) \/ Pool!WorkerExit(w) \/ Pool!WorkerTake(w)
                     /\ UNCHANGED Others)
    /\ \A x \in Workers \cup {Game} :
          WF_vars(Open(x) \/ OpenFails(x)) /\ WF_vars(Close(x))
    /\ SF_vars(WriteFile)
    /\ WF_vars(GameInPool /\ UNCHANGED Others)
    /\ WF_vars(Verdict) /\ WF_vars(Exited) /\ WF_vars(Unloaded)

FairSpec == Spec /\ Fairness

-------------------------------------------------------------------------------
\* Every variable keeps its type.
TypeOK ==
    /\ Pool!TypeOK
    /\ phase \in {"out", "loaded", "exiting", "verdict", "exited",
                  "unloading", "unloaded"}
    /\ serverReady \in BOOLEAN /\ shuttingDown \in BOOLEAN /\ framed \in BOOLEAN
    /\ todo \in Seq(Texts)
    /\ sinceTick \in (-MaxBack)..(TickRate + 1)
    /\ ticks \in 0..MaxTicks
    /\ stepped \in 0..MaxBack
    /\ opened \subseteq Workers \cup {Game}
    /\ file \in [Files -> SUBSET (Texts \cup Earlier)]
    /\ superseded \subseteq Texts \cup Earlier
    /\ lost \subseteq Texts

\* When the engine's own exit begins, status.txt holds the verdict on the
\* shutdown and nothing else, unless it could not be opened for the verdict, and
\* no thread is left that could write over it: no write that was queued or under
\* way when the server exited survives.
Reached == IF shuttingDown THEN Clean ELSE Unexpected
FinalStatus ==
    phase = "exited" =>
        /\ Reached \notin lost => file["status.txt"] = {Reached}
        /\ opened = {} /\ queue = <<>> /\ \A w \in Workers : wpc[w] = "exited"

\* Which verdicts status.txt may show.  This run's only when the server has exited,
\* and only the one that was reached: not after Unload, not by a chat message that
\* comes too late or is taken back.  An earlier run's, like all its texts, only until
\* a write of this run has opened the file: every status that was written so far, if
\* any, was lost, and nobody has the file open.
NoFalseVerdict ==
    /\ \A t \in {Clean, Unexpected} :
          t \in file["status.txt"] => phase \in {"verdict", "exited"} /\ t = Reached
    /\ file["status.txt"] \cap Earlier # {} =>
          \A t \in finished \cup {Current(x) : x \in opened} :
              File(t) = "status.txt" => t \in lost

\* A file shows nothing of a write that was over before a later one began, one of an
\* earlier run included; two writes that overlap may leave the earlier one, or a
\* mixture, but never more.
NothingStale == \A f \in Files : file[f] \cap superseded = {}

\* A file is empty only while one of its writes is under way: what a write that
\* has ended leaves is never lost to another, whatever the interleaving, and a
\* file that does not open keeps its text.
NeverBlank ==
    \A f \in Files :
        (\E t \in finished \ lost : File(t) = f) /\ file[f] = {} =>
            \E x \in opened : File(Current(x)) = f

\* The heartbeat does not stop when the wall clock is set back: after onTick the
\* last one is never in the future and never older than 15 s.
HeartbeatFresh == framed => sinceTick \in 0..TickRate

\* The exit hook comes to its end, with the last status written, and so does
\* Unload, however many writes are queued.
ExitEnds == phase \in {"exiting", "unloading"} ~> phase \in {"exited", "unloaded"}
===============================================================================
