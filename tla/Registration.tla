----------------------------- MODULE Registration -----------------------------
(***************************************************************************)
(* What the plugin registers with the server when it is loaded (the Load   *)
(* of saomega.cpp and of each part), what it takes back when it is         *)
(* unloaded, and which of its code the server may still call then: a hook, *)
(* a command or a timer holds a pointer into the library, which is gone    *)
(* after Unload.  A library that is loaded again is a new image with new   *)
(* globals.                                                                *)
(*                                                                         *)
(* A callback of an image that is gone is taken to run as if it were       *)
(* there; what really happens the sources do not say.                      *)
(***************************************************************************)
EXTENDS Naturals

CONSTANTS
    MaxLoads,   \* bound: how often the library is loaded
    MaxTimers   \* bound: outstanding timers of one callback of one image

ASSUME RegistrationAssumption == {MaxLoads, MaxTimers} \subseteq Nat

VARIABLES
    image,       \* the library in memory: the how-manieth it is, 0 for none
    loads,       \* the images so far
    registered,  \* what the server has been given: <<entry, image>>
    timers,      \* how many timers each <<callback, image>> has outstanding
    shutdowns,   \* how often each image called taskExecutor.shutdown
    exited,      \* the server has come to FEngineLoop::Exit
    strays       \* history: what was called of an image that was gone

vars == <<image, loads, registered, timers, shutdowns, exited, strays>>

Images == 1..MaxLoads

\* An entry: the part of the plugin it belongs to, and the function of the game
\* it hooks or its name.  Two parts hook StartNewShooterPlayer.
BreedingHooks   == {"Breeding"} \X {"DoMate", "Dino.BeginPlay", "UpdateBabyCuddling"}
SpyglassHooks   == {"Spyglass"} \X {"StartNewShooterPlayer", "NotifyItemAdded"}
ExperienceHooks == {"Experience"} \X {"AddExperience"}
WorldSaveHooks  == {"WorldSave"} \X {"Dino.TakeDamage", "PreLogin", "SaveWorld",
                                     "ServerChat", "Broadcast", "StartNewShooterPlayer"}
OwnHooks        == {"SA"} \X {"Character.TakeDamage", "BeginPlay", "AreTribesAllied",
                              "IsAlliedWith", "IsAlliedWithOtherTeam", "Exit"}
Hooks == BreedingHooks \cup SpyglassHooks \cup ExperienceHooks \cup WorldSaveHooks
         \cup OwnHooks

Tick       == <<"tick", "SA::OnTick">>
DumpTarget == <<"chat", "/dumptarget">>
CommandsAdded   == {<<"rcon", "SendNotification">>, DumpTarget}
\* /dumptarget is taken back under a name that it was not added under.
CommandsRemoved == {<<"rcon", "SendNotification">>, <<"chat", "dumptarget">>}

Added == Hooks \cup CommandsAdded \cup {Tick}

\* Variants of Removed: one of the lines of Unload is missing.
Removed_NotSaveWorld == (Hooks \ {<<"WorldSave", "SaveWorld">>}) \cup CommandsRemoved \cup {Tick}
Removed_NotExit      == (Hooks \ {<<"SA", "Exit">>}) \cup CommandsRemoved \cup {Tick}
Removed_NotTick      == Hooks \cup CommandsRemoved

Removed == Hooks \cup CommandsRemoved \cup {Tick}

\* The callbacks that are given to timers, and by which hook; Load itself gives
\* away removeItems.
Callbacks == {"removeItems", "use", "respawn", "deferred", "announced"}
Schedules ==
    {<<(<<"Spyglass", "StartNewShooterPlayer">>), "use">>,
     <<(<<"WorldSave", "StartNewShooterPlayer">>), "respawn">>,
     <<(<<"WorldSave", "SaveWorld">>), "deferred">>,
     <<(<<"WorldSave", "SaveWorld">>), "announced">>}
Saving == {"respawn", "deferred", "announced"}

Init ==
    /\ image = 0 /\ loads = 0 /\ exited = FALSE
    /\ registered = {}
    /\ timers = [t \in Callbacks \X Images |-> 0]
    /\ shutdowns = [g \in Images |-> 0]
    /\ strays = {}

Load ==
    /\ image = 0 /\ ~exited
    /\ loads < MaxLoads
    /\ image' = loads + 1
    /\ loads' = loads + 1
    /\ registered' = registered \cup (Added \X {loads + 1})
    /\ timers' = [timers EXCEPT ![<<"removeItems", loads + 1>>] = @ + 1]
    /\ UNCHANGED <<shutdowns, exited, strays>>

\* A hook is removed with its detour, the others by their name alone.
Unload ==
    /\ image # 0 /\ ~exited
    /\ registered' = {r \in registered :
                        r[1] \notin Removed \/ (r[1] \in Hooks /\ r[2] # image)}
    /\ shutdowns' = [shutdowns EXCEPT ![image] = @ + 1]
    /\ image' = 0
    /\ UNCHANGED <<loads, timers, exited, strays>>

-------------------------------------------------------------------------------
(* What the server calls.                                                     *)

Gone(g) == g # image

\* The entries of that name: hooks of one function, or a command.
Named(name) == {r \in registered : r[1][2] = name}

\* The timers these entries may start; a SaveWorld of an image that has its
\* pendingForceSave set starts none.
Startable(entries, forced) ==
    {t \in Callbacks \X (Images \ forced) :
        \E r \in entries : r[2] = t[2] /\ <<r[1], t[1]>> \in Schedules}

\* The server calls a name: every entry of it runs.  SaveWorld puts a save off,
\* or announces it, or neither.
CallOf(name, forced, slots) ==
    \E new \in SUBSET Startable(Named(name), forced) :
        /\ \A g \in Images : ~({<<"deferred", g>>, <<"announced", g>>} \subseteq new)
        /\ \A t \in new : slots[t] < MaxTimers
        /\ timers' = [t \in Callbacks \X Images |-> slots[t] + IF t \in new THEN 1 ELSE 0]

Call(name) ==
    /\ ~exited
    /\ name # "Exit"
    /\ CallOf(name, {}, timers)
    /\ strays' = strays \cup {r[1] : r \in {q \in Named(name) : Gone(q[2])}}
    /\ UNCHANGED <<image, loads, registered, shutdowns, exited>>

\* A timer fires.  The callbacks of WorldSave call the game's SaveWorld, two of
\* them with the pendingForceSave of their own image set.
Fires(c, g) ==
    /\ ~exited
    /\ timers[<<c, g>>] > 0
    /\ LET rest    == [timers EXCEPT ![<<c, g>>] = @ - 1]
           reached == IF c \in Saving THEN Named("SaveWorld") ELSE {}
       IN  /\ IF c \in Saving
                THEN CallOf("SaveWorld", IF c = "deferred" THEN {} ELSE {g}, rest)
                ELSE timers' = rest
           /\ strays' = strays \cup (IF Gone(g) THEN {<<"timer", c>>} ELSE {})
                               \cup {r[1] : r \in {q \in reached : Gone(q[2])}}
    /\ UNCHANGED <<image, loads, registered, shutdowns, exited>>

\* The server ends; the exit hook of each image that has it runs.
Exit ==
    /\ ~exited
    /\ exited' = TRUE
    /\ shutdowns' = [g \in Images |->
                        shutdowns[g] + IF \E r \in Named("Exit") : r[2] = g THEN 1 ELSE 0]
    /\ strays' = strays \cup {r[1] : r \in {q \in Named("Exit") : Gone(q[2])}}
    /\ UNCHANGED <<image, loads, registered, timers>>

Ended == exited /\ UNCHANGED vars

Next ==
    \/ Load \/ Unload
    \/ \E name \in {e[2] : e \in Added} : Call(name)
    \/ \E c \in Callbacks, g \in Images : Fires(c, g)
    \/ Exit \/ Ended

Spec == Init /\ [][Next]_vars

\* A server that goes on calls every timer that is due.
FairSpec == Spec /\ \A c \in Callbacks, g \in Images : WF_vars(Fires(c, g))

-------------------------------------------------------------------------------
\* Every variable keeps its type.
TypeOK ==
    /\ image \in 0..loads /\ loads \in 0..MaxLoads
    /\ registered \subseteq Added \X (1..loads)
    /\ timers \in [Callbacks \X Images -> Nat]
    /\ shutdowns \in [Images -> Nat]
    /\ exited \in BOOLEAN
    /\ strays \subseteq Added \cup ({"timer"} \X Callbacks)

\* The only code of an unloaded image that the server still calls are the
\* callbacks of timers and /dumptarget: no hook, no tick and no rcon command,
\* through however many loads, and not from within a callback either.
FewStrays == strays \subseteq {DumpTarget} \cup ({"timer"} \X Callbacks)

\* Whatever the order of Unload, Load and the server's exit, an image that was
\* unloaded, or that was there at the exit, has shut its executor down once, and
\* any other image not at all: the join of a joined thread would throw, and the
\* end of a thread that was not joined would end the server.
ShutdownOnce ==
    \A g \in Images :
        shutdowns[g] = IF g <= loads /\ (Gone(g) \/ exited) THEN 1 ELSE 0

\* The timers of an unloaded image come to their end: their callbacks, which call
\* SaveWorld, start no further timer of that image, and no later image does.
OldTimersEnd ==
    \A g \in Images :
        loads >= g /\ Gone(g) ~> exited \/ [](\A c \in Callbacks : timers[<<c, g>>] = 0)

\* "This file controls what is loaded and unloaded in the plugin" (saomega.cpp:4):
\* when the plugin is unloaded, nothing of it is registered any more.
UnloadTakesAll == image = 0 => registered = {}
===============================================================================
