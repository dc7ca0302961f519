------------------------------- MODULE WorldSave -------------------------------
(***************************************************************************)
(* SA::WorldSave (Plugin/worldsave.cpp): which of the world saves the game *)
(* asks for are made, dropped, put off while a boss is fought, or forced.  *)
(*                                                                         *)
(* Everything here runs on the game thread, one hook or timer callback at  *)
(* a time, so an action is a whole hook or callback.  The hazard is in     *)
(* what happens between them: a callback scheduled seconds ago meets flags *)
(* that other hooks have set or cleared meanwhile.                         *)
(*                                                                         *)
(* Time.  lastDmg and lastSave are only ever compared with timestamp(), so *)
(* they are kept as ages, now - lastDmg and now - lastSave.  timestamp()   *)
(* is the wall clock and may be set: back, then an age may be negative and *)
(* the subtraction of two uint64_t wraps (Since), or forward.  Timers run  *)
(* on a clock that is never set; left is the time a timer still has to     *)
(* run, negative when the game loop is late.                               *)
(***************************************************************************)
EXTENDS Integers

CONSTANTS
    DmgRate,      \* dmgRate: 60 s without a hit end a boss fight
    SaveRate,     \* saveRate: 300 s at least between two saves
    JoinWindow,   \* 480 s: a spawn this soon after a save forces another one
    JoinDelay,    \* 30 s from the spawn to that save
    ForceRate,    \* 1200 s: after that a save is no longer put off
    WordSize,     \* 2^64, the range of a uint64_t
    MaxLag,       \* bound: how late the game loop may be with a timer
    MaxBack,      \* bound: how far the wall clock is set back, in all
    Cap,          \* bound: an age of Cap stands for any age of Cap or more
    TimerIds      \* bound: the timers that can be outstanding at a time

ASSUME WorldSaveAssumption ==
    /\ DmgRate \in Nat /\ SaveRate \in Nat /\ JoinWindow \in Nat
    /\ JoinDelay \in Nat /\ ForceRate \in Nat /\ WordSize \in Nat
    /\ MaxLag \in Nat /\ MaxBack \in Nat /\ Cap \in Nat
    /\ 0 < DmgRate /\ JoinDelay <= DmgRate
    /\ DmgRate + MaxLag < SaveRate
    /\ SaveRate < JoinWindow /\ JoinWindow < ForceRate
    /\ ForceRate + DmgRate + MaxLag < Cap
    /\ ForceRate + MaxBack < WordSize

VARIABLES
    sinceDmg,          \* age of lastDmg
    sinceSave,         \* age of lastSave
    hasPendingSave,
    pendingForceSave,
    shuttingDown,
    hooked,            \* Load has set the hooks, Unload has not disabled them
    kind,              \* the callback each timer was given, or "free"
    left,              \* the time each timer has left
    stepped,           \* how far the wall clock has been set back so far
    jumped,            \* the wall clock has been set forward
    owed,              \* history: a save was announced and has not been made
    saved              \* history: the last step made a save

flags  == <<hasPendingSave, pendingForceSave, shuttingDown>>
timers == <<kind, left>>
clock  == <<stepped, jumped>>
vars   == <<sinceDmg, sinceSave, flags, hooked, timers, clock, owed, saved>>

Kinds == {"delayed", "respawn", "announced"}

\* lastDmg and lastSave are 0, which is decades before now.
Init ==
    /\ sinceDmg = Cap
    /\ sinceSave = Cap
    /\ hasPendingSave = FALSE
    /\ pendingForceSave = FALSE
    /\ shuttingDown = FALSE
    /\ hooked = TRUE
    /\ kind = [i \in TimerIds |-> "free"]
    /\ left = [i \in TimerIds |-> 0]
    /\ stepped = 0
    /\ jumped = FALSE
    /\ owed = FALSE
    /\ saved = FALSE

-------------------------------------------------------------------------------
(* now - last, in uint64_t. *)
Since(age) == IF age < 0 THEN age + WordSize ELSE age

(* API::Timer: DelayExecute(callback, delay). slots are the timers as the     *)
(* caller has them: a callback's own timer is over when it is called.         *)
Schedule(slots, callback, delay) ==
    \E i \in TimerIds :
        /\ slots[i] = "free"
        /\ kind' = [slots EXCEPT ![i] = callback]
        /\ left' = [left EXCEPT ![i] = delay]

-------------------------------------------------------------------------------
(* The SaveWorld hook.  Its callers are actions of this module: stopping,     *)
(* pending and forced are shuttingDown, hasPendingSave and pendingForceSave   *)
(* as the caller has set them when it calls SaveWorld.                        *)

\* Variant of Gated: the limit of 20 minutes is forgotten.
Gated_NoLimit(force, stopping, forced) ==
    hooked /\ ~force /\ ~stopping /\ ~forced

Gated(force, stopping, forced) ==
    hooked /\ ~force /\ ~stopping /\ ~forced /\ Since(sinceSave) < ForceRate

Held == Since(sinceDmg) < DmgRate \/ Since(sinceSave) < SaveRate

SaveDropped(pending, slots) ==
    /\ Held
    /\ pending \/ Since(sinceSave) < SaveRate
    /\ hasPendingSave' = pending
    /\ pendingForceSave' = FALSE
    /\ kind' = slots
    /\ saved' = FALSE
    /\ UNCHANGED <<sinceSave, left, owed>>

\* Variant of SaveDeferred: sinceSave >= saveRate is not asked for.
SaveDeferred_TooSoon(pending, slots) ==
    /\ Held
    /\ ~pending
    /\ hasPendingSave' = TRUE
    /\ pendingForceSave' = FALSE
    /\ Schedule(slots, "delayed", DmgRate - Since(sinceDmg))
    /\ saved' = FALSE
    /\ UNCHANGED <<sinceSave, owed>>

SaveDeferred(pending, slots) ==
    /\ Held
    /\ ~pending
    /\ Since(sinceSave) >= SaveRate
    /\ hasPendingSave' = TRUE
    /\ pendingForceSave' = FALSE
    /\ Schedule(slots, "delayed", DmgRate - Since(sinceDmg))
    /\ saved' = FALSE
    /\ UNCHANGED <<sinceSave, owed>>

\* Variant of SaveAnnounced: lastSave = now is left to the save itself.
SaveAnnounced_NoStamp(pending, slots) ==
    /\ ~Held
    /\ hasPendingSave' = pending
    /\ pendingForceSave' = FALSE
    /\ Schedule(slots, "announced", 0)
    /\ owed' = TRUE
    /\ saved' = FALSE
    /\ UNCHANGED sinceSave

\* The players are told, and the save is made when the game loop comes round.
SaveAnnounced(pending, slots) ==
    /\ ~Held
    /\ sinceSave' = 0
    /\ hasPendingSave' = pending
    /\ pendingForceSave' = FALSE
    /\ Schedule(slots, "announced", 0)
    /\ owed' = TRUE
    /\ saved' = FALSE

\* Variant of SaveNow: pendingForceSave is not cleared.
SaveNow_KeepForce(forced, slots) ==
    /\ sinceSave' = 0
    /\ hasPendingSave' = FALSE
    /\ pendingForceSave' = forced
    /\ kind' = slots
    /\ owed' = FALSE
    /\ saved' = TRUE
    /\ UNCHANGED left

SaveNow(forced, slots) ==
    /\ sinceSave' = 0
    /\ hasPendingSave' = FALSE
    /\ pendingForceSave' = FALSE
    /\ kind' = slots
    /\ owed' = FALSE
    /\ saved' = TRUE
    /\ UNCHANGED left

\* After Unload a call of SaveWorld goes straight to the game.
SaveUnhooked(pending, forced, slots) ==
    /\ hasPendingSave' = pending
    /\ pendingForceSave' = forced
    /\ kind' = slots
    /\ owed' = FALSE
    /\ saved' = TRUE
    /\ UNCHANGED <<sinceSave, left>>

SaveWorld(force, stopping, pending, forced, slots) ==
    /\ shuttingDown' = stopping
    /\ UNCHANGED <<sinceDmg, hooked, clock>>
    /\ IF Gated(force, stopping, forced)
         THEN \/ SaveDropped(pending, slots)
              \/ SaveDeferred(pending, slots)
              \/ SaveAnnounced(pending, slots)
         ELSE IF hooked THEN SaveNow(forced, slots)
                        ELSE SaveUnhooked(pending, forced, slots)

-------------------------------------------------------------------------------
(* What the game calls. *)

\* The autosave of the game, or an administrator's command.
RequestSave(force) ==
    SaveWorld(force, shuttingDown, hasPendingSave, pendingForceSave, kind)

\* A dinosaur of level 1, a boss, is hit by something of a player's tribe.
TakeDamage ==
    /\ hooked
    /\ sinceDmg' = 0
    /\ saved' = FALSE
    /\ UNCHANGED <<sinceSave, flags, hooked, timers, clock, owed>>

\* A player who is in the game already gets a new character.
StartNewShooterPlayer ==
    /\ hooked
    /\ Since(sinceSave) <= JoinWindow
    /\ ~hasPendingSave
    /\ ~pendingForceSave
    /\ hasPendingSave' = TRUE
    /\ pendingForceSave' = TRUE
    /\ Schedule(kind, "respawn", JoinDelay)
    /\ saved' = FALSE
    /\ UNCHANGED <<sinceDmg, sinceSave, shuttingDown, hooked, clock, owed>>

\* "will shutdown in 1 minute" saves whenever it is said, "about to shutdown,
\* performing a world save" only the first to announce the shutdown;
\* SaveWorldDisableTransfer of the game calls SaveWorld.
ChatSaves(force) ==
    /\ hooked
    /\ SaveWorld(force, TRUE, hasPendingSave, pendingForceSave, kind)

\* "Server shutdown required." and "no longer shutting down".
ChatShutdown(b) ==
    /\ hooked
    /\ b => ~shuttingDown
    /\ shuttingDown' = b
    /\ saved' = FALSE
    /\ UNCHANGED <<sinceDmg, sinceSave, hasPendingSave, pendingForceSave,
                   hooked, timers, clock, owed>>

Unload ==
    /\ hooked
    /\ hooked' = FALSE
    /\ shuttingDown' = TRUE
    /\ saved' = FALSE
    /\ UNCHANGED <<sinceDmg, sinceSave, hasPendingSave, pendingForceSave,
                   timers, clock, owed>>

-------------------------------------------------------------------------------
(* The callbacks of the three timers. *)

Due(i, callback) == kind[i] = callback /\ left[i] <= 0
Without(i) == [kind EXCEPT ![i] = "free"]

\* Variant of DelayedFires: hasPendingSave is left to SaveWorld.
DelayedFires_KeepPending(i) ==
    /\ Due(i, "delayed")
    /\ SaveWorld(FALSE, shuttingDown, hasPendingSave, pendingForceSave, Without(i))

DelayedFires(i) ==
    /\ Due(i, "delayed")
    /\ SaveWorld(FALSE, shuttingDown, FALSE, pendingForceSave, Without(i))

RespawnFires(i) ==
    /\ Due(i, "respawn")
    /\ SaveWorld(FALSE, shuttingDown, FALSE, TRUE, Without(i))

\* Variant of AnnouncedFires: nothing ensures that the call is not skipped.
AnnouncedFires_Skippable(i) ==
    /\ Due(i, "announced")
    /\ SaveWorld(FALSE, shuttingDown, hasPendingSave, pendingForceSave, Without(i))

AnnouncedFires(i) ==
    /\ Due(i, "announced")
    /\ SaveWorld(FALSE, shuttingDown, hasPendingSave, TRUE, Without(i))

-------------------------------------------------------------------------------
(* Time. *)

Older(age, d) == IF age + d < Cap THEN age + d ELSE Cap

\* The ages an age of Cap may be cut to are those that were Cap or more.
Younger(age, d) == IF age = Cap THEN (Cap - d)..Cap ELSE {age - d}

\* The game loop is never later than MaxLag with a timer.
Tick ==
    /\ \A i \in TimerIds : kind[i] # "free" => left[i] > -MaxLag
    /\ sinceDmg' = Older(sinceDmg, 1)
    /\ sinceSave' = Older(sinceSave, 1)
    /\ left' = [i \in TimerIds |-> IF kind[i] = "free" THEN left[i] ELSE left[i] - 1]
    /\ saved' = FALSE
    /\ UNCHANGED <<flags, hooked, kind, clock, owed>>

StepBack(d) ==
    /\ stepped + d <= MaxBack
    /\ stepped' = stepped + d
    /\ sinceDmg' \in Younger(sinceDmg, d)
    /\ sinceSave' \in Younger(sinceSave, d)
    /\ saved' = FALSE
    /\ UNCHANGED <<flags, hooked, timers, jumped, owed>>

StepForward(d) ==
    /\ jumped' = TRUE
    /\ sinceDmg' = Older(sinceDmg, d)
    /\ sinceSave' = Older(sinceSave, d)
    /\ saved' = FALSE
    /\ UNCHANGED <<flags, hooked, timers, stepped, owed>>

Fires(i) == DelayedFires(i) \/ RespawnFires(i) \/ AnnouncedFires(i)

Next ==
    \/ \E force \in BOOLEAN : RequestSave(force) \/ ChatSaves(force)
    \/ \E b \in BOOLEAN : ChatShutdown(b)
    \/ TakeDamage
    \/ StartNewShooterPlayer
    \/ Unload
    \/ \E i \in TimerIds : Fires(i)
    \/ Tick
    \/ \E d \in 1..MaxBack : StepBack(d)
    \/ \E d \in 1..Cap : StepForward(d)

Spec == Init /\ [][Next]_vars

\* Time passes and the game loop calls every timer that is due.
Fairness == WF_vars(Tick) /\ \A i \in TimerIds : WF_vars(Fires(i))

FairSpec == Spec /\ Fairness

-------------------------------------------------------------------------------
Outstanding(callback) == {i \in TimerIds : kind[i] = callback}

\* Every variable keeps its type; no timer is given a delay outside 0..DmgRate,
\* whatever the wall clock does (a negative int would be a delay, too).
TypeOK ==
    /\ sinceDmg \in (-stepped)..Cap
    /\ sinceSave \in (-stepped)..Cap
    /\ hasPendingSave \in BOOLEAN
    /\ pendingForceSave \in BOOLEAN
    /\ shuttingDown \in BOOLEAN
    /\ hooked \in BOOLEAN
    /\ kind \in [TimerIds -> Kinds \cup {"free"}]
    /\ left \in [TimerIds -> (-MaxLag)..DmgRate]
    /\ stepped \in 0..MaxBack
    /\ jumped \in BOOLEAN
    /\ owed \in BOOLEAN
    /\ saved \in BOOLEAN

\* A pending save has a timer: hasPendingSave, which makes SaveWorld drop every
\* further request and StartNewShooterPlayer schedule nothing, is set only while
\* a callback that will clear it is outstanding, whichever timer was scheduled
\* first and whatever save came in between.
PendingHasTimer ==
    hasPendingSave => Outstanding("delayed") \cup Outstanding("respawn") # {}

\* pendingForceSave, which makes the next SaveWorld skip every check, never
\* outlives the pending save it was set for: no later autosave is forced by it.
ForceIsPending == hooked /\ pendingForceSave => hasPendingSave

\* A save the players were told of and lastSave already counts is not forgotten:
\* until it is made, the callback that makes it is outstanding ("ensure this
\* call isn't skipped").
AnnouncedIsDue == owed => Outstanding("announced") # {}

\* However saves, spawns and shutdowns interleave with the timers, at most one
\* deferred and at most one announced save are outstanding at a time, unless the
\* wall clock was set forward past saveRate while one was.
OneOfEach ==
    hooked /\ ~jumped =>
        \A callback \in {"delayed", "announced"} :
            \A i, j \in Outstanding(callback) : i = j

\* A boss fight that never ends does not put off a save for ever: no save is
\* pending later than the limit of 20 minutes and one more delay after the last,
\* by a wall clock that was not set forward meanwhile.
BoundedDeferral ==
    hasPendingSave /\ ~jumped => sinceSave < ForceRate + DmgRate + MaxLag

\* A save the players were told of is made, whatever the wall clock does.
AnnouncedIsSaved == owed ~> saved

\* WorldSave keeps its promise: a save that was put off or announced is made,
\* and no request, spawn, shutdown or timer that comes in between makes it
\* forgotten; only a wall clock set back lets a deferred save be dropped by its
\* own callback, which then finds less than saveRate since the last save.
Promise == INSTANCE SavePromise
             WITH promised <- hasPendingSave \/ owed, slipped <- stepped # 0

KeepsPromise == Promise!FairSpec
===============================================================================
