---------------------------- MODULE WorldSaveProofs ----------------------------
(***************************************************************************)
(* Proofs about WorldSave, for all rates that keep the order of those in   *)
(* the code, any number of timers and any behaviour of the wall clock that *)
(* WorldSave allows.  WorldSave implements SavePromise, but for progress.  *)
(***************************************************************************)
EXTENDS WorldSave, TLAPS

\* The invariants of WorldSave are not inductive.  What relates a timer to the
\* age of the last save is the sum of the two, which time leaves as it is: a
\* pending save has a timer that ends in time, a deferred save that is pending
\* no more was overtaken by a save, and an announced one was counted as a save
\* when its timer was started.  A clock set forward makes the sum larger; one set
\* back makes lastSave younger than it was when a save was deferred (DueWhenKept).
DueWhenKept ==
    hooked /\ hasPendingSave /\ ~pendingForceSave /\ ~owed /\ stepped = 0
        => SaveRate <= sinceSave

TimerInv ==
    /\ hasPendingSave =>
          \E i \in TimerIds : /\ kind[i] \in {"delayed", "respawn"}
                              /\ ~jumped => sinceSave + left[i] < ForceRate + DmgRate
    /\ DueWhenKept
    /\ ForceIsPending
    /\ AnnouncedIsDue
    /\ OneOfEach
    /\ hooked /\ ~jumped => \A i \in TimerIds :
          /\ kind[i] = "delayed" /\ ~hasPendingSave => sinceSave + left[i] <= DmgRate
          /\ kind[i] = "announced" => left[i] <= 0 /\ sinceSave + left[i] <= 0

IInv == TypeOK /\ TimerInv

\* Nothing is pending and no timer is outstanding when the plugin is loaded.
LEMMA InitInv == Init => IInv
<1> SUFFICES ASSUME Init
             PROVE  IInv
  OBVIOUS
<1>1. TypeOK
  <2>1. stepped = 0 /\ sinceDmg = Cap /\ sinceSave = Cap
    BY DEF Init
  <2>2. Cap \in (-stepped)..Cap /\ stepped \in 0..MaxBack
    BY <2>1, WorldSaveAssumption
  <2>3. 0 \in (-MaxLag)..DmgRate
    BY WorldSaveAssumption
  <2>4. left \in [TimerIds -> (-MaxLag)..DmgRate] /\ kind \in [TimerIds -> Kinds \cup {"free"}]
    BY <2>3 DEF Init, Kinds
  <2>5. QED
    BY <2>1, <2>2, <2>4 DEF Init, TypeOK
<1>2. TimerInv
  BY DEF Init, TimerInv, ForceIsPending, AnnouncedIsDue, OneOfEach, DueWhenKept, Outstanding
<1>3. QED
  BY <1>1, <1>2 DEF IInv

\* A wrapped subtraction is larger than every rate: an age that passes as less
\* than ForceRate is the true one.
LEMMA NoWrap ==
    ASSUME TypeOK
    PROVE  /\ Since(sinceSave) \in Nat /\ Since(sinceDmg) \in Nat
           /\ Since(sinceSave) < ForceRate => Since(sinceSave) = sinceSave
           /\ Since(sinceDmg) < DmgRate => Since(sinceDmg) = sinceDmg
  BY WorldSaveAssumption DEF TypeOK, Since

\* The timers a caller of SaveWorld passes: all, or all but the one that fires.
Slots(slots) ==
    /\ slots \in [TimerIds -> Kinds \cup {"free"}]
    /\ \A i \in TimerIds : slots[i] # "free" => slots[i] = kind[i]

\* What every caller of SaveWorld guarantees: it clears hasPendingSave whenever
\* it is the callback that was to clear it, and sets pendingForceSave when its
\* call must not be skipped.
Called(pending, forced, slots) ==
    /\ pending \in BOOLEAN /\ forced \in BOOLEAN /\ Slots(slots)
    /\ pending => /\ hasPendingSave
                  /\ \A i \in TimerIds :
                        kind[i] \in {"delayed", "respawn"} => slots[i] = kind[i]
    /\ pending /\ ~forced => ~pendingForceSave
    /\ ~pending /\ ~forced /\ ~jumped =>
          \A i \in TimerIds : slots[i] = "delayed" => ~hasPendingSave
    /\ ~forced => \A i \in TimerIds : kind[i] = "announced" => slots[i] = "announced"

\* SaveWorld keeps every type, whoever calls it.
LEMMA SaveTypes ==
    ASSUME TypeOK, NEW force \in BOOLEAN, NEW stopping \in BOOLEAN,
           NEW pending \in BOOLEAN, NEW forced \in BOOLEAN, NEW slots, Slots(slots),
           SaveWorld(force, stopping, pending, forced, slots)
    PROVE  TypeOK'
<1> USE WorldSaveAssumption DEF TypeOK, Slots, Kinds
<1>1. /\ shuttingDown' = stopping
      /\ sinceDmg' = sinceDmg /\ hooked' = hooked
      /\ stepped' = stepped /\ jumped' = jumped
  BY DEF SaveWorld, clock
<1>2. CASE SaveDropped(pending, slots)
  BY <1>1, <1>2 DEF SaveDropped
<1>3. CASE Since(sinceSave) < ForceRate /\ SaveDeferred(pending, slots)
  <2>1. DmgRate - Since(sinceDmg) \in (-MaxLag)..DmgRate
    BY <1>3, NoWrap DEF SaveDeferred, Held
  <2>2. kind' \in [TimerIds -> Kinds \cup {"free"}] /\ left' \in [TimerIds -> (-MaxLag)..DmgRate]
    BY <1>3, <2>1 DEF SaveDeferred, Schedule
  <2>3. QED
    BY <1>1, <1>3, <2>2 DEF SaveDeferred
<1>4. CASE SaveAnnounced(pending, slots)
  <2>1. 0 \in (-MaxLag)..DmgRate /\ 0 \in (-stepped)..Cap
    OBVIOUS
  <2>2. kind' \in [TimerIds -> Kinds \cup {"free"}] /\ left' \in [TimerIds -> (-MaxLag)..DmgRate]
    BY <1>4, <2>1 DEF SaveAnnounced, Schedule
  <2>3. QED
    BY <1>1, <1>4, <2>1, <2>2 DEF SaveAnnounced
<1>5. CASE SaveNow(forced, slots)
  <2>1. 0 \in (-stepped)..Cap
    OBVIOUS
  <2>2. QED
    BY <1>1, <1>5, <2>1 DEF SaveNow
<1>6. CASE SaveUnhooked(pending, forced, slots)
  BY <1>1, <1>6 DEF SaveUnhooked
<1>7. QED
  BY <1>2, <1>3, <1>4, <1>5, <1>6 DEF SaveWorld, Gated

\* SaveWorld keeps the invariant when its caller has kept its part.
LEMMA SaveInv ==
    ASSUME IInv, NEW force \in BOOLEAN, NEW stopping \in BOOLEAN,
           NEW pending, NEW forced, NEW slots, Called(pending, forced, slots),
           SaveWorld(force, stopping, pending, forced, slots)
    PROVE  IInv'
<1>0. TypeOK /\ TimerInv
  BY DEF IInv
<1>1. TypeOK'
  BY <1>0, SaveTypes DEF Called
<1> USE WorldSaveAssumption
<1>2. hooked' = hooked /\ stepped' = stepped /\ jumped' = jumped
  BY DEF SaveWorld, clock
<1>3. CASE Gated(force, stopping, forced)
  <2>1. hooked /\ ~forced /\ Since(sinceSave) = sinceSave /\ sinceSave \in Nat
    BY <1>0, <1>3, NoWrap DEF Gated
  <2>2. CASE SaveDropped(pending, slots)
    <3>1. /\ hasPendingSave' = pending /\ pendingForceSave' = FALSE
          /\ kind' = slots /\ left' = left /\ sinceSave' = sinceSave /\ owed' = owed
      BY <2>2 DEF SaveDropped
    <3>2. QED
      BY <1>0, <1>1, <1>2, <2>1, <3>1 DEF IInv, TimerInv, TypeOK, Called, Slots,
         ForceIsPending, AnnouncedIsDue, OneOfEach, DueWhenKept, Outstanding
  <2>3. CASE SaveDeferred(pending, slots)
    <3>1. PICK n \in TimerIds :
            /\ slots[n] = "free"
            /\ kind' = [slots EXCEPT ![n] = "delayed"]
            /\ left' = [left EXCEPT ![n] = DmgRate - Since(sinceDmg)]
      BY <2>3 DEF SaveDeferred, Schedule
    <3>2. /\ hasPendingSave' = TRUE /\ pendingForceSave' = FALSE /\ ~pending
          /\ sinceSave' = sinceSave /\ owed' = owed
          /\ SaveRate <= sinceSave /\ sinceSave < ForceRate
      BY <1>3, <2>1, <2>3 DEF SaveDeferred, Gated
    <3>3. ~jumped => \A i \in TimerIds : slots[i] # "delayed"
      BY <1>0, <2>1, <3>2 DEF TimerInv, TypeOK, Called, Slots
    <3>4. /\ \A i \in TimerIds : kind'[i] = IF i = n THEN "delayed" ELSE slots[i]
          /\ \A i \in TimerIds \ {n} : left'[i] = left[i]
          /\ left'[n] = DmgRate - Since(sinceDmg) /\ left'[n] <= DmgRate
      BY <1>0, <3>1, NoWrap DEF TypeOK, Called, Slots
    <3>5. ForceIsPending' /\ AnnouncedIsDue' /\ OneOfEach' /\ DueWhenKept'
      BY <1>0, <1>2, <2>1, <3>1, <3>2, <3>3, <3>4 DEF TimerInv, Called, Slots,
         ForceIsPending, AnnouncedIsDue, OneOfEach, DueWhenKept, Outstanding
    <3>6. sinceSave' + left'[n] < ForceRate + DmgRate
      BY <1>1, <3>2, <3>4 DEF TypeOK
    <3>7. QED
      BY <1>0, <1>1, <1>2, <2>1, <3>1, <3>2, <3>4, <3>5, <3>6 DEF IInv, TimerInv, Called, Slots
  <2>4. CASE SaveAnnounced(pending, slots)
    <3>1. PICK n \in TimerIds :
            /\ slots[n] = "free"
            /\ kind' = [slots EXCEPT ![n] = "announced"]
            /\ left' = [left EXCEPT ![n] = 0]
      BY <2>4 DEF SaveAnnounced, Schedule
    <3>2. /\ hasPendingSave' = pending /\ pendingForceSave' = FALSE
          /\ owed' = TRUE /\ sinceSave' = 0 /\ SaveRate <= sinceSave
      BY <2>1, <2>4 DEF SaveAnnounced, Held
    <3>3. ~jumped => \A i \in TimerIds : slots[i] # "announced"
      BY <1>0, <2>1, <3>2 DEF TimerInv, TypeOK, Called, Slots
    <3>4. /\ \A i \in TimerIds : kind'[i] = IF i = n THEN "announced" ELSE slots[i]
          /\ \A i \in TimerIds \ {n} : left'[i] = left[i]
          /\ left'[n] = 0
      BY <1>0, <3>1 DEF TypeOK, Called, Slots
    <3>5. ForceIsPending' /\ AnnouncedIsDue' /\ OneOfEach' /\ DueWhenKept'
      BY <1>0, <1>2, <2>1, <3>1, <3>2, <3>3, <3>4 DEF TimerInv, Called, Slots,
         ForceIsPending, AnnouncedIsDue, OneOfEach, DueWhenKept, Outstanding
    <3>6. ASSUME hasPendingSave'
          PROVE  \E i \in TimerIds : /\ kind'[i] \in {"delayed", "respawn"}
                                     /\ sinceSave' + left'[i] < ForceRate + DmgRate
      <4>1. PICK i \in TimerIds : kind[i] \in {"delayed", "respawn"} /\ slots[i] = kind[i]
        BY <1>0, <3>2, <3>6 DEF TimerInv, Called
      <4>2. i # n /\ kind'[i] = kind[i] /\ left'[i] = left[i]
        BY <3>1, <3>4, <4>1
      <4>3. 0 + left[i] < ForceRate + DmgRate
        BY <1>0, <4>1 DEF TypeOK
      <4>4. QED
        BY <3>2, <4>1, <4>2, <4>3
    <3>7. ASSUME ~jumped, NEW i \in TimerIds
          PROVE  /\ kind'[i] = "delayed" => sinceSave' + left'[i] <= DmgRate
                 /\ kind'[i] = "announced" => left'[i] <= 0 /\ sinceSave' + left'[i] <= 0
      <4>1. left'[i] \in Int /\ left'[i] <= DmgRate
        BY <1>0, <3>4 DEF TypeOK
      <4>2. kind'[i] = "announced" => i = n
        BY <3>3, <3>4, <3>7
      <4>3. QED
        BY <3>2, <3>4, <4>1, <4>2
    <3>8. QED
      BY <1>1, <1>2, <3>5, <3>6, <3>7 DEF IInv, TimerInv
  <2>5. QED
    BY <1>3, <2>2, <2>3, <2>4 DEF SaveWorld
<1>4. CASE hooked /\ ~Gated(force, stopping, forced)
  <2>1. /\ hasPendingSave' = FALSE /\ pendingForceSave' = FALSE /\ owed' = FALSE
        /\ sinceSave' = 0 /\ kind' = slots /\ left' = left
    BY <1>4 DEF SaveWorld, SaveNow
  <2>2. ForceIsPending' /\ AnnouncedIsDue' /\ OneOfEach' /\ DueWhenKept'
    BY <1>0, <1>2, <1>4, <2>1 DEF TimerInv, Called, Slots,
       ForceIsPending, AnnouncedIsDue, OneOfEach, DueWhenKept, Outstanding
  <2>3. ASSUME ~jumped, NEW i \in TimerIds
        PROVE  /\ kind'[i] = "delayed" => sinceSave' + left'[i] <= DmgRate
               /\ kind'[i] = "announced" => left'[i] <= 0 /\ sinceSave' + left'[i] <= 0
    <3>1. left'[i] = left[i] /\ sinceSave' = 0 /\ left[i] \in Int /\ left[i] <= DmgRate
      BY <1>0, <2>1 DEF TypeOK
    <3>2. kind'[i] = "announced" => left[i] <= 0
      BY <1>0, <1>4, <2>1, <2>3 DEF TimerInv, Called, Slots
    <3>3. QED
      BY <3>1, <3>2
  <2>4. QED
    BY <1>1, <1>2, <2>1, <2>2, <2>3 DEF IInv, TimerInv
<1>5. CASE ~hooked
  <2>1. /\ hasPendingSave' = pending /\ owed' = FALSE
        /\ sinceSave' = sinceSave /\ kind' = slots /\ left' = left
    BY <1>5 DEF SaveWorld, Gated, SaveUnhooked
  <2>2. QED
    BY <1>0, <1>1, <1>2, <1>5, <2>1 DEF IInv, TimerInv, TypeOK, Called, Slots,
       ForceIsPending, AnnouncedIsDue, OneOfEach, DueWhenKept
<1>6. QED
  BY <1>3, <1>4, <1>5 DEF Gated

\* Every action keeps the invariant.
LEMMA StepInv == IInv /\ [Next]_vars => IInv'
<1> SUFFICES ASSUME IInv, [Next]_vars
             PROVE  IInv'
  OBVIOUS
<1>0. TypeOK /\ TimerInv
  BY DEF IInv
<1> USE WorldSaveAssumption
<1>1. ASSUME NEW force \in BOOLEAN, RequestSave(force)
      PROVE  IInv'
  <2>1. Called(hasPendingSave, pendingForceSave, kind)
    BY <1>0 DEF Called, Slots, TypeOK
  <2>2. QED
    BY <1>0, <1>1, <2>1, SaveInv DEF RequestSave, TypeOK
<1>2. ASSUME NEW force \in BOOLEAN, ChatSaves(force)
      PROVE  IInv'
  <2>1. Called(hasPendingSave, pendingForceSave, kind)
    BY <1>0 DEF Called, Slots, TypeOK
  <2>2. QED
    BY <1>2, <2>1, SaveInv DEF ChatSaves
<1>3. ASSUME NEW b \in BOOLEAN, ChatShutdown(b)
      PROVE  IInv'
  BY <1>0, <1>3 DEF ChatShutdown, IInv, TimerInv, TypeOK, timers, clock,
     ForceIsPending, AnnouncedIsDue, OneOfEach, DueWhenKept, Outstanding
<1>4. ASSUME TakeDamage
      PROVE  IInv'
  <2>1. 0 \in (-stepped)..Cap
    BY <1>0 DEF TypeOK
  <2>2. TypeOK'
    BY <1>0, <1>4, <2>1 DEF TakeDamage, TypeOK, flags, timers, clock
  <2>3. TimerInv'
    BY <1>0, <1>4 DEF TakeDamage, TimerInv, flags, timers, clock,
       ForceIsPending, AnnouncedIsDue, OneOfEach, DueWhenKept, Outstanding
  <2>4. QED
    BY <2>2, <2>3 DEF IInv
<1>5. ASSUME StartNewShooterPlayer
      PROVE  IInv'
  <2>1. PICK n \in TimerIds :
          /\ kind[n] = "free"
          /\ kind' = [kind EXCEPT ![n] = "respawn"]
          /\ left' = [left EXCEPT ![n] = JoinDelay]
    BY <1>5 DEF StartNewShooterPlayer, Schedule
  <2>2. /\ hasPendingSave' = TRUE /\ pendingForceSave' = TRUE
        /\ sinceSave' = sinceSave /\ owed' = owed /\ hooked' = hooked /\ ~hasPendingSave
        /\ sinceDmg' = sinceDmg /\ shuttingDown' = shuttingDown /\ stepped' = stepped
        /\ jumped' = jumped /\ saved' = FALSE /\ Since(sinceSave) <= JoinWindow
    BY <1>5 DEF StartNewShooterPlayer, clock
  <2>3. sinceSave <= JoinWindow
    BY <1>0, <2>2, NoWrap DEF TypeOK
  <2>4. /\ kind' \in [TimerIds -> Kinds \cup {"free"}]
        /\ left' \in [TimerIds -> (-MaxLag)..DmgRate]
    BY <1>0, <2>1 DEF TypeOK, Kinds
  <2>5. TypeOK'
    BY <1>0, <2>2, <2>4 DEF TypeOK
  <2>6. /\ \A i \in TimerIds : kind'[i] = IF i = n THEN "respawn" ELSE kind[i]
        /\ \A i \in TimerIds \ {n} : left'[i] = left[i]
        /\ left'[n] = JoinDelay
    BY <1>0, <2>1 DEF TypeOK
  <2>7. ForceIsPending' /\ AnnouncedIsDue' /\ OneOfEach' /\ DueWhenKept'
    BY <1>0, <2>1, <2>2, <2>6 DEF TimerInv,
       ForceIsPending, AnnouncedIsDue, OneOfEach, DueWhenKept, Outstanding
  <2>8. sinceSave' + left'[n] < ForceRate + DmgRate
    BY <1>0, <2>2, <2>3, <2>6 DEF TypeOK
  <2>9. QED
    BY <1>0, <2>1, <2>2, <2>5, <2>6, <2>7, <2>8 DEF IInv, TimerInv, TypeOK
<1>6. ASSUME Unload
      PROVE  IInv'
  BY <1>0, <1>6 DEF Unload, IInv, TimerInv, TypeOK, timers, clock,
     ForceIsPending, AnnouncedIsDue, OneOfEach, DueWhenKept, Outstanding
<1>7. ASSUME NEW i \in TimerIds, DelayedFires(i)
      PROVE  IInv'
  <2>1. kind[i] = "delayed" /\ SaveWorld(FALSE, shuttingDown, FALSE, pendingForceSave, Without(i))
    BY <1>7 DEF DelayedFires, Due
  <2>2. CASE hooked
    <3>1. Called(FALSE, pendingForceSave, Without(i))
      BY <1>0, <2>1, <2>2 DEF Called, Slots, TypeOK, Without, TimerInv, OneOfEach, Outstanding
    <3>2. QED
      BY <1>0, <2>1, <3>1, SaveInv DEF TypeOK
  <2>3. CASE ~hooked
    <3>1. Slots(Without(i))
      BY <1>0 DEF Slots, Without, TypeOK
    <3>2. TypeOK'
      BY <1>0, <2>1, <3>1, SaveTypes DEF TypeOK
    <3>3. /\ hasPendingSave' = FALSE /\ owed' = FALSE /\ hooked' = hooked
      BY <2>1, <2>3 DEF SaveWorld, Gated, SaveUnhooked
    <3>4. QED
      BY <2>3, <3>2, <3>3 DEF IInv, TimerInv, ForceIsPending, AnnouncedIsDue, OneOfEach, DueWhenKept
  <2>4. QED
    BY <2>2, <2>3
<1>8. ASSUME NEW i \in TimerIds, RespawnFires(i)
      PROVE  IInv'
  <2>1. kind[i] = "respawn" /\ SaveWorld(FALSE, shuttingDown, FALSE, TRUE, Without(i))
    BY <1>8 DEF RespawnFires, Due
  <2>2. Called(FALSE, TRUE, Without(i))
    BY <1>0 DEF Called, Slots, TypeOK, Without
  <2>3. QED
    BY <1>0, <2>1, <2>2, SaveInv DEF TypeOK
<1>9. ASSUME NEW i \in TimerIds, AnnouncedFires(i)
      PROVE  IInv'
  <2>1. kind[i] = "announced" /\ SaveWorld(FALSE, shuttingDown, hasPendingSave, TRUE, Without(i))
    BY <1>9 DEF AnnouncedFires, Due
  <2>2. Called(hasPendingSave, TRUE, Without(i))
    BY <1>0, <2>1 DEF Called, Slots, TypeOK, Without
  <2>3. QED
    BY <1>0, <2>1, <2>2, SaveInv DEF TypeOK
<1>10. ASSUME Tick
       PROVE  IInv'
  <2>1. /\ hasPendingSave' = hasPendingSave /\ pendingForceSave' = pendingForceSave
        /\ shuttingDown' = shuttingDown /\ hooked' = hooked /\ kind' = kind
        /\ stepped' = stepped /\ jumped' = jumped /\ owed' = owed /\ saved' = FALSE
    BY <1>10 DEF Tick, flags, clock
  <2>2. /\ sinceSave' \in (-stepped)..Cap /\ sinceDmg' \in (-stepped)..Cap
        /\ sinceSave <= sinceSave' /\ sinceSave' <= sinceSave + 1
    BY <1>0, <1>10 DEF Tick, Older, TypeOK
  <2>3. /\ left' \in [TimerIds -> (-MaxLag)..DmgRate]
        /\ \A i \in TimerIds : kind[i] # "free" => left'[i] = left[i] - 1
    BY <1>0, <1>10 DEF Tick, TypeOK
  <2>4. TypeOK'
    BY <1>0, <2>1, <2>2, <2>3 DEF TypeOK
  <2>5. ForceIsPending' /\ AnnouncedIsDue' /\ OneOfEach' /\ DueWhenKept'
    BY <1>0, <2>1, <2>2 DEF TimerInv, TypeOK, ForceIsPending, AnnouncedIsDue, OneOfEach,
       DueWhenKept, Outstanding
  <2>6. \A i \in TimerIds : kind[i] # "free" => sinceSave' + left'[i] <= sinceSave + left[i]
    BY <1>0, <2>2, <2>3 DEF TypeOK
  <2>7. \A i \in TimerIds : sinceSave + left[i] \in Int /\ sinceSave' + left'[i] \in Int
    BY <1>0, <2>4 DEF TypeOK
  <2>8. \A i \in TimerIds : kind[i] # "free" /\ left[i] <= 0 => left'[i] <= 0
    BY <1>0, <2>3 DEF TypeOK
  <2>9. QED
    BY <1>0, <2>1, <2>4, <2>5, <2>6, <2>7, <2>8 DEF IInv, TimerInv
<1>11. ASSUME NEW d \in 1..MaxBack, StepBack(d)
       PROVE  IInv'
  <2>1. /\ hasPendingSave' = hasPendingSave /\ pendingForceSave' = pendingForceSave
        /\ shuttingDown' = shuttingDown /\ hooked' = hooked /\ kind' = kind
        /\ left' = left /\ jumped' = jumped /\ owed' = owed /\ saved' = FALSE
        /\ stepped' = stepped + d /\ stepped + d <= MaxBack
    BY <1>11 DEF StepBack, flags, timers
  <2>2. /\ sinceSave' \in (-(stepped + d))..Cap /\ sinceDmg' \in (-(stepped + d))..Cap
        /\ sinceSave' <= sinceSave
    <3>1. ASSUME NEW age \in (-stepped)..Cap, NEW y \in Younger(age, d)
          PROVE  y \in (-(stepped + d))..Cap /\ y <= age
      <4>1. stepped \in Nat /\ d \in Nat
        BY <1>0 DEF TypeOK
      <4>2. CASE age = Cap
        <5>1. y \in (Cap - d)..Cap
          BY <3>1, <4>2 DEF Younger
        <5>2. QED
          BY <4>1, <4>2, <5>1
      <4>3. CASE age # Cap
        <5>1. y = age - d
          BY <3>1, <4>3 DEF Younger
        <5>2. QED
          BY <4>1, <5>1
      <4>4. QED
        BY <4>2, <4>3
    <3>2. /\ sinceSave \in (-stepped)..Cap /\ sinceSave' \in Younger(sinceSave, d)
          /\ sinceDmg \in (-stepped)..Cap /\ sinceDmg' \in Younger(sinceDmg, d)
      BY <1>0, <1>11 DEF StepBack, TypeOK
    <3>3. sinceSave' \in (-(stepped + d))..Cap /\ sinceSave' <= sinceSave
      BY <3>1, <3>2, Zenon
    <3>4. sinceDmg' \in (-(stepped + d))..Cap
      BY <3>1, <3>2, Zenon
    <3>5. QED
      BY <3>3, <3>4
  <2>3. TypeOK'
    <3>1. stepped' \in 0..MaxBack
      BY <1>0, <2>1 DEF TypeOK
    <3>2. sinceSave' \in (-stepped')..Cap /\ sinceDmg' \in (-stepped')..Cap
      BY <2>1, <2>2
    <3>3. QED
      BY <1>0, <2>1, <3>1, <3>2 DEF TypeOK
  <2>4. ForceIsPending' /\ AnnouncedIsDue' /\ OneOfEach' /\ DueWhenKept'
    BY <1>0, <2>1 DEF TimerInv, TypeOK, ForceIsPending, AnnouncedIsDue, OneOfEach,
       DueWhenKept, Outstanding
  <2>5. \A i \in TimerIds : sinceSave' + left'[i] <= sinceSave + left[i]
    <3>1. sinceSave \in Int /\ sinceSave' \in Int
      BY <1>0, <2>3 DEF TypeOK
    <3>2. \A i \in TimerIds : left[i] \in Int /\ left'[i] = left[i]
      BY <1>0, <2>1 DEF TypeOK
    <3>3. QED
      BY <2>2, <3>1, <3>2
  <2>6. \A i \in TimerIds : sinceSave + left[i] \in Int /\ sinceSave' + left'[i] \in Int
    BY <1>0, <2>3 DEF TypeOK
  <2>7. QED
    BY <1>0, <2>1, <2>3, <2>4, <2>5, <2>6 DEF IInv, TimerInv
<1>12. ASSUME NEW d \in 1..Cap, StepForward(d)
       PROVE  IInv'
  <2>1. /\ hasPendingSave' = hasPendingSave /\ pendingForceSave' = pendingForceSave
        /\ shuttingDown' = shuttingDown /\ hooked' = hooked /\ kind' = kind
        /\ left' = left /\ stepped' = stepped /\ owed' = owed /\ saved' = FALSE
        /\ jumped' = TRUE
    BY <1>12 DEF StepForward, flags, timers
  <2>2. /\ sinceSave' \in (-stepped)..Cap /\ sinceDmg' \in (-stepped)..Cap
        /\ sinceSave <= sinceSave'
    BY <1>0, <1>12 DEF StepForward, Older, TypeOK
  <2>3. TypeOK'
    BY <1>0, <2>1, <2>2 DEF TypeOK
  <2>4. TimerInv'
    BY <1>0, <2>1, <2>2 DEF TimerInv, TypeOK, ForceIsPending, AnnouncedIsDue, OneOfEach,
       DueWhenKept, Outstanding
  <2>5. QED
    BY <2>3, <2>4 DEF IInv
<1>13. CASE UNCHANGED vars
  BY <1>0, <1>13 DEF vars, flags, timers, clock, IInv, TimerInv, TypeOK,
     ForceIsPending, AnnouncedIsDue, OneOfEach, DueWhenKept, Outstanding
<1>14. QED
  BY <1>1, <1>2, <1>3, <1>4, <1>5, <1>6, <1>7, <1>8, <1>9, <1>10, <1>11, <1>12, <1>13
     DEF Next, Fires

-------------------------------------------------------------------------------
\* SaveWorld keeps a promise: a caller clears hasPendingSave only when the save
\* is due or cannot be refused.
LEMMA SaveKeeps ==
    ASSUME IInv, NEW force \in BOOLEAN, NEW stopping \in BOOLEAN,
           NEW pending \in BOOLEAN, NEW forced \in BOOLEAN, NEW slots,
           SaveWorld(force, stopping, pending, forced, slots),
           pending => hasPendingSave,
           hasPendingSave /\ ~pending => forced \/ ~hooked \/ ~pendingForceSave
    PROVE  Promise!Next
<1>0. TypeOK /\ DueWhenKept
  BY DEF IInv, TimerInv
<1> USE WorldSaveAssumption DEF Promise!Next
<1>1. stepped' = stepped
  BY DEF SaveWorld, clock
<1>2. CASE Gated(force, stopping, forced) /\ SaveDropped(pending, slots)
  <2>1. /\ hooked /\ ~forced /\ Since(sinceSave) = sinceSave
        /\ pending \/ sinceSave < SaveRate
        /\ hasPendingSave' = pending /\ owed' = owed /\ saved' = FALSE
    BY <1>0, <1>2, NoWrap DEF Gated, SaveDropped
  <2>2. CASE hasPendingSave /\ ~pending /\ ~owed
    <3>1. stepped # 0
      BY <1>0, <2>1, <2>2 DEF DueWhenKept, TypeOK
    <3>2. QED
      BY <1>1, <2>1, <2>2, <3>1 DEF Promise!Forget
  <2>3. CASE pending = hasPendingSave \/ owed
    <3>1. (hasPendingSave' \/ owed') = (hasPendingSave \/ owed)
      BY <1>0, <2>1, <2>3 DEF TypeOK
    <3>2. QED
      BY <1>1, <2>1, <3>1 DEF Promise!Rest
  <2>4. QED
    BY <1>0, <2>2, <2>3 DEF TypeOK
<1>3. CASE SaveDeferred(pending, slots) \/ SaveAnnounced(pending, slots)
  BY <1>1, <1>3 DEF SaveDeferred, SaveAnnounced, Promise!Promise
<1>4. CASE SaveNow(forced, slots) \/ SaveUnhooked(pending, forced, slots)
  BY <1>1, <1>4 DEF SaveNow, SaveUnhooked, Promise!Save
<1>5. QED
  BY <1>2, <1>3, <1>4 DEF SaveWorld

\* Every step of WorldSave is one of SavePromise, or changes nothing of it.
LEMMA StepKeeps == IInv /\ [Next]_vars => [Promise!Next]_(Promise!vars)
<1> SUFFICES ASSUME IInv, [Next]_vars
             PROVE  Promise!Next \/ UNCHANGED Promise!vars
  OBVIOUS
<1>0. TypeOK /\ ForceIsPending /\ Slots(kind)
  BY DEF IInv, TimerInv, TypeOK, Slots
<1>1. ASSUME NEW force \in BOOLEAN, RequestSave(force) \/ ChatSaves(force)
      PROVE  Promise!Next
  BY <1>0, <1>1, SaveKeeps DEF RequestSave, ChatSaves, TypeOK
<1>2. ASSUME NEW i \in TimerIds, Fires(i)
      PROVE  Promise!Next
  <2>1. CASE DelayedFires(i) /\ pendingForceSave
    BY <1>0, <2>1, SaveKeeps DEF DelayedFires, TypeOK
  <2>2. CASE DelayedFires(i) /\ ~pendingForceSave
    BY <1>0, <2>2, SaveKeeps DEF DelayedFires, TypeOK
  <2>3. CASE RespawnFires(i)
    BY <1>0, <2>3, SaveKeeps DEF RespawnFires, TypeOK
  <2>4. CASE AnnouncedFires(i)
    BY <1>0, <2>4, SaveKeeps DEF AnnouncedFires, TypeOK
  <2>5. QED
    BY <1>2, <2>1, <2>2, <2>3, <2>4 DEF Fires
<1>3. CASE StartNewShooterPlayer
  BY <1>3 DEF StartNewShooterPlayer, clock, Promise!Next, Promise!Promise
<1>4. ASSUME \/ \E b \in BOOLEAN : ChatShutdown(b)
             \/ TakeDamage \/ Unload \/ Tick
             \/ \E d \in 1..Cap : StepForward(d)
      PROVE  Promise!Next
  <2>1. /\ hasPendingSave' = hasPendingSave /\ owed' = owed
        /\ saved' = FALSE /\ stepped' = stepped
    BY <1>4 DEF ChatShutdown, TakeDamage, Unload, Tick, StepForward, flags, clock
  <2>2. QED
    BY <2>1 DEF Promise!Next, Promise!Rest
<1>5. ASSUME NEW d \in 1..MaxBack, StepBack(d)
      PROVE  Promise!Next
  <2>1. /\ hasPendingSave' = hasPendingSave /\ owed' = owed
        /\ saved' = FALSE /\ stepped' = stepped + d
    BY <1>5 DEF StepBack, flags
  <2>2. stepped' # 0
    BY <1>0, <2>1 DEF TypeOK
  <2>3. QED
    BY <2>1, <2>2 DEF Promise!Next, Promise!Slip
<1>6. CASE UNCHANGED vars
  BY <1>6 DEF vars, flags, clock, Promise!vars
<1>7. QED
  BY <1>1, <1>2, <1>3, <1>4, <1>5, <1>6 DEF Next

-------------------------------------------------------------------------------
\* Every reachable state satisfies the inductive invariant.
THEOREM Invariance == Spec => []IInv
  BY InitInv, StepInv, PTL DEF Spec

\* Type correctness; in particular no timer gets a delay outside 0..DmgRate.
THEOREM TypeCorrect == Spec => []TypeOK
<1>1. IInv => TypeOK
  BY DEF IInv
<1>2. QED
  BY <1>1, Invariance, PTL

\* A pending save always has the timer that will make it or clear it.
THEOREM PendingTheorem == Spec => []PendingHasTimer
<1>1. IInv => PendingHasTimer
  BY DEF IInv, TimerInv, PendingHasTimer, Outstanding
<1>2. QED
  BY <1>1, Invariance, PTL

\* pendingForceSave never outlives the pending save it was set for.
THEOREM ForceTheorem == Spec => []ForceIsPending
<1>1. IInv => ForceIsPending
  BY DEF IInv, TimerInv
<1>2. QED
  BY <1>1, Invariance, PTL

\* An announced save that has not been made still has its timer.
THEOREM AnnouncedTheorem == Spec => []AnnouncedIsDue
<1>1. IInv => AnnouncedIsDue
  BY DEF IInv, TimerInv
<1>2. QED
  BY <1>1, Invariance, PTL

\* At most one deferred and one announced save are outstanding.
THEOREM OneOfEachTheorem == Spec => []OneOfEach
<1>1. IInv => OneOfEach
  BY DEF IInv, TimerInv
<1>2. QED
  BY <1>1, Invariance, PTL

\* No save is pending later than ForceRate, one delay and the lag of the game
\* loop after the last.
THEOREM DeferralTheorem == Spec => []BoundedDeferral
<1>1. ASSUME IInv
      PROVE  BoundedDeferral
  <2>1. SUFFICES ASSUME hasPendingSave, ~jumped
                 PROVE  sinceSave < ForceRate + DmgRate + MaxLag
    BY DEF BoundedDeferral
  <2>2. PICK i \in TimerIds : sinceSave + left[i] < ForceRate + DmgRate
    BY <1>1, <2>1 DEF IInv, TimerInv
  <2>3. left[i] \in (-MaxLag)..DmgRate /\ sinceSave \in Int
    BY <1>1 DEF IInv, TypeOK
  <2>4. QED
    BY <2>2, <2>3, WorldSaveAssumption
<1>2. QED
  BY <1>1, Invariance, PTL

\* WorldSave keeps its promise, as far as safety goes: what was put off or
\* announced ends by a save, unless the wall clock was set back.  That the save
\* comes (Promise!Progress) is checked by TLC.
THEOREM PromiseTheorem == Spec => Promise!Spec
<1>1. Init => Promise!Init
  BY DEF Init, Promise!Init
<1>2. QED
  BY <1>1, StepKeeps, Invariance, PTL DEF Spec, Promise!Spec

-------------------------------------------------------------------------------
\* What AnnouncedIsSaved rests on, apart from the fairness: a timer runs down to its
\* own callback, whatever is saved, put off, said or unloaded meanwhile, and the
\* callbacks of an announced save and of a respawn are never refused.
TimersRunDown ==
    \A i \in TimerIds : kind[i] # "free" =>
        \/ kind'[i] = kind[i] /\ left'[i] <= left[i]
        \/ Fires(i) /\ (kind[i] # "delayed" => saved')

\* SaveWorld takes no timer but a free one.
LEMMA SaveLeaves ==
    ASSUME TypeOK, NEW force, NEW stopping, NEW pending, NEW forced,
           NEW slots \in [TimerIds -> Kinds \cup {"free"}],
           SaveWorld(force, stopping, pending, forced, slots),
           NEW i \in TimerIds, slots[i] # "free"
    PROVE  kind'[i] = slots[i] /\ left'[i] = left[i]
<1>1. left \in [TimerIds -> (-MaxLag)..DmgRate]
  BY DEF TypeOK
<1>2. ASSUME NEW callback, NEW delay, Schedule(slots, callback, delay)
      PROVE  kind'[i] = slots[i] /\ left'[i] = left[i]
  BY <1>1, <1>2 DEF Schedule
<1>3. CASE SaveDeferred(pending, slots) \/ SaveAnnounced(pending, slots)
  BY <1>2, <1>3 DEF SaveDeferred, SaveAnnounced
<1>4. CASE SaveDropped(pending, slots) \/ SaveNow(forced, slots)
           \/ SaveUnhooked(pending, forced, slots)
  BY <1>4 DEF SaveDropped, SaveNow, SaveUnhooked
<1>5. QED
  BY <1>3, <1>4 DEF SaveWorld

\* A timer is never taken from its callback, and an announced save never refused.
THEOREM TimersTheorem == Spec => [][TimersRunDown]_vars
<1>1. ASSUME TypeOK, Next, NEW i \in TimerIds, kind[i] # "free"
      PROVE  \/ kind'[i] = kind[i] /\ left'[i] <= left[i]
             \/ Fires(i) /\ (kind[i] # "delayed" => saved')
  <2>1. /\ kind \in [TimerIds -> Kinds \cup {"free"}]
        /\ left \in [TimerIds -> (-MaxLag)..DmgRate] /\ left[i] \in Int
    BY <1>1, WorldSaveAssumption DEF TypeOK
  <2>2. ASSUME NEW force \in BOOLEAN, RequestSave(force) \/ ChatSaves(force)
        PROVE  kind'[i] = kind[i] /\ left'[i] <= left[i]
    <3>1. PICK stopping :
             SaveWorld(force, stopping, hasPendingSave, pendingForceSave, kind)
      BY <2>2 DEF RequestSave, ChatSaves
    <3>2. kind'[i] = kind[i] /\ left'[i] = left[i]
      BY <1>1, <2>1, <3>1, SaveLeaves
    <3>3. QED
      BY <2>1, <3>2
  <2>3. ASSUME NEW j \in TimerIds, Fires(j), j # i
        PROVE  kind'[i] = kind[i] /\ left'[i] <= left[i]
    <3>1. Without(j) \in [TimerIds -> Kinds \cup {"free"}] /\ Without(j)[i] = kind[i]
      BY <2>1, <2>3 DEF Without
    <3>2. PICK pending, forced :
             SaveWorld(FALSE, shuttingDown, pending, forced, Without(j))
      BY <2>3 DEF Fires, DelayedFires, RespawnFires, AnnouncedFires
    <3>3. kind'[i] = Without(j)[i] /\ left'[i] = left[i]
      BY <1>1, <3>1, <3>2, SaveLeaves
    <3>4. QED
      BY <2>1, <3>1, <3>3
  <2>4. ASSUME Fires(i)
        PROVE  kind[i] # "delayed" => saved'
    <3>1. ASSUME NEW pending, SaveWorld(FALSE, shuttingDown, pending, TRUE, Without(i))
          PROVE  saved'
      BY <3>1 DEF SaveWorld, Gated, SaveNow, SaveUnhooked
    <3>2. QED
      BY <2>4, <3>1 DEF Fires, DelayedFires, Due, RespawnFires, AnnouncedFires
  <2>5. CASE StartNewShooterPlayer
    BY <1>1, <2>1, <2>5 DEF StartNewShooterPlayer, Schedule
  <2>6. CASE Tick
    BY <1>1, <2>1, <2>6 DEF Tick
  <2>7. CASE \/ \E b \in BOOLEAN : ChatShutdown(b)
             \/ TakeDamage \/ Unload
             \/ \E d \in 1..MaxBack : StepBack(d)
             \/ \E d \in 1..Cap : StepForward(d)
    BY <2>1, <2>7 DEF ChatShutdown, TakeDamage, Unload, StepBack, StepForward, timers
  <2>8. QED
    BY <1>1, <2>2, <2>3, <2>4, <2>5, <2>6, <2>7 DEF Next
<1>2. TypeOK /\ [Next]_vars => [TimersRunDown]_vars
  BY <1>1 DEF TimersRunDown
<1>3. QED
  BY <1>2, TypeCorrect, PTL DEF Spec
===============================================================================
