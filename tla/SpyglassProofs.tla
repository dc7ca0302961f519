----------------------------- MODULE SpyglassProofs -----------------------------
(* Proofs about Spyglass, for any items and any number of timers.               *)
EXTENDS Spyglass, TLAPS

\* A static local that is null was set too early, and only when that of additions
\* is null can a spyglass have been overlooked.
Blind ==
    /\ \A s \in Statics : kept[s] = "null" => s \in early
    /\ unnoticed # {} => kept["added item"] = "null"

IInv == TypeOK /\ Blind

\* The inductive invariant holds at first.
LEMMA InitInv == Init => IInv
<1> SUFFICES ASSUME Init PROVE IInv
  OBVIOUS
<1>1. timers \in [Items -> 0..MaxTimers]
  BY SpyglassAssumption DEF Init
<1>2. kept \in [Statics -> {"unset", "null", "class"}] /\ \A s \in Statics : kept[s] = "unset"
  BY DEF Init
<1>3. QED
  BY <1>1, <1>2 DEF Init, IInv, TypeOK, Blind

\* What a call makes of the static locals and of the cache: the types stay, a null
\* is remembered as early, and a static local that was set keeps its value.
LEMMA UseInv ==
    ASSUME IInv, NEW S \in SUBSET Statics, Use(S)
    PROVE  /\ loadable' = loadable /\ cls' \subseteq loadable'
           /\ kept' \in [Statics -> {"unset", "null", "class"}]
           /\ early' \subseteq Statics
           /\ \A s \in Statics : kept'[s] = "null" => s \in early'
           /\ \A s \in Statics : kept[s] # "unset" => kept'[s] = kept[s]
           /\ \A s \in S : kept'[s] = Static(s)
<1> DEFINE new == {s \in S : kept[s] = "unset"}
<1>1. /\ loadable \subseteq Blueprints /\ cls \subseteq loadable
      /\ kept \in [Statics -> {"unset", "null", "class"}]
      /\ early \subseteq Statics
  BY DEF IInv, TypeOK
<1>2. /\ kept' = [s \in Statics |-> IF s \in new THEN Static(s) ELSE kept[s]]
      /\ cls' = cls \cup {b \in {BlueprintOf(s) : s \in new} : Found(b)}
      /\ early' = early \cup {s \in new : BlueprintOf(s) \notin loadable}
      /\ loadable' = loadable
  BY DEF Use
<1>3. cls' \subseteq loadable'
  BY <1>1, <1>2 DEF Found
<1>4. \A s \in Statics : Static(s) \in {"unset", "null", "class"}
  BY <1>1 DEF Static
<1>5. kept' \in [Statics -> {"unset", "null", "class"}]
  BY <1>1, <1>2, <1>4
<1>6. early' \subseteq Statics
  BY <1>1, <1>2
<1>7. ASSUME NEW s \in Statics, kept'[s] = "null" PROVE s \in early'
  <2>1. CASE s \in new
    <3>1. Static(s) = "null" /\ kept[s] = "unset"
      BY <1>2, <1>7, <2>1
    <3>2. BlueprintOf(s) \notin loadable
      BY <3>1 DEF Static, Found
    <3>3. QED
      BY <1>2, <2>1, <3>2
  <2>2. CASE s \notin new
    BY <1>2, <1>7, <2>2 DEF IInv, Blind
  <2>3. QED
    BY <2>1, <2>2
<1>8. \A s \in Statics : kept[s] # "unset" => kept'[s] = kept[s]
  BY <1>2
<1>9. \A s \in S : kept'[s] = Static(s)
  BY <1>2 DEF Static
<1>10. QED
  BY <1>2, <1>3, <1>5, <1>6, <1>7, <1>8, <1>9

\* A timer more is within the bound.
LEMMA OneMore ==
    ASSUME NEW m \in Nat, NEW n \in 0..m, n < m PROVE n + 1 \in 0..m
  OBVIOUS

\* The hook of spawns.
LEMMA SpawnInv == ASSUME IInv, StartNewShooterPlayer PROVE IInv'
<1>1. Use({"spawn buff", "spawn item"})
  BY DEF StartNewShooterPlayer
<1>2. {"spawn buff", "spawn item"} \in SUBSET Statics /\ "added item" \in Statics
  BY DEF Statics
<1>3. /\ loadable' = loadable /\ cls' \subseteq loadable'
      /\ kept' \in [Statics -> {"unset", "null", "class"}]
      /\ early' \subseteq Statics
      /\ \A s \in Statics : kept'[s] = "null" => s \in early'
      /\ \A s \in Statics : kept[s] # "unset" => kept'[s] = kept[s]
  BY <1>1, <1>2, UseInv
<1>4. /\ carried' = carried /\ destroyed' = destroyed /\ unnoticed' = unnoticed
      /\ timers' \in [Items -> 0..MaxTimers] /\ faded' \subseteq Spyglasses
  <2>1. CASE UNCHANGED itemVars
    BY <2>1 DEF itemVars, IInv, TypeOK
  <2>2. CASE \E i \in {j \in carried : Wanted(j, "spawn item")} :
               /\ timers[i] < MaxTimers
               /\ faded' = IF Static("spawn buff") = "class" THEN faded \cup {i} ELSE faded
               /\ timers' = [timers EXCEPT ![i] = @ + 1]
               /\ UNCHANGED <<carried, destroyed, unnoticed>>
    <3>1. PICK i \in Items :
               /\ Wanted(i, "spawn item")
               /\ timers[i] < MaxTimers
               /\ faded' = IF Static("spawn buff") = "class" THEN faded \cup {i} ELSE faded
               /\ timers' = [timers EXCEPT ![i] = @ + 1]
               /\ UNCHANGED <<carried, destroyed, unnoticed>>
      BY <2>2 DEF IInv, TypeOK
    <3>2. i \in Items /\ i \in Spyglasses
      BY <3>1 DEF Wanted
    <3>3. timers \in [Items -> 0..MaxTimers] /\ timers[i] \in 0..MaxTimers
      BY <3>2 DEF IInv, TypeOK
    <3>4. timers[i] + 1 \in 0..MaxTimers
      BY <3>1, <3>3, SpyglassAssumption, OneMore
    <3>5. timers' \in [Items -> 0..MaxTimers]
      BY <3>1, <3>3, <3>4
    <3>6. faded' \subseteq Spyglasses
      BY <3>1, <3>2 DEF IInv, TypeOK
    <3>7. QED
      BY <3>1, <3>5, <3>6
  <2>3. QED
    BY <2>1, <2>2 DEF StartNewShooterPlayer
<1>5. QED
  BY <1>2, <1>3, <1>4 DEF IInv, TypeOK, Blind

\* The hook of additions, for our player and for everything else.
LEMMA AddedInv ==
    ASSUME IInv, NEW i \in Items, NotifyItemAdded(i) PROVE IInv'
<1>1. Use({"added item"})
  BY DEF NotifyItemAdded
<1>2. {"added item"} \in SUBSET Statics
  BY DEF Statics
<1>3. /\ loadable' = loadable /\ cls' \subseteq loadable'
      /\ kept' \in [Statics -> {"unset", "null", "class"}]
      /\ early' \subseteq Statics
      /\ \A s \in Statics : kept'[s] = "null" => s \in early'
      /\ \A s \in Statics : kept[s] # "unset" => kept'[s] = kept[s]
      /\ kept'["added item"] = Static("added item")
  BY <1>1, <1>2, UseInv
<1>4. /\ carried' \subseteq Items \ destroyed' /\ destroyed' \subseteq Items
      /\ timers' \in [Items -> 0..MaxTimers]
      /\ faded' \subseteq Spyglasses /\ unnoticed' \subseteq Spyglasses
  BY DEF NotifyItemAdded, IInv, TypeOK
<1>5. ASSUME unnoticed' # {} PROVE kept'["added item"] = "null"
  <2>1. CASE unnoticed # {}
    BY <1>2, <1>3, <2>1 DEF IInv, Blind
  <2>2. CASE unnoticed = {}
    <3>1. ~Wanted(i, "added item") /\ i \in Spyglasses
      BY <1>5, <2>2 DEF NotifyItemAdded
    <3>2. Static("added item") # "class"
      BY <3>1 DEF Wanted
    <3>3. Static("added item") = "null"
      BY <1>2, <3>2 DEF Static, IInv, TypeOK
    <3>4. QED
      BY <1>3, <3>3
  <2>3. QED
    BY <2>1, <2>2
<1>6. QED
  BY <1>3, <1>4, <1>5 DEF IInv, TypeOK, Blind

\* An addition to something else.
LEMMA ElsewhereInv == ASSUME IInv, AddedElsewhere PROVE IInv'
<1>1. {"added item"} \in SUBSET Statics
  BY DEF Statics
<1>2. /\ loadable' = loadable /\ cls' \subseteq loadable'
      /\ kept' \in [Statics -> {"unset", "null", "class"}]
      /\ early' \subseteq Statics
      /\ \A s \in Statics : kept'[s] = "null" => s \in early'
      /\ \A s \in Statics : kept[s] # "unset" => kept'[s] = kept[s]
  BY <1>1, UseInv DEF AddedElsewhere
<1>3. UNCHANGED itemVars
  BY DEF AddedElsewhere
<1>4. QED
  BY <1>1, <1>2, <1>3 DEF itemVars, IInv, TypeOK, Blind

\* The timer's callback, and what the game does with items and mods.
LEMMA OtherInv ==
    ASSUME IInv,
           \/ \E i \in Items : TimerFires(i) \/ Drop(i) \/ Destroy(i)
           \/ \E b \in Blueprints : LoadMod(b)
    PROVE  IInv'
<1>1. CASE \E i \in Items : TimerFires(i)
  <2>1. PICK i \in Items : TimerFires(i)
    BY <1>1
  <2>2. timers \in [Items -> 0..MaxTimers] /\ timers[i] - 1 \in 0..MaxTimers
    BY <2>1, SpyglassAssumption DEF TimerFires, IInv, TypeOK
  <2>3. timers' \in [Items -> 0..MaxTimers]
    BY <2>1, <2>2 DEF TimerFires
  <2>4. QED
    BY <2>1, <2>3 DEF TimerFires, blueprintVars, IInv, TypeOK, Blind
<1>2. CASE \E i \in Items : Drop(i) \/ Destroy(i)
  BY <1>2 DEF Drop, Destroy, blueprintVars, IInv, TypeOK, Blind
<1>3. CASE \E b \in Blueprints : LoadMod(b)
  BY <1>3 DEF LoadMod, itemVars, IInv, TypeOK, Blind
<1>4. QED
  BY <1>1, <1>2, <1>3

\* The inductive invariant holds of every behaviour.
THEOREM Invariance == Spec => []IInv
<1>1. IInv /\ [Next]_vars => IInv'
  <2> SUFFICES ASSUME IInv, [Next]_vars
               PROVE  IInv'
    OBVIOUS
  <2>1. CASE Next
    BY <2>1, SpawnInv, AddedInv, ElsewhereInv, OtherInv DEF Next
  <2>2. CASE UNCHANGED vars
    BY <2>2 DEF vars, blueprintVars, itemVars, IInv, TypeOK, Blind
  <2>3. QED
    BY <2>1, <2>2
<1>2. QED
  BY <1>1, InitInv, PTL DEF Spec

\* Every variable keeps its type; a blueprint that was found is there.
THEOREM TypeCorrect == Spec => []TypeOK
<1>1. IInv => TypeOK
  BY DEF IInv
<1>2. QED
  BY <1>1, Invariance, PTL

\* A spyglass is overlooked only if an item was added before the mod was there.
THEOREM BlindTheorem == Spec => []BlindOnlyIfEarly
<1>1. IInv => BlindOnlyIfEarly
  BY DEF IInv, Blind, BlindOnlyIfEarly, Statics
<1>2. QED
  BY <1>1, Invariance, PTL

\* BuffComesBack without the fairness it needs: as long as a buff is off, a timer
\* that gives it back is outstanding, or the spyglass is no more.
FadedIsHeld == \A i \in faded : timers[i] > 0 \/ i \in destroyed

\* A buff that is off has its timer: a second spawn, a timer that fires for the first
\* and an item that changes hands between them never leave it without one.
THEOREM HeldTheorem == Spec => []FadedIsHeld
<1>1. Init => FadedIsHeld
  BY DEF Init, FadedIsHeld
<1>2. IInv /\ FadedIsHeld /\ [Next]_vars => FadedIsHeld'
  <2> SUFFICES ASSUME IInv, FadedIsHeld, [Next]_vars, NEW i \in faded',
                      i \notin destroyed'
               PROVE  timers'[i] > 0
    BY DEF FadedIsHeld
  <2>0. timers \in [Items -> 0..MaxTimers] /\ faded \subseteq Items /\ MaxTimers \in Nat
    BY SpyglassAssumption DEF IInv, TypeOK, Items
  <2>1. CASE faded' \subseteq faded /\ timers' = timers /\ destroyed \subseteq destroyed'
    BY <2>1 DEF FadedIsHeld
  <2>2. CASE StartNewShooterPlayer /\ ~UNCHANGED itemVars
    <3>1. PICK j \in carried :
             /\ Wanted(j, "spawn item")
             /\ faded' \subseteq faded \cup {j} /\ destroyed' = destroyed
             /\ timers' = [timers EXCEPT ![j] = @ + 1]
      BY <2>2 DEF StartNewShooterPlayer
    <3>2. j \in Items /\ timers[j] \in Nat
      <4>1. j \in Items
        BY <3>1 DEF Wanted, Items
      <4>2. QED
        BY <2>0, <4>1
    <3>3. i \in Items /\ (i # j => timers[i] > 0)
      BY <2>0, <3>1, <3>2 DEF FadedIsHeld
    <3>4. timers'[j] = timers[j] + 1 /\ (i # j => timers'[i] = timers[i])
      BY <2>0, <3>1, <3>2, <3>3
    <3>5. QED
      BY <3>2, <3>3, <3>4
  <2>3. ASSUME NEW j \in Items, TimerFires(j)
        PROVE  timers'[i] > 0
    <3>1. /\ timers' = [timers EXCEPT ![j] = @ - 1] /\ destroyed' = destroyed
          /\ faded' = faded \ ({j} \ destroyed)
      BY <2>3 DEF TimerFires
    <3>2. i # j /\ i \in faded /\ i \notin destroyed
      BY <3>1
    <3>3. QED
      BY <2>0, <3>1, <3>2 DEF FadedIsHeld
  <2>4. CASE UNCHANGED vars \/ UNCHANGED itemVars
    BY <2>1, <2>4 DEF vars, itemVars
  <2>5. ASSUME NEW j \in Items, NotifyItemAdded(j) \/ Drop(j) \/ Destroy(j)
        PROVE  timers'[i] > 0
    BY <2>1, <2>5 DEF NotifyItemAdded, Drop, Destroy
  <2>6. QED
    BY <2>2, <2>3, <2>4, <2>5 DEF Next, AddedElsewhere, LoadMod
<1>3. QED
  BY <1>1, <1>2, Invariance, PTL DEF Spec
===============================================================================
