------------------------------- MODULE Spyglass -------------------------------
(***************************************************************************)
(* The awesome spyglass of Plugin/spyglass.cpp: its buff is renewed when a *)
(* player spawns (taken off at once, put on five seconds later by a timer  *)
(* that holds a pointer to the item) and put on when the item comes into a *)
(* player's inventory.                                                     *)
(*                                                                         *)
(* Which items are spyglasses is known from a blueprint, which the mod may *)
(* not have loaded yet.  BlueprintCache asks again till it finds it, but   *)
(* its callers keep the first answer in a static local.                    *)
(***************************************************************************)
EXTENDS Naturals

CONSTANTS
    Spyglasses,   \* the items whose buff is renewed
    Lookalikes,   \* engrams and blueprints of a spyglass
    MaxTimers     \* bound: the timers one item has outstanding

Items == Spyglasses \cup Lookalikes
ASSUME SpyglassAssumption == Spyglasses \cap Lookalikes = {} /\ MaxTimers \in Nat

\* The two blueprints, and the three static locals with the blueprint of each.
Blueprints == {"buff", "item"}
Statics    == {"spawn buff", "spawn item", "added item"}
BlueprintOf(s) == IF s = "spawn buff" THEN "buff" ELSE "item"

VARIABLES
    loadable,   \* the blueprints that BPLoadClass finds
    cls,        \* BlueprintCache: those that have been found
    kept,       \* the static locals: "unset", "null" or "class"
    carried,    \* the items in the inventory of our player
    destroyed,  \* the items that are no more
    timers,     \* how many timers hold each item
    faded,      \* the spyglasses whose buff was taken off and not put on since
    early,      \* history: statics first used before their blueprint was there
    unnoticed   \* history: spyglasses that were added and not used

blueprintVars == <<loadable, cls, kept, early>>
itemVars      == <<carried, destroyed, timers, faded, unnoticed>>
vars          == <<blueprintVars, itemVars>>

Init ==
    /\ loadable \in SUBSET Blueprints
    /\ cls = {} /\ early = {}
    /\ kept = [s \in Statics |-> "unset"]
    /\ carried \in SUBSET Items
    /\ destroyed = {} /\ faded = {} /\ unnoticed = {}
    /\ timers = [i \in Items |-> 0]

-------------------------------------------------------------------------------
(* BlueprintCache::Get, and the static locals that are set by it.             *)

\* Variant of Found: the first answer is kept here as well.
Found_Once(b) == b \in cls \/ (b \in loadable /\ \A s \in Statics :
                                BlueprintOf(s) = b => kept[s] = "unset")

\* Get finds the blueprint now, or has found it before.
Found(b) == b \in cls \/ b \in loadable

\* The value of a static local in a function that has been called.
Static(s) ==
    IF kept[s] # "unset" THEN kept[s]
    ELSE IF Found(BlueprintOf(s)) THEN "class" ELSE "null"

\* The functions with these static locals are called: the new ones are set.
Use(statics) ==
    LET new == {s \in statics : kept[s] = "unset"}
    IN  /\ kept' = [s \in Statics |-> IF s \in new THEN Static(s) ELSE kept[s]]
        /\ cls' = cls \cup {b \in {BlueprintOf(s) : s \in new} : Found(b)}
        /\ early' = early \cup {s \in new : BlueprintOf(s) \notin loadable}
        /\ UNCHANGED loadable

\* IsA, which is false for a null class, and neither engram nor blueprint.
Wanted(i, s) == Static(s) = "class" /\ i \in Spyglasses

-------------------------------------------------------------------------------
\* Variant of StartNewShooterPlayer: the loop goes on after the first item, and
\* the timer is started after it, for the last one.
StartNewShooterPlayer_All ==
    /\ Use({"spawn buff", "spawn item"})
    /\ LET found == {i \in carried : Wanted(i, "spawn item")}
       IN  \/ /\ found = {}
              /\ UNCHANGED itemVars
           \/ \E i \in found :
                /\ timers[i] < MaxTimers
                /\ faded' = IF Static("spawn buff") = "class" THEN faded \cup found ELSE faded
                /\ timers' = [timers EXCEPT ![i] = @ + 1]
                /\ UNCHANGED <<carried, destroyed, unnoticed>>

\* A player spawns with a character; without one the hook does nothing.
StartNewShooterPlayer ==
    /\ Use({"spawn buff", "spawn item"})
    /\ LET found == {i \in carried : Wanted(i, "spawn item")}
       IN  \/ /\ found = {}
              /\ UNCHANGED itemVars
           \/ \E i \in found :
                /\ timers[i] < MaxTimers
                /\ faded' = IF Static("spawn buff") = "class" THEN faded \cup {i} ELSE faded
                /\ timers' = [timers EXCEPT ![i] = @ + 1]
                /\ UNCHANGED <<carried, destroyed, unnoticed>>

\* Variant of NotifyItemAdded: engrams and blueprints are used as well.
NotifyItemAdded_Lookalikes(i) ==
    /\ i \notin carried \cup destroyed
    /\ carried' = carried \cup {i}
    /\ Use({"added item"})
    /\ IF Static("added item") = "class"
         THEN faded' = faded \ {i} /\ UNCHANGED unnoticed
         ELSE unnoticed' = unnoticed \cup {i} /\ UNCHANGED faded
    /\ UNCHANGED <<destroyed, timers>>

\* An item comes into our player's inventory, and is used at once.
NotifyItemAdded(i) ==
    /\ i \notin carried \cup destroyed
    /\ carried' = carried \cup {i}
    /\ Use({"added item"})
    /\ IF Wanted(i, "added item")
         THEN faded' = faded \ {i} /\ UNCHANGED unnoticed
         ELSE unnoticed' = unnoticed \cup ({i} \cap Spyglasses) /\ UNCHANGED faded
    /\ UNCHANGED <<destroyed, timers>>

\* An item is added to the inventory of something that is no player's character,
\* as happens all the time: the static local is set before that is looked at.
AddedElsewhere ==
    /\ Use({"added item"})
    /\ UNCHANGED itemVars

\* The callback uses the item it was given, wherever that is by now.  When it is
\* no more, the pointer dangles, and what comes of that is not known.
TimerFires(i) ==
    /\ timers[i] > 0
    /\ timers' = [timers EXCEPT ![i] = @ - 1]
    /\ faded' = faded \ ({i} \ destroyed)
    /\ UNCHANGED <<blueprintVars, carried, destroyed, unnoticed>>

\* The game: an item leaves the inventory, or is no more; the mod is loaded.
Drop(i) ==
    /\ i \in carried
    /\ carried' = carried \ {i}
    /\ UNCHANGED <<blueprintVars, destroyed, timers, faded, unnoticed>>

Destroy(i) ==
    /\ destroyed' = destroyed \cup {i}
    /\ carried' = carried \ {i}
    /\ UNCHANGED <<blueprintVars, timers, faded, unnoticed>>

LoadMod(b) ==
    /\ loadable' = loadable \cup {b}
    /\ UNCHANGED <<cls, kept, early, itemVars>>

Next ==
    \/ StartNewShooterPlayer
    \/ AddedElsewhere
    \/ \E i \in Items : NotifyItemAdded(i) \/ TimerFires(i) \/ Drop(i) \/ Destroy(i)
    \/ \E b \in Blueprints : LoadMod(b)

Spec == Init /\ [][Next]_vars

\* The game loop goes on and calls every timer that is due.
FairSpec == Spec /\ \A i \in Items : WF_vars(TimerFires(i))

-------------------------------------------------------------------------------
\* Every variable keeps its type; a blueprint that was found is there.
TypeOK ==
    /\ loadable \subseteq Blueprints /\ cls \subseteq loadable
    /\ kept \in [Statics -> {"unset", "null", "class"}]
    /\ carried \subseteq Items \ destroyed /\ destroyed \subseteq Items
    /\ timers \in [Items -> 0..MaxTimers]
    /\ faded \subseteq Spyglasses /\ unnoticed \subseteq Spyglasses
    /\ early \subseteq Statics

\* A spyglass is left without its buff when it is added only if an item had been
\* added, to anything, before the mod was there: what the hook of spawns found
\* out too early does not spoil the hook of additions, nor the other way round.
BlindOnlyIfEarly ==
    /\ unnoticed # {} => "added item" \in early
    /\ \A s \in Statics : kept[s] = "null" => s \in early

\* A buff that was taken off is put on again, though the item changes hands
\* meanwhile, and however often its player spawns.
BuffComesBack ==
    \A i \in Spyglasses : i \in faded ~> i \notin faded \/ i \in destroyed
===============================================================================
