------------------------------ MODULE Experience ------------------------------
(***************************************************************************)
(* SA::Experience (Plugin/experience.cpp): how much of the experience the  *)
(* game hands out a character of a tribe gets, and how much of what its    *)
(* mount gets a rider gets.                                                *)
(*                                                                         *)
(* The game's AddExperience calls itself for others who get a share, a     *)
(* rider or the tribe, and each of these calls enters the hook again.  The *)
(* hook tells the calls inside it of its own amount by a global variable,  *)
(* addExpAmount, which it restores.  The calls under way are a stack; what *)
(* a caller's character is (its level, whether it rides) may be anything   *)
(* at each call.  Amounts are whole numbers here, and even, so that half   *)
(* of one is exact.                                                        *)
(***************************************************************************)
EXTENDS Integers, Sequences, SequencesExt

CONSTANTS
    Characters,  \* who can be given experience: see ExperienceAssumption
    Amounts,     \* what the game hands out in one call
    MaxDepth     \* bound: how deep calls nest

\* ours: a player or a dinosaur of a tribe (TargetingTeam >= 50000).  toNext is
\* the experience from the last level to the next, 0 or less at the last level.
ASSUME ExperienceAssumption ==
    /\ Characters \subseteq [ours : BOOLEAN, player : BOOLEAN, rider : BOOLEAN,
                             level : Nat, toNext : Int]
    /\ Amounts \subseteq Nat /\ \A a \in Amounts : a % 2 = 0
    /\ MaxDepth \in Nat

VARIABLES
    addExpAmount,
    calls   \* the calls of the hook under way, the innermost one last

vars == <<addExpAmount, calls>>

Init ==
    /\ addExpAmount = 0
    /\ calls = <<>>

-------------------------------------------------------------------------------
Lesser(a, b)  == IF a <= b THEN a ELSE b
Greater(a, b) == IF a >= b THEN a ELSE b

Factor(level) ==
    IF level < 25 THEN 6 ELSE IF level < 50 THEN 4 ELSE IF level <= 100 THEN 2 ELSE 1

Multipliers(c, alpha) ==
    (IF alpha THEN 10 ELSE 0)
    + (IF c.level < 25 THEN 4 ELSE IF c.level < 50 THEN 3 ELSE IF c.level <= 100 THEN 2 ELSE 0)
    + (IF c.player /\ ~c.rider THEN 5 ELSE 0)

Ceiling(c) == IF c.player THEN 200000 ELSE 50000
Floor(c)   == IF c.level < 30 THEN 5000 ELSE 20000

\* The floor comes last: it is above 1, so the test cap > 1.0 always holds.
ExpCap(c, alpha) ==
    Greater(Floor(c), Lesser(Ceiling(c), c.toNext * Greater(1, Multipliers(c, alpha))))

\* A rider gets at least half of what the call around this one was for.
Shared(c, howMuch, around) ==
    IF c.player /\ c.rider /\ around > 0 THEN Greater(around \div 2, howMuch) ELSE howMuch

\* Variant of Granted: the rider's share is added after the cap.
Granted_ShareAfterCap(c, howMuch, alpha, around) ==
    IF c.ours
      THEN Shared(c, Lesser(ExpCap(c, alpha), howMuch * Factor(c.level)), around)
      ELSE howMuch

\* What the hook passes on to the game.
Granted(c, howMuch, alpha, around) ==
    IF c.ours
      THEN Lesser(ExpCap(c, alpha), Shared(c, howMuch * Factor(c.level), around))
      ELSE howMuch

-------------------------------------------------------------------------------
Call(c, howMuch, alpha) ==
    [who |-> c, amount |-> howMuch, alpha |-> alpha, saved |-> addExpAmount,
     given |-> Granted(c, howMuch, alpha, addExpAmount)]

\* Variants of Enter: addExpAmount is what was granted, not what was handed out;
\* addExpAmount is set by the outermost call only.
Enter_Granted(c, howMuch, alpha) ==
    /\ Len(calls) < MaxDepth
    /\ calls' = Append(calls, Call(c, howMuch, alpha))
    /\ addExpAmount' = Granted(c, howMuch, alpha, addExpAmount)

Enter_Outermost(c, howMuch, alpha) ==
    /\ Len(calls) < MaxDepth
    /\ calls' = Append(calls, Call(c, howMuch, alpha))
    /\ addExpAmount' = IF addExpAmount > 0 THEN addExpAmount ELSE howMuch

\* The hook up to the call of the original.
Enter(c, howMuch, alpha) ==
    /\ Len(calls) < MaxDepth
    /\ calls' = Append(calls, Call(c, howMuch, alpha))
    /\ addExpAmount' = howMuch

\* Variant of Leave: addExpAmount is reset instead of restored.
Leave_Reset ==
    /\ calls # <<>>
    /\ calls' = Front(calls)
    /\ addExpAmount' = 0

\* The original returns to the hook, and the hook to its caller.
Leave ==
    /\ calls # <<>>
    /\ calls' = Front(calls)
    /\ addExpAmount' = Last(calls).saved

Next ==
    \/ \E c \in Characters, howMuch \in Amounts, alpha \in BOOLEAN : Enter(c, howMuch, alpha)
    \/ Leave

Spec == Init /\ [][Next]_vars

-------------------------------------------------------------------------------
\* Every variable keeps its type.
TypeOK ==
    /\ addExpAmount \in Amounts \cup {0}
    /\ calls \in Seq([who : Characters, amount : Amounts, alpha : BOOLEAN,
                      saved : Amounts \cup {0}, given : Int])

\* What the hook finds in addExpAmount is the amount of the call right around
\* it, however many calls were entered and left in between: not that of a call
\* beside it, nor of one further out, nor, outside any call, what was left over.
AmountIsEnclosing ==
    addExpAmount = IF calls = <<>> THEN 0 ELSE Last(calls).amount

\* Whoever shares with a rider first, and at whatever depth: a rider of ours gets
\* half of the amount of the call it is reached from, unless that is over its cap,
\* and then it gets the cap: nothing between floor and cap is cut off.
RiderGetsHalf ==
    \A i \in 2..Len(calls) :
        LET c == calls[i].who IN
            c.ours /\ c.player /\ c.rider =>
                calls[i].given >=
                    Lesser(calls[i - 1].amount \div 2, ExpCap(c, calls[i].alpha))

\* No factor, share or alpha kill takes a character of ours over the ceiling, and
\* no cap, one computed from a last level included, takes from it what the
\* game hands out within the floor.
WithinCaps ==
    \A i \in 1..Len(calls) :
        LET c == calls[i].who IN
            c.ours => /\ calls[i].given <= Ceiling(c)
                      /\ calls[i].given >= Lesser(calls[i].amount, Floor(c))
===============================================================================
