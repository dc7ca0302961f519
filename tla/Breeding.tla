------------------------------- MODULE Breeding -------------------------------
(***************************************************************************)
(* The hook of DoMate in Plugin/breeding.cpp: a pair that isn't trying for *)
(* mutations, or whose mutations have reached the limit, mates with no     *)
(* mutation rolls, which it gets back afterwards.                          *)
(*                                                                         *)
(* The counters are the game's ints, and add up over the generations: a    *)
(* child starts with all of its father's as its male and all of its        *)
(* mother's as its female mutations.  In old lines the sums overflow.      *)
(***************************************************************************)
EXTENDS Integers

CONSTANTS
    Dinos,       \* all that ever live
    Founders,    \* those that are there at first
    None,
    Rolls,       \* the values of RandomMutationRolls
    MaxAllowed,  \* MaxAllowedRandomMutations
    WordSize,    \* 2^32, the number of values of an int
    MaxFounder   \* bound: a founder's mutations of one side

ASSUME BreedingAssumption ==
    /\ Founders \subseteq Dinos
    /\ None \notin [female : Dinos, male : Dinos, femaleRolls : Rolls, maleRolls : Rolls]
    /\ Rolls \subseteq Nat /\ MaxAllowed \in Nat
    /\ WordSize \in Nat /\ MaxFounder \in Nat /\ 2 * MaxFounder < WordSize \div 2

VARIABLES
    born,
    maleMutations, femaleMutations,  \* RandomMutationsMale, ...Female
    rolls,      \* RandomMutationRolls
    mating,     \* DoMate: the pair and the rolls it came with, or None
    own,        \* history: the rolls each dino was given
    line,       \* history: the mutations in the worst line of its ancestors
    wrapped     \* history: those with an overflow among their ancestors

counts == <<born, maleMutations, femaleMutations, own, line, wrapped>>
vars   == <<counts, rolls, mating>>

\* A number as an int holds it.
Int32(n) == ((n + WordSize \div 2) % WordSize) - WordSize \div 2
Fits(n)  == Int32(n) = n

Sum(d)   == maleMutations[d] + femaleMutations[d]
Count(d) == Int32(Sum(d))

Init ==
    /\ born = Founders
    /\ maleMutations \in [Dinos -> 0..MaxFounder]
    /\ femaleMutations \in [Dinos -> 0..MaxFounder]
    /\ \A d \in Dinos \ Founders : maleMutations[d] = 0 /\ femaleMutations[d] = 0
    /\ rolls \in [Dinos -> Rolls]
    /\ own = rolls
    /\ mating = None
    /\ line = [d \in Dinos |-> 0]
    /\ wrapped = {}

\* Variant of NoMutations: the limit is one too high.
NoMutations_OffByOne(f, m) ==
    \/ rolls[f] = 3 /\ rolls[m] = 3
    \/ Int32(Count(m) + Count(f)) > MaxAllowed

NoMutations(f, m) ==
    \/ rolls[f] = 3 /\ rolls[m] = 3
    \/ Int32(Count(m) + Count(f)) >= MaxAllowed

\* Variant of DoMate: the rolls are read when they have been set to 0.
DoMate_ReadLate(f, m) ==
    /\ mating = None
    /\ f # m
    /\ rolls' = IF NoMutations(f, m) THEN [rolls EXCEPT ![f] = 0, ![m] = 0] ELSE rolls
    /\ mating' = [female |-> f, male |-> m, femaleRolls |-> rolls'[f], maleRolls |-> rolls'[m]]
    /\ UNCHANGED counts

\* The hook, up to the call of the original.
DoMate(f, m) ==
    /\ mating = None
    /\ f # m
    /\ mating' = [female |-> f, male |-> m, femaleRolls |-> rolls[f], maleRolls |-> rolls[m]]
    /\ rolls' = IF NoMutations(f, m) THEN [rolls EXCEPT ![f] = 0, ![m] = 0] ELSE rolls
    /\ UNCHANGED counts

Larger(x, y) == IF x < y THEN y ELSE x

\* The new mutations that the rolls of both allow, as they are now.
Chances == IF mating = None THEN 0 ELSE rolls[mating.female] + rolls[mating.male]

\* The original: a child with new mutations, a of its father's and b of its
\* mother's side.  There may be twins.
Child(c, a, b, r) ==
    /\ mating # None
    /\ LET f == mating.female
           m == mating.male
       IN  /\ a + b <= Chances
           /\ maleMutations' = [maleMutations EXCEPT ![c] = Int32(Count(m) + a)]
           /\ femaleMutations' = [femaleMutations EXCEPT ![c] = Int32(Count(f) + b)]
           /\ line' = [line EXCEPT ![c] = a + b + Larger(line[f], line[m])]
           /\ wrapped' = IF /\ {f, m} \cap wrapped = {}
                            /\ Fits(Sum(f)) /\ Fits(Sum(m)) /\ Fits(Count(m) + Count(f))
                            /\ Fits(Count(m) + a) /\ Fits(Count(f) + b)
                           THEN wrapped ELSE wrapped \cup {c}
    /\ born' = born \cup {c}
    /\ rolls' = [rolls EXCEPT ![c] = r]
    /\ own' = [own EXCEPT ![c] = r]
    /\ UNCHANGED mating

\* The original has returned.
Restore ==
    /\ mating # None
    /\ rolls' = [rolls EXCEPT ![mating.female] = mating.femaleRolls,
                              ![mating.male] = mating.maleRolls]
    /\ mating' = None
    /\ UNCHANGED counts

Next ==
    \/ \E f \in born, m \in born : DoMate(f, m)
    \/ \E c \in Dinos \ born, a \in 0..Chances, b \in 0..Chances, r \in Rolls :
          Child(c, a, b, r)
    \/ Restore

Spec == Init /\ [][Next]_vars

-------------------------------------------------------------------------------
\* Every variable keeps its type.
TypeOK ==
    /\ born \subseteq Dinos
    /\ maleMutations \in [Dinos -> Int] /\ femaleMutations \in [Dinos -> Int]
    /\ rolls \in [Dinos -> Rolls \cup {0}] /\ own \in [Dinos -> Rolls]
    /\ mating \in {None} \cup [female : born, male : born,
                               femaleRolls : Rolls, maleRolls : Rolls]
    /\ line \in [Dinos -> Nat]
    /\ wrapped \subseteq born

\* Whenever no pair is mating, every dino has the rolls that it was given.
RollsRestored == mating = None => rolls = own

\* No line of ancestors gathers more mutations than the limit lets a pair have
\* and its last children add, however it is bred, until an int overflows.
LineBounded ==
    \A d \in born \ wrapped :
        \/ line[d] = 0
        \/ \E p \in (Rolls \X Rolls) \ {<<3, 3>>} :
              line[d] <= MaxAllowed - 1 + p[1] + p[2]
===============================================================================
