---------------------------- MODULE BreedingProofs ----------------------------
(***************************************************************************)
(* Theorems about Breeding, for any dinos, rolls, limit and width of int.  *)
(*                                                                         *)
(* LineBounded is not inductive: that the counters stand for the lines is  *)
(* Counted, and that a pair with rolls is one below the limit is PairOK.   *)
(***************************************************************************)
EXTENDS Breeding, TLAPS

\* Where nothing has overflowed, a dino's counters are as high as its line.
Counted ==
    \A d \in born \ wrapped :
        /\ maleMutations[d] \in Nat /\ femaleMutations[d] \in Nat
        /\ line[d] <= Sum(d)

\* What the hook of DoMate has made sure of, till the original has returned.
PairOK ==
    mating # None =>
        LET f == mating.female
            m == mating.male
        IN  /\ f # m
            /\ mating.femaleRolls = own[f] /\ mating.maleRolls = own[m]
            /\ \A d \in Dinos \ {f, m} : rolls[d] = own[d]
            /\ \/ rolls[f] = 0 /\ rolls[m] = 0
               \/ /\ rolls[f] = own[f] /\ rolls[m] = own[m]
                  /\ ~(rolls[f] = 3 /\ rolls[m] = 3)
                  /\ Int32(Count(m) + Count(f)) < MaxAllowed

IInv == TypeOK /\ RollsRestored /\ LineBounded /\ Counted /\ PairOK

LEMMA Constants ==
    /\ Founders \subseteq Dinos
    /\ None \notin [female : Dinos, male : Dinos, femaleRolls : Rolls, maleRolls : Rolls]
    /\ Rolls \subseteq Nat /\ MaxAllowed \in Nat
    /\ WordSize \in Nat /\ WordSize > 0
    /\ MaxFounder \in Nat
  BY BreedingAssumption

\* An int is a number.
LEMMA Int32Type == \A n \in Int : Int32(n) \in Int
  BY Constants DEF Int32

\* At first every dino has its own rolls and nobody has a line.
LEMMA Start == Init => IInv
  <1>. SUFFICES ASSUME Init PROVE IInv
    OBVIOUS
  <1>0. /\ maleMutations \in [Dinos -> Nat] /\ femaleMutations \in [Dinos -> Nat]
        /\ line \in [Dinos -> Nat]
    <2>1. 0..MaxFounder \subseteq Nat
      BY Constants
    <2>. QED
      BY <2>1 DEF Init
  <1>1. TypeOK
    <2>1. /\ maleMutations \in [Dinos -> Int] /\ femaleMutations \in [Dinos -> Int]
      BY <1>0
    <2>2. rolls \in [Dinos -> Rolls \cup {0}] /\ own \in [Dinos -> Rolls]
      BY DEF Init
    <2>. QED
      BY <1>0, <2>1, <2>2, Constants DEF Init, TypeOK
  <1>2. Counted
    <2>1. SUFFICES ASSUME NEW d \in Founders
                   PROVE  /\ maleMutations[d] \in Nat /\ femaleMutations[d] \in Nat
                          /\ line[d] <= Sum(d)
      BY DEF Init, Counted
    <2>2. /\ maleMutations[d] \in Nat /\ femaleMutations[d] \in Nat /\ line[d] = 0
      BY <1>0, Constants DEF Init
    <2>. QED
      BY <2>2 DEF Sum
  <1>3. \A d \in Dinos : line[d] = 0
    BY DEF Init
  <1>. QED
    BY <1>1, <1>2, <1>3 DEF Init, IInv, TypeOK, RollsRestored, LineBounded, PairOK

\* A child of a pair that has not overflowed, and that overflows nowhere itself.
LEMMA Birth ==
    ASSUME IInv, NEW c \in Dinos \ born, NEW a \in Nat, NEW b \in Nat, NEW r \in Rolls,
           Child(c, a, b, r)
    PROVE  IInv'
  <1>. DEFINE f == mating.female
              m == mating.male
  <1>0. /\ mating # None
        /\ f \in born /\ m \in born /\ f # c /\ m # c
        /\ f \in Dinos /\ m \in Dinos
        /\ rolls \in [Dinos -> Rolls \cup {0}] /\ own \in [Dinos -> Rolls]
        /\ maleMutations \in [Dinos -> Int] /\ femaleMutations \in [Dinos -> Int]
        /\ line \in [Dinos -> Nat]
        /\ born \subseteq Dinos /\ wrapped \subseteq born
    BY DEF Child, IInv, TypeOK
  <1>1. /\ a + b <= rolls[f] + rolls[m]
        /\ maleMutations' = [maleMutations EXCEPT ![c] = Int32(Count(m) + a)]
        /\ femaleMutations' = [femaleMutations EXCEPT ![c] = Int32(Count(f) + b)]
        /\ line' = [line EXCEPT ![c] = a + b + Larger(line[f], line[m])]
        /\ wrapped' = IF /\ {f, m} \cap wrapped = {}
                         /\ Fits(Sum(f)) /\ Fits(Sum(m)) /\ Fits(Count(m) + Count(f))
                         /\ Fits(Count(m) + a) /\ Fits(Count(f) + b)
                        THEN wrapped ELSE wrapped \cup {c}
        /\ born' = born \cup {c}
        /\ rolls' = [rolls EXCEPT ![c] = r]
        /\ own' = [own EXCEPT ![c] = r]
        /\ mating' = mating
    BY DEF Child, Chances
  <1>2. /\ Count(f) \in Int /\ Count(m) \in Int
        /\ Int32(Count(m) + a) \in Int /\ Int32(Count(f) + b) \in Int
        /\ a + b + Larger(line[f], line[m]) \in Nat
    <2>1. Sum(f) \in Int /\ Sum(m) \in Int
      BY <1>0 DEF Sum
    <2>2. Count(f) \in Int /\ Count(m) \in Int
      BY <2>1, Int32Type DEF Count
    <2>3. Larger(line[f], line[m]) \in Nat
      BY <1>0 DEF Larger
    <2>. QED
      BY <2>2, <2>3, Int32Type
  <1>3. TypeOK'
    <2>1. mating' \in {None} \cup [female : born', male : born',
                                   femaleRolls : Rolls, maleRolls : Rolls]
      BY <1>1 DEF IInv, TypeOK
    <2>2. /\ maleMutations' \in [Dinos -> Int] /\ femaleMutations' \in [Dinos -> Int]
          /\ line' \in [Dinos -> Nat]
      BY <1>0, <1>1, <1>2
    <2>. QED
      BY <1>0, <1>1, <2>1, <2>2 DEF TypeOK
  <1>4. \A d \in born : Sum(d)' = Sum(d) /\ Count(d)' = Count(d) /\ line'[d] = line[d]
    BY <1>0, <1>1 DEF Sum, Count
  <1>5. ASSUME c \notin wrapped'
        PROVE  /\ maleMutations'[c] = Sum(m) + a /\ femaleMutations'[c] = Sum(f) + b
               /\ Sum(m) \in Nat /\ Sum(f) \in Nat
               /\ line[f] <= Sum(f) /\ line[m] <= Sum(m)
               /\ line'[c] <= a + b + Sum(f) + Sum(m)
               /\ Int32(Count(m) + Count(f)) = Sum(m) + Sum(f)
               /\ f \notin wrapped /\ m \notin wrapped
    <2>1. /\ f \notin wrapped /\ m \notin wrapped
          /\ Fits(Sum(f)) /\ Fits(Sum(m)) /\ Fits(Count(m) + Count(f))
          /\ Fits(Count(m) + a) /\ Fits(Count(f) + b)
      BY <1>1, <1>5
    <2>2. /\ maleMutations[f] \in Nat /\ femaleMutations[f] \in Nat
          /\ maleMutations[m] \in Nat /\ femaleMutations[m] \in Nat
          /\ line[f] <= Sum(f) /\ line[m] <= Sum(m)
      BY <1>0, <2>1 DEF IInv, Counted
    <2>3. Sum(f) \in Nat /\ Sum(m) \in Nat
      BY <2>2 DEF Sum
    <2>4. Count(f) = Sum(f) /\ Count(m) = Sum(m)
      BY <2>1 DEF Fits, Count
    <2>5. line'[c] = a + b + Larger(line[f], line[m])
      BY <1>0, <1>1
    <2>6. line'[c] <= a + b + Sum(f) + Sum(m)
      BY <1>0, <2>2, <2>3, <2>5 DEF Larger
    <2>. QED
      BY <1>0, <1>1, <2>1, <2>2, <2>3, <2>4, <2>6 DEF Fits
  <1>6. wrapped' \in {wrapped, wrapped \cup {c}}
    BY <1>1
  <1>7. Counted'
    <2>1. ASSUME NEW d \in born \ wrapped
          PROVE  /\ maleMutations'[d] \in Nat /\ femaleMutations'[d] \in Nat
                 /\ line'[d] <= Sum(d)'
      BY <1>0, <1>1, <1>4 DEF IInv, Counted
    <2>2. ASSUME c \notin wrapped'
          PROVE  /\ maleMutations'[c] \in Nat /\ femaleMutations'[c] \in Nat
                 /\ line'[c] <= Sum(c)'
      <3>1. Sum(c)' = Sum(m) + a + Sum(f) + b
        BY <1>5, <2>2 DEF Sum
      <3>. QED
        BY <1>0, <1>3, <1>5, <2>2, <3>1 DEF TypeOK
    <2>. QED
      BY <1>1, <1>6, <2>1, <2>2 DEF Counted
  <1>8. LineBounded'
    <2>1. ASSUME NEW d \in born \ wrapped
          PROVE  \/ line'[d] = 0
                 \/ \E p \in (Rolls \X Rolls) \ {<<3, 3>>} :
                      line'[d] <= MaxAllowed - 1 + p[1] + p[2]
      BY <1>4 DEF IInv, LineBounded
    <2>2. ASSUME c \notin wrapped'
          PROVE  \/ line'[c] = 0
                 \/ \E p \in (Rolls \X Rolls) \ {<<3, 3>>} :
                      line'[c] <= MaxAllowed - 1 + p[1] + p[2]
      <3>1. CASE rolls[f] = 0 /\ rolls[m] = 0
        <4>1. a + b = 0
          BY <1>1, <3>1
        <4>2. line'[c] = line[f] \/ line'[c] = line[m]
          BY <1>0, <1>1, <4>1 DEF Larger
        <4>3. f \in born \ wrapped /\ m \in born \ wrapped
          BY <1>0, <1>5, <2>2
        <4>. QED
          BY <4>2, <4>3 DEF IInv, LineBounded
      <3>2. CASE /\ rolls[f] = own[f] /\ rolls[m] = own[m]
                 /\ ~(rolls[f] = 3 /\ rolls[m] = 3)
                 /\ Int32(Count(m) + Count(f)) < MaxAllowed
        <4>. DEFINE p == <<rolls[f], rolls[m]>>
        <4>1. p \in (Rolls \X Rolls) \ {<<3, 3>>} /\ p[1] = rolls[f] /\ p[2] = rolls[m]
          BY <1>0, <3>2
        <4>2. Sum(m) + Sum(f) < MaxAllowed
          BY <1>5, <2>2, <3>2
        <4>3. rolls[f] \in Nat /\ rolls[m] \in Nat
          BY <1>0, <3>2, Constants
        <4>4. line'[c] \in Nat
          BY <1>0, <1>3 DEF TypeOK
        <4>5. line'[c] <= MaxAllowed - 1 + p[1] + p[2]
          BY <1>1, <1>5, <2>2, <4>1, <4>2, <4>3, <4>4, Constants
        <4>. QED
          BY <4>1, <4>5
      <3>. QED
        BY <1>0, <3>1, <3>2 DEF IInv, PairOK
    <2>. QED
      BY <1>1, <1>6, <2>1, <2>2 DEF LineBounded
  <1>9. PairOK'
    BY <1>0, <1>1, <1>4 DEF IInv, PairOK
  <1>. QED
    BY <1>0, <1>1, <1>3, <1>7, <1>8, <1>9 DEF IInv, RollsRestored

\* Every step keeps the inductive invariant.
LEMMA Step == IInv /\ [Next]_vars => IInv'
  <1>. SUFFICES ASSUME IInv, [Next]_vars PROVE IInv'
    OBVIOUS
  <1>0. /\ rolls \in [Dinos -> Rolls \cup {0}] /\ own \in [Dinos -> Rolls]
        /\ born \subseteq Dinos
        /\ maleMutations \in [Dinos -> Int] /\ femaleMutations \in [Dinos -> Int]
    BY DEF IInv, TypeOK
  <1>1. ASSUME NEW f \in born, NEW m \in born, DoMate(f, m)
        PROVE  IInv'
    <2>1. /\ mating = None /\ f # m
          /\ mating' = [female |-> f, male |-> m,
                        femaleRolls |-> rolls[f], maleRolls |-> rolls[m]]
          /\ rolls' = IF NoMutations(f, m) THEN [rolls EXCEPT ![f] = 0, ![m] = 0] ELSE rolls
          /\ UNCHANGED counts
      BY <1>1 DEF DoMate
    <2>2. rolls = own
      BY <2>1 DEF IInv, RollsRestored
    <2>3. mating' # None
      BY <1>0, <2>1, <2>2, Constants
    <2>4. TypeOK'
      BY <1>0, <2>1, <2>2 DEF IInv, TypeOK, counts
    <2>5. Counted' /\ LineBounded'
      BY <2>1 DEF IInv, Counted, LineBounded, Sum, counts
    <2>6. Int32(Count(m) + Count(f)) \in Int
      BY <1>0, Int32Type DEF Count, Sum
    <2>7. ~NoMutations(f, m) =>
            /\ ~(rolls[f] = 3 /\ rolls[m] = 3)
            /\ Int32(Count(m) + Count(f)) < MaxAllowed
      BY <2>6, Constants DEF NoMutations
    <2>8. Count(m)' = Count(m) /\ Count(f)' = Count(f)
      BY <2>1 DEF Count, Sum, counts
    <2>9. PairOK'
      <3>1. CASE NoMutations(f, m)
        BY <1>0, <2>1, <2>2, <3>1 DEF PairOK, counts
      <3>2. CASE ~NoMutations(f, m)
        BY <1>0, <2>1, <2>2, <2>7, <2>8, <3>2 DEF PairOK, counts
      <3>. QED
        BY <3>1, <3>2
    <2>. QED
      BY <2>3, <2>4, <2>5, <2>9 DEF IInv, RollsRestored
  <1>2. ASSUME NEW c \in Dinos \ born, NEW a \in 0..Chances, NEW b \in 0..Chances,
               NEW r \in Rolls, Child(c, a, b, r)
        PROVE  IInv'
    BY <1>2, Birth
  <1>3. CASE Restore
    <2>1. /\ mating # None /\ mating' = None
          /\ rolls' = [rolls EXCEPT ![mating.female] = mating.femaleRolls,
                                    ![mating.male] = mating.maleRolls]
          /\ UNCHANGED counts
      BY <1>3 DEF Restore
    <2>2. mating.female \in Dinos /\ mating.male \in Dinos
      BY <1>0, <2>1 DEF IInv, TypeOK
    <2>3. rolls' = own
      BY <1>0, <2>1, <2>2 DEF IInv, PairOK
    <2>4. TypeOK'
      BY <1>0, <2>1, <2>3 DEF IInv, TypeOK, counts
    <2>5. Counted' /\ LineBounded'
      BY <2>1 DEF IInv, Counted, LineBounded, Sum, counts
    <2>. QED
      BY <2>1, <2>3, <2>4, <2>5 DEF IInv, RollsRestored, PairOK, counts
  <1>4. CASE UNCHANGED vars
    BY <1>4 DEF vars, counts, IInv, TypeOK, RollsRestored, LineBounded, Counted, PairOK,
                Sum, Count
  <1>. QED
    BY <1>1, <1>2, <1>3, <1>4 DEF Next

\* The inductive invariant holds in every state.
THEOREM Invariance == Spec => []IInv
  BY Start, Step, PTL DEF Spec

\* Every variable keeps its type.
THEOREM TypeCorrect == Spec => []TypeOK
  <1>1. IInv => TypeOK
    BY DEF IInv
  <1>. QED
    BY <1>1, Invariance, PTL

\* Between matings every dino has the rolls that it was given.
THEOREM RollsTheorem == Spec => []RollsRestored
  <1>1. IInv => RollsRestored
    BY DEF IInv
  <1>. QED
    BY <1>1, Invariance, PTL

\* Mutations in a line stay below the limit and one pair's rolls, till an int overflows.
THEOREM LineTheorem == Spec => []LineBounded
  <1>1. IInv => LineBounded
    BY DEF IInv
  <1>. QED
    BY <1>1, Invariance, PTL
===============================================================================
