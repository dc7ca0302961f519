--------------------------- MODULE ExperienceProofs ---------------------------
(***************************************************************************)
(* Proofs about Experience, for any characters and amounts and calls       *)
(* nested to any depth.                                                    *)
(***************************************************************************)
EXTENDS Experience, SequenceTheorems, TLAPS

\* What the call around call i was for, or 0.
Around(i) == IF i = 1 THEN 0 ELSE calls[i - 1].amount

\* Every call under way has saved the amount of the call around it, and has
\* granted what the rules give for that amount.  This is what makes
\* AmountIsEnclosing inductive: a restore puts back what the next call needs.
Chained ==
    \A i \in 1..Len(calls) :
        /\ calls[i].saved = Around(i)
        /\ calls[i].given =
              Granted(calls[i].who, calls[i].amount, calls[i].alpha, Around(i))

IInv == TypeOK /\ AmountIsEnclosing /\ Chained

Frame == [who : Characters, amount : Amounts, alpha : BOOLEAN, saved : Amounts \cup {0},
          given : Int]

\* The cap of a character lies between its floor and its ceiling, whatever its
\* experience to the next level.
LEMMA CapBounds ==
    ASSUME NEW c \in Characters, NEW alpha \in BOOLEAN
    PROVE  /\ ExpCap(c, alpha) \in Nat
           /\ Floor(c) <= ExpCap(c, alpha) /\ ExpCap(c, alpha) <= Ceiling(c)
           /\ Floor(c) \in Nat
<1> DEFINE levelCap == c.toNext * Greater(1, Multipliers(c, alpha))
<1>1. c.player \in BOOLEAN /\ c.rider \in BOOLEAN /\ c.level \in Nat /\ c.toNext \in Int
  BY ExperienceAssumption
<1>2. Multipliers(c, alpha) \in Nat
  BY <1>1 DEF Multipliers
<1>3. levelCap \in Int
  BY <1>1, <1>2 DEF Greater
<1>4. Ceiling(c) \in {200000, 50000} /\ Floor(c) \in {5000, 20000}
  BY <1>1 DEF Ceiling, Floor
<1>5. ExpCap(c, alpha) = Greater(Floor(c), Lesser(Ceiling(c), levelCap))
  BY DEF ExpCap
<1> HIDE DEF levelCap
<1>6. QED
  BY <1>3, <1>4, <1>5 DEF Greater, Lesser

\* What is granted to a character of ours: no more than its ceiling, within its floor
\* no less than the amount and, to a rider, within its cap no less than half of the
\* amount around.
LEMMA GrantedBounds ==
    ASSUME NEW c \in Characters, NEW alpha \in BOOLEAN,
           NEW howMuch \in Nat, NEW around \in Nat
    PROVE  LET given == Granted(c, howMuch, alpha, around) IN
           /\ given \in Int
           /\ c.ours => /\ given <= Ceiling(c)
                        /\ given >= Lesser(howMuch, Floor(c))
                        /\ c.player /\ c.rider => given >= Lesser(around \div 2, ExpCap(c, alpha))
<1> DEFINE boosted == howMuch * Factor(c.level)
           share   == Shared(c, boosted, around)
           half    == around \div 2
<1>1. c.level \in Nat /\ c.player \in BOOLEAN /\ c.rider \in BOOLEAN
  BY ExperienceAssumption
<1>2. boosted \in Nat /\ boosted >= howMuch
  BY <1>1 DEF Factor
<1>3. half \in Nat /\ (around = 0 => half = 0)
  OBVIOUS
<1> HIDE DEF boosted, half
<1>4. /\ share \in Nat /\ share >= howMuch
      /\ c.player /\ c.rider => share >= half
  BY <1>1, <1>2, <1>3 DEF Shared, Greater, half
<1>5. Granted(c, howMuch, alpha, around) = IF c.ours THEN Lesser(ExpCap(c, alpha), share) ELSE howMuch
  BY DEF Granted, boosted
<1> HIDE DEF share
<1>6. /\ ExpCap(c, alpha) \in Nat /\ Floor(c) \in Nat
      /\ Floor(c) <= ExpCap(c, alpha) /\ ExpCap(c, alpha) <= Ceiling(c)
  BY CapBounds
<1>7. Ceiling(c) \in Nat
  BY DEF Ceiling
<1>8. QED
  BY <1>3, <1>4, <1>5, <1>6, <1>7 DEF Lesser, half

\* No call is under way at first.
LEMMA InitInv == Init => IInv
  BY DEF Init, IInv, TypeOK, AmountIsEnclosing, Chained, Frame

\* A new call finds the amount of the one around it and saves it.
LEMMA EnterInv ==
    ASSUME IInv, NEW c \in Characters, NEW howMuch \in Amounts, NEW alpha \in BOOLEAN,
           Enter(c, howMuch, alpha)
    PROVE  IInv'
<1> DEFINE new == Call(c, howMuch, alpha)
           n   == Len(calls)
<1>1. /\ addExpAmount \in Amounts \cup {0} /\ addExpAmount \in Nat
      /\ calls \in Seq(Frame) /\ n \in Nat
  BY ExperienceAssumption DEF IInv, TypeOK, Frame
<1>2. new \in Frame
  <2>1. Granted(c, howMuch, alpha, addExpAmount) \in Int
    BY <1>1, GrantedBounds, ExperienceAssumption
  <2>2. QED
    BY <1>1, <2>1 DEF Call, Frame
<1>3. /\ new.who = c /\ new.amount = howMuch /\ new.alpha = alpha /\ new.saved = addExpAmount
      /\ new.given = Granted(c, howMuch, alpha, addExpAmount)
  BY DEF Call
<1>4. addExpAmount' = howMuch /\ calls' = Append(calls, new)
  BY DEF Enter
<1> HIDE DEF new
<1>5. /\ Len(calls') = n + 1 /\ calls'[n + 1] = new
      /\ \A i \in 1..n : calls'[i] = calls[i]
      /\ calls' \in Seq(Frame)
  BY <1>1, <1>2, <1>4
<1>6. TypeOK' /\ AmountIsEnclosing'
  BY <1>1, <1>3, <1>4, <1>5 DEF TypeOK, AmountIsEnclosing, Frame, Last
<1>7. ASSUME NEW i \in 1..Len(calls')
      PROVE  /\ calls'[i].saved = Around(i)'
             /\ calls'[i].given =
                   Granted(calls'[i].who, calls'[i].amount, calls'[i].alpha, Around(i)')
  <2>1. CASE i = n + 1
    <3>1. Around(i)' = addExpAmount
      <4>1. CASE n = 0
        BY <1>1, <2>1, <4>1 DEF Around, IInv, AmountIsEnclosing
      <4>2. CASE n > 0
        BY <1>1, <1>5, <2>1, <4>2 DEF Around, IInv, AmountIsEnclosing, Last
      <4>3. QED
        BY <1>1, <4>1, <4>2
    <3>2. QED
      BY <1>3, <1>5, <2>1, <3>1
  <2>2. CASE i \in 1..n
    <3>1. Around(i)' = Around(i)
      BY <1>1, <1>5, <2>2 DEF Around
    <3>2. QED
      BY <1>5, <2>2, <3>1 DEF IInv, Chained
  <2>3. QED
    BY <1>1, <1>5, <2>1, <2>2
<1>8. Chained'
  BY <1>7 DEF Chained
<1>9. QED
  BY <1>6, <1>8 DEF IInv

\* A call that ends restores the amount of the one around it.
LEMMA LeaveInv == ASSUME IInv, Leave PROVE IInv'
<1>0. calls \in Seq(Frame) /\ calls # <<>>
  BY DEF IInv, TypeOK, Frame, Leave
<1> DEFINE n == Len(calls)
<1>1. n = Len(calls) /\ n \in Nat /\ n > 0
  BY <1>0
<1>2. calls' = SubSeq(calls, 1, n - 1) /\ addExpAmount' = calls[n].saved
  BY DEF Leave, Front, Last
<1> HIDE DEF n
<1>3. /\ Len(calls') = n - 1
      /\ \A i \in 1..(n - 1) : calls'[i] = calls[i]
      /\ calls' \in Seq(Frame)
  <2>1. \A i \in 1..(n - 1) : calls[i] \in Frame
    <3>1. \A i \in 1..(n - 1) : i \in 1..n
      BY <1>1
    <3>2. \A i \in 1..n : calls[i] \in Frame
      BY <1>0, <1>1, ElementOfSeq
    <3>3. QED
      BY <3>1, <3>2
  <2>2. 1 \in Int /\ n - 1 \in Int
    BY <1>1
  <2>3. /\ SubSeq(calls, 1, n - 1) \in Seq(Frame)
        /\ Len(SubSeq(calls, 1, n - 1)) = IF 1 <= n - 1 THEN n - 1 - 1 + 1 ELSE 0
        /\ \A i \in 1..(n - 1 - 1 + 1) : SubSeq(calls, 1, n - 1)[i] = calls[1 + i - 1]
    BY <2>1, <2>2, SubSeqProperties
  <2>4. QED
    BY <1>1, <1>2, <2>3
<1>4. calls[n].saved = Around(n) /\ calls[n] \in Frame
  BY <1>0, <1>1 DEF IInv, Chained
<1>5. TypeOK'
  BY <1>2, <1>3, <1>4 DEF TypeOK, Frame
<1>6. AmountIsEnclosing'
  <2>1. CASE n = 1
    BY <1>2, <1>3, <1>4, <2>1 DEF Around, AmountIsEnclosing
  <2>2. CASE n > 1
    <3>1. calls' # <<>> /\ Last(calls') = calls[n - 1]
      BY <1>1, <1>3, <2>2 DEF Last
    <3>2. Around(n) = calls[n - 1].amount
      <4>1. n # 1
        BY <1>1, <2>2
      <4>2. QED
        BY <4>1 DEF Around
    <3>3. QED
      BY <1>2, <1>4, <3>1, <3>2 DEF AmountIsEnclosing
  <2>3. QED
    BY <1>1, <2>1, <2>2
<1>7. \A i \in 1..Len(calls') : Around(i)' = Around(i) /\ calls'[i] = calls[i]
  BY <1>1, <1>3 DEF Around
<1>8. Chained'
  BY <1>1, <1>3, <1>7 DEF IInv, Chained
<1>9. QED
  BY <1>5, <1>6, <1>8 DEF IInv

\* The inductive invariant holds of every behaviour.
THEOREM Invariance == Spec => []IInv
<1>1. IInv /\ [Next]_vars => IInv'
  <2> SUFFICES ASSUME IInv, [Next]_vars
               PROVE  IInv'
    OBVIOUS
  <2>1. CASE Next
    BY <2>1, EnterInv, LeaveInv DEF Next
  <2>2. CASE UNCHANGED vars
    BY <2>2 DEF vars, IInv, TypeOK, AmountIsEnclosing, Chained, Around
  <2>3. QED
    BY <2>1, <2>2
<1>2. QED
  BY <1>1, InitInv, PTL DEF Spec

\* Every variable keeps its type, at any depth of nesting.
THEOREM TypeCorrect == Spec => []TypeOK
<1>1. IInv => TypeOK
  BY DEF IInv
<1>2. QED
  BY <1>1, Invariance, PTL

\* addExpAmount is the amount of the call right around, at any depth.
THEOREM EnclosingTheorem == Spec => []AmountIsEnclosing
<1>1. IInv => AmountIsEnclosing
  BY DEF IInv
<1>2. QED
  BY <1>1, Invariance, PTL

\* What a call under way has granted is what the rules give.
LEMMA CallBounds ==
    ASSUME IInv, NEW i \in 1..Len(calls), calls[i].who.ours
    PROVE  LET c == calls[i].who  given == calls[i].given IN
           /\ given <= Ceiling(c)
           /\ given >= Lesser(calls[i].amount, Floor(c))
           /\ c.player /\ c.rider =>
                 given >= Lesser(Around(i) \div 2, ExpCap(c, calls[i].alpha))
<1>1. calls \in Seq(Frame)
  BY DEF IInv, TypeOK, Frame
<1>2. calls[i] \in Frame
  BY <1>1
<1>3. Around(i) \in Nat
  <2>1. CASE i = 1
    BY <2>1 DEF Around
  <2>2. CASE i # 1
    <3>1. i - 1 \in 1..Len(calls)
      BY <1>1, <2>2
    <3>2. calls[i - 1] \in Frame
      BY <1>1, <3>1
    <3>3. QED
      BY <2>2, <3>2, ExperienceAssumption DEF Around, Frame
  <2>3. QED
    BY <2>1, <2>2
<1>4. calls[i].who \in Characters /\ calls[i].amount \in Nat /\ calls[i].alpha \in BOOLEAN
  BY <1>2, ExperienceAssumption DEF Frame
<1>5. calls[i].given = Granted(calls[i].who, calls[i].amount, calls[i].alpha, Around(i))
  BY DEF IInv, Chained
<1>6. QED
  BY <1>3, <1>4, <1>5, GrantedBounds

\* A rider of ours gets half of the call it is reached from or, where that is over its
\* cap, its cap.
THEOREM RiderTheorem == Spec => []RiderGetsHalf
<1>1. ASSUME IInv PROVE RiderGetsHalf
  <2> SUFFICES ASSUME NEW i \in 2..Len(calls), calls[i].who.ours,
                      calls[i].who.player, calls[i].who.rider
               PROVE  calls[i].given >=
                        Lesser(calls[i - 1].amount \div 2,
                               ExpCap(calls[i].who, calls[i].alpha))
    BY DEF RiderGetsHalf
  <2>1. Len(calls) \in Nat
    BY DEF IInv, TypeOK
  <2>2. i \in 1..Len(calls) /\ Around(i) = calls[i - 1].amount
    BY <2>1 DEF Around
  <2>3. QED
    BY <1>1, <2>2, CallBounds
<1>2. QED
  BY <1>1, Invariance, PTL

\* Neither cap nor floor is passed.
THEOREM CapsTheorem == Spec => []WithinCaps
<1>1. IInv => WithinCaps
  BY CallBounds DEF WithinCaps
<1>2. QED
  BY <1>1, Invariance, PTL
===============================================================================
