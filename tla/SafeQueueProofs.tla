---------------------------- MODULE SafeQueueProofs ----------------------------
(***************************************************************************)
(* Proofs about SafeQueue, for any number of consumers and elements.       *)
(***************************************************************************)
EXTENDS SafeQueue, FiniteSetTheorems, SequenceTheorems, TLAPS

Awake == {c \in Consumers : pc[c] \in {"entering", "taking"}}

\* NothingStranded is not inductive: a consumer that is about to wait has seen
\* the queue empty, and nothing is enqueued before it gives the lock back.
IInv ==
    /\ TypeOK
    /\ FirstInFirstOut
    /\ NothingStranded
    /\ \A c \in Consumers : pc[c] = "blocking" => q = <<>>

\* Nobody is in dequeue and nothing is queued at first.
LEMMA InitInv == Init => IInv
<1> SUFFICES ASSUME Init
             PROVE  IInv
  OBVIOUS
<1> USE SafeQueueAssumption
<1>1. <<>> \in Seq(Items) /\ <<>> \o <<>> = <<>>
  OBVIOUS
<1>2. QED
  BY <1>1 DEF Init, IInv, TypeOK, FirstInFirstOut, NothingStranded, Waiting

\* A notification wakes one of the waiting consumers, if there is one.
LEMMA Notified ==
    ASSUME TypeOK, NotifyOne
    PROVE  /\ pc' \in [Consumers -> {"idle", "entering", "blocking", "waiting", "taking"}]
           /\ \A c \in Consumers :
                 pc'[c] # pc[c] => pc[c] = "waiting" /\ pc'[c] = "entering"
           /\ Waiting # {} => \E c \in Consumers \ Awake : Awake' = Awake \cup {c}
           /\ Waiting = {} => pc' = pc
  BY DEF NotifyOne, TypeOK, Waiting, Awake

\* One consumer more or less is awake.
LEMMA AwakeSize ==
    /\ IsFiniteSet(Awake) /\ Cardinality(Awake) \in Nat
    /\ \A c \in Consumers \ Awake :
          Cardinality(Awake \cup {c}) = Cardinality(Awake) + 1
    /\ \A c \in Awake : Cardinality(Awake \ {c}) = Cardinality(Awake) - 1
<1>1. IsFiniteSet(Awake)
  BY SafeQueueAssumption, FS_Subset DEF Awake
<1>2. QED
  BY <1>1, FS_CardinalityType, FS_AddElement, FS_RemoveElement

\* Every action keeps the invariant.
LEMMA StepInv == IInv /\ [Next]_vars => IInv'
<1> SUFFICES ASSUME IInv, [Next]_vars
             PROVE  IInv'
  OBVIOUS
<1> USE SafeQueueAssumption
<1>0. /\ TypeOK /\ FirstInFirstOut
      /\ Waiting # {} => Cardinality(Awake) >= Len(q)
      /\ \A c \in Consumers : pc[c] = "blocking" => q = <<>>
  BY DEF IInv, NothingStranded, Awake
<1>a. Len(q) \in Nat
  BY <1>0 DEF TypeOK
\* The three parts of the goal.
<1>b. ASSUME TypeOK', FirstInFirstOut',
             Waiting' # {} => Cardinality(Awake') >= Len(q'),
             \A c \in Consumers : pc'[c] = "blocking" => q' = <<>>
      PROVE  IInv'
  BY <1>b DEF IInv, NothingStranded, Awake
<1>1. ASSUME NEW t \in Items, Enqueue(t)
      PROVE  IInv'
  <2>1. /\ m = None /\ q' = Append(q, t) /\ enqueued' = Append(enqueued, t)
        /\ NotifyOne /\ UNCHANGED <<m, _shutdown, notifying, got, undefined>>
    BY <1>1 DEF Enqueue
  <2>2. \A c \in Consumers : pc[c] \notin {"blocking", "taking"}
    BY <1>0, <2>1 DEF TypeOK
  <2>3. TypeOK'
    BY <1>0, <2>1, <2>2, Notified DEF TypeOK
  <2>4. FirstInFirstOut'
    <3>1. /\ q \in Seq(Items) /\ got \in Seq(Items) /\ <<t>> \in Seq(Items)
          /\ got \o q \in Seq(Items)
      BY <1>0 DEF TypeOK
    <3>2. (got \o q) \o <<t>> = got \o (q \o <<t>>)
      BY <3>1, ConcatAssociative
    <3>3. Append(got \o q, t) = got \o Append(q, t)
      BY <3>1, <3>2, AppendIsConcat
    <3>4. QED
      BY <1>0, <2>1, <3>3 DEF FirstInFirstOut
  <2>5. \A c \in Consumers : pc'[c] # "blocking"
    BY <1>0, <2>1, <2>2, Notified
  <2>6. Len(q') = Len(q) + 1
    BY <1>0, <2>1 DEF TypeOK
  <2>7. ASSUME Waiting' # {}
        PROVE  Cardinality(Awake') >= Len(q')
    <3>1. Waiting # {}
      BY <1>0, <2>1, <2>7, Notified DEF Waiting
    <3>2. PICK c \in Consumers \ Awake : Awake' = Awake \cup {c}
      BY <1>0, <2>1, <3>1, Notified
    <3>3. QED
      BY <1>0, <1>a, <2>6, <3>1, <3>2, AwakeSize
  <2>8. QED
    BY <1>b, <2>3, <2>4, <2>5, <2>7
<1>2. ASSUME NEW c \in Consumers, DequeueCall(c) \/ SpuriousWakeup(c)
      PROVE  IInv'
  <2>1. /\ pc[c] \in {"idle", "waiting"} /\ pc' = [pc EXCEPT ![c] = "entering"]
        /\ UNCHANGED <<m, q, _shutdown, notifying, enqueued, got, undefined>>
    BY <1>2 DEF DequeueCall, SpuriousWakeup
  <2>2. TypeOK' /\ FirstInFirstOut' /\ \A d \in Consumers : pc'[d] = "blocking" => q' = <<>>
    BY <1>0, <2>1 DEF TypeOK, FirstInFirstOut
  <2>3. c \in Consumers \ Awake /\ Awake' = Awake \cup {c}
    BY <1>0, <2>1 DEF TypeOK, Awake
  <2>4. Waiting' \subseteq Waiting
    BY <1>0, <2>1 DEF TypeOK, Waiting
  <2>5. Waiting' # {} => Cardinality(Awake') >= Len(q')
    BY <1>0, <1>a, <2>1, <2>3, <2>4, AwakeSize
  <2>6. QED
    BY <1>b, <2>2, <2>5
<1>3. ASSUME NEW c \in Consumers, DequeueLook(c)
      PROVE  IInv'
  <2>1. /\ pc[c] = "entering" /\ m = None /\ m' = c
        /\ pc' = [pc EXCEPT ![c] = IF ~_shutdown /\ q = <<>> THEN "blocking" ELSE "taking"]
        /\ UNCHANGED <<q, _shutdown, notifying, enqueued, got, undefined>>
    BY <1>3 DEF DequeueLook
  <2>2. /\ \A d \in Consumers \ {c} : pc'[d] = pc[d]
        /\ (pc'[c] = "blocking" /\ q = <<>>) \/ pc'[c] = "taking"
    BY <1>0, <2>1 DEF TypeOK
  <2>3. TypeOK'
    BY <1>0, <2>1, <2>2 DEF TypeOK
  <2>4. FirstInFirstOut' /\ \A d \in Consumers : pc'[d] = "blocking" => q' = <<>>
    BY <1>0, <2>1, <2>2 DEF FirstInFirstOut
  <2>5. Waiting' = Waiting
    BY <2>1, <2>2 DEF Waiting
  <2>6. CASE pc'[c] = "taking"
    <3>1. Awake' = Awake
      BY <2>1, <2>2, <2>6 DEF Awake
    <3>2. QED
      BY <1>0, <1>b, <2>1, <2>3, <2>4, <2>5, <3>1
  <2>7. CASE q = <<>>
    <3>1. Len(q') = 0 /\ Cardinality(Awake') \in Nat
      <4>1. IsFiniteSet(Awake')
        BY FS_Subset DEF Awake
      <4>2. QED
        BY <2>1, <2>7, <4>1, FS_CardinalityType
    <3>2. QED
      BY <1>b, <2>3, <2>4, <3>1
  <2>8. QED
    BY <2>2, <2>6, <2>7
<1>4. ASSUME NEW c \in Consumers, DequeueWait(c)
      PROVE  IInv'
  <2>1. /\ pc[c] = "blocking" /\ m' = None /\ pc' = [pc EXCEPT ![c] = "waiting"]
        /\ UNCHANGED <<q, _shutdown, notifying, enqueued, got, undefined>>
    BY <1>4 DEF DequeueWait
  <2>2. TypeOK' /\ FirstInFirstOut' /\ \A d \in Consumers : pc'[d] = "blocking" => q' = <<>>
    BY <1>0, <2>1 DEF TypeOK, FirstInFirstOut
  <2>3. Awake' = Awake /\ Len(q') = 0
    BY <1>0, <2>1 DEF Awake, TypeOK
  <2>4. QED
    BY <1>b, <2>2, <2>3, AwakeSize
<1>5. ASSUME NEW c \in Consumers, DequeueTake(c)
      PROVE  IInv'
  <2>1. /\ pc[c] = "taking" /\ q # <<>> /\ got' = Append(got, Head(q)) /\ q' = Tail(q)
        /\ m' = None /\ pc' = [pc EXCEPT ![c] = "idle"]
        /\ UNCHANGED <<_shutdown, notifying, enqueued, undefined>>
    BY <1>5 DEF DequeueTake
  <2>2. q' \in Seq(Items) /\ got' \in Seq(Items) /\ Len(q') = Len(q) - 1
    BY <1>0, <2>1 DEF TypeOK
  <2>3. /\ TypeOK'
        /\ \A d \in Consumers : pc'[d] # "blocking"
    BY <1>0, <2>1, <2>2 DEF TypeOK
  <2>4. FirstInFirstOut'
    BY <1>0, <2>1 DEF TypeOK, FirstInFirstOut
  <2>5. c \in Awake /\ Awake' = Awake \ {c} /\ Waiting' = Waiting
    BY <1>0, <2>1 DEF TypeOK, Awake, Waiting
  <2>6. Waiting' # {} => Cardinality(Awake') >= Len(q')
    BY <1>0, <1>a, <2>2, <2>5, AwakeSize
  <2>7. QED
    BY <1>b, <2>3, <2>4, <2>6
<1>6. ASSUME ShutdownNotify
      PROVE  IInv'
  <2>1. /\ notifying' = FALSE /\ NotifyOne
        /\ UNCHANGED <<m, q, _shutdown, enqueued, got, undefined>>
    BY <1>6 DEF ShutdownNotify
  <2>2. TypeOK' /\ FirstInFirstOut' /\ \A d \in Consumers : pc'[d] = "blocking" => q' = <<>>
    BY <1>0, <2>1, Notified DEF TypeOK, FirstInFirstOut
  <2>3. Waiting' # {} => Waiting # {}
    BY <1>0, <2>1, Notified DEF Waiting
  <2>4. Waiting' # {} => Cardinality(Awake') >= Len(q')
    BY <1>0, <1>a, <2>1, <2>3, Notified, AwakeSize
  <2>5. QED
    BY <1>b, <2>2, <2>4
<1>7. ASSUME NEW c \in Consumers, DequeueEmpty(c)
      PROVE  IInv'
  BY <1>0, <1>7, <1>b DEF DequeueEmpty, TypeOK, FirstInFirstOut, Waiting, Awake
<1>8. ASSUME ShutdownFlag
      PROVE  IInv'
  BY <1>0, <1>8, <1>b DEF ShutdownFlag, TypeOK, FirstInFirstOut, Waiting, Awake
<1>9. CASE UNCHANGED vars
  BY <1>0, <1>9, <1>b DEF vars, TypeOK, FirstInFirstOut, Waiting, Awake
<1>10. QED
  BY <1>1, <1>2, <1>3, <1>4, <1>5, <1>6, <1>7, <1>8, <1>9 DEF Next, Step

-------------------------------------------------------------------------------
\* Every reachable state satisfies the inductive invariant.
THEOREM Invariance == Spec => []IInv
  BY InitInv, StepInv, PTL DEF Spec

\* Every variable keeps its type, and the mutex has the holder it should have.
THEOREM TypeCorrect == Spec => []TypeOK
<1>1. IInv => TypeOK
  BY DEF IInv
<1>2. QED
  BY <1>1, Invariance, PTL

\* Elements come out in the order they went in, none lost or doubled.
THEOREM OrderTheorem == Spec => []FirstInFirstOut
<1>1. IInv => FirstInFirstOut
  BY DEF IInv
<1>2. QED
  BY <1>1, Invariance, PTL

\* While a consumer sleeps there is one awake for every queued element.
THEOREM StrandTheorem == Spec => []NothingStranded
<1>1. IInv => NothingStranded
  BY DEF IInv
<1>2. QED
  BY <1>1, Invariance, PTL
===============================================================================
