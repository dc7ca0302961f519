-------------------------- MODULE RegistrationProofs --------------------------
(***************************************************************************)
(* Theorems about Registration, for any number of loads and timers, and    *)
(* about the handler of the rcon command that is registered, for any texts *)
(* and any size of a packet (SendNotification; its definitions with the    *)
(* usual names begin with Rcon there).                                     *)
(*                                                                         *)
(* Neither FewStrays nor ShutdownOnce is inductive: what the server may    *)
(* call, and whom the exit reaches, follows from what exactly is           *)
(* registered (Registry).                                                  *)
(***************************************************************************)
EXTENDS Registration, SendNotification, FiniteSetTheorems, SequenceTheorems,
        WellFoundedInduction, TLAPS

\* All that Load adds is registered for the image in memory, and of the images
\* before it /dumptarget.
Registry ==
    registered = ({DumpTarget} \X (1..loads)) \cup
                 (IF image = 0 THEN {} ELSE Added \X {image})

IInv == TypeOK /\ Registry /\ FewStrays /\ ShutdownOnce

\* What Unload leaves of what Load adds, and by which names it is called.
LEMMA Names ==
    /\ DumpTarget \in Added /\ DumpTarget \notin Hooks /\ DumpTarget \notin Removed
    /\ Hooks \subseteq Added
    /\ \A e \in Added : e \notin Removed => e = DumpTarget
    /\ DumpTarget[2] # "Exit"
  BY DEF DumpTarget, Tick, Added, Removed, CommandsAdded, CommandsRemoved, Hooks,
         BreedingHooks, SpyglassHooks, ExperienceHooks, WorldSaveHooks, OwnHooks

LEMMA ExitAdded == <<"SA", "Exit">> \in Added
  BY DEF Added, Hooks, OwnHooks

\* Calls leave the timers a count for each callback of each image.
LEMMA CallTimers ==
    ASSUME NEW name, NEW forced, NEW slots \in [Callbacks \X Images -> Nat],
           CallOf(name, forced, slots)
    PROVE  timers' \in [Callbacks \X Images -> Nat]
  <1>1. PICK new \in SUBSET Startable(Named(name), forced) :
          timers' = [t \in Callbacks \X Images |-> slots[t] + IF t \in new THEN 1 ELSE 0]
    BY DEF CallOf
  <1>2. \A t \in Callbacks \X Images : slots[t] + (IF t \in new THEN 1 ELSE 0) \in Nat
    OBVIOUS
  <1>. QED
    BY <1>1, <1>2

\* The entries of a gone image are /dumptarget, whatever name is called.
LEMMA StraysOfCall ==
    ASSUME Registry, NEW entries \in SUBSET registered
    PROVE  {r[1] : r \in {q \in entries : Gone(q[2])}} \subseteq {DumpTarget}
  <1>1. \A r \in registered : r[2] = image \/ r[1] = DumpTarget
    BY DEF Registry
  <1>. QED
    BY <1>1 DEF Gone

\* At first nothing is registered and no timer runs.
LEMMA Start == Init => IInv
  <1>. SUFFICES ASSUME Init PROVE IInv
    OBVIOUS
  <1>1. TypeOK
    <2>1. MaxLoads \in Nat /\ 0 \in 0..0 /\ 0 \in 0..MaxLoads
      BY RegistrationAssumption
    <2>2. timers \in [Callbacks \X Images -> Nat] /\ shutdowns \in [Images -> Nat]
      BY DEF Init
    <2>. QED
      BY <2>1, <2>2 DEF Init, TypeOK
  <1>. QED
    BY <1>1 DEF Init, IInv, Registry, FewStrays, ShutdownOnce, Gone, Images

\* Every step keeps the inductive invariant.
LEMMA Step == IInv /\ [Next]_vars => IInv'
  <1>. SUFFICES ASSUME IInv, [Next]_vars PROVE IInv'
    OBVIOUS
  <1>. USE DEF IInv
  <1>0. /\ image \in 0..loads /\ loads \in 0..MaxLoads /\ MaxLoads \in Nat
        /\ loads \in Nat /\ image \in Nat
        /\ registered \subseteq Added \X (1..loads)
        /\ timers \in [Callbacks \X Images -> Nat]
        /\ shutdowns \in [Images -> Nat]
    BY RegistrationAssumption DEF TypeOK
  <1>1. CASE Load
    <2>1. /\ image = 0 /\ ~exited /\ loads < MaxLoads
          /\ image' = loads + 1 /\ loads' = loads + 1
          /\ registered' = registered \cup (Added \X {loads + 1})
          /\ timers' = [timers EXCEPT ![<<"removeItems", loads + 1>>] = @ + 1]
          /\ UNCHANGED <<shutdowns, exited, strays>>
      BY <1>1 DEF Load
    <2>2. timers' \in [Callbacks \X Images -> Nat]
      <3>. DEFINE t == <<"removeItems", loads + 1>>
      <3>1. t \in Callbacks \X Images
        BY <1>0, <2>1 DEF Callbacks, Images
      <3>2. timers[t] + 1 \in Nat
        BY <1>0, <3>1
      <3>3. timers' = [timers EXCEPT ![t] = timers[t] + 1]
        BY <2>1
      <3>. HIDE DEF t
      <3>. QED
        BY <1>0, <3>2, <3>3
    <2>3. registered' \subseteq Added \X (1..loads')
      BY <1>0, <2>1
    <2>4. TypeOK'
      BY <1>0, <2>1, <2>2, <2>3 DEF TypeOK
    <2>5. Registry'
      <3>1. 1..(loads + 1) = (1..loads) \cup {loads + 1}
        BY <1>0
      <3>2. {DumpTarget} \X {loads + 1} \subseteq Added \X {loads + 1}
        BY Names
      <3>. QED
        BY <1>0, <2>1, <3>1, <3>2 DEF Registry
    <2>6. FewStrays' /\ ShutdownOnce'
      BY <1>0, <2>1 DEF FewStrays, ShutdownOnce, Gone, Images
    <2>. QED
      BY <2>4, <2>5, <2>6
  <1>2. CASE Unload
    <2>1. /\ image # 0 /\ ~exited
          /\ registered' = {r \in registered :
                              r[1] \notin Removed \/ (r[1] \in Hooks /\ r[2] # image)}
          /\ shutdowns' = [shutdowns EXCEPT ![image] = @ + 1]
          /\ image' = 0
          /\ UNCHANGED <<loads, timers, exited, strays>>
      BY <1>2 DEF Unload
    <2>2. image \in Images /\ shutdowns[image] = 0
      BY <1>0, <2>1 DEF ShutdownOnce, Gone, Images
    <2>3. TypeOK'
      BY <1>0, <2>1, <2>2 DEF TypeOK
    <2>4. Registry'
      <3>1. image \in 1..loads
        BY <1>0, <2>1
      <3>2. ASSUME NEW r \in registered
            PROVE  r[1] \notin Removed \/ (r[1] \in Hooks /\ r[2] # image) <=>
                     r \in {DumpTarget} \X (1..loads)
        <4>1. r \in {DumpTarget} \X (1..loads) \/ r \in Added \X {image}
          BY <2>1 DEF Registry
        <4>. QED
          BY <2>1, <3>1, <4>1, Names
      <3>3. registered' = {DumpTarget} \X (1..loads)
        BY <2>1, <3>2 DEF Registry
      <3>. QED
        BY <2>1, <3>3 DEF Registry
    <2>5. FewStrays'
      BY <2>1 DEF FewStrays
    <2>6. ShutdownOnce'
      BY <1>0, <2>1, <2>2 DEF ShutdownOnce, Gone, Images
    <2>. QED
      BY <2>3, <2>4, <2>5, <2>6
  <1>3. ASSUME NEW name, Call(name)
        PROVE  IInv'
    <2>1. /\ CallOf(name, {}, timers)
          /\ strays' = strays \cup {r[1] : r \in {q \in Named(name) : Gone(q[2])}}
          /\ UNCHANGED <<image, loads, registered, shutdowns, exited>>
      BY <1>3 DEF Call
    <2>2. timers' \in [Callbacks \X Images -> Nat]
      BY <1>0, <2>1, CallTimers
    <2>3. {r[1] : r \in {q \in Named(name) : Gone(q[2])}} \subseteq {DumpTarget}
      BY StraysOfCall DEF Named
    <2>4. TypeOK' /\ FewStrays'
      BY <2>1, <2>2, <2>3, Names DEF TypeOK, FewStrays
    <2>. QED
      BY <2>1, <2>4 DEF Registry, ShutdownOnce, Gone
  <1>4. ASSUME NEW c \in Callbacks, NEW g \in Images, Fires(c, g)
        PROVE  IInv'
    <2>. DEFINE rest    == [timers EXCEPT ![<<c, g>>] = @ - 1]
                reached == IF c \in Saving THEN Named("SaveWorld") ELSE {}
    <2>1. /\ timers[<<c, g>>] > 0
          /\ \/ CallOf("SaveWorld", IF c = "deferred" THEN {} ELSE {g}, rest)
             \/ timers' = rest
          /\ strays' = strays \cup (IF Gone(g) THEN {<<"timer", c>>} ELSE {})
                              \cup {r[1] : r \in {q \in reached : Gone(q[2])}}
          /\ UNCHANGED <<image, loads, registered, shutdowns, exited>>
      BY <1>4 DEF Fires
    <2>2. rest \in [Callbacks \X Images -> Nat]
      BY <1>0, <2>1
    <2>3. timers' \in [Callbacks \X Images -> Nat]
      BY <2>1, <2>2, CallTimers
    <2>4. {r[1] : r \in {q \in reached : Gone(q[2])}} \subseteq {DumpTarget}
      BY StraysOfCall DEF Named
    <2>5. strays' \subseteq strays \cup {DumpTarget} \cup ({"timer"} \X Callbacks)
      <3>1. (IF Gone(g) THEN {<<"timer", c>>} ELSE {}) \subseteq {"timer"} \X Callbacks
        OBVIOUS
      <3>. HIDE DEF reached
      <3>. QED
        BY <2>1, <2>4, <3>1
    <2>6. TypeOK' /\ FewStrays'
      BY <2>1, <2>3, <2>5, Names DEF TypeOK, FewStrays
    <2>. QED
      BY <2>1, <2>6 DEF Registry, ShutdownOnce, Gone
  <1>5. CASE Exit
    <2>1. /\ ~exited /\ exited' = TRUE
          /\ shutdowns' = [g \in Images |->
                shutdowns[g] + IF \E r \in Named("Exit") : r[2] = g THEN 1 ELSE 0]
          /\ strays' = strays \cup {r[1] : r \in {q \in Named("Exit") : Gone(q[2])}}
          /\ UNCHANGED <<image, loads, registered, timers>>
      BY <1>5 DEF Exit
    <2>2. {r[1] : r \in {q \in Named("Exit") : Gone(q[2])}} \subseteq {DumpTarget}
      BY StraysOfCall DEF Named
    <2>3. ASSUME NEW g \in Images
          PROVE  (\E r \in Named("Exit") : r[2] = g) <=> g = image
      <3>1. ASSUME NEW r \in Named("Exit") PROVE r[2] = image
        BY Names DEF Registry, Named
      <3>2. ASSUME g = image PROVE <<(<<"SA", "Exit">>), g>> \in Named("Exit")
        <4>1. g # 0 /\ <<(<<"SA", "Exit">>), g>> \in Added \X {image}
          BY <3>2, ExitAdded DEF Images
        <4>. QED
          BY <3>2, <4>1 DEF Registry, Named
      <3>. QED
        BY <3>1, <3>2
    <2>4. \A g \in Images : shutdowns'[g] = IF g <= loads THEN 1 ELSE 0
      <3>. TAKE g \in Images
      <3>1. g \in Nat
        BY <1>0 DEF Images
      <3>2. CASE g = image
        BY <1>0, <2>1, <2>3, <3>1, <3>2 DEF ShutdownOnce, Gone
      <3>3. CASE g # image
        BY <1>0, <2>1, <2>3, <3>1, <3>3 DEF ShutdownOnce, Gone
      <3>. QED
        BY <3>2, <3>3
    <2>5. shutdowns' \in [Images -> Nat]
      BY <2>1, <2>4
    <2>6. TypeOK' /\ FewStrays'
      BY <2>1, <2>2, <2>5, Names DEF TypeOK, FewStrays
    <2>7. Registry' /\ ShutdownOnce'
      BY <2>1, <2>4 DEF Registry, ShutdownOnce
    <2>. QED
      BY <2>6, <2>7
  <1>6. CASE UNCHANGED vars
    BY <1>6 DEF vars, TypeOK, Registry, FewStrays, ShutdownOnce, Gone
  <1>. QED
    BY <1>1, <1>2, <1>3, <1>4, <1>5, <1>6 DEF Next, Ended

\* The inductive invariant holds in every state.
THEOREM Invariance == Spec => []IInv
  BY Start, Step, PTL DEF Spec

\* Every variable keeps its type, through any number of loads.
THEOREM TypeCorrect == Spec => []TypeOK
  <1>1. IInv => TypeOK
    BY DEF IInv
  <1>. QED
    BY <1>1, Invariance, PTL

\* Of an unloaded image the server calls only timers' callbacks and /dumptarget.
THEOREM StrayTheorem == Spec => []FewStrays
  <1>1. IInv => FewStrays
    BY DEF IInv
  <1>. QED
    BY <1>1, Invariance, PTL

\* No image shuts its executor down twice.
THEOREM ShutdownTheorem == Spec => []ShutdownOnce
  <1>1. IInv => ShutdownOnce
    BY DEF IInv
  <1>. QED
    BY <1>1, Invariance, PTL

\* What is registered, in every state: all of Load for the image in memory, and of
\* the images before it /dumptarget alone.
THEOREM RegistryTheorem == Spec => []Registry
  <1>1. IInv => Registry
    BY DEF IInv
  <1>. QED
    BY <1>1, Invariance, PTL

\* Only the image in memory gets timers from what the server calls.
LEMMA CallOfTimers ==
    ASSUME Registry, NEW name, NEW forced, NEW slots \in [Callbacks \X Images -> Nat],
           CallOf(name, forced, slots),
           NEW c \in Callbacks, NEW g \in Images, Gone(g)
    PROVE  timers'[<<c, g>>] = slots[<<c, g>>]
  <1>1. PICK new \in SUBSET Startable(Named(name), forced) :
          timers' = [t \in Callbacks \X Images |-> slots[t] + IF t \in new THEN 1 ELSE 0]
    BY DEF CallOf
  <1>2. \A e : <<DumpTarget, e>> \notin Schedules
    BY DEF DumpTarget, Schedules
  <1>3. <<c, g>> \notin new
    <2>1. SUFFICES ASSUME <<c, g>> \in new PROVE FALSE
      OBVIOUS
    <2>2. PICK r \in registered : r[2] = g /\ <<r[1], c>> \in Schedules
      BY <1>1, <2>1 DEF Startable, Named
    <2>. QED
      BY <1>2, <2>2 DEF Registry, Gone
  <1>4. slots[<<c, g>>] \in Nat
    OBVIOUS
  <1>. QED
    BY <1>1, <1>3, <1>4

\* OldTimersEnd without the fairness it needs: nothing ever gives a timer to an image
\* that was unloaded, and each of its timers that fires is one less for good.
OldTimersFall ==
    \A c \in Callbacks, g \in 1..loads : Gone(g) =>
        /\ timers'[<<c, g>>] <= timers[<<c, g>>]
        /\ Fires(c, g) => timers'[<<c, g>>] < timers[<<c, g>>]

\* The timers of an unloaded image only ever run out.
THEOREM OldTimersTheorem == Spec => [][OldTimersFall]_vars
  <1>1. IInv /\ [Next]_vars => [OldTimersFall]_vars
    <2>. SUFFICES ASSUME IInv, Next, NEW c \in Callbacks, NEW g \in 1..loads, Gone(g)
                  PROVE  /\ timers'[<<c, g>>] <= timers[<<c, g>>]
                         /\ Fires(c, g) => timers'[<<c, g>>] < timers[<<c, g>>]
      BY DEF OldTimersFall
    <2>. DEFINE t == <<c, g>>
    <2>1. /\ timers \in [Callbacks \X Images -> Nat] /\ g \in Images /\ g # loads + 1
          /\ t \in Callbacks \X Images /\ timers[t] \in Nat /\ Registry
      BY RegistrationAssumption DEF IInv, TypeOK, Images
    <2>2. ASSUME NEW d \in Callbacks, NEW h \in Images, Fires(d, h)
          PROVE  timers'[t] = IF <<d, h>> = t THEN timers[t] - 1 ELSE timers[t]
      <3>. DEFINE rest == [timers EXCEPT ![<<d, h>>] = @ - 1]
      <3>1. /\ timers[<<d, h>>] > 0
            /\ \/ CallOf("SaveWorld", IF d = "deferred" THEN {} ELSE {h}, rest)
               \/ timers' = rest
        BY <2>2 DEF Fires
      <3>2. /\ rest \in [Callbacks \X Images -> Nat]
            /\ rest[t] = IF <<d, h>> = t THEN timers[t] - 1 ELSE timers[t]
        BY <2>1, <3>1
      <3>3. timers'[t] = rest[t]
        BY <2>1, <3>1, <3>2, CallOfTimers
      <3>. QED
        BY <3>2, <3>3
    <2>3. Fires(c, g) => timers'[t] < timers[t]
      BY <2>1, <2>2
    <2>4. timers'[t] <= timers[t]
      <3>1. CASE Load
        <4>1. timers' = [timers EXCEPT ![<<"removeItems", loads + 1>>] = @ + 1]
          BY <3>1 DEF Load
        <4>2. t # <<"removeItems", loads + 1>>
          BY <2>1
        <4>. QED
          BY <2>1, <4>1, <4>2
      <3>2. ASSUME NEW name, Call(name) PROVE timers'[t] <= timers[t]
        <4>1. CallOf(name, {}, timers)
          BY <3>2 DEF Call
        <4>2. timers'[t] = timers[t]
          BY <2>1, <4>1, CallOfTimers
        <4>. QED
          BY <2>1, <4>2
      <3>3. ASSUME NEW d \in Callbacks, NEW h \in Images, Fires(d, h)
            PROVE  timers'[t] <= timers[t]
        BY <2>1, <2>2, <3>3
      <3>4. CASE Unload \/ Exit \/ Ended
        BY <2>1, <3>4 DEF Unload, Exit, Ended, vars
      <3>. QED
        BY <3>1, <3>2, <3>3, <3>4 DEF Next
    <2>. QED
      BY <2>3, <2>4
  <1>. QED
    BY <1>1, Invariance, PTL DEF Spec
-------------------------------------------------------------------------------
(* SendNotification: what the split keeps, for every packet.                     *)
\* A nonempty set of natural numbers has a least one.
LEMMA Least ==
    ASSUME NEW S \in SUBSET Nat, S # {}
    PROVE  \E n \in S : \A k \in S : n <= k
  <1>1. PICK n \in S : \A k \in S : <<k, n>> \notin OpToRel(<, Nat)
    BY NatLessThanWellFounded, WFMin
  <1>2. \A k \in S : ~(k < n)
    BY <1>1 DEF OpToRel
  <1>. QED
    BY <1>2

\* How the rank grows from one place to the next.
LEMMA RankStep ==
    ASSUME NEW p, NEW i \in Nat
    PROVE  /\ IsFiniteSet(Places(p, i)) /\ Rank(p, i) \in Nat
           /\ Rank(p, 0) = 0
           /\ Rank(p, i + 1) = Rank(p, i) + IF p[i + 1] # Blank THEN 1 ELSE 0
  <1>1. IsFiniteSet(Places(p, i))
    <2>1. IsFiniteSet(1..i) /\ Places(p, i) \in SUBSET (1..i)
      BY FS_Interval DEF Places
    <2>. QED
      BY <2>1, FS_Subset
  <1>2. Places(p, 0) = {}
    BY DEF Places
  <1>3. Places(p, i + 1) = IF p[i + 1] # Blank THEN Places(p, i) \cup {i + 1}
                                                 ELSE Places(p, i)
    BY DEF Places
  <1>4. i + 1 \notin Places(p, i)
    BY DEF Places
  <1>5. Rank(p, i) \in Nat /\ Rank(p, 0) = 0
    BY <1>1, <1>2, FS_CardinalityType, FS_EmptySet DEF Rank
  <1>6. Cardinality(Places(p, i) \cup {i + 1}) = Cardinality(Places(p, i)) + 1
    BY <1>1, <1>4, FS_AddElement
  <1>7. Rank(p, i + 1) = Rank(p, i) + IF p[i + 1] # Blank THEN 1 ELSE 0
    <2>1. CASE p[i + 1] # Blank
      BY <1>3, <1>6, <2>1 DEF Rank
    <2>2. CASE p[i + 1] = Blank
      BY <1>3, <1>5, <2>2 DEF Rank
    <2>. QED
      BY <2>1, <2>2
  <1>. QED
    BY <1>1, <1>5, <1>7

\* ... and so it never falls, and a text that is kept has one more than any before.
LEMMA RankGrows ==
    ASSUME NEW p, NEW i \in Nat, NEW j \in Nat, i < j
    PROVE  /\ Rank(p, i) <= Rank(p, j)
           /\ p[j] # Blank => Rank(p, i) < Rank(p, j)
  <1>1. Places(p, i) \subseteq Places(p, j)
    BY DEF Places
  <1>2. p[j] # Blank => j \in Places(p, j) /\ j \notin Places(p, i)
    BY DEF Places
  <1>3. IsFiniteSet(Places(p, j)) /\ Rank(p, j) \in Nat /\ Rank(p, i) \in Nat
    BY RankStep
  <1>4. Rank(p, i) <= Rank(p, j)
    BY <1>1, <1>3, FS_Subset DEF Rank
  <1>5. ASSUME p[j] # Blank PROVE Rank(p, i) # Rank(p, j)
    <2>1. Places(p, j) # Places(p, i)
      BY <1>2, <1>5
    <2>. QED
      BY <1>1, <1>3, <2>1, FS_Subset DEF Rank
  <1>. QED
    BY <1>3, <1>4, <1>5

\* Every rank up to the last one is the rank of exactly one text that is kept.
LEMMA NthPlace ==
    ASSUME NEW p \in Seq(Texts), NEW n \in 1..Rank(p, Len(p))
    PROVE  /\ Nth(p, n) \in 1..Len(p) /\ p[Nth(p, n)] # Blank
           /\ Rank(p, Nth(p, n)) = n
           /\ ParseIntoArray(p)[n] = p[Nth(p, n)]
  <1>. DEFINE S == {i \in 0..Len(p) : Rank(p, i) >= n}
  <1>0. Len(p) \in Nat /\ n \in Nat /\ n >= 1 /\ n <= Rank(p, Len(p))
    BY RankStep
  <1>1. Len(p) \in S /\ S \in SUBSET Nat
    BY <1>0
  <1>2. PICK i \in S : \A k \in S : i <= k
    <2>. HIDE DEF S
    <2>. QED
      BY <1>1, Least
  <1>3. i # 0
    BY <1>0, <1>2, RankStep
  <1>4. i - 1 \in Nat /\ i - 1 \in 0..Len(p) /\ i - 1 \notin S
    BY <1>0, <1>2, <1>3
  <1>5. Rank(p, i - 1) \in Nat /\ Rank(p, i - 1) < n
    BY <1>0, <1>4, RankStep
  <1>6. Rank(p, i) = Rank(p, i - 1) + IF p[i] # Blank THEN 1 ELSE 0
    <2>1. i = (i - 1) + 1
      BY <1>2
    <2>. QED
      BY <1>4, <2>1, RankStep
  <1>7. Rank(p, i) >= n
    BY <1>2
  <1>8. p[i] # Blank /\ Rank(p, i) = n
    BY <1>0, <1>5, <1>6, <1>7
  <1>9. i \in Places(p, Len(p))
    BY <1>0, <1>2, <1>3, <1>8 DEF Places
  <1>10. Nth(p, n) \in Places(p, Len(p)) /\ Rank(p, Nth(p, n)) = n
    BY <1>8, <1>9 DEF Nth
  <1>. QED
    BY <1>0, <1>10 DEF Places, ParseIntoArray

\* The split keeps the texts that are not blank, each at the place of its rank.
LEMMA Split ==
    ASSUME NEW p \in Seq(Texts)
    PROVE  /\ ParseIntoArray(p) \in Seq(Texts)
           /\ Len(ParseIntoArray(p)) = Rank(p, Len(p))
           /\ \A i \in 1..Len(p) : p[i] # Blank =>
                 /\ Rank(p, i) \in 1..Rank(p, Len(p))
                 /\ ParseIntoArray(p)[Rank(p, i)] = p[i]
  <1>1. Len(p) \in Nat /\ Rank(p, Len(p)) \in Nat
    BY RankStep
  <1>2. \A n \in 1..Rank(p, Len(p)) : p[Nth(p, n)] \in Texts
    BY NthPlace
  <1>3. ParseIntoArray(p) \in [1..Rank(p, Len(p)) -> Texts]
    BY <1>2 DEF ParseIntoArray
  <1>4. ASSUME NEW i \in 1..Len(p), p[i] # Blank
        PROVE  /\ Rank(p, i) \in 1..Rank(p, Len(p))
               /\ ParseIntoArray(p)[Rank(p, i)] = p[i]
    <2>1. Rank(p, 0) = 0 /\ Rank(p, 0) < Rank(p, i) /\ Rank(p, i) \in Nat
      <3>1. i \in Nat /\ 0 \in Nat /\ 0 < i
        BY <1>1
      <3>. QED
        BY <1>4, <3>1, RankStep, RankGrows
    <2>2. Rank(p, i) <= Rank(p, Len(p))
      BY <1>1, RankGrows
    <2>. DEFINE n == Rank(p, i)
                k == Nth(p, n)
    <2>3. n \in 1..Rank(p, Len(p))
      BY <1>1, <2>1, <2>2
    <2>4. k \in 1..Len(p) /\ p[k] # Blank /\ Rank(p, k) = n
          /\ ParseIntoArray(p)[n] = p[k]
      BY <2>3, NthPlace
    <2>5. ~(k < i) /\ ~(i < k)
      BY <1>1, <1>4, <2>1, <2>4, RankGrows
    <2>6. k = i
      <3>1. k \in Int /\ i \in Int
        BY <1>1, <2>4
      <3>. HIDE DEF k
      <3>. QED
        BY <2>5, <3>1
    <2>. QED
      BY <2>3, <2>4, <2>6
  <1>. QED
    BY <1>1, <1>3, <1>4

\* There are no more ranks than places, and as many if no text is blank.
LEMMA RankBound ==
    ASSUME NEW p, NEW i \in Nat
    PROVE  /\ Rank(p, i) <= i
           /\ (\A j \in 1..i : p[j] # Blank) => Rank(p, i) = i
  <1>1. IsFiniteSet(1..i) /\ Cardinality(1..i) = i /\ Places(p, i) \in SUBSET (1..i)
    BY FS_Interval DEF Places
  <1>2. Cardinality(Places(p, i)) <= i
    BY <1>1, FS_Subset
  <1>3. (\A j \in 1..i : p[j] # Blank) => Places(p, i) = 1..i
    BY DEF Places
  <1>. QED
    BY <1>1, <1>2, <1>3 DEF Rank

\* The lists of a packet are sequences of texts, and the other way round.
LEMMA ListsAreSequences ==
    ASSUME NEW n \in Nat
    PROVE  \A s : s \in Lists(n) <=> s \in Seq(Texts) /\ Len(s) <= n
  <1>1. ASSUME NEW s \in Lists(n)
        PROVE  s \in Seq(Texts) /\ Len(s) <= n
    <2>1. PICK k \in 0..n : s \in [1..k -> Texts]
      BY <1>1 DEF Lists
    <2>. QED
      BY <2>1
  <1>2. ASSUME NEW s \in Seq(Texts), Len(s) <= n
        PROVE  s \in Lists(n)
    <2>1. Len(s) \in 0..n /\ s \in [1..Len(s) -> Texts]
      BY <1>2
    <2>. QED
      BY <2>1 DEF Lists
  <1>. QED
    BY <1>1, <1>2

\* A packet is shown if nothing is wrong with it, and otherwise answered.
Accepted(colors, parsed) ==
    /\ Len(parsed) >= 3
    /\ Len(colors) >= 3 => \A i \in 1..3 : ~Fails(colors[i])
    /\ ~Fails(parsed[1]) /\ ~Fails(parsed[2])

Replies == [kind : {"reply"},
            about : {"nothing", "usage", "r", "g", "b", "scale", "time"}]

LEMMA OutcomeCases ==
    ASSUME NEW p
    PROVE  LET colors == ParseIntoArray(p.colors)
               parsed == ParseIntoArray(p.fields)
           IN  IF Accepted(colors, parsed)
                 THEN Outcome(p) = Shown(Color(colors), Number[parsed[1]],
                                             Number[parsed[2]], SubSeq(parsed, 3, Len(parsed)))
                 ELSE Outcome(p) \in Replies
  <1>. DEFINE colors == ParseIntoArray(p.colors)
              parsed == ParseIntoArray(p.fields)
  <1>1. \A a \in {"nothing", "usage", "r", "g", "b", "scale", "time"} : Reply(a) \in Replies
    BY DEF Reply, Replies
  <1>. HIDE DEF colors, parsed
  <1>2. Len(colors) >= 3 => (\A i \in 1..3 : ~Fails(colors[i])) <=>
          ~Fails(colors[1]) /\ ~Fails(colors[2]) /\ ~Fails(colors[3])
    OBVIOUS
  <1>. QED
    BY <1>1, <1>2 DEF Outcome, Accepted, colors, parsed

Answered ==
    /\ packet \in Packets
    /\ answer = Outcome(packet) \/ (answer = Nothing /\ packet = Empty)

\* Every answer is the outcome of the packet before it.
LEMMA Answers == RconSpec => []Answered
  <1>1. Empty \in Packets
    <2>1. MaxColors \in Nat /\ MaxFields \in Nat
      BY SendNotificationAssumption
    <2>2. <<>> \in Seq(Texts) /\ Len(<<>>) <= MaxColors /\ Len(<<>>) <= MaxFields
      BY <2>1
    <2>3. <<>> \in Lists(MaxColors) /\ <<>> \in Lists(MaxFields)
      BY <2>1, <2>2, ListsAreSequences
    <2>. QED
      BY <2>3 DEF Packets, Empty
  <1>2. RconInit => Answered
    BY <1>1 DEF RconInit, Answered
  <1>3. Answered /\ [RconNext]_rconVars => Answered'
    BY <1>1 DEF Answered, RconNext, Receive, Done, rconVars
  <1>. QED
    BY <1>2, <1>3, PTL DEF RconSpec

\* What a packet is, and what its lists become.
LEMMA PacketLists ==
    ASSUME NEW p \in Packets
    PROVE  /\ p.colors \in Seq(Texts) /\ Len(p.colors) <= MaxColors
           /\ p.fields \in Seq(Texts) /\ Len(p.fields) <= MaxFields
           /\ ParseIntoArray(p.colors) \in Seq(Texts)
           /\ ParseIntoArray(p.fields) \in Seq(Texts)
           /\ Len(ParseIntoArray(p.fields)) <= MaxFields
  <1>1. /\ p.colors \in Seq(Texts) /\ Len(p.colors) <= MaxColors
        /\ p.fields \in Seq(Texts) /\ Len(p.fields) <= MaxFields
    BY SendNotificationAssumption, ListsAreSequences DEF Packets
  <1>2. Len(p.fields) \in Nat /\ MaxFields \in Nat
    BY SendNotificationAssumption, <1>1
  <1>3. Rank(p.fields, Len(p.fields)) <= Len(p.fields)
        /\ Rank(p.fields, Len(p.fields)) \in Nat
    BY <1>2, RankBound, RankStep
  <1>. QED
    BY <1>1, <1>2, <1>3, Split

\* Every variable keeps its type: only numbers are shown as color, size and time,
\* and no message is longer than the packet.
THEOREM NotificationType == RconSpec => []AnswerOK
  <1>1. Answered => AnswerOK
    <2>. SUFFICES ASSUME Answered PROVE AnswerOK
      OBVIOUS
    <2>. DEFINE colors == ParseIntoArray(packet.colors)
                parsed == ParseIntoArray(packet.fields)
    <2>1. /\ colors \in Seq(Texts) /\ parsed \in Seq(Texts)
          /\ Len(parsed) <= MaxFields /\ MaxFields \in Nat /\ packet \in Packets
      BY SendNotificationAssumption, PacketLists DEF Answered
    <2>2. Nothing \in Replies
      BY DEF Nothing, Reply, Replies
    <2>3. CASE answer \in Replies
      BY <2>1, <2>3 DEF AnswerOK, Replies
    <2>4. ASSUME answer \notin Replies
          PROVE  AnswerOK
      <3>1. /\ Accepted(colors, parsed)
            /\ answer = Shown(Color(colors), Number[parsed[1]],
                                Number[parsed[2]], SubSeq(parsed, 3, Len(parsed)))
        BY <2>2, <2>4, OutcomeCases DEF Answered
      <3>. HIDE DEF colors, parsed
      <3>2. \A t \in Texts : ~Fails(t) => Number[t] \in Numbers
        BY DEF Fails, Numbers
      <3>3. Len(parsed) >= 3 /\ parsed[1] \in Texts /\ parsed[2] \in Texts
        BY <2>1, <3>1 DEF Accepted
      <3>4. {Number[parsed[1]], Number[parsed[2]]} \subseteq Numbers
        BY <3>1, <3>2, <3>3 DEF Accepted
      <3>5. Color(colors) \in [1..4 -> Numbers \cup {"255"}]
        <4>1. CASE Len(colors) >= 3
          <5>1. colors[1] \in Texts /\ colors[2] \in Texts /\ colors[3] \in Texts
            BY <2>1, <4>1
          <5>2. {Number[colors[1]], Number[colors[2]], Number[colors[3]]} \subseteq Numbers
            BY <3>1, <3>2, <4>1, <5>1 DEF Accepted
          <5>. QED
            BY <4>1, <5>2 DEF Color
        <4>2. CASE ~(Len(colors) >= 3)
          BY <4>2 DEF Color, White
        <4>. QED
          BY <4>1, <4>2
      <3>6. SubSeq(parsed, 3, Len(parsed)) \in Lists(MaxFields)
        <4>1. /\ SubSeq(parsed, 3, Len(parsed)) \in Seq(Texts)
              /\ Len(SubSeq(parsed, 3, Len(parsed))) = Len(parsed) - 2
          BY <2>1, <3>3, SubSeqProperties
        <4>2. Len(SubSeq(parsed, 3, Len(parsed))) <= MaxFields
          <5>1. Len(parsed) \in Nat
            BY <2>1
          <5>. QED
            BY <2>1, <4>1, <5>1
        <4>. QED
          BY <2>1, <4>1, <4>2, ListsAreSequences
      <3>. QED
        BY <2>1, <3>1, <3>4, <3>5, <3>6 DEF AnswerOK, Shown
    <2>. QED
      BY <2>3, <2>4
  <1>. QED
    BY <1>1, Answers, PTL

\* The words of a message are what is kept after a size and a duration.
LEMMA WordsCounted ==
    ASSUME packet.fields[1] # Blank, packet.fields[2] # Blank, NEW n \in Nat, n >= 2
    PROVE  /\ Cardinality(Words(n)) \in Nat
           /\ Rank(packet.fields, n) = Cardinality(Words(n)) + 2
  <1>1. Places(packet.fields, n) = (Words(n) \cup {1}) \cup {2}
    BY DEF Places, Words
  <1>2. IsFiniteSet(3..n) /\ Words(n) \in SUBSET (3..n)
    BY FS_Interval DEF Words
  <1>3. IsFiniteSet(Words(n)) /\ Cardinality(Words(n)) \in Nat
    BY <1>2, FS_Subset, FS_CardinalityType
  <1>4. 1 \notin Words(n) /\ 2 \notin Words(n) \cup {1}
    BY DEF Words
  <1>5. /\ IsFiniteSet(Words(n) \cup {1})
        /\ Cardinality(Words(n) \cup {1}) = Cardinality(Words(n)) + 1
    BY <1>3, <1>4, FS_AddElement
  <1>6. Cardinality(Places(packet.fields, n)) = Cardinality(Words(n) \cup {1}) + 1
    BY <1>1, <1>4, <1>5, FS_AddElement
  <1>. QED
    BY <1>3, <1>5, <1>6 DEF Rank

\* A packet whose color has three numbers or more, of whatever length, and whose other
\* fields are in their places is shown with these three, opaque whatever its alpha,
\* and with its size, its duration and its message: the split moves nothing, no check
\* refuses it, and of the message only the blanks are lost.
THEOREM AsWrittenTheorem == RconSpec => []AsWritten
  <1>1. Answered => AsWritten
    <2>. SUFFICES ASSUME Answered, WellFormed(packet)
                  PROVE  /\ answer.kind = "shown"
                         /\ \A i \in 1..3 : answer.color[i] = Number[packet.colors[i]]
                         /\ answer.color[4] = "255"
                         /\ answer.scale = Number[packet.fields[1]]
                         /\ answer.time = Number[packet.fields[2]]
                         /\ Len(answer.message) = Cardinality(Words(Len(packet.fields)))
                         /\ \A i \in Words(Len(packet.fields)) :
                               answer.message[Cardinality(Words(i))] = packet.fields[i]
      BY DEF AsWritten
    <2>. DEFINE c      == packet.colors
                f      == packet.fields
                colors == ParseIntoArray(c)
                parsed == ParseIntoArray(f)
    <2>1. /\ c \in Seq(Texts) /\ f \in Seq(Texts) /\ Len(c) \in Nat /\ Len(f) \in Nat
          /\ colors \in Seq(Texts) /\ parsed \in Seq(Texts)
      BY PacketLists DEF Answered
    <2>2. /\ Len(c) >= 3 /\ \A i \in 1..Len(c) : Number[c[i]] # None
          /\ Len(f) >= 3 /\ Number[f[1]] # None /\ Number[f[2]] # None
          /\ \E i \in 3..Len(f) : f[i] # Blank
      BY <2>1 DEF WellFormed, IsNumber
    <2>3. Number[Blank] = None
      BY SendNotificationAssumption
    <2>4. /\ \A i \in 1..Len(c) : c[i] # Blank
          /\ f[1] # Blank /\ f[2] # Blank
      BY <2>2, <2>3
    <2>5. /\ Len(colors) = Len(c)
          /\ \A i \in 1..3 : colors[i] = c[i]
      <3>1. ASSUME NEW i \in 0..Len(c) PROVE Rank(c, i) = i
        BY <2>1, <2>4, RankBound
      <3>2. Rank(c, Len(c)) = Len(c)
        BY <2>1, <3>1
      <3>3. ASSUME NEW i \in 1..3 PROVE colors[i] = c[i]
        <4>1. i \in 1..Len(c) /\ c[i] # Blank /\ Rank(c, i) = i
          BY <2>1, <2>2, <2>4, <3>1
        <4>. QED
          BY <2>1, <4>1, Split
      <3>. QED
        BY <2>1, <3>2, <3>3, Split
    <2>6. Rank(f, 1) = 1 /\ Rank(f, 2) = 2
      <3>1. \A j \in 1..2 : f[j] # Blank
        BY <2>4
      <3>2. \A j \in 1..1 : f[j] # Blank
        BY <2>4
      <3>. QED
        BY <3>1, <3>2, RankBound
    <2>7. parsed[1] = f[1] /\ parsed[2] = f[2]
        <3>1. 1 \in 1..Len(f) /\ 2 \in 1..Len(f)
        BY <2>1, <2>2
      <3>. QED
        BY <2>1, <2>4, <2>6, <3>1, Split
    <2>8. Rank(f, Len(f)) \in Nat /\ Rank(f, Len(f)) >= 3
          /\ Len(parsed) = Rank(f, Len(f))
      <3>1. PICK i \in 3..Len(f) : f[i] # Blank
        BY <2>2
      <3>2. i \in Nat /\ 2 \in Nat /\ 2 < i /\ i <= Len(f)
        BY <2>1, <3>1
      <3>3. Rank(f, 2) < Rank(f, i) /\ Rank(f, i) \in Nat /\ Rank(f, Len(f)) \in Nat
        BY <2>1, <3>1, <3>2, RankGrows, RankStep
      <3>4. Rank(f, i) <= Rank(f, Len(f))
        BY <2>1, <3>2, <3>3, RankGrows
      <3>5. Len(parsed) = Rank(f, Len(f))
        BY <2>1, Split
      <3>. HIDE DEF f, parsed
      <3>. QED
        BY <2>6, <3>3, <3>4, <3>5
    <2>9. Accepted(colors, parsed)
      BY <2>1, <2>2, <2>5, <2>7, <2>8 DEF Accepted, Fails
    <2>10. packet # Empty
      BY <2>2 DEF Empty
    <2>11. answer = Shown(Color(colors), Number[parsed[1]], Number[parsed[2]],
                            SubSeq(parsed, 3, Len(parsed)))
      BY <2>9, <2>10, OutcomeCases DEF Answered
    <2>. HIDE DEF colors, parsed
    <2>12. /\ answer.kind = "shown"
           /\ answer.color = <<Number[colors[1]], Number[colors[2]], Number[colors[3]], "255">>
           /\ answer.scale = Number[parsed[1]] /\ answer.time = Number[parsed[2]]
           /\ answer.message = SubSeq(parsed, 3, Len(parsed))
      BY <2>2, <2>5, <2>11 DEF Shown, Color
    <2>13. /\ Len(answer.message) = Len(parsed) - 2
           /\ \A k \in 1..Len(parsed) - 2 : answer.message[k] = parsed[k + 2]
      <3>1. Len(parsed) \in Nat /\ Len(parsed) >= 3
        BY <2>8
      <3>2. \A i \in 3..Len(parsed) : parsed[i] \in Texts
        BY <2>1
      <3>3. /\ Len(answer.message) = Len(parsed) - 3 + 1
            /\ \A k \in 1..Len(parsed) - 3 + 1 : answer.message[k] = parsed[3 + k - 1]
        BY <2>12, <3>1, <3>2, SubSeqProperties
      <3>. QED
        BY <3>1, <3>3
    <2>14. ASSUME NEW i \in Words(Len(f))
           PROVE  answer.message[Cardinality(Words(i))] = f[i]
      <3>1. i \in 3..Len(f) /\ f[i] # Blank
        BY DEF Words
      <3>2. /\ Rank(f, i) \in 1..Rank(f, Len(f))
            /\ parsed[Rank(f, i)] = f[i]
        <4>1. i \in 1..Len(f)
          BY <2>1, <3>1
        <4>2. f \in Seq(Texts)
          BY <2>1
        <4>. HIDE DEF f
        <4>. QED
          BY <3>1, <4>1, <4>2, Split DEF parsed
      <3>3. Rank(f, i) = Cardinality(Words(i)) + 2
        BY <2>1, <2>4, <3>1, WordsCounted
      <3>4. Rank(f, 2) < Rank(f, i)
        BY <2>1, <3>1, RankGrows
      <3>. DEFINE k == Rank(f, i) - 2
      <3>5. k \in 1..Len(parsed) - 2 /\ k + 2 = Rank(f, i)
        BY <2>6, <2>8, <3>2, <3>4
      <3>6. Cardinality(Words(i)) = k
        <4>1. Cardinality(Words(i)) \in Nat
          BY <2>1, <2>4, <3>1, WordsCounted
        <4>. QED
          BY <3>3, <4>1
      <3>. QED
        BY <2>13, <3>2, <3>5, <3>6
    <2>15. Len(answer.message) = Cardinality(Words(Len(f)))
      <3>1. /\ Cardinality(Words(Len(f))) \in Nat
            /\ Rank(f, Len(f)) = Cardinality(Words(Len(f))) + 2
        <4>1. Len(f) >= 2
          BY <2>1, <2>2
        <4>. QED
          BY <2>1, <2>4, <4>1, WordsCounted
      <3>. QED
        BY <2>8, <2>13, <3>1
    <2>16. /\ \A i \in 1..3 : answer.color[i] = Number[c[i]]
           /\ answer.color[4] = "255"
      BY <2>5, <2>12
    <2>. QED
      BY <2>7, <2>12, <2>14, <2>15, <2>16
  <1>. QED
    BY <1>1, Answers, PTL

\* When a blank size or duration lets the fields after it move up, the first that is
\* not blank after both took the place of one of them, and was found to be a number.
THEOREM ShiftTheorem == RconSpec => []ShiftIsCaught
  <1>1. Answered => ShiftIsCaught
    <2>. SUFFICES ASSUME Answered, answer.kind = "shown",
                         Blank \in {packet.fields[1], packet.fields[2]}
                  PROVE  \E i \in 3..Len(packet.fields) :
                            /\ IsNumber(packet.fields[i])
                            /\ \A j \in 3..(i - 1) : packet.fields[j] = Blank
      BY DEF ShiftIsCaught
    <2>. DEFINE f      == packet.fields
                parsed == ParseIntoArray(f)
    <2>1. f \in Seq(Texts) /\ Len(f) \in Nat
      BY PacketLists DEF Answered
    <2>2. Len(parsed) >= 3 /\ ~Fails(parsed[1]) /\ ~Fails(parsed[2])
      <3>1. answer \notin Replies /\ Nothing \in Replies
        BY DEF Replies, Nothing, Reply
      <3>2. answer = Outcome(packet)
        BY <3>1 DEF Answered
      <3>. QED
        BY <3>1, <3>2, OutcomeCases DEF Accepted
    <2>3. Rank(f, Len(f)) = Len(parsed) /\ Rank(f, Len(f)) \in Nat
      BY <2>1, Split, RankStep
    <2>4. Rank(f, 2) \in {0, 1}
      <3>1. /\ Rank(f, 1) = Rank(f, 0) + IF f[0 + 1] # Blank THEN 1 ELSE 0
            /\ Rank(f, 2) = Rank(f, 1) + IF f[1 + 1] # Blank THEN 1 ELSE 0
            /\ Rank(f, 0) = 0
        <4>1. 0 + 1 = 1 /\ 1 + 1 = 2
          OBVIOUS
        <4>2. 0 \in Nat /\ 1 \in Nat
          OBVIOUS
        <4>. QED
          BY <4>1, <4>2, RankStep
      <3>. HIDE DEF f
      <3>. QED
        BY <3>1 DEF f
    <2>. DEFINE n == Rank(f, 2) + 1
                k == Nth(f, n)
    <2>5. n \in 1..2 /\ n \in 1..Rank(f, Len(f))
      BY <2>2, <2>3, <2>4
    <2>6. k \in 1..Len(f) /\ f[k] # Blank /\ Rank(f, k) = n /\ parsed[n] = f[k]
      BY <2>1, <2>5, NthPlace
    <2>. HIDE DEF k, parsed
    <2>7. IsNumber(f[k])
      BY <2>2, <2>5, <2>6 DEF IsNumber, Fails
    <2>8. k \in Nat /\ Rank(f, 2) \in Nat
      BY <2>1, <2>4, <2>6
    <2>9. k > 2
      <3>1. CASE k = 2
        BY <2>6, <2>8, <3>1
      <3>2. CASE k < 2
        <4>1. Rank(f, k) <= Rank(f, 2)
          BY <2>8, <3>2, RankGrows
        <4>. QED
          BY <2>6, <2>8, <4>1
      <3>. QED
        BY <2>8, <3>1, <3>2
    <2>10. ASSUME NEW j \in 3..(k - 1)
           PROVE  f[j] = Blank
      <3>1. j \in Nat /\ 2 < j /\ j < k
        BY <2>8
      <3>2. f[j] # Blank => Rank(f, 2) < Rank(f, j)
        BY <3>1, RankGrows
      <3>3. Rank(f, j) < Rank(f, k) /\ Rank(f, j) \in Nat
        BY <2>6, <2>8, <3>1, RankGrows, RankStep
      <3>. QED
        BY <2>6, <2>8, <3>2, <3>3
    <2>11. k \in 3..Len(f)
      BY <2>1, <2>6, <2>9
    <2>. QED
      BY <2>7, <2>10, <2>11
  <1>. QED
    BY <1>1, Answers, PTL
===============================================================================
