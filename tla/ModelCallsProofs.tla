-------------------------- MODULE ModelCallsProofs --------------------------
(***************************************************************************)
(* Theorems about ModelCalls, for every set of jobs, priority, number of   *)
(* slots and of attempts.                                                  *)
(*                                                                         *)
(* Nobody is overtaken because of what release() looks at, not because of  *)
(* an invariant: the ticket it wakes goes before every other live one.     *)
(* That the model is never overloaded is inductive with the count itself:  *)
(* the slots held are among those counted, and none is counted beyond the  *)
(* capacity.  The count may exceed the holders - a job cancelled between   *)
(* being granted a slot and resuming leaves its slot counted - so only one *)
(* of the two comparisons can be an equality.                              *)
(*                                                                         *)
(* That every call ends needs fairness and an induction over the work that *)
(* is left, and stays with TLC.  What it rests on is proved: who waits is  *)
(* listed and waits for somebody who has a slot (NobodyWaitsForNothing),   *)
(* and every step takes from a finite amount of work (TheWorkRunsOut).     *)
(***************************************************************************)
EXTENDS ModelCalls, FiniteSetTheorems, TLAPS

Ticket == [job : Jobs, number : Nat]

CallsTypeInv ==
  /\ inFlight \in Nat
  /\ waiting \subseteq Ticket
  /\ sequence \in Nat
  /\ pc \in [Jobs -> Places]

SlotsCounted == Cardinality(Holders) <= inFlight /\ inFlight <= Capacity

CallsInv == CallsTypeInv /\ SlotsCounted

-----------------------------------------------------------------------------
(***************************************************************************)
(* Who gets a slot.                                                        *)
(***************************************************************************)

(* A job that gets a slot either found nobody waiting, or is the one a     *)
(* release wakes, and then its ticket goes before every other live one.    *)
LEMMA WhoGetsASlot ==
  ASSUME CallsTypeInv, [Next]_vars, NEW j \in Holders' \ Holders
  PROVE  \/ waiting = {}
         \/ \E t \in waiting : t.job = j /\ \A u \in waiting : Live(u) /\ u # t => Before(t, u)
<1>1. j \in Jobs /\ pc'[j] \in {"granted", "calling"} /\ pc[j] \notin {"granted", "calling"}
  BY DEF Holders
<1>2. ASSUME NEW k \in Jobs, NEW goesTo \in Places \ {"granted", "calling"}, Release(k, goesTo)
      PROVE  \E t \in waiting :
               t.job = j /\ \A u \in waiting : Live(u) /\ u # t => Before(t, u)
  <2>1. CASE pc' = [pc EXCEPT ![k] = goesTo]
    BY <1>1, <1>2, <2>1 DEF CallsTypeInv
  <2>2. CASE \E t \in {w \in waiting : Live(w)} :
               /\ \A u \in {w \in waiting : Live(w)} \ {t} : Before(t, u)
               /\ pc' = [pc EXCEPT ![k] = goesTo, ![t.job] = "granted"]
    BY <1>1, <1>2, <2>2 DEF CallsTypeInv
  <2>3. QED
    BY <1>2, <2>1, <2>2 DEF Release
<1>3. CASE \E k \in Jobs : Answer(k) \/ CancelCall(k)
  BY <1>2, <1>3 DEF Answer, CancelCall, Places
<1>4. CASE \E k \in Jobs : Acquire(k)
  BY <1>1, <1>4 DEF Acquire, CallsTypeInv
<1>5. CASE \E k \in Jobs : Resume(k)
  BY <1>1, <1>5 DEF Resume, CallsTypeInv
<1>6. CASE \E k \in Jobs :
             \/ Generate(k) \/ Accept(k) \/ GiveUp(k) \/ Repair(k) \/ BackOff(k) \/ TryAgain(k)
             \/ Withdraw(k) \/ CancelWaiter(k) \/ CancelGranted(k) \/ CancelElsewhere(k)
  <2>1. PICK k \in Jobs, place \in Places \ {"granted", "calling"} : pc' = [pc EXCEPT ![k] = place]
    BY <1>6 DEF Generate, Accept, GiveUp, Repair, BackOff, TryAgain, Withdraw, CancelWaiter,
                CancelGranted, CancelElsewhere, Places
  <2>2. QED
    BY <1>1, <2>1 DEF CallsTypeInv
<1>7. CASE UNCHANGED vars
  BY <1>1, <1>7 DEF vars
<1>8. QED
  BY <1>3, <1>4, <1>5, <1>6, <1>7 DEF Next, Step, Cancel

(* What it passes over is less urgent or later.                            *)
LEMMA WhoIsPassedOver ==
  ASSUME CallsTypeInv, [Next]_vars,
         NEW j \in Holders' \ Holders, NEW t \in waiting, Live(t), t.job # j
  PROVE  \/ Rank[t.job] > Rank[j]
         \/ \E u \in waiting : u.job = j /\ Rank[t.job] = Rank[j] /\ u.number < t.number
<1>1. PICK u \in waiting : u.job = j /\ Before(u, t)
  BY WhoGetsASlot
<1>2. Rank[t.job] \in Nat /\ Rank[u.job] \in Nat
  BY RankAssumption DEF CallsTypeInv, Ticket
<1>3. QED
  BY <1>1, <1>2 DEF Before

LEMMA CallsTypeKept ==
  ASSUME CallsTypeInv, [Next]_vars
  PROVE  CallsTypeInv'
<1>1. ASSUME NEW k \in Jobs, NEW goesTo \in Places, Release(k, goesTo)
      PROVE  inFlight' \in Nat /\ waiting' \subseteq waiting /\ pc' \in [Jobs -> Places]
  <2>1. AtLeastZero(inFlight - 1) \in Nat
    BY DEF AtLeastZero, CallsTypeInv
  <2>2. QED
    BY <1>1, <2>1 DEF Release, CallsTypeInv, Places
<1>2. CASE \E k \in Jobs : Answer(k) \/ CancelCall(k)
  <2>1. PICK k \in Jobs, goesTo \in Places : Release(k, goesTo) /\ sequence' = sequence
    BY <1>2 DEF Answer, CancelCall, Places
  <2>2. QED
    BY <1>1, <2>1 DEF CallsTypeInv
<1>3. CASE \E k \in Jobs : Acquire(k)
  BY <1>3 DEF Acquire, CallsTypeInv, Ticket, Places
<1>4. CASE \E k \in Jobs :
             \/ Generate(k) \/ Resume(k) \/ Accept(k) \/ GiveUp(k) \/ Repair(k) \/ BackOff(k)
             \/ TryAgain(k) \/ Withdraw(k) \/ CancelWaiter(k) \/ CancelGranted(k)
             \/ CancelElsewhere(k)
  <2>1. /\ inFlight' = inFlight /\ waiting' \subseteq waiting /\ sequence' = sequence
        /\ \E k \in Jobs, place \in Places : pc' = [pc EXCEPT ![k] = place]
    BY <1>4 DEF Generate, Resume, Accept, GiveUp, Repair, BackOff, TryAgain, Withdraw,
                CancelWaiter, CancelGranted, CancelElsewhere, Places
  <2>2. QED
    BY <2>1 DEF CallsTypeInv
<1>5. CASE UNCHANGED vars
  BY <1>5 DEF vars, CallsTypeInv
<1>6. QED
  BY <1>2, <1>3, <1>4, <1>5 DEF Next, Step, Cancel

(* A reply is never behind a diary entry: when a job gets a slot, everybody*)
(* who goes on waiting is less urgent, or as urgent and came later.        *)
THEOREM SlotsGoByUrgency == Spec => NobodyIsOvertaken
<1>1. Init => CallsTypeInv
  BY DEF Init, CallsTypeInv, Places
<1>2. CallsTypeInv /\ [Next]_vars => CallsTypeInv'
  BY CallsTypeKept
<1>3. CallsTypeInv /\ [Next]_vars =>
        \A j \in Holders' \ Holders : \A t \in waiting :
          Live(t) /\ t.job # j =>
            \/ Rank[t.job] > Rank[j]
            \/ \E u \in waiting : u.job = j /\ Rank[t.job] = Rank[j] /\ u.number < t.number
  BY WhoIsPassedOver
<1>4. QED
  BY <1>1, <1>2, <1>3, PTL DEF Spec, NobodyIsOvertaken

-----------------------------------------------------------------------------
(***************************************************************************)
(* How many have one.                                                      *)
(***************************************************************************)

LEMMA HoldersAreFinite ==
  ASSUME CallsTypeInv
  PROVE  IsFiniteSet(Holders) /\ Cardinality(Holders) \in Nat
BY JobsAssumption, FS_Subset, FS_CardinalityType DEF Holders

LEMMA SlotsInitially == Init => CallsInv
<1> SUFFICES ASSUME Init PROVE CallsInv
  OBVIOUS
<1>1. Holders = {}
  BY DEF Init, Holders
<1>2. QED
  BY <1>1, FS_EmptySet, BoundsAssumption
  DEF Init, CallsInv, CallsTypeInv, SlotsCounted, Places

(* A release takes its own job from the holders, and may add one waiter.   *)
LEMMA ReleaseKeepsCount ==
  ASSUME CallsInv, NEW j \in Jobs, pc[j] = "calling",
         NEW goesTo \in Places \ {"granted", "calling"}, Release(j, goesTo)
  PROVE  SlotsCounted'
<1>1. j \in Holders /\ IsFiniteSet(Holders) /\ Cardinality(Holders) \in Nat
  BY HoldersAreFinite DEF CallsInv, Holders
<1>2. /\ IsFiniteSet(Holders \ {j})
      /\ Cardinality(Holders \ {j}) = Cardinality(Holders) - 1
  BY <1>1, FS_RemoveElement
<1>3. Cardinality(Holders \ {j}) \in Nat
  BY <1>2, FS_CardinalityType
<1>4. Capacity \in Nat /\ inFlight \in Nat
      /\ Cardinality(Holders) <= inFlight /\ inFlight <= Capacity
  BY BoundsAssumption DEF CallsInv, CallsTypeInv, SlotsCounted
<1>5. AtLeastZero(inFlight - 1) = inFlight - 1
  BY <1>1, <1>2, <1>3, <1>4 DEF AtLeastZero
<1>6. CASE pc' = [pc EXCEPT ![j] = goesTo] /\ inFlight' = AtLeastZero(inFlight - 1)
  <2>1. Holders' = Holders \ {j}
    BY <1>6 DEF Holders, CallsInv, CallsTypeInv
  <2>2. QED
    BY <1>1, <1>2, <1>3, <1>4, <1>5, <1>6, <2>1 DEF SlotsCounted
<1>7. CASE \E t \in waiting : /\ Live(t)
                              /\ inFlight' = AtLeastZero(inFlight - 1) + 1
                              /\ pc' = [pc EXCEPT ![j] = goesTo, ![t.job] = "granted"]
  <2>1. PICK t \in waiting : /\ Live(t)
                             /\ inFlight' = AtLeastZero(inFlight - 1) + 1
                             /\ pc' = [pc EXCEPT ![j] = goesTo, ![t.job] = "granted"]
    BY <1>7
  <2>2. t.job \in Jobs /\ pc[t.job] = "waiting"
    BY <2>1 DEF Live, CallsInv, CallsTypeInv, Ticket
  <2>3. Holders' = (Holders \ {j}) \cup {t.job}
    BY <2>1, <2>2 DEF Holders, CallsInv, CallsTypeInv
  <2>4. t.job \notin Holders \ {j}
    BY <2>2 DEF Holders
  <2>5. Cardinality(Holders') = Cardinality(Holders)
    <3>1. Cardinality((Holders \ {j}) \cup {t.job}) = Cardinality(Holders \ {j}) + 1
      BY <1>2, <2>4, FS_AddElement
    <3>2. QED
      BY <1>1, <1>2, <2>3, <3>1
  <2>6. QED
    BY <1>1, <1>2, <1>3, <1>4, <1>5, <2>1, <2>5 DEF SlotsCounted
<1>8. QED
  BY <1>6, <1>7 DEF Release

LEMMA CountKept ==
  ASSUME CallsInv, [Next]_vars
  PROVE  SlotsCounted'
<1>1. /\ IsFiniteSet(Holders) /\ Cardinality(Holders) \in Nat
      /\ Capacity \in Nat /\ inFlight \in Nat
      /\ Cardinality(Holders) <= inFlight /\ inFlight <= Capacity
  BY HoldersAreFinite, BoundsAssumption DEF CallsInv, CallsTypeInv, SlotsCounted
<1>2. CASE \E j \in Jobs : Answer(j) \/ CancelCall(j)
  BY <1>2, ReleaseKeepsCount DEF Answer, CancelCall, Places
<1>3. CASE \E j \in Jobs : Acquire(j) /\ inFlight < Capacity /\ waiting = {}
  <2>1. PICK j \in Jobs : Acquire(j) /\ inFlight < Capacity /\ waiting = {}
    BY <1>3
  <2>2. inFlight' = inFlight + 1 /\ pc' = [pc EXCEPT ![j] = "calling"] /\ pc[j] = "acquire"
    BY <2>1 DEF Acquire
  <2>3. Holders' = Holders \cup {j}
    BY <2>2 DEF Holders, CallsInv, CallsTypeInv
  <2>4. j \notin Holders
    BY <2>2 DEF Holders
  <2>5. Cardinality(Holders') = Cardinality(Holders) + 1
    BY <1>1, <2>3, <2>4, FS_AddElement
  <2>6. QED
    BY <1>1, <2>1, <2>2, <2>5 DEF SlotsCounted
<1>4. CASE \E j \in Jobs : CancelGranted(j)
  <2>1. PICK j \in Jobs : CancelGranted(j)
    BY <1>4
  <2>2. Holders' = Holders \ {j} /\ j \in Holders /\ inFlight' = inFlight
    BY <2>1 DEF CancelGranted, Holders, CallsInv, CallsTypeInv
  <2>3. Cardinality(Holders') = Cardinality(Holders) - 1
    BY <1>1, <2>2, FS_RemoveElement
  <2>4. QED
    BY <1>1, <2>2, <2>3 DEF SlotsCounted
<1>5. CASE \E j \in Jobs :
             \/ Acquire(j) /\ ~(inFlight < Capacity /\ waiting = {})
             \/ Generate(j) \/ Resume(j) \/ Accept(j) \/ GiveUp(j) \/ Repair(j) \/ BackOff(j)
             \/ TryAgain(j) \/ Withdraw(j) \/ CancelWaiter(j) \/ CancelElsewhere(j)
  <2>1. inFlight' = inFlight
    BY <1>5 DEF Acquire, Generate, Resume, Accept, GiveUp, Repair, BackOff, TryAgain, Withdraw,
                CancelWaiter, CancelElsewhere
  <2>2. Holders' = Holders
    BY <1>5 DEF Acquire, Generate, Resume, Accept, GiveUp, Repair, BackOff, TryAgain, Withdraw,
                CancelWaiter, CancelElsewhere, Holders, CallsInv, CallsTypeInv
  <2>3. QED
    BY <1>1, <2>1, <2>2 DEF SlotsCounted
<1>6. CASE UNCHANGED vars
  BY <1>1, <1>6 DEF vars, SlotsCounted, Holders
<1>7. QED
  BY <1>2, <1>3, <1>4, <1>5, <1>6 DEF Next, Step, Cancel

(* The model is never overloaded: whatever is cancelled, repaired or       *)
(* retried, a slot is counted for every job that holds one, and no more    *)
(* are counted than resources.concurrency.                                 *)
THEOREM TheModelIsNotOverloaded == Spec => []SlotsCounted
<1>1. Init => CallsInv
  BY SlotsInitially
<1>2. CallsInv /\ [Next]_vars => CallsInv'
  BY CallsTypeKept, CountKept DEF CallsInv
<1>3. CallsInv => SlotsCounted
  BY DEF CallsInv
<1>4. QED
  BY <1>1, <1>2, <1>3, PTL DEF Spec

-----------------------------------------------------------------------------
(***************************************************************************)
(* Nobody waits for nothing.                                               *)
(***************************************************************************)

(* A ticket is of a task that waits or is about to withdraw, one for each. *)
OneTicketEach ==
  /\ \A t \in waiting : t.number <= sequence /\ pc[t.job] \in {"waiting", "cancelling"}
  /\ \A t, u \in waiting : t.job = u.job \/ t.number = u.number => t = u

(* Who waits is listed, so that a release can find it, and waits for slots *)
(* that are all counted as taken.                                          *)
WaitersAreListed == \A j \in Jobs : pc[j] = "waiting" => \E t \in waiting : t.job = j
NoSlotIdles == waiting # {} => inFlight = Capacity

QueueInv == OneTicketEach /\ WaitersAreListed /\ NoSlotIdles

LEMMA ReleaseKeepsQueue ==
  ASSUME CallsInv, QueueInv, NEW j \in Jobs, pc[j] = "calling", sequence' = sequence,
         NEW goesTo \in {"answered", "failed", "cancelled"}, Release(j, goesTo)
  PROVE  QueueInv'
<1>1. inFlight \in Nat /\ Capacity \in Nat /\ inFlight >= 1 /\ inFlight <= Capacity
  <2>1. j \in Holders /\ IsFiniteSet(Holders) /\ Cardinality(Holders) \in Nat
    BY HoldersAreFinite DEF CallsInv, Holders
  <2>2. Cardinality(Holders) # 0
    BY <2>1, FS_EmptySet
  <2>3. QED
    BY <2>1, <2>2, BoundsAssumption DEF CallsInv, CallsTypeInv, SlotsCounted
<1>2. AtLeastZero(inFlight - 1) = inFlight - 1
  BY <1>1 DEF AtLeastZero
<1>3. \A t \in waiting : t.job \in Jobs /\ t.number \in Nat /\ Rank[t.job] \in Nat
  BY RankAssumption DEF CallsInv, CallsTypeInv, Ticket
<1>4. CASE /\ \A t \in waiting : ~Live(t)
           /\ waiting' = {} /\ pc' = [pc EXCEPT ![j] = goesTo]
  <2>1. ASSUME NEW k \in Jobs
        PROVE  pc'[k] # "waiting"
    BY <1>4 DEF QueueInv, WaitersAreListed, Live, CallsInv, CallsTypeInv
  <2>2. QED
    BY <1>4, <2>1 DEF QueueInv, OneTicketEach, WaitersAreListed, NoSlotIdles
<1>5. ASSUME NEW t \in waiting, Live(t),
             \A u \in waiting : Live(u) /\ u # t => Before(t, u),
             waiting' = {u \in waiting : u # t /\ ~Before(u, t)},
             inFlight' = AtLeastZero(inFlight - 1) + 1,
             pc' = [pc EXCEPT ![j] = goesTo, ![t.job] = "granted"]
      PROVE  QueueInv'
  <2>1. t.job # j /\ pc[t.job] = "waiting"
    BY <1>5 DEF Live
  <2>2. ASSUME NEW u \in waiting'
        PROVE  u.job # t.job /\ u.job # j /\ pc'[u.job] = pc[u.job]
    <3>1. u \in waiting /\ u # t
      BY <1>5
    <3>2. u.job # t.job /\ u.job # j
      BY <1>5, <3>1 DEF QueueInv, OneTicketEach
    <3>3. QED
      BY <1>3, <1>5, <3>1, <3>2 DEF CallsInv, CallsTypeInv
  <2>3. OneTicketEach'
    BY <1>5, <2>2 DEF QueueInv, OneTicketEach
  <2>4. WaitersAreListed'
    <3> SUFFICES ASSUME NEW k \in Jobs, pc'[k] = "waiting"
                 PROVE  \E u \in waiting' : u.job = k
      BY DEF WaitersAreListed
    <3>1. k # t.job /\ pc[k] = "waiting"
      BY <1>3, <1>5 DEF CallsInv, CallsTypeInv
    <3>2. PICK u \in waiting : u.job = k
      BY <3>1 DEF QueueInv, WaitersAreListed
    <3>3. Before(t, u) /\ u # t
      BY <1>5, <3>1, <3>2 DEF Live
    <3>4. ~Before(u, t)
      BY <1>3, <3>3 DEF Before
    <3>5. QED
      BY <1>5, <3>2, <3>3, <3>4
  <2>5. NoSlotIdles'
    BY <1>1, <1>2, <1>5 DEF QueueInv, NoSlotIdles
  <2>6. QED
    BY <2>3, <2>4, <2>5 DEF QueueInv
<1>6. QED
  <2>1. CASE {t \in waiting : Live(t)} = {} /\ waiting' = {} /\ pc' = [pc EXCEPT ![j] = goesTo]
    BY <1>4, <2>1
  <2>2. CASE \E t \in {w \in waiting : Live(w)} :
               /\ \A u \in {w \in waiting : Live(w)} \ {t} : Before(t, u)
               /\ waiting' = {u \in waiting : u # t /\ ~Before(u, t)}
               /\ inFlight' = AtLeastZero(inFlight - 1) + 1
               /\ pc' = [pc EXCEPT ![j] = goesTo, ![t.job] = "granted"]
    BY <1>5, <2>2
  <2>3. QED
    BY <2>1, <2>2 DEF Release

LEMMA QueueKept ==
  ASSUME CallsInv, QueueInv, [Next]_vars
  PROVE  QueueInv'
<1>1. \A t \in waiting : t.job \in Jobs /\ t.number \in Nat
  BY DEF CallsInv, CallsTypeInv, Ticket
<1>2. sequence \in Nat /\ inFlight \in Nat /\ Capacity \in Nat /\ inFlight <= Capacity
  BY BoundsAssumption DEF CallsInv, CallsTypeInv, SlotsCounted
<1>3. CASE \E j \in Jobs : Answer(j) \/ CancelCall(j)
  BY <1>3, ReleaseKeepsQueue DEF Answer, CancelCall
<1>4. ASSUME NEW j \in Jobs, Acquire(j)
      PROVE  QueueInv'
  <2>1. CASE inFlight < Capacity /\ waiting = {}
    BY <1>4, <2>1 DEF Acquire, QueueInv, OneTicketEach, WaitersAreListed, NoSlotIdles, CallsInv,
                      CallsTypeInv
  <2>2. CASE ~(inFlight < Capacity /\ waiting = {})
    <3> DEFINE new == [job |-> j, number |-> sequence + 1]
    <3>1. /\ waiting' = waiting \cup {new} /\ inFlight' = inFlight
          /\ sequence' = sequence + 1 /\ pc' = [pc EXCEPT ![j] = "waiting"] /\ pc[j] = "acquire"
      BY <1>4, <2>2 DEF Acquire
    <3>2. \A t \in waiting : t.job # j /\ t.number <= sequence
      BY <3>1 DEF QueueInv, OneTicketEach
    <3>3. \A t \in waiting : t.number # new.number
      BY <1>1, <1>2, <3>2
    <3>4. OneTicketEach'
      <4>1. new.job = j /\ new.number = sequence + 1
        OBVIOUS
      <4>2. pc'[j] = "waiting" /\ \A t \in waiting : pc'[t.job] = pc[t.job]
        BY <1>1, <3>1, <3>2 DEF CallsInv, CallsTypeInv
      <4>3. \A t \in waiting' : t.number <= sequence' /\ pc'[t.job] \in {"waiting", "cancelling"}
        <5> SUFFICES ASSUME NEW t \in waiting'
                     PROVE  t.number <= sequence' /\ pc'[t.job] \in {"waiting", "cancelling"}
          OBVIOUS
        <5>1. CASE t \in waiting
          BY <1>1, <1>2, <3>1, <4>2, <5>1 DEF QueueInv, OneTicketEach
        <5>2. CASE t = new
          BY <1>2, <3>1, <4>1, <4>2, <5>2
        <5>3. QED
          BY <3>1, <5>1, <5>2
      <4>4. \A t, u \in waiting' : t.job = u.job \/ t.number = u.number => t = u
        BY <3>1, <3>2, <3>3, <4>1 DEF QueueInv, OneTicketEach
      <4>5. QED
        BY <4>3, <4>4 DEF OneTicketEach
    <3>5. WaitersAreListed'
      <4> SUFFICES ASSUME NEW k \in Jobs, pc'[k] = "waiting"
                   PROVE  \E t \in waiting' : t.job = k
        BY DEF WaitersAreListed
      <4>1. CASE k = j
        <5>1. new \in waiting' /\ new.job = j
          BY <3>1
        <5>2. QED
          BY <4>1, <5>1
      <4>2. CASE k # j
        <5>1. pc[k] = "waiting"
          BY <3>1, <4>2 DEF CallsInv, CallsTypeInv
        <5>2. QED
          BY <3>1, <5>1 DEF QueueInv, WaitersAreListed
      <4>3. QED
        BY <4>1, <4>2
    <3>6. NoSlotIdles'
      BY <1>2, <2>2, <3>1 DEF QueueInv, NoSlotIdles
    <3>7. QED
      BY <3>4, <3>5, <3>6 DEF QueueInv
  <2>3. QED
    BY <2>1, <2>2
<1>5. ASSUME NEW j \in Jobs, Withdraw(j)
      PROVE  QueueInv'
  BY <1>1, <1>5 DEF Withdraw, QueueInv, OneTicketEach, WaitersAreListed, NoSlotIdles, CallsInv,
                    CallsTypeInv
<1>6. ASSUME NEW j \in Jobs, CancelWaiter(j)
      PROVE  QueueInv'
  BY <1>1, <1>6 DEF CancelWaiter, QueueInv, OneTicketEach, WaitersAreListed, NoSlotIdles, CallsInv,
                    CallsTypeInv
<1>7. CASE \E j \in Jobs :
             \/ Generate(j) \/ Resume(j) \/ Accept(j) \/ GiveUp(j) \/ Repair(j) \/ BackOff(j)
             \/ TryAgain(j) \/ CancelGranted(j) \/ CancelElsewhere(j)
  <2>1. PICK j \in Jobs, place \in Places \ {"waiting"} :
          /\ inFlight' = inFlight /\ waiting' = waiting /\ sequence' = sequence
          /\ pc[j] \notin {"waiting", "cancelling"} /\ pc' = [pc EXCEPT ![j] = place]
    BY <1>7 DEF Generate, Resume, Accept, GiveUp, Repair, BackOff, TryAgain, CancelGranted,
                CancelElsewhere, Places
  <2>2. QED
    BY <1>1, <2>1 DEF QueueInv, OneTicketEach, WaitersAreListed, NoSlotIdles, CallsInv, CallsTypeInv
<1>8. CASE UNCHANGED vars
  BY <1>8 DEF vars, QueueInv, OneTicketEach, WaitersAreListed, NoSlotIdles
<1>9. QED
  BY <1>3, <1>4, <1>5, <1>6, <1>7, <1>8 DEF Next, Step, Cancel

(* The queue always works on: no task waits that a release would not find, *)
(* nobody waits while a slot is free, and while anybody waits somebody has *)
(* a slot and will release it - unless slots were lost to cancellation.    *)
THEOREM NobodyWaitsForNothing ==
  Spec => [](/\ WaitersAreListed /\ NoSlotIdles
             /\ waiting # {} => Holders # {} \/ inFlight > Cardinality(Holders))
<1>1. Init => QueueInv
  BY DEF Init, QueueInv, OneTicketEach, WaitersAreListed, NoSlotIdles
<1>2. CallsInv /\ QueueInv /\ [Next]_vars => CallsInv' /\ QueueInv'
  BY QueueKept, CallsTypeKept, CountKept DEF CallsInv
<1>3. CallsInv /\ QueueInv =>
        /\ WaitersAreListed /\ NoSlotIdles
        /\ waiting # {} => Holders # {} \/ inFlight > Cardinality(Holders)
  <2> SUFFICES ASSUME CallsInv, QueueInv, waiting # {}, Holders = {}
               PROVE  inFlight > Cardinality(Holders)
    BY DEF QueueInv
  <2>1. Cardinality(Holders) = 0
    BY FS_EmptySet
  <2>2. QED
    BY <2>1, BoundsAssumption DEF QueueInv, NoSlotIdles
<1>4. QED
  BY <1>1, <1>2, <1>3, SlotsInitially, PTL DEF Spec

-----------------------------------------------------------------------------
(***************************************************************************)
(* The work runs out.                                                      *)
(***************************************************************************)

(* What is left to do for a job: the attempts it may still make, and how   *)
(* far it is from the end of the one it makes.                             *)
ToCome ==
  [idle |-> 9, acquire |-> 8, waiting |-> 7, granted |-> 6, calling |-> 5,
   answered |-> 4, failed |-> 4, backoff |-> 3, cancelling |-> 2,
   accepted |-> 0, gave_up |-> 0, cancelled |-> 0]
WorkLeft(j) == 10 * (MaxAttempts - attempt[j]) + ToCome[pc[j]]

AttemptsInv ==
  /\ attempt \in [Jobs -> 1..MaxAttempts]
  /\ \A j \in Jobs : pc[j] = "backoff" => attempt[j] < MaxAttempts

LEMMA AttemptsKept ==
  ASSUME CallsInv, AttemptsInv, [Next]_vars
  PROVE  AttemptsInv'
<1>1. MaxAttempts \in Nat /\ pc \in [Jobs -> Places]
  BY BoundsAssumption DEF CallsInv, CallsTypeInv
<1>2. ASSUME NEW j \in Jobs, Repair(j) \/ TryAgain(j)
      PROVE  AttemptsInv'
  <2>1. /\ attempt' = [attempt EXCEPT ![j] = @ + 1] /\ attempt[j] < MaxAttempts
        /\ pc' = [pc EXCEPT ![j] = "acquire"]
    BY <1>2 DEF Repair, TryAgain, AttemptsInv
  <2>2. QED
    BY <1>1, <2>1 DEF AttemptsInv
<1>3. ASSUME NEW j \in Jobs, BackOff(j)
      PROVE  AttemptsInv'
  BY <1>1, <1>3 DEF BackOff, AttemptsInv
<1>4. ASSUME NEW j \in Jobs, NEW goesTo \in Places \ {"backoff"}, Release(j, goesTo), attempt' = attempt
      PROVE  AttemptsInv'
  <2>1. \A k \in Jobs : pc'[k] = "backoff" => pc[k] = "backoff"
    BY <1>1, <1>4 DEF Release
  <2>2. QED
    BY <1>4, <2>1 DEF AttemptsInv
<1>5. CASE \E j \in Jobs : Answer(j) \/ CancelCall(j)
  BY <1>4, <1>5 DEF Answer, CancelCall, Places
<1>6. CASE \E j \in Jobs :
             \/ Generate(j) \/ Acquire(j) \/ Resume(j) \/ Accept(j) \/ GiveUp(j) \/ Withdraw(j)
             \/ CancelWaiter(j) \/ CancelGranted(j) \/ CancelElsewhere(j)
  <2>1. PICK j \in Jobs, place \in Places \ {"backoff"} :
          attempt' = attempt /\ pc' = [pc EXCEPT ![j] = place]
    BY <1>6 DEF Generate, Acquire, Resume, Accept, GiveUp, Withdraw, CancelWaiter, CancelGranted,
                CancelElsewhere, Places
  <2>2. QED
    BY <1>1, <2>1 DEF AttemptsInv
<1>7. CASE UNCHANGED vars
  BY <1>7 DEF vars, AttemptsInv
<1>8. QED
  BY <1>2, <1>3, <1>5, <1>6, <1>7 DEF Next, Step, Cancel

LEMMA ToComeIsNat == \A place \in Places : ToCome[place] \in Nat
BY DEF Places, ToCome

(* One job moves to a place with less to come.                             *)
LEMMA OneMoves ==
  ASSUME CallsInv, AttemptsInv, NEW j \in Jobs, NEW place \in Places,
         ToCome[place] < ToCome[pc[j]], attempt' = attempt, pc' = [pc EXCEPT ![j] = place]
  PROVE  (\A k \in Jobs : WorkLeft(k)' <= WorkLeft(k)) /\ WorkLeft(j)' < WorkLeft(j)
<1>1. \A k \in Jobs : /\ ToCome[pc[k]] \in Nat /\ 10 * (MaxAttempts - attempt[k]) \in Int
  BY ToComeIsNat, BoundsAssumption DEF CallsInv, CallsTypeInv, AttemptsInv
<1>2. ToCome[place] \in Nat
  BY ToComeIsNat
<1>3. \A k \in Jobs : pc'[k] = IF k = j THEN place ELSE pc[k]
  BY DEF CallsInv, CallsTypeInv
<1>4. QED
  BY <1>1, <1>2, <1>3 DEF WorkLeft

LEMMA WorkIsDone ==
  ASSUME CallsInv, AttemptsInv, QueueInv, Next
  PROVE  /\ \A k \in Jobs : WorkLeft(k)' <= WorkLeft(k)
         /\ \E k \in Jobs : WorkLeft(k)' < WorkLeft(k)
<1>1. pc \in [Jobs -> Places] /\ MaxAttempts \in Nat
  BY BoundsAssumption DEF CallsInv, CallsTypeInv
<1>2. \A k \in Jobs : /\ ToCome[pc[k]] \in Nat /\ 10 * (MaxAttempts - attempt[k]) \in Int
                       /\ attempt[k] \in 1..MaxAttempts
  BY <1>1, ToComeIsNat DEF AttemptsInv
<1>3. CASE \E j \in Jobs :
             \/ Generate(j) \/ Acquire(j) \/ Resume(j) \/ Accept(j) \/ GiveUp(j) \/ BackOff(j)
             \/ Withdraw(j) \/ CancelWaiter(j) \/ CancelGranted(j) \/ CancelElsewhere(j)
  <2>1. PICK j \in Jobs, place \in Places :
          /\ ToCome[place] < ToCome[pc[j]] /\ attempt' = attempt
          /\ pc' = [pc EXCEPT ![j] = place]
    BY <1>3 DEF Generate, Acquire, Resume, Accept, GiveUp, BackOff, Withdraw, CancelWaiter,
                CancelGranted, CancelElsewhere, Places, ToCome
  <2>2. QED
    BY <2>1, OneMoves
<1>4. ASSUME NEW j \in Jobs, Repair(j) \/ TryAgain(j)
      PROVE  (\A k \in Jobs : WorkLeft(k)' <= WorkLeft(k)) /\ WorkLeft(j)' < WorkLeft(j)
  <2>1. /\ attempt' = [attempt EXCEPT ![j] = @ + 1] /\ pc[j] \in {"answered", "backoff"}
        /\ pc' = [pc EXCEPT ![j] = "acquire"]
    BY <1>4 DEF Repair, TryAgain
  <2>2. ToCome[pc[j]] \in {3, 4} /\ ToCome["acquire"] = 8
    BY <2>1 DEF ToCome
  <2>3. \A k \in Jobs : k # j => WorkLeft(k)' = WorkLeft(k)
    BY <1>1, <2>1 DEF WorkLeft, AttemptsInv
  <2>4. attempt'[j] = attempt[j] + 1 /\ pc'[j] = "acquire"
    BY <1>1, <2>1 DEF AttemptsInv
  <2>5. WorkLeft(j)' = 10 * (MaxAttempts - (attempt[j] + 1)) + 8
    BY <2>2, <2>4 DEF WorkLeft
  <2>6. WorkLeft(j)' < WorkLeft(j)
    BY <1>1, <1>2, <2>2, <2>5 DEF WorkLeft
  <2>7. ASSUME NEW k \in Jobs
        PROVE  WorkLeft(k)' <= WorkLeft(k)
    <3>1. WorkLeft(k) \in Int
      BY <1>2 DEF WorkLeft
    <3>2. WorkLeft(j)' \in Int
      BY <1>1, <1>2, <2>5
    <3>3. CASE k = j
      BY <2>6, <3>1, <3>2, <3>3
    <3>4. CASE k # j
      BY <2>3, <3>1, <3>4
    <3>5. QED
      BY <3>3, <3>4
  <2>8. QED
    BY <2>6, <2>7
<1>5. ASSUME NEW j \in Jobs, NEW goesTo \in {"answered", "failed", "cancelled"},
             pc[j] = "calling", Release(j, goesTo), attempt' = attempt
      PROVE  (\A k \in Jobs : WorkLeft(k)' <= WorkLeft(k)) /\ WorkLeft(j)' < WorkLeft(j)
  <2>1. goesTo \in Places /\ ToCome[goesTo] < ToCome[pc[j]]
    BY <1>5 DEF Places, ToCome
  <2>2. CASE pc' = [pc EXCEPT ![j] = goesTo]
    BY <1>5, <2>1, <2>2, OneMoves
  <2>3. ASSUME NEW t \in waiting, Live(t), pc' = [pc EXCEPT ![j] = goesTo, ![t.job] = "granted"]
        PROVE  (\A k \in Jobs : WorkLeft(k)' <= WorkLeft(k)) /\ WorkLeft(j)' < WorkLeft(j)
    <3>1. t.job \in Jobs /\ pc[t.job] = "waiting" /\ t.job # j
      BY <1>5, <2>3 DEF Live, CallsInv, CallsTypeInv, Ticket
    <3>2. \A k \in Jobs : pc'[k] = IF k = t.job THEN "granted" ELSE IF k = j THEN goesTo ELSE pc[k]
      BY <1>1, <2>3, <3>1
    <3>3. ToCome["granted"] = 6 /\ ToCome["waiting"] = 7 /\ ToCome[goesTo] \in Nat
      BY <2>1, ToComeIsNat DEF ToCome
    <3>4. \A k \in Jobs : ToCome[pc'[k]] \in Nat /\ ToCome[pc'[k]] <= ToCome[pc[k]]
      BY <1>2, <2>1, <3>1, <3>2, <3>3
    <3>5. ToCome[pc'[j]] < ToCome[pc[j]]
      BY <2>1, <3>1, <3>2
    <3>6. QED
      BY <1>2, <1>5, <3>4, <3>5 DEF WorkLeft
  <2>4. QED
    BY <1>5, <2>2, <2>3 DEF Release
<1>6. QED
  BY <1>3, <1>4, <1>5 DEF Next, Step, Cancel, Answer, CancelCall

(* Nothing is done for ever: every step of anybody takes from the work of  *)
(* some job and adds to nobody's, and none goes below nothing, so a finite *)
(* number of calls is over after finitely many steps.  With                *)
(* NobodyWaitsForNothing this is why EveryCallEnds.                        *)
THEOREM TheWorkRunsOut ==
  Spec => /\ [](\A j \in Jobs : WorkLeft(j) \in Nat)
          /\ [][/\ \A j \in Jobs : WorkLeft(j)' <= WorkLeft(j)
                /\ \E j \in Jobs : WorkLeft(j)' < WorkLeft(j)]_vars
<1>1. Init => CallsInv /\ QueueInv /\ AttemptsInv
  <2> SUFFICES ASSUME Init PROVE QueueInv /\ AttemptsInv
    BY SlotsInitially
  <2>1. QueueInv
    BY DEF Init, QueueInv, OneTicketEach, WaitersAreListed, NoSlotIdles
  <2>2. AttemptsInv
    BY BoundsAssumption DEF Init, AttemptsInv
  <2>3. QED
    BY <2>1, <2>2
<1>2. CallsInv /\ QueueInv /\ AttemptsInv /\ [Next]_vars =>
        CallsInv' /\ QueueInv' /\ AttemptsInv'
  BY QueueKept, CallsTypeKept, CountKept, AttemptsKept DEF CallsInv
<1>3. CallsInv /\ AttemptsInv => \A j \in Jobs : WorkLeft(j) \in Nat
  <2> SUFFICES ASSUME CallsInv, AttemptsInv, NEW j \in Jobs
               PROVE  WorkLeft(j) \in Nat
    OBVIOUS
  <2>1. ToCome[pc[j]] \in Nat /\ MaxAttempts - attempt[j] \in Nat
    BY ToComeIsNat, BoundsAssumption DEF CallsInv, CallsTypeInv, AttemptsInv
  <2>2. QED
    BY <2>1 DEF WorkLeft
<1>4. CallsInv /\ QueueInv /\ AttemptsInv /\ [Next]_vars =>
        [/\ \A j \in Jobs : WorkLeft(j)' <= WorkLeft(j)
         /\ \E j \in Jobs : WorkLeft(j)' < WorkLeft(j)]_vars
  BY WorkIsDone
<1>5. QED
  BY <1>1, <1>2, <1>3, <1>4, PTL DEF Spec

-----------------------------------------------------------------------------
(***************************************************************************)
(* Where slots are lost.                                                   *)
(***************************************************************************)

(* Slots that are counted for nobody.                                      *)
LostSlots == inFlight - Cardinality(Holders)

(* A release gives back what its job held, to the count or to one waiter.  *)
LEMMA ReleaseLosesNothing ==
  ASSUME CallsInv, NEW j \in Jobs, pc[j] = "calling",
         NEW goesTo \in Places \ {"granted", "calling"}, Release(j, goesTo)
  PROVE  LostSlots' = LostSlots
<1>1. j \in Holders /\ IsFiniteSet(Holders) /\ Cardinality(Holders) \in Nat
  BY HoldersAreFinite DEF CallsInv, Holders
<1>2. /\ IsFiniteSet(Holders \ {j})
      /\ Cardinality(Holders \ {j}) = Cardinality(Holders) - 1
  BY <1>1, FS_RemoveElement
<1>3. Cardinality(Holders \ {j}) \in Nat
  BY <1>2, FS_CardinalityType
<1>4. inFlight \in Nat /\ Cardinality(Holders) <= inFlight
  BY DEF CallsInv, CallsTypeInv, SlotsCounted
<1>5. AtLeastZero(inFlight - 1) = inFlight - 1
  BY <1>1, <1>2, <1>3, <1>4 DEF AtLeastZero
<1>6. CASE pc' = [pc EXCEPT ![j] = goesTo] /\ inFlight' = AtLeastZero(inFlight - 1)
  <2>1. Holders' = Holders \ {j}
    BY <1>6 DEF Holders, CallsInv, CallsTypeInv
  <2>2. QED
    BY <1>1, <1>2, <1>4, <1>5, <1>6, <2>1 DEF LostSlots
<1>7. ASSUME NEW t \in waiting, Live(t),
             inFlight' = AtLeastZero(inFlight - 1) + 1,
             pc' = [pc EXCEPT ![j] = goesTo, ![t.job] = "granted"]
      PROVE  LostSlots' = LostSlots
  <2>1. t.job \in Jobs /\ pc[t.job] = "waiting"
    BY <1>7 DEF Live, CallsInv, CallsTypeInv, Ticket
  <2>2. Holders' = (Holders \ {j}) \cup {t.job}
    BY <1>7, <2>1 DEF Holders, CallsInv, CallsTypeInv
  <2>3. t.job \notin Holders \ {j}
    BY <2>1 DEF Holders
  <2>4. Cardinality(Holders') = Cardinality(Holders)
    <3>1. Cardinality((Holders \ {j}) \cup {t.job}) = Cardinality(Holders \ {j}) + 1
      BY <1>2, <2>3, FS_AddElement
    <3>2. QED
      BY <1>1, <1>2, <2>2, <3>1
  <2>5. QED
    BY <1>4, <1>5, <1>7, <2>4 DEF LostSlots
<1>8. QED
  BY <1>6, <1>7 DEF Release

(* A slot is lost in one way only: a job that was granted one is cancelled *)
(* before it resumes.  Nothing else loses one, none is lost twice and none *)
(* is ever found again, so each such cancellation costs the queue a slot   *)
(* for the life of the process (the other half of finding 1).              *)
THEOREM SlotsAreLostInOneWay ==
  Spec => [][LostSlots' = LostSlots + (IF \E j \in Jobs : CancelGranted(j) THEN 1 ELSE 0)]_vars
<1>1. ASSUME CallsInv, Next
      PROVE  LostSlots' = LostSlots + (IF \E j \in Jobs : CancelGranted(j) THEN 1 ELSE 0)
  <2>1. /\ IsFiniteSet(Holders) /\ Cardinality(Holders) \in Nat
        /\ inFlight \in Nat /\ LostSlots \in Int
    BY <1>1, HoldersAreFinite DEF CallsInv, CallsTypeInv, LostSlots
  <2>2. ASSUME NEW j \in Jobs, CancelGranted(j)
        PROVE  LostSlots' = LostSlots + 1
    <3>1. Holders' = Holders \ {j} /\ j \in Holders /\ inFlight' = inFlight
      BY <1>1, <2>2 DEF CancelGranted, Holders, CallsInv, CallsTypeInv
    <3>2. Cardinality(Holders') = Cardinality(Holders) - 1
      BY <2>1, <3>1, FS_RemoveElement
    <3>3. QED
      BY <2>1, <3>1, <3>2 DEF LostSlots
  <2>3. ASSUME ~ \E j \in Jobs : CancelGranted(j)
        PROVE  LostSlots' = LostSlots
    <3>1. CASE \E j \in Jobs : Answer(j) \/ CancelCall(j)
      BY <1>1, <3>1, ReleaseLosesNothing DEF Answer, CancelCall, Places
    <3>2. ASSUME NEW j \in Jobs, Acquire(j), inFlight < Capacity /\ waiting = {}
          PROVE  LostSlots' = LostSlots
      <4>1. inFlight' = inFlight + 1 /\ pc' = [pc EXCEPT ![j] = "calling"] /\ pc[j] = "acquire"
        BY <3>2 DEF Acquire
      <4>2. Holders' = Holders \cup {j} /\ j \notin Holders
        BY <1>1, <4>1 DEF Holders, CallsInv, CallsTypeInv
      <4>3. Cardinality(Holders') = Cardinality(Holders) + 1
        BY <2>1, <4>2, FS_AddElement
      <4>4. QED
        BY <2>1, <4>1, <4>3 DEF LostSlots
    <3>3. CASE \E j \in Jobs :
                 \/ Acquire(j) /\ ~(inFlight < Capacity /\ waiting = {})
                 \/ Generate(j) \/ Resume(j) \/ Accept(j) \/ GiveUp(j) \/ Repair(j) \/ BackOff(j)
                 \/ TryAgain(j) \/ Withdraw(j) \/ CancelWaiter(j) \/ CancelElsewhere(j)
      <4>1. inFlight' = inFlight
        BY <3>3 DEF Acquire, Generate, Resume, Accept, GiveUp, Repair, BackOff, TryAgain, Withdraw,
                    CancelWaiter, CancelElsewhere
      <4>2. Holders' = Holders
        BY <1>1, <3>3 DEF Acquire, Generate, Resume, Accept, GiveUp, Repair, BackOff, TryAgain,
                    Withdraw, CancelWaiter, CancelElsewhere, Holders, CallsInv, CallsTypeInv
      <4>3. QED
        BY <4>1, <4>2 DEF LostSlots
    <3>4. QED
      BY <1>1, <2>3, <3>1, <3>2, <3>3 DEF Next, Step, Cancel
  <2>4. QED
    BY <2>1, <2>2, <2>3
<1>2. Init => CallsInv
  BY SlotsInitially
<1>3. CallsInv /\ [Next]_vars => CallsInv'
  BY CallsTypeKept, CountKept DEF CallsInv
<1>4. CallsInv /\ [Next]_vars =>
        [LostSlots' = LostSlots + (IF \E j \in Jobs : CancelGranted(j) THEN 1 ELSE 0)]_vars
  BY <1>1
<1>5. QED
  BY <1>2, <1>3, <1>4, PTL DEF Spec
=============================================================================
