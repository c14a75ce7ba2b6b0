---------------------- MODULE AutonomousRuntimeProofs ----------------------
(***************************************************************************)
(* What holds of the autonomous loop for every schedule, every number of   *)
(* USER turns and any number of stops, crashes and failing ticks.          *)
(***************************************************************************)
EXTENDS AutonomousRuntime, FiniteSetTheorems, WellFoundedInduction, TLAPS

\* A job was offered exactly when its row says so: the row is what a restart finds.
OffersAreRows ==
    /\ status \in [Jobs -> Statuses]
    /\ offers \in [Jobs -> Nat]
    /\ \A j \in Jobs : offers[j] = IF status[j] = "fired" THEN 1 ELSE 0

\* The counter is the number of turns in progress.
TurnsAreCounted ==
    /\ openTurns \subseteq Turns
    /\ userTurns = Cardinality(openTurns)

IInv == OffersAreRows /\ TurnsAreCounted /\ InterruptsSurvive

----------------------------------------------------------------------------
\* Marking a collection keeps the count of offers equal to what the rows say:
\* only pending rows are offered.
LEMMA MarkKeepsOffers ==
    ASSUME OffersAreRows,
           NEW F \in SUBSET Pending, NEW E \in SUBSET Pending,
           Mark(F, E)
    PROVE  OffersAreRows'
<1>1. status' \in [Jobs -> Statuses]
  BY DEF OffersAreRows, Mark, Statuses, Pending
<1>2. offers' \in [Jobs -> Nat]
  BY DEF OffersAreRows, Mark
<1>3. \A j \in Jobs : offers'[j] = IF status'[j] = "fired" THEN 1 ELSE 0
  <2> SUFFICES ASSUME NEW j \in Jobs
               PROVE  offers'[j] = IF status'[j] = "fired" THEN 1 ELSE 0
    OBVIOUS
  <2>1. CASE j \in F
    BY <2>1 DEF OffersAreRows, Mark, Pending
  <2>2. CASE j \notin F
    BY <2>2 DEF OffersAreRows, Mark, Pending
  <2> QED BY <2>1, <2>2
<1> QED BY <1>1, <1>2, <1>3 DEF OffersAreRows

\* A tick sees, offers and retires pending rows only.
LEMMA CollectsPending ==
    /\ Scanned \in SUBSET Pending
    /\ Offered \in SUBSET Scanned /\ Retired \in SUBSET Scanned
BY DEF Scanned, Scan, First, Offered, Retired, Ready

LEMMA CollectionsArePending ==
    ASSUME NEW c \in Collections
    PROVE  c.fired \in SUBSET Pending /\ c.expired \in SUBSET Pending
<1>1. c = Whole \/ c \in Parts
  BY DEF Collections
<1> QED BY <1>1, CollectsPending DEF Whole, Parts

\* Beginning and ending a turn moves the counter by one.
LEMMA CountedTurn ==
    ASSUME NEW S \in SUBSET Turns, NEW t \in Turns
    PROVE  /\ t \notin S => Cardinality(S \cup {t}) = Cardinality(S) + 1
           /\ t \in S => Cardinality(S \ {t}) = Leave(Cardinality(S))
<1>1. IsFiniteSet(S)
  BY FS_Subset, RuntimeAssumption
<1>2. t \notin S => Cardinality(S \cup {t}) = Cardinality(S) + 1
  BY <1>1, FS_AddElement
<1>3. ASSUME t \in S PROVE Cardinality(S \ {t}) = Leave(Cardinality(S))
  <2>1. Cardinality(S \ {t}) = Cardinality(S) - 1
    BY <1>1, <1>3, FS_RemoveElement
  <2>2. Cardinality(S) \in Nat /\ Cardinality(S) # 0
    BY <1>1, <1>3, FS_CardinalityType, FS_EmptySet
  <2> QED BY <2>1, <2>2 DEF Leave, Larger
<1> QED BY <1>2, <1>3

----------------------------------------------------------------------------
LEMMA InitIInv == Init => IInv
<1> SUFFICES ASSUME Init PROVE IInv
  OBVIOUS
<1>1. OffersAreRows
  BY DEF Init, OffersAreRows, Statuses
<1>2. TurnsAreCounted
  BY FS_EmptySet DEF Init, TurnsAreCounted
<1>3. InterruptsSurvive
  BY DEF Init, InterruptsSurvive
<1> QED BY <1>1, <1>2, <1>3 DEF IInv

LEMMA NextOffers ==
    ASSUME OffersAreRows, [Next]_vars
    PROVE  OffersAreRows'
<1>1. ASSUME NEW j \in Jobs, NEW s \in Shapes, Schedule(j, s) PROVE OffersAreRows'
  <2>1. status'  = [status EXCEPT ![j] = "pending"] /\ offers' = offers /\ status[j] = "none"
    BY <1>1 DEF Schedule
  <2> QED BY <2>1 DEF OffersAreRows, Statuses
<1>2. ASSUME UNCHANGED <<status, offers>> PROVE OffersAreRows'
  BY <1>2 DEF OffersAreRows
<1>3. ASSUME NEW c \in Collections, Mark(c.fired, c.expired) PROVE OffersAreRows'
  BY <1>3, CollectionsArePending, MarkKeepsOffers
<1>4. ASSUME Crash PROVE OffersAreRows'
  BY <1>2, <1>3, <1>4 DEF Crash, Collections
<1>5. ASSUME Boot PROVE OffersAreRows'
  <2>1. \A j \in Jobs : Restored(j) \in {status[j], "expired"}
                       /\ (Restored(j) # status[j] => status[j] = "pending")
    BY DEF Restored, Scan, First, Pending
  <2> QED BY <1>5, <2>1 DEF Boot, OffersAreRows, Statuses
<1> QED
  BY <1>1, <1>2, <1>3, <1>4, <1>5
     DEF Next, vars, ConditionFlips, BeginTurn, EndTurn, LookAndSleep, SleepAfter, LookAndAct,
         Collect, LookAndRaise, HandlerEnds, Advance, Stop

LEMMA NextTurns ==
    ASSUME TurnsAreCounted, [Next]_vars
    PROVE  TurnsAreCounted'
<1>1. ASSUME NEW t \in Turns, BeginTurn(t) PROVE TurnsAreCounted'
  BY <1>1, CountedTurn DEF BeginTurn, TurnsAreCounted
<1>2. ASSUME NEW t \in Turns, EndTurn(t) PROVE TurnsAreCounted'
  BY <1>2, CountedTurn DEF EndTurn, TurnsAreCounted
<1>3. ASSUME ForgetMemory PROVE TurnsAreCounted'
  BY <1>3, FS_EmptySet DEF ForgetMemory, TurnsAreCounted
<1>4. ASSUME UNCHANGED <<openTurns, userTurns>> PROVE TurnsAreCounted'
  BY <1>4 DEF TurnsAreCounted
<1> QED
  BY <1>1, <1>2, <1>3, <1>4
     DEF Next, vars, Schedule, ConditionFlips, LookAndSleep, SleepAfter, LookAndAct,
         LookAndRaise, HandlerEnds, Advance, Stop, Crash, Boot

LEMMA NextInterrupts ==
    ASSUME InterruptsSurvive, [Next]_vars
    PROVE  InterruptsSurvive'
<1>1. ASSUME HandlerEnds PROVE InterruptsSurvive'
  BY <1>1 DEF HandlerEnds, FallAsleep, InterruptsSurvive
<1>2. ASSUME Look PROVE InterruptsSurvive'
  BY <1>2 DEF Look, LookAndSleep, SleepAfter, LookAndRaise, LookAndAct, InterruptsSurvive
<1>3. ASSUME Stop \/ Crash \/ Boot PROVE InterruptsSurvive'
  BY <1>3 DEF Stop, Crash, Boot, ForgetMemory, InterruptsSurvive
<1>4. ASSUME NEW t \in Turns, BeginTurn(t) PROVE InterruptsSurvive'
  BY <1>4 DEF BeginTurn, InterruptsSurvive
<1>5. ASSUME UNCHANGED <<called, wake, loop>> PROVE InterruptsSurvive'
  BY <1>5 DEF InterruptsSurvive
<1> QED
  BY <1>1, <1>2, <1>3, <1>4, <1>5
     DEF Next, Look, vars, loopVars, Schedule, ConditionFlips, EndTurn, Advance

\* The invariant is inductive.
LEMMA NextIInv == IInv /\ [Next]_vars => IInv'
BY NextOffers, NextTurns, NextInterrupts DEF IInv

LEMMA Invariance == Spec => []IInv
BY InitIInv, NextIInv, PTL DEF Spec

----------------------------------------------------------------------------
\* A stored job is handed to the loop at most once over all restarts, stops and
\* crashes (jobs/scheduler.py marks it "fired" before it is offered).
THEOREM JobsAreOfferedAtMostOnce == Spec => []OfferedAtMostOnce
<1>1. IInv => OfferedAtMostOnce
  BY DEF IInv, OffersAreRows, OfferedAtMostOnce
<1> QED BY <1>1, Invariance, PTL

\* A message that arrives while she is in the middle of a tick is not lost: the
\* wake flag survives to the next wait (the loop clears it before the tick).
THEOREM NoInterruptIsLost == Spec => []InterruptsSurvive
<1>1. IInv => InterruptsSurvive
  BY DEF IInv
<1> QED BY <1>1, Invariance, PTL

\* No background action is started while any USER turn is in progress, however
\* many overlap (runtime/autonomous.py RUNTIME-003).
THEOREM NothingStartsDuringATurn == Spec => ActsBetweenTurns
<1>1. ASSUME IInv, [Next]_vars, loop # "acting", loop' = "acting"
      PROVE  openTurns = {}
  <2>1. LookAndAct
    BY <1>1 DEF Next, vars, loopVars, Schedule, ConditionFlips, BeginTurn, EndTurn,
                LookAndSleep, SleepAfter, LookAndRaise, HandlerEnds, FallAsleep, Advance,
                Stop, Crash, ForgetMemory, Boot
  <2>2. IsFiniteSet(openTurns)
    BY <1>1, FS_Subset, RuntimeAssumption DEF IInv, TurnsAreCounted
  <2>3. Cardinality(openTurns) \in Nat /\ ~(Cardinality(openTurns) > 0)
    BY <1>1, <2>1, <2>2, FS_CardinalityType
       DEF LookAndAct, BusyWithUser, IInv, TurnsAreCounted
  <2> QED BY <2>2, <2>3, FS_EmptySet
<1>2. IInv /\ [Next]_vars => [(loop # "acting" /\ loop' = "acting") => openTurns = {}]_vars
  BY <1>1
<1> QED BY <1>2, Invariance, PTL DEF Spec, ActsBetweenTurns

-----------------------------------------------------------------------------
(* Progress: how long she sleeps, and what a look does about a backlog.    *)

\* Every set of moments has a first one.
LEMMA FirstMoment ==
    ASSUME NEW S \in SUBSET Nat, S # {}
    PROVE  Smallest(S) \in S /\ \A a \in S : Smallest(S) <= a
<1>1. PICK m \in S : \A n \in S : ~(<<n, m>> \in OpToRel(<, Nat))
  BY NatLessThanWellFounded, WFMin
<1>2. \A n \in S : ~(n < m)
  BY <1>1 DEF OpToRel
<1>3. \E a \in S : \A b \in S : a <= b
  BY <1>2
<1> QED BY <1>3 DEF Smallest

LEMMA LargerIsEither ==
    ASSUME NEW a \in Nat, NEW b \in Nat
    PROVE  Larger(a, b) \in {a, b} /\ Larger(a, b) >= a /\ Larger(a, b) >= b
BY DEF Larger

ClockInv ==
    /\ now \in 0..Horizon
    /\ wokeAt \in 0..now
    /\ deadline \in Nat
    /\ shape \in [Jobs -> [timed : BOOLEAN, due : Nat, expires : Nat]]
    /\ known \subseteq Jobs
    /\ \A j \in known : status[j] # "none"

\* She sleeps no longer than the idle interval, and no longer than to the moment
\* of any timed job she knew of, or the minimum if that has come already.
NeverOversleeps ==
    loop = "asleep" =>
      /\ now <= deadline /\ deadline <= now + Idle
      /\ \A j \in known : shape[j].timed => deadline <= Larger(shape[j].due, now + 1)

\* The plan of a sleep is no later than what was known.
LEMMA SleepIsPlanned ==
    ASSUME ClockInv, NEW moment \in 0..now, NEW P \in SUBSET Jobs
    PROVE  /\ NextWake(moment, P) \in Nat
           /\ NextWake(moment, P) <= moment + Idle
           /\ \A j \in P : shape[j].timed => NextWake(moment, P) <= Larger(shape[j].due, moment + 1)
<1> DEFINE S == {moment + Idle} \cup
                {Larger(shape[j].due, moment + 1) : j \in {i \in P : shape[i].timed}}
<1>1. moment \in Nat /\ moment + Idle \in Nat /\ moment + 1 \in Nat
  BY RuntimeAssumption DEF ClockInv
<1>2. \A j \in P : shape[j].due \in Nat /\ Larger(shape[j].due, moment + 1) \in Nat
  BY <1>1, LargerIsEither DEF ClockInv
<1>3. S \in SUBSET Nat /\ S # {}
  BY <1>1, <1>2
<1>4. Smallest(S) \in S /\ \A a \in S : Smallest(S) <= a
  BY <1>3, FirstMoment
<1>5. NextWake(moment, P) = Smallest(S)
  BY DEF NextWake
<1> QED BY <1>1, <1>3, <1>4, <1>5

LEMMA SleepEnds ==
    ASSUME ClockInv, NEW due \in Nat
    PROVE  /\ SleepUntil(due) \in Nat /\ now <= SleepUntil(due)
           /\ SleepUntil(due) <= Larger(now + 1, due)
<1>1. now \in Nat /\ Horizon \in Nat /\ now <= Horizon
  BY RuntimeAssumption DEF ClockInv
<1>2. Larger(now + 1, due) \in Nat /\ Larger(now + 1, due) >= now + 1
  BY <1>1, LargerIsEither
<1> DEFINE S == {Horizon, Larger(now + 1, due)}
<1>3. S \in SUBSET Nat /\ S # {}
  BY <1>1, <1>2
<1>4. Smallest(S) \in S /\ \A a \in S : Smallest(S) <= a
  BY <1>3, FirstMoment
<1> QED BY <1>1, <1>2, <1>4 DEF SleepUntil

\* So falling asleep at a moment of this tick keeps to what is known.
LEMMA FallingAsleepKeepsTime ==
    ASSUME ClockInv, NEW moment \in 0..now, NEW P \in SUBSET Jobs,
           NEW due, due = NextWake(moment, P) \/ (due = now + Idle /\ P = {}),
           FallAsleep(due)
    PROVE  /\ deadline' \in Nat /\ now <= deadline' /\ deadline' <= now + Idle
           /\ \A j \in P : shape[j].timed => deadline' <= Larger(shape[j].due, now + 1)
<1>1. now \in Nat /\ Idle \in Nat /\ Idle >= 1 /\ moment \in Nat /\ moment <= now
  BY RuntimeAssumption DEF ClockInv
<1>2. due \in Nat /\ due <= now + Idle
  BY <1>1, SleepIsPlanned
<1>3. deadline' = SleepUntil(due)
  BY DEF FallAsleep
<1>4. /\ deadline' \in Nat /\ now <= deadline'
      /\ deadline' <= Larger(now + 1, due)
  BY <1>2, <1>3, SleepEnds
<1>5. Larger(now + 1, due) \in {now + 1, due}
  BY <1>1, <1>2, LargerIsEither
<1>6. ASSUME NEW j \in P, shape[j].timed
      PROVE  deadline' <= Larger(shape[j].due, now + 1)
  <2>1. shape[j].due \in Nat
    BY DEF ClockInv
  <2>2. due <= Larger(shape[j].due, moment + 1)
    BY <1>6, SleepIsPlanned
  <2> QED
    BY <1>1, <1>2, <1>4, <2>1, <2>2 DEF Larger
<1> QED BY <1>1, <1>2, <1>4, <1>5, <1>6

\* Only the rows of a collection are marked, none of them a job without a row.
LEMMA MarkKeepsRows ==
    ASSUME OffersAreRows, NEW F, NEW E, Mark(F, E), NEW j \in Jobs, status[j] # "none"
    PROVE  status'[j] # "none"
BY DEF OffersAreRows, Mark

LEMMA TimeKept ==
    ASSUME OffersAreRows, ClockInv, NeverOversleeps, [Next]_vars
    PROVE  ClockInv' /\ NeverOversleeps'
<1>0. now \in Nat /\ Idle \in Nat \ {0} /\ Horizon \in Nat
  BY RuntimeAssumption DEF ClockInv
<1>1. ASSUME NEW j \in Jobs, NEW s \in Shapes, Schedule(j, s)
      PROVE  ClockInv' /\ NeverOversleeps'
  <2>1. /\ UNCHANGED <<now, wokeAt, deadline, known, loop>>
        /\ status' = [status EXCEPT ![j] = "pending"] /\ status[j] = "none"
        /\ shape' = [shape EXCEPT ![j] = s]
    BY <1>1 DEF Schedule, loopVars
  <2>2. s \in [timed : BOOLEAN, due : Nat, expires : Nat]
    BY RuntimeAssumption
  <2>3. \A i \in known : i # j /\ shape'[i] = shape[i] /\ status'[i] # "none"
    BY <2>1 DEF ClockInv, OffersAreRows
  <2>4. ClockInv'
    BY <2>1, <2>2, <2>3 DEF ClockInv
  <2> QED BY <2>1, <2>3, <2>4 DEF NeverOversleeps
<1>2. ASSUME LookAndSleep
      PROVE  ClockInv' /\ NeverOversleeps'
  <2>1. PICK c \in Collections : SleepAfter(c)
    BY <1>2 DEF LookAndSleep
  <2>2. known' \in SUBSET Jobs /\ \A j \in known' : status[j] = "pending"
    BY <2>1 DEF SleepAfter, First, Pending
  <2>3. /\ now' = now /\ shape' = shape /\ wokeAt' = wokeAt /\ loop' = "asleep"
        /\ Mark(c.fired, c.expired) /\ FallAsleep(NextWake(now, known'))
    BY <2>1 DEF SleepAfter, Collect, FallAsleep
  <2>4. now \in 0..now
    BY <1>0
  <2>5. /\ deadline' \in Nat /\ now <= deadline' /\ deadline' <= now + Idle
        /\ \A j \in known' : shape[j].timed => deadline' <= Larger(shape[j].due, now + 1)
    BY <2>2, <2>3, <2>4, FallingAsleepKeepsTime
  <2>6. \A j \in known' : status'[j] # "none"
    BY <2>2, <2>3, MarkKeepsRows
  <2> QED BY <2>2, <2>3, <2>5, <2>6 DEF ClockInv, NeverOversleeps
<1>3. ASSUME LookAndRaise
      PROVE  ClockInv' /\ NeverOversleeps'
  <2>1. /\ now' = now /\ shape' = shape /\ wokeAt' = wokeAt /\ known' = {} /\ loop' = "asleep"
        /\ FallAsleep(now + Idle)
    BY <1>3 DEF LookAndRaise, FallAsleep
  <2>2. now \in 0..now /\ {} \in SUBSET Jobs
    BY <1>0
  <2>3. deadline' \in Nat /\ now <= deadline' /\ deadline' <= now + Idle
    BY <2>1, <2>2, FallingAsleepKeepsTime
  <2> QED BY <2>1, <2>2, <2>3 DEF ClockInv, NeverOversleeps
<1>4. ASSUME HandlerEnds
      PROVE  ClockInv' /\ NeverOversleeps'
  <2>1. /\ now' = now /\ shape' = shape /\ wokeAt' = 0 /\ status' = status
        /\ known' = Scanned /\ loop' = "asleep" /\ FallAsleep(NextWake(wokeAt, Scanned))
    BY <1>4 DEF HandlerEnds, FallAsleep
  <2>2. Scanned \in SUBSET Pending /\ Scanned \in SUBSET Jobs /\ wokeAt \in 0..now
    BY CollectsPending DEF Pending, ClockInv
  <2>3. /\ deadline' \in Nat /\ now <= deadline' /\ deadline' <= now + Idle
        /\ \A j \in Scanned : shape[j].timed => deadline' <= Larger(shape[j].due, now + 1)
    BY <2>1, <2>2, FallingAsleepKeepsTime
  <2>4. ClockInv'
    BY <1>0, <2>1, <2>2, <2>3 DEF ClockInv, Pending
  <2> QED BY <2>1, <2>3, <2>4 DEF NeverOversleeps
<1>5. ASSUME LookAndAct
      PROVE  ClockInv' /\ NeverOversleeps'
  <2>1. /\ now' = now /\ shape' = shape /\ wokeAt' = now /\ known' = {}
        /\ deadline' = 0 /\ loop' = "acting"
    BY <1>5 DEF LookAndAct
  <2> QED BY <1>0, <2>1 DEF ClockInv, NeverOversleeps
<1>6. ASSUME Advance
      PROVE  ClockInv' /\ NeverOversleeps'
  <2>1. /\ UNCHANGED <<wokeAt, deadline, known, loop, shape, status>>
        /\ now' = now + 1 /\ now < Horizon /\ ~Awake
    BY <1>6 DEF Advance, loopVars
  <2>2. ClockInv'
    BY <1>0, <2>1 DEF ClockInv
  <2>3. ASSUME loop = "asleep"
        PROVE  /\ now + 1 <= deadline /\ deadline <= now + 1 + Idle
               /\ \A j \in known : shape[j].timed => deadline <= Larger(shape[j].due, now + 2)
    <3>1. now < deadline /\ deadline \in Nat
      BY <1>0, <2>1, <2>3 DEF Awake, ClockInv
    <3>2. ASSUME NEW j \in known, shape[j].timed
          PROVE  deadline <= Larger(shape[j].due, now + 2)
      <4>1. deadline <= Larger(shape[j].due, now + 1) /\ shape[j].due \in Nat
        BY <2>3, <3>2 DEF NeverOversleeps, ClockInv
      <4> QED BY <1>0, <3>1, <4>1 DEF Larger
    <3> QED BY <1>0, <2>3, <3>1, <3>2 DEF NeverOversleeps
  <2>4. now + 1 + 1 = now + 2
    BY <1>0
  <2> QED BY <2>1, <2>2, <2>3, <2>4 DEF NeverOversleeps
<1>7. ASSUME Stop \/ Crash
      PROVE  ClockInv' /\ NeverOversleeps'
  <2>1. /\ now' = now /\ shape' = shape /\ deadline' = 0 /\ wokeAt' = 0
        /\ known' = {} /\ loop' = "down"
    BY <1>7 DEF Stop, Crash, ForgetMemory
  <2> QED BY <1>0, <2>1 DEF ClockInv, NeverOversleeps
<1>8. ASSUME Boot
      PROVE  ClockInv' /\ NeverOversleeps'
  <2>1. /\ now' = now /\ shape' = shape /\ deadline' = deadline /\ wokeAt' = wokeAt
        /\ known' = known /\ loop' = "starting" /\ status' = [j \in Jobs |-> Restored(j)]
    BY <1>8 DEF Boot
  <2>2. \A j \in known : status'[j] # "none"
    BY <2>1 DEF Restored, ClockInv
  <2> QED BY <2>1, <2>2 DEF ClockInv, NeverOversleeps
<1>9. ASSUME UNCHANGED <<now, shape, deadline, wokeAt, known, loop, status>>
      PROVE  ClockInv' /\ NeverOversleeps'
  BY <1>9 DEF ClockInv, NeverOversleeps
<1> QED
  BY <1>1, <1>2, <1>3, <1>4, <1>5, <1>6, <1>7, <1>8, <1>9
     DEF Next, vars, loopVars, ConditionFlips, BeginTurn, EndTurn

\* She does not sleep through what is due, whatever turns, faults, stops and
\* crashes come between: once asleep she looks again within the idle interval, at
\* the latest when the first timed job she knew of is due, or a minimum after.
THEOREM NothingDueIsSleptThrough == Spec => []NeverOversleeps
<1>1. Init => ClockInv /\ NeverOversleeps
  BY RuntimeAssumption DEF Init, ClockInv, NeverOversleeps, NoShape
<1>2. OffersAreRows /\ ClockInv /\ NeverOversleeps /\ [Next]_vars => ClockInv' /\ NeverOversleeps'
  BY TimeKept
<1>3. IInv => OffersAreRows
  BY DEF IInv
<1> QED BY <1>1, <1>2, <1>3, Invariance, PTL DEF Spec

----------------------------------------------------------------------------
\* Of any jobs, one goes before the others: the order of a collection is total.
LEMMA FirstOfJobs ==
    ASSUME ClockInv, NEW S \in SUBSET Jobs, S # {}
    PROVE  \E f \in S : \A i \in S : ~Before(i, f)
<1>1. \A i \in S : i \in Nat /\ DueKey(i) + 1 \in Nat /\ DueKey(i) \in Int
  BY RuntimeAssumption DEF ClockInv, DueKey
<1> DEFINE K == {DueKey(i) + 1 : i \in S}
<1>2. K \in SUBSET Nat /\ K # {}
  BY <1>1
<1>3. Smallest(K) \in K /\ \A k \in K : Smallest(K) <= k
  BY <1>2, FirstMoment
<1> DEFINE T == {i \in S : DueKey(i) + 1 = Smallest(K)}
<1>4. T \in SUBSET Nat /\ T # {}
  BY <1>1, <1>3
<1>5. Smallest(T) \in T /\ \A i \in T : Smallest(T) <= i
  BY <1>4, FirstMoment
<1> HIDE DEF T, K
<1>6. PICK f \in T : \A i \in T : f <= i
  BY <1>5
<1>7. f \in S /\ DueKey(f) + 1 = Smallest(K)
  BY DEF T
<1>8. ASSUME NEW i \in S
      PROVE  ~Before(i, f)
  <2>1. DueKey(f) + 1 <= DueKey(i) + 1
    BY <1>3, <1>7 DEF K
  <2>2. DueKey(i) = DueKey(f) => f <= i
    BY <1>6, <1>7 DEF T
  <2> QED BY <1>1, <1>7, <2>1, <2>2 DEF Before
<1> QED BY <1>7, <1>8

LEMMA BeforeIsAnOrder ==
    ASSUME ClockInv, NEW i \in Jobs, NEW j \in Jobs, NEW k \in Jobs, Before(i, j), Before(j, k)
    PROVE  Before(i, k)
<1>1. /\ i \in Nat /\ j \in Nat /\ k \in Nat
      /\ DueKey(i) \in Int /\ DueKey(j) \in Int /\ DueKey(k) \in Int
  BY RuntimeAssumption DEF ClockInv, DueKey
<1> QED BY <1>1 DEF Before

\* A look at the schedule takes every job it sees that is due, or one before it.
LookServes ==
    \A j \in Scanned :
      (shape[j].timed /\ shape[j].due <= now) \/ IsExpired(j) =>
        \/ status'[j] # "pending"
        \/ \E i \in Scanned : Before(i, j) /\ status'[i] = "fired"

\* Or something raised, and what the look took it took from the front.
LookIsCutShort ==
    /\ faults' = faults + 1
    /\ \A j \in Jobs : status'[j] # status[j] =>
          /\ j \in Offered \cup Retired
          /\ \A i \in Offered \cup Retired : Before(i, j) => status'[i] # "pending"

LEMMA LookTakesTheFirst ==
    ASSUME ClockInv, Mark(Offered, Retired)
    PROVE  LookServes
<1> SUFFICES ASSUME NEW j \in Scanned,
                    (shape[j].timed /\ shape[j].due <= now) \/ IsExpired(j)
             PROVE  \/ status'[j] # "pending"
                    \/ \E i \in Scanned : Before(i, j) /\ status'[i] = "fired"
  BY DEF LookServes
<1>1. /\ Scanned \subseteq Jobs /\ Ready \subseteq Scanned
      /\ Offered \subseteq Ready /\ Retired \subseteq Scanned
  BY CollectsPending DEF Pending, Ready, Offered, First
<1>2. \A i \in Offered : status'[i] = "fired"
  BY <1>1 DEF Mark
<1>3. CASE IsExpired(j)
  <2>1. CASE j \in Retired
    BY <1>1, <2>1 DEF Mark
  <2>2. CASE j \notin Retired
    <3>1. ~(Cardinality({i \in Offered : Before(i, j)}) < MaxPerTick)
      BY <1>3, <2>2 DEF Retired
    <3>2. {i \in Offered : Before(i, j)} # {}
      BY <3>1, FS_EmptySet, RuntimeAssumption
    <3> QED BY <1>1, <1>2, <3>2
  <2> QED BY <2>1, <2>2
<1>4. CASE ~IsExpired(j)
  <2>1. j \in Ready
    <3>1. now \in Nat /\ shape[j].due \in Nat /\ shape[j].timed /\ shape[j].due <= now
      BY <1>1, <1>4 DEF ClockInv
    <3> QED BY <1>4, <3>1 DEF Ready
  <2> DEFINE S == {i \in Ready : i = j \/ Before(i, j)}
  <2>2. PICK f \in S : \A i \in S : ~Before(i, f)
    BY <1>1, <2>1, FirstOfJobs
  <2>3. \A i \in Ready : ~Before(i, f)
    <3> SUFFICES ASSUME NEW i \in Ready, Before(i, f)
                 PROVE  FALSE
      OBVIOUS
    <3>1. i \in S
      BY <1>1, <2>2, BeforeIsAnOrder
    <3> QED BY <2>2, <3>1
  <2>4. {i \in Ready : Before(i, f)} = {}
    BY <2>3
  <2>5. f \in Offered
    BY <2>2, <2>4, FS_EmptySet, RuntimeAssumption DEF Offered, First
  <2> QED BY <1>1, <1>2, <2>2, <2>5
<1> QED BY <1>3, <1>4

\* A collection that ended on the way is the front of one.
LEMMA PartsAreFronts ==
    ASSUME ClockInv, NEW c \in Parts, Mark(c.fired, c.expired), faults' = faults + 1
    PROVE  LookIsCutShort
<1> DEFINE marked == Offered \cup Retired
<1>1. PICK rows \in {{}} \cup {{j \in marked : j = last \/ Before(j, last)} : last \in marked} :
        c = [fired |-> Offered \cap rows, expired |-> Retired \cap rows, raised |-> 1]
  BY DEF Parts, Whole
<1>2. marked \subseteq Jobs
  BY CollectsPending DEF Pending
<1>3. \A j \in rows, i \in marked : Before(i, j) => i \in rows
  BY <1>1, <1>2, BeforeIsAnOrder
<1>4. \A j \in Jobs : status'[j] # status[j] => j \in marked /\ j \in rows
  BY <1>1 DEF Mark
<1>5. \A i \in marked : i \in rows => status'[i] # "pending"
  BY <1>1, <1>2 DEF Mark
<1> QED BY <1>3, <1>4, <1>5 DEF LookIsCutShort

LEMMA LookServesOrIsCutShort ==
    ASSUME ClockInv, Look
    PROVE  LookServes \/ LookIsCutShort
<1>1. PICK c \in Collections :
        Mark(c.fired, c.expired) /\ (faults' = faults + c.raised \/ faults' = faults + 1)
  BY DEF Look, LookAndSleep, SleepAfter, LookAndAct, LookAndRaise, Collect
<1>2. CASE c = Whole
  BY <1>1, <1>2, LookTakesTheFirst DEF Whole
<1>3. CASE c \in Parts
  <2>1. c.raised = 1
    BY <1>3 DEF Parts
  <2> QED BY <1>1, <1>3, <2>1, PartsAreFronts
<1> QED BY <1>2, <1>3 DEF Collections

\* No backlog holds a job up for ever: every look at the schedule, whatever is
\* chosen and even if the tick raises after it, takes each job among the rows it
\* looks at that is due or has expired, or one that goes before it; what is
\* taken is never pending again.  A look the scheduler itself raises in takes the
\* front of that.  What lies behind ScanLimit rows that stay is not looked at.
THEOREM EveryLookServesTheQueue == Spec => [][Look => LookServes \/ LookIsCutShort]_vars
<1>1. Init => ClockInv /\ NeverOversleeps
  BY RuntimeAssumption DEF Init, ClockInv, NeverOversleeps, NoShape
<1>2. OffersAreRows /\ ClockInv /\ NeverOversleeps /\ [Next]_vars => ClockInv' /\ NeverOversleeps'
  BY TimeKept
<1>3. IInv => OffersAreRows
  BY DEF IInv
<1>4. ClockInv /\ [Next]_vars => [Look => LookServes \/ LookIsCutShort]_vars
  BY LookServesOrIsCutShort
<1> QED BY <1>1, <1>2, <1>3, <1>4, Invariance, PTL DEF Spec
=======
