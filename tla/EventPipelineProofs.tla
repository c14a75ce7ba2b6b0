------------------------ MODULE EventPipelineProofs ------------------------
(***************************************************************************)
(* Theorems about EventPipeline, for every set of events, subscribers,     *)
(* keys and calls and every bound.  All rest on the inductive invariant    *)
(* IInv: it holds initially, one lemma per action shows it preserved, and  *)
(* the properties are its conjuncts or follow from it for a single step.   *)
(* RecordsAgree adds RecordsInv, preserved step by step under IInv.        *)
(***************************************************************************)
EXTENDS EventPipelineInvariant, TLAPS

(* The run a call works on is a run identity.                              *)
LEMMA RunType ==
  ASSUME TypeOK, NEW c \in Calls PROVE Run(c) \in RunIds
BY DEF TypeOK, Run, RunIds

(* While next points at a subscription, its delivery is a table row.       *)
LEMMA DeliveryType ==
  ASSUME TypeOK, NEW c \in Calls, next[c] <= Len(Subs(c))
  PROVE  Subscriber(c) \in Subscribers /\ Delivery(c) \in Events \X Subscribers
<1>1. Subs(c) \in Seq(Subscribers) /\ EventOf[c] \in Events
  BY EventOfAssumption, SubscriptionsAssumption DEF Subs
<1>2. next[c] \in 1..Len(Subs(c))
  BY <1>1 DEF TypeOK
<1> QED
  BY <1>1, <1>2 DEF Subscriber, Delivery

(* A step that leaves runs, deliveries, state and log alone.               *)
LEMMA LedgerUnchanged ==
  ASSUME EffectsAreConsumed, OnlyCommittedRunsChangeState, NoLostUpdate, EffectOnce,
         UNCHANGED <<runs, deliveries, state, changes>>
  PROVE  /\ EffectsAreConsumed'
         /\ OnlyCommittedRunsChangeState'
         /\ NoLostUpdate'
         /\ EffectOnce'
BY DEF EffectsAreConsumed, OnlyCommittedRunsChangeState, NoLostUpdate, EffectOnce, RowsOf

(* A step that moves a delivery nobody has consumed.                       *)
LEMMA DeliveryMoved ==
  ASSUME TypeOK, EffectsAreConsumed, OnlyCommittedRunsChangeState, NoLostUpdate, EffectOnce,
         NEW d \in Events \X Subscribers, deliveries[d].status # "completed",
         NEW row, deliveries' = [deliveries EXCEPT ![d] = row],
         UNCHANGED <<runs, state, changes>>
  PROVE  /\ EffectsAreConsumed'
         /\ OnlyCommittedRunsChangeState'
         /\ NoLostUpdate'
         /\ EffectOnce'
<1>1. EffectsAreConsumed'
  <2>1. SUFFICES ASSUME NEW ch \in changes
                 PROVE  deliveries'[<<ch.event, ch.subscriber>>].status = "completed"
    BY DEF EffectsAreConsumed
  <2>2. <<ch.event, ch.subscriber>> \in Events \X Subscribers
    BY DEF TypeOK, ChangeRow
  <2>3. <<ch.event, ch.subscriber>> # d
    BY DEF EffectsAreConsumed
  <2> QED
    BY <2>2, <2>3 DEF EffectsAreConsumed, TypeOK
<1>2. OnlyCommittedRunsChangeState' /\ NoLostUpdate' /\ EffectOnce'
  BY DEF OnlyCommittedRunsChangeState, NoLostUpdate, EffectOnce, RowsOf
<1> QED
  BY <1>1, <1>2

(* A step that gives a run with no effects an uncommitted status.          *)
LEMMA RunMoved ==
  ASSUME TypeOK, EffectsAreConsumed, OnlyCommittedRunsChangeState, NoLostUpdate, EffectOnce,
         NEW r \in RunIds, runs[r] # "committed",
         NEW status, status # "committed", runs' = [runs EXCEPT ![r] = status],
         UNCHANGED <<deliveries, state, changes>>
  PROVE  /\ EffectsAreConsumed'
         /\ OnlyCommittedRunsChangeState'
         /\ NoLostUpdate'
         /\ EffectOnce'
BY DEF TypeOK, EffectsAreConsumed, OnlyCommittedRunsChangeState, NoLostUpdate, EffectOnce, RowsOf

(* A failure row is well typed.                                            *)
LEMMA FailureType ==
  ASSUME TypeOK, NEW c \in Calls, NEW reason \in ReasonCodes
  PROVE  Failure(c, reason) \in [run : RunIds, reason : ReasonCodes]
BY RunType DEF Failure

(* Dropping the locals of a run keeps their types.                         *)
LEMMA EndRunType ==
  ASSUME TypeOK, NEW c \in Calls, EndRun(c)
  PROVE  /\ next' \in [Calls -> Nat]
         /\ \A d \in Calls : next'[d] \in 1..(Len(Subs(d)) + 1)
         /\ snapshot' \in [Calls -> [Keys -> [version : Nat, value : SUBSET RunIds]]]
         /\ proposals' \in [Calls -> SUBSET (Subscribers \X Keys)]
         /\ handled' \in [Calls -> SUBSET Subscribers]
<1>1. Len(Subs(c)) \in Nat
  BY EventOfAssumption, SubscriptionsAssumption DEF Subs
<1>2. next' \in [Calls -> Nat] /\ \A d \in Calls : next'[d] \in 1..(Len(Subs(d)) + 1)
  BY <1>1 DEF EndRun, TypeOK
<1> QED
  BY <1>2 DEF EndRun, EmptyState, TypeOK

(* A call begins; no other call of its event is active.                    *)
LEMMA ProcessPreserves ==
  ASSUME IInv, NEW c \in Calls, Process(c)
  PROVE  IInv'
<1> USE BoundsAssumption, EventOfAssumption, SubscriptionsAssumption DEF IInv
<1>1. TypeOK'
  BY DEF Process, dbVars, procVars, runLocals, TypeOK, Places, Subs
<1>2. OneCallPerEvent'
  BY DEF TypeOK, Process, dbVars, procVars, runLocals, OneCallPerEvent,
    Active, Suspended
<1>3. NextInBounds'
  BY DEF TypeOK, Process, dbVars, procVars, runLocals, NextInBounds,
    AtHandler, Subs
<1>4. RunsFollowCalls'
  BY DEF TypeOK, Process, dbVars, procVars, runLocals, RunsFollowCalls,
    InRun, Run, RunIds
<1>5. SnapshotsAreOldState'
  BY DEF TypeOK, Process, dbVars, procVars, runLocals, SnapshotsAreOldState,
    InRun
<1>6. ProposalsOwned'
  BY DEF TypeOK, Process, dbVars, procVars, runLocals, ProposalsOwned
<1>7. HandledIsUnconsumed'
  BY DEF TypeOK, Process, dbVars, procVars, runLocals, HandledIsUnconsumed,
    Active, Suspended, Delivery, Subscriber, Subs
<1>8. /\ EffectsAreConsumed' /\ OnlyCommittedRunsChangeState'
      /\ NoLostUpdate' /\ EffectOnce'
  BY LedgerUnchanged DEF Process, dbVars, procVars, runLocals
<1>9. AttemptsBounded'
  BY DEF Process, dbVars, procVars, runLocals, AttemptsBounded, Retryable
<1>10. NobodyActiveWhenDown'
  BY DEF Process, NobodyActiveWhenDown, Active, Suspended, procVars
<1> QED
  BY <1>1, <1>2, <1>3, <1>4, <1>5, <1>6, <1>7, <1>8, <1>9, <1>10 DEF IInv

(* Storing the event touches nothing the invariant speaks of.              *)
LEMMA AppendEventPreserves ==
  ASSUME IInv, NEW c \in Calls, AppendEvent(c)
  PROVE  IInv'
<1> USE BoundsAssumption, EventOfAssumption, SubscriptionsAssumption DEF IInv
<1>1. TypeOK'
  BY DEF AppendEvent, dbVars, procVars, runLocals, TypeOK, Places, Subs
<1>2. OneCallPerEvent'
  BY DEF TypeOK, AppendEvent, dbVars, procVars, runLocals, OneCallPerEvent,
    Active, Suspended
<1>3. NextInBounds'
  BY DEF TypeOK, AppendEvent, dbVars, procVars, runLocals, NextInBounds,
    AtHandler, Subs
<1>4. RunsFollowCalls'
  BY DEF TypeOK, AppendEvent, dbVars, procVars, runLocals, RunsFollowCalls,
    InRun, Run, RunIds
<1>5. SnapshotsAreOldState'
  BY DEF TypeOK, AppendEvent, dbVars, procVars, runLocals,
    SnapshotsAreOldState, InRun
<1>6. ProposalsOwned'
  BY DEF TypeOK, AppendEvent, dbVars, procVars, runLocals, ProposalsOwned
<1>7. HandledIsUnconsumed'
  BY DEF TypeOK, AppendEvent, dbVars, procVars, runLocals,
    HandledIsUnconsumed, Active, Suspended, Delivery, Subscriber, Subs
<1>8. /\ EffectsAreConsumed' /\ OnlyCommittedRunsChangeState'
      /\ NoLostUpdate' /\ EffectOnce'
  BY LedgerUnchanged DEF AppendEvent, dbVars, procVars, runLocals
<1>9. AttemptsBounded'
  BY DEF AppendEvent, dbVars, procVars, runLocals, AttemptsBounded,
    Retryable
<1>10. NobodyActiveWhenDown'
  BY DEF AppendEvent, NobodyActiveWhenDown, Active, Suspended, procVars
<1> QED
  BY <1>1, <1>2, <1>3, <1>4, <1>5, <1>6, <1>7, <1>8, <1>9, <1>10 DEF IInv

(* The snapshot taken here is the present state.                           *)
LEMMA OpenRunPreserves ==
  ASSUME IInv, NEW c \in Calls, OpenRun(c)
  PROVE  IInv'
<1> USE BoundsAssumption, EventOfAssumption, SubscriptionsAssumption DEF IInv
<1>1. TypeOK'
  BY DEF OpenRun, dbVars, procVars, runLocals, TypeOK, Places, Subs, Run,
    RunIds, RunStatus
<1>2. OneCallPerEvent'
  BY DEF TypeOK, OpenRun, dbVars, procVars, runLocals, OneCallPerEvent,
    Active, Suspended, Run, RunIds
<1>3. NextInBounds'
  BY DEF TypeOK, OpenRun, dbVars, procVars, runLocals, NextInBounds,
    AtHandler, Subs, Run, RunIds
<1>4. RunsFollowCalls'
  BY DEF TypeOK, OpenRun, dbVars, procVars, runLocals, RunsFollowCalls,
    InRun, Run, RunIds
<1>5. SnapshotsAreOldState'
  BY DEF TypeOK, OpenRun, dbVars, procVars, runLocals, SnapshotsAreOldState,
    InRun, Run, RunIds
<1>6. ProposalsOwned'
  BY DEF TypeOK, OpenRun, dbVars, procVars, runLocals, ProposalsOwned, Run,
    RunIds
<1>7. HandledIsUnconsumed'
  BY DEF TypeOK, OpenRun, dbVars, procVars, runLocals, HandledIsUnconsumed,
    Active, Suspended, Delivery, Subscriber, Subs, Run, RunIds
<1>8. /\ EffectsAreConsumed' /\ OnlyCommittedRunsChangeState'
      /\ NoLostUpdate' /\ EffectOnce'
  <2>1. Run(c) \in RunIds /\ runs[Run(c)] # "committed"
    BY RunType DEF RunsFollowCalls, OpenRun, InRun
  <2> QED
    BY <2>1, RunMoved DEF OpenRun
<1>9. AttemptsBounded'
  BY DEF OpenRun, dbVars, procVars, runLocals, AttemptsBounded, Retryable
<1>10. NobodyActiveWhenDown'
  BY DEF OpenRun, NobodyActiveWhenDown, Active, Suspended, procVars
<1> QED
  BY <1>1, <1>2, <1>3, <1>4, <1>5, <1>6, <1>7, <1>8, <1>9, <1>10 DEF IInv

(* Interpretation may add a failure row only.                              *)
LEMMA InterpretPreserves ==
  ASSUME IInv, NEW c \in Calls, Interpret(c)
  PROVE  IInv'
<1> USE BoundsAssumption, EventOfAssumption, SubscriptionsAssumption DEF IInv
<1>1. TypeOK'
  BY SMTT(30), RunType DEF Interpret, dbVars, procVars, runLocals, TypeOK, Places,
    Subs, Failure, ReasonCodes
<1>2. OneCallPerEvent'
  BY DEF TypeOK, Interpret, dbVars, procVars, runLocals, OneCallPerEvent,
    Active, Suspended
<1>3. NextInBounds'
  BY DEF TypeOK, Interpret, dbVars, procVars, runLocals, NextInBounds,
    AtHandler, Subs
<1>4. RunsFollowCalls'
  BY SMTT(30) DEF TypeOK, Interpret, dbVars, procVars, runLocals, RunsFollowCalls,
    InRun, Run, RunIds
<1>5. SnapshotsAreOldState'
  BY DEF TypeOK, Interpret, dbVars, procVars, runLocals,
    SnapshotsAreOldState, InRun
<1>6. ProposalsOwned'
  BY DEF TypeOK, Interpret, dbVars, procVars, runLocals, ProposalsOwned
<1>7. HandledIsUnconsumed'
  BY DEF TypeOK, Interpret, dbVars, procVars, runLocals,
    HandledIsUnconsumed, Active, Suspended, Delivery, Subscriber, Subs
<1>8. /\ EffectsAreConsumed' /\ OnlyCommittedRunsChangeState'
      /\ NoLostUpdate' /\ EffectOnce'
  BY LedgerUnchanged DEF Interpret, dbVars, procVars, runLocals
<1>9. AttemptsBounded'
  BY DEF Interpret, dbVars, procVars, runLocals, AttemptsBounded, Retryable
<1>10. NobodyActiveWhenDown'
  BY DEF Interpret, NobodyActiveWhenDown, Active, Suspended, procVars
<1> QED
  BY <1>1, <1>2, <1>3, <1>4, <1>5, <1>6, <1>7, <1>8, <1>9, <1>10 DEF IInv

(* Reserving a delivery cannot disturb the one another call is at: the     *)
(* other call processes another event.                                     *)
LEMMA ReserveDeliveryPreserves ==
  ASSUME IInv, NEW c \in Calls, ReserveDelivery(c)
  PROVE  IInv'
<1> USE BoundsAssumption, EventOfAssumption, SubscriptionsAssumption DEF IInv
<1>1. TypeOK'
  <2>1. Delivery(c) \in Events \X Subscribers
    BY DeliveryType DEF ReserveDelivery, AtSubscription
  <2>2. deliveries[Delivery(c)] \in DeliveryRow
    BY <2>1 DEF TypeOK, DeliveryRow
  <2>3. deliveries' \in [Events \X Subscribers -> DeliveryRow]
    BY <2>1, <2>2 DEF ReserveDelivery, TypeOK, DeliveryRow, DeliveryStatus
  <2>4. next' \in [Calls -> Nat] /\ \A d \in Calls : next'[d] \in 1..(Len(Subs(d)) + 1)
    BY DEF ReserveDelivery, TypeOK, runLocals, Subs, AtSubscription
  <2> QED
    BY <2>3, <2>4 DEF ReserveDelivery, TypeOK, DeliveryRow, Places, procVars, runLocals, Subs
<1>2. OneCallPerEvent'
  BY DEF TypeOK, ReserveDelivery, dbVars, procVars, runLocals,
    OneCallPerEvent, Active, Suspended, AtSubscription, Retryable, Delivery,
    Subscriber
<1>3. NextInBounds'
  BY DEF TypeOK, ReserveDelivery, dbVars, procVars, runLocals, NextInBounds,
    AtHandler, Subs, AtSubscription, Retryable, Delivery, Subscriber
<1>4. RunsFollowCalls'
  BY DEF TypeOK, ReserveDelivery, dbVars, procVars, runLocals,
    RunsFollowCalls, InRun, Run, RunIds, AtSubscription, Retryable,
    Delivery, Subscriber
<1>5. SnapshotsAreOldState'
  BY DEF TypeOK, ReserveDelivery, dbVars, procVars, runLocals,
    SnapshotsAreOldState, InRun, AtSubscription, Retryable, Delivery,
    Subscriber
<1>6. ProposalsOwned'
  BY DEF TypeOK, ReserveDelivery, dbVars, procVars, runLocals,
    ProposalsOwned, AtSubscription, Retryable, Delivery, Subscriber
<1>7. HandledIsUnconsumed'
  <2>1. Delivery(c) \in Events \X Subscribers
    BY DeliveryType DEF ReserveDelivery, AtSubscription
  <2>2. ASSUME NEW x \in Events \X Subscribers, deliveries[x].status # "completed"
        PROVE  deliveries'[x].status # "completed"
    BY <2>1, <2>2 DEF ReserveDelivery, TypeOK
  <2>3. \A d \in Calls : pc[d] \in AtHandler => Delivery(d) \in Events \X Subscribers
    BY DeliveryType DEF NextInBounds
  <2>4. pc'[c] = "handle" => deliveries'[Delivery(c)].status = "pending"
    BY <2>1 DEF ReserveDelivery, TypeOK, AtSubscription
  <2>5. \A d \in Calls : d # c => pc'[d] = pc[d] /\ next'[d] = next[d]
    BY DEF ReserveDelivery, TypeOK, runLocals
  <2>6. pc'[c] = "handle" /\ handled' = handled
    BY DEF ReserveDelivery, AtSubscription, TypeOK, runLocals
  <2>7. ASSUME NEW d \in Calls
        PROVE  \A s \in handled'[d] :
                 Active(d)' /\ deliveries'[<<EventOf[d], s>>].status # "completed"
    BY <2>2, <2>5, <2>6 DEF HandledIsUnconsumed, Active, Suspended, TypeOK
  <2>8. ASSUME NEW d \in Calls, d # c, pc[d] \in {"handle", "mark_failed"}
        PROVE  deliveries'[Delivery(d)].status = "pending"
    <3>1. EventOf[d] # EventOf[c]
      BY <2>8 DEF OneCallPerEvent, Active, Suspended, ReserveDelivery, AtSubscription
    <3>2. Delivery(d) \in Events \X Subscribers /\ Delivery(d) # Delivery(c)
      BY <2>3, <2>8, <3>1 DEF AtHandler, Delivery
    <3> QED
      BY <2>8, <3>2 DEF ReserveDelivery, TypeOK, HandledIsUnconsumed
  <2>9. \A d \in Calls : next'[d] = next[d] => Delivery(d)' = Delivery(d)
    BY DEF Delivery, Subscriber, Subs
  <2>10. ASSUME NEW d \in Calls, pc'[d] \in {"handle", "mark_failed"}
         PROVE  deliveries'[Delivery(d)'].status = "pending"
    BY <2>4, <2>5, <2>6, <2>8, <2>9, <2>10 DEF ReserveDelivery, runLocals
  <2> QED
    BY <2>7, <2>10 DEF HandledIsUnconsumed
<1>8. /\ EffectsAreConsumed' /\ OnlyCommittedRunsChangeState'
      /\ NoLostUpdate' /\ EffectOnce'
  <2>1. Delivery(c) \in Events \X Subscribers /\ deliveries[Delivery(c)].status # "completed"
    BY DeliveryType DEF ReserveDelivery, AtSubscription, Retryable
  <2> QED
    BY <2>1, DeliveryMoved DEF ReserveDelivery
<1>9. AttemptsBounded'
  <2>1. Delivery(c) \in Events \X Subscribers
    BY DeliveryType DEF ReserveDelivery, AtSubscription, NextInBounds,
      AtHandler
  <2> QED
    BY <2>1 DEF ReserveDelivery, AttemptsBounded, TypeOK, Retryable,
      HandledIsUnconsumed
<1>10. NobodyActiveWhenDown'
  BY DEF ReserveDelivery, NobodyActiveWhenDown, Active, Suspended, procVars,
    AtSubscription, Retryable, Delivery, Subscriber
<1> QED
  BY <1>1, <1>2, <1>3, <1>4, <1>5, <1>6, <1>7, <1>8, <1>9, <1>10 DEF IInv

(* The delivery given up is not consumed, and its attempts pass the budget *)
(* once.                                                                   *)
LEMMA GiveUpDeliveryPreserves ==
  ASSUME IInv, NEW c \in Calls, GiveUpDelivery(c)
  PROVE  IInv'
<1> USE BoundsAssumption, EventOfAssumption, SubscriptionsAssumption DEF IInv
<1>1. TypeOK'
  <2>1. Delivery(c) \in Events \X Subscribers
    BY DeliveryType DEF GiveUpDelivery, AtSubscription
  <2>2. deliveries[Delivery(c)] \in DeliveryRow
    BY <2>1 DEF TypeOK, DeliveryRow
  <2>3. deliveries' \in [Events \X Subscribers -> DeliveryRow]
    <3>1. deliveries[Delivery(c)].attempts \in 0..MaxAttempts
      BY <2>1, <2>2 DEF GiveUpDelivery, Retryable, AttemptsBounded, DeliveryRow
    <3>2. deliveries[Delivery(c)].attempts + 1 \in 0..(MaxAttempts + 1)
      BY <3>1
    <3> QED
      BY <2>1, <3>2 DEF GiveUpDelivery, TypeOK, DeliveryRow, DeliveryStatus
  <2>4. next' \in [Calls -> Nat] /\ \A d \in Calls : next'[d] \in 1..(Len(Subs(d)) + 1)
    BY SMTT(30) DEF GiveUpDelivery, TypeOK, runLocals, Subs, AtSubscription
  <2> QED
    BY <2>3, <2>4 DEF GiveUpDelivery, TypeOK, DeliveryRow, Places, procVars, runLocals, Subs
<1>2. OneCallPerEvent'
  BY DEF TypeOK, GiveUpDelivery, dbVars, procVars, runLocals,
    OneCallPerEvent, Active, Suspended, AtSubscription, Retryable, Delivery,
    Subscriber
<1>3. NextInBounds'
  BY DEF TypeOK, GiveUpDelivery, dbVars, procVars, runLocals, NextInBounds,
    AtHandler, Subs, AtSubscription, Retryable, Delivery, Subscriber
<1>4. RunsFollowCalls'
  BY DEF TypeOK, GiveUpDelivery, dbVars, procVars, runLocals,
    RunsFollowCalls, InRun, Run, RunIds, AtSubscription, Retryable,
    Delivery, Subscriber
<1>5. SnapshotsAreOldState'
  BY DEF TypeOK, GiveUpDelivery, dbVars, procVars, runLocals,
    SnapshotsAreOldState, InRun, AtSubscription, Retryable, Delivery,
    Subscriber
<1>6. ProposalsOwned'
  BY DEF TypeOK, GiveUpDelivery, dbVars, procVars, runLocals,
    ProposalsOwned, AtSubscription, Retryable, Delivery, Subscriber
<1>7. HandledIsUnconsumed'
  <2>1. Delivery(c) \in Events \X Subscribers
    BY DeliveryType DEF GiveUpDelivery, AtSubscription
  <2>2. ASSUME NEW x \in Events \X Subscribers, deliveries[x].status # "completed"
        PROVE  deliveries'[x].status # "completed"
    BY <2>1, <2>2 DEF GiveUpDelivery, TypeOK
  <2>3. \A d \in Calls : pc[d] \in AtHandler => Delivery(d) \in Events \X Subscribers
    BY DeliveryType DEF NextInBounds
  <2>4. pc'[c] = "handle" => deliveries'[Delivery(c)].status = "pending"
    BY <2>1 DEF GiveUpDelivery, TypeOK, AtSubscription
  <2>5. \A d \in Calls : d # c => pc'[d] = pc[d] /\ next'[d] = next[d]
    BY DEF GiveUpDelivery, TypeOK, runLocals
  <2>6. pc'[c] = "dispatch" /\ handled' = handled
    BY DEF GiveUpDelivery, AtSubscription, TypeOK, runLocals
  <2>7. ASSUME NEW d \in Calls
        PROVE  \A s \in handled'[d] :
                 Active(d)' /\ deliveries'[<<EventOf[d], s>>].status # "completed"
    BY <2>2, <2>5, <2>6 DEF HandledIsUnconsumed, Active, Suspended, TypeOK
  <2>8. ASSUME NEW d \in Calls, d # c, pc[d] \in {"handle", "mark_failed"}
        PROVE  deliveries'[Delivery(d)].status = "pending"
    <3>1. EventOf[d] # EventOf[c]
      BY <2>8 DEF OneCallPerEvent, Active, Suspended, GiveUpDelivery, AtSubscription
    <3>2. Delivery(d) \in Events \X Subscribers /\ Delivery(d) # Delivery(c)
      BY <2>3, <2>8, <3>1 DEF AtHandler, Delivery
    <3> QED
      BY <2>8, <3>2 DEF GiveUpDelivery, TypeOK, HandledIsUnconsumed
  <2>9. \A d \in Calls : next'[d] = next[d] => Delivery(d)' = Delivery(d)
    BY DEF Delivery, Subscriber, Subs
  <2>10. ASSUME NEW d \in Calls, pc'[d] \in {"handle", "mark_failed"}
         PROVE  deliveries'[Delivery(d)'].status = "pending"
    BY <2>4, <2>5, <2>6, <2>8, <2>9, <2>10 DEF GiveUpDelivery, runLocals
  <2> QED
    BY <2>7, <2>10 DEF HandledIsUnconsumed
<1>8. /\ EffectsAreConsumed' /\ OnlyCommittedRunsChangeState'
      /\ NoLostUpdate' /\ EffectOnce'
  <2>1. Delivery(c) \in Events \X Subscribers /\ deliveries[Delivery(c)].status # "completed"
    BY DeliveryType DEF GiveUpDelivery, AtSubscription, Retryable
  <2> QED
    BY <2>1, DeliveryMoved DEF GiveUpDelivery
<1>9. AttemptsBounded'
  <2>1. Delivery(c) \in Events \X Subscribers
    BY DeliveryType DEF GiveUpDelivery, AtSubscription, NextInBounds,
      AtHandler
  <2> QED
    BY <2>1 DEF GiveUpDelivery, AttemptsBounded, TypeOK, Retryable,
      HandledIsUnconsumed
<1>10. NobodyActiveWhenDown'
  BY DEF GiveUpDelivery, NobodyActiveWhenDown, Active, Suspended, procVars,
    AtSubscription, Retryable, Delivery, Subscriber
<1> QED
  BY <1>1, <1>2, <1>3, <1>4, <1>5, <1>6, <1>7, <1>8, <1>9, <1>10 DEF IInv

(* Passing over a settled delivery only advances the call.                 *)
LEMMA SkipDeliveryPreserves ==
  ASSUME IInv, NEW c \in Calls, SkipDelivery(c)
  PROVE  IInv'
<1> USE BoundsAssumption, EventOfAssumption, SubscriptionsAssumption DEF IInv
<1>1. TypeOK'
  BY SMTT(30) DEF SkipDelivery, dbVars, procVars, runLocals, TypeOK, Places, Subs,
    AtSubscription, Retryable, Delivery, Subscriber
<1>2. OneCallPerEvent'
  BY DEF TypeOK, SkipDelivery, dbVars, procVars, runLocals, OneCallPerEvent,
    Active, Suspended, AtSubscription, Retryable, Delivery, Subscriber
<1>3. NextInBounds'
  BY DEF TypeOK, SkipDelivery, dbVars, procVars, runLocals, NextInBounds,
    AtHandler, Subs, AtSubscription, Retryable, Delivery, Subscriber
<1>4. RunsFollowCalls'
  BY DEF TypeOK, SkipDelivery, dbVars, procVars, runLocals, RunsFollowCalls,
    InRun, Run, RunIds, AtSubscription, Retryable, Delivery, Subscriber
<1>5. SnapshotsAreOldState'
  BY DEF TypeOK, SkipDelivery, dbVars, procVars, runLocals,
    SnapshotsAreOldState, InRun, AtSubscription, Retryable, Delivery,
    Subscriber
<1>6. ProposalsOwned'
  BY DEF TypeOK, SkipDelivery, dbVars, procVars, runLocals, ProposalsOwned,
    AtSubscription, Retryable, Delivery, Subscriber
<1>7. HandledIsUnconsumed'
  BY DEF TypeOK, SkipDelivery, dbVars, procVars, runLocals,
    HandledIsUnconsumed, Active, Suspended, Delivery, Subscriber, Subs,
    AtSubscription, Retryable
<1>8. /\ EffectsAreConsumed' /\ OnlyCommittedRunsChangeState'
      /\ NoLostUpdate' /\ EffectOnce'
  BY LedgerUnchanged DEF SkipDelivery, dbVars, procVars, runLocals
<1>9. AttemptsBounded'
  BY DEF SkipDelivery, dbVars, procVars, runLocals, AttemptsBounded,
    Retryable
<1>10. NobodyActiveWhenDown'
  BY DEF SkipDelivery, NobodyActiveWhenDown, Active, Suspended, procVars,
    AtSubscription, Retryable, Delivery, Subscriber
<1> QED
  BY <1>1, <1>2, <1>3, <1>4, <1>5, <1>6, <1>7, <1>8, <1>9, <1>10 DEF IInv

(* Proposals join with the subscriber that made them.                      *)
LEMMA HandleEventPreserves ==
  ASSUME IInv, NEW c \in Calls, HandleEvent(c)
  PROVE  IInv'
<1> USE BoundsAssumption, EventOfAssumption, SubscriptionsAssumption DEF IInv
<1>1. TypeOK'
  <2>1. next[c] <= Len(Subs(c)) /\ Subscriber(c) \in Subscribers
    BY DeliveryType DEF HandleEvent, NextInBounds, AtHandler
  <2>2. OwnRows(c) \subseteq RunIds \X Subscribers
    BY <2>1, RunType DEF OwnRows
  <2>3. PICK K \in SUBSET Writes[Subscriber(c)] :
          proposals' = [proposals EXCEPT ![c] = @ \cup ({Subscriber(c)} \X K)]
    BY DEF HandleEvent
  <2>4. {Subscriber(c)} \X K \subseteq Subscribers \X Keys
    BY <2>1, WritesAssumption
  <2>5. proposals' \in [Calls -> SUBSET (Subscribers \X Keys)]
    BY <2>3, <2>4 DEF TypeOK
  <2>6. next' \in [Calls -> Nat] /\ \A d \in Calls : next'[d] \in 1..(Len(Subs(d)) + 1)
    BY <2>1 DEF HandleEvent, TypeOK
  <2> QED
    BY <2>1, <2>2, <2>5, <2>6 DEF HandleEvent, TypeOK, Places, procVars, Subs
<1>2. OneCallPerEvent'
  BY DEF TypeOK, HandleEvent, dbVars, procVars, runLocals, OneCallPerEvent,
    Active, Suspended
<1>3. NextInBounds'
  BY DEF TypeOK, HandleEvent, dbVars, procVars, runLocals, NextInBounds,
    AtHandler, Subs
<1>4. RunsFollowCalls'
  BY SMTT(30) DEF TypeOK, HandleEvent, dbVars, procVars, runLocals, RunsFollowCalls,
    InRun, Run, RunIds
<1>5. SnapshotsAreOldState'
  BY DEF TypeOK, HandleEvent, dbVars, procVars, runLocals,
    SnapshotsAreOldState, InRun
<1>6. ProposalsOwned'
  BY DEF TypeOK, HandleEvent, dbVars, procVars, runLocals, ProposalsOwned
<1>7. HandledIsUnconsumed'
  BY SMTT(30) DEF TypeOK, HandleEvent, dbVars, procVars, runLocals,
    HandledIsUnconsumed, Active, Suspended, Delivery, Subscriber, Subs
<1>8. /\ EffectsAreConsumed' /\ OnlyCommittedRunsChangeState'
      /\ NoLostUpdate' /\ EffectOnce'
  BY LedgerUnchanged DEF HandleEvent, dbVars, procVars, runLocals
<1>9. AttemptsBounded'
  BY DEF HandleEvent, dbVars, procVars, runLocals, AttemptsBounded,
    Retryable
<1>10. NobodyActiveWhenDown'
  BY DEF HandleEvent, NobodyActiveWhenDown, Active, Suspended, procVars
<1> QED
  BY <1>1, <1>2, <1>3, <1>4, <1>5, <1>6, <1>7, <1>8, <1>9, <1>10 DEF IInv

(* A failed handler may leave rows of its own and nothing else.            *)
LEMMA SubscriberFailsPreserves ==
  ASSUME IInv, NEW c \in Calls, SubscriberFails(c)
  PROVE  IInv'
<1> USE BoundsAssumption, EventOfAssumption, SubscriptionsAssumption DEF IInv
<1>1. TypeOK'
  <2>1. Subscriber(c) \in Subscribers
    BY DeliveryType DEF SubscriberFails, NextInBounds, AtHandler
  <2>2. OwnRows(c) \subseteq RunIds \X Subscribers
    BY <2>1, RunType DEF OwnRows
  <2>3. ownRows' \subseteq RunIds \X Subscribers
    BY <2>2 DEF SubscriberFails, TypeOK
  <2> QED
    BY <2>3 DEF SubscriberFails, TypeOK, Places, procVars, runLocals, Subs
<1>2. OneCallPerEvent'
  BY DEF TypeOK, SubscriberFails, dbVars, procVars, runLocals,
    OneCallPerEvent, Active, Suspended
<1>3. NextInBounds'
  BY DEF TypeOK, SubscriberFails, dbVars, procVars, runLocals, NextInBounds,
    AtHandler, Subs
<1>4. RunsFollowCalls'
  BY SMTT(30) DEF TypeOK, SubscriberFails, dbVars, procVars, runLocals,
    RunsFollowCalls, InRun, Run, RunIds
<1>5. SnapshotsAreOldState'
  BY DEF TypeOK, SubscriberFails, dbVars, procVars, runLocals,
    SnapshotsAreOldState, InRun
<1>6. ProposalsOwned'
  BY DEF TypeOK, SubscriberFails, dbVars, procVars, runLocals,
    ProposalsOwned
<1>7. HandledIsUnconsumed'
  BY DEF TypeOK, SubscriberFails, dbVars, procVars, runLocals,
    HandledIsUnconsumed, Active, Suspended, Delivery, Subscriber, Subs
<1>8. /\ EffectsAreConsumed' /\ OnlyCommittedRunsChangeState'
      /\ NoLostUpdate' /\ EffectOnce'
  BY LedgerUnchanged DEF SubscriberFails, dbVars, procVars, runLocals
<1>9. AttemptsBounded'
  BY DEF SubscriberFails, dbVars, procVars, runLocals, AttemptsBounded,
    Retryable
<1>10. NobodyActiveWhenDown'
  BY DEF SubscriberFails, NobodyActiveWhenDown, Active, Suspended, procVars
<1> QED
  BY <1>1, <1>2, <1>3, <1>4, <1>5, <1>6, <1>7, <1>8, <1>9, <1>10 DEF IInv

(* Only the delivery the call itself reserved is marked failed.            *)
LEMMA MarkFailedPreserves ==
  ASSUME IInv, NEW c \in Calls, MarkFailed(c)
  PROVE  IInv'
<1> USE BoundsAssumption, EventOfAssumption, SubscriptionsAssumption DEF IInv
<1>1. TypeOK'
  <2>1. Delivery(c) \in Events \X Subscribers
    BY DeliveryType DEF MarkFailed, NextInBounds, AtHandler
  <2>2. deliveries[Delivery(c)] \in DeliveryRow
    BY <2>1 DEF TypeOK, DeliveryRow
  <2>3. deliveries' \in [Events \X Subscribers -> DeliveryRow]
    BY <2>1, <2>2 DEF MarkFailed, TypeOK, DeliveryRow, DeliveryStatus
  <2>4. next' \in [Calls -> Nat] /\ \A d \in Calls : next'[d] \in 1..(Len(Subs(d)) + 1)
    BY DEF MarkFailed, TypeOK, runLocals, Subs, AtSubscription
  <2> QED
    BY <2>3, <2>4 DEF MarkFailed, TypeOK, DeliveryRow, Places, procVars, runLocals, Subs
<1>2. OneCallPerEvent'
  BY DEF TypeOK, MarkFailed, dbVars, procVars, runLocals, OneCallPerEvent,
    Active, Suspended, Delivery, Subscriber
<1>3. NextInBounds'
  BY DEF TypeOK, MarkFailed, dbVars, procVars, runLocals, NextInBounds,
    AtHandler, Subs, Delivery, Subscriber
<1>4. RunsFollowCalls'
  BY DEF TypeOK, MarkFailed, dbVars, procVars, runLocals, RunsFollowCalls,
    InRun, Run, RunIds, Delivery, Subscriber
<1>5. SnapshotsAreOldState'
  BY DEF TypeOK, MarkFailed, dbVars, procVars, runLocals,
    SnapshotsAreOldState, InRun, Delivery, Subscriber
<1>6. ProposalsOwned'
  BY DEF TypeOK, MarkFailed, dbVars, procVars, runLocals, ProposalsOwned,
    Delivery, Subscriber
<1>7. HandledIsUnconsumed'
  <2>1. Delivery(c) \in Events \X Subscribers
    BY DeliveryType DEF MarkFailed, NextInBounds, AtHandler
  <2>2. ASSUME NEW x \in Events \X Subscribers, deliveries[x].status # "completed"
        PROVE  deliveries'[x].status # "completed"
    BY <2>1, <2>2 DEF MarkFailed, TypeOK
  <2>3. ASSUME NEW d \in Calls
        PROVE  \A s \in handled'[d] :
                 Active(d)' /\ deliveries'[<<EventOf[d], s>>].status # "completed"
    BY <2>2 DEF HandledIsUnconsumed, Active, Suspended, TypeOK, MarkFailed, runLocals
  <2>4. ASSUME NEW d \in Calls, pc'[d] \in {"handle", "mark_failed"}
        PROVE  deliveries'[Delivery(d)'].status = "pending"
    <3>1. d # c /\ pc[d] \in {"handle", "mark_failed"} /\ Delivery(d)' = Delivery(d)
      BY <2>4 DEF MarkFailed, TypeOK, Delivery, Subscriber, Subs, runLocals
    <3>2. EventOf[d] # EventOf[c]
      BY <3>1 DEF OneCallPerEvent, Active, Suspended, MarkFailed
    <3>3. Delivery(d) \in Events \X Subscribers /\ Delivery(d) # Delivery(c)
      BY <3>1, <3>2, DeliveryType DEF NextInBounds, AtHandler, Delivery
    <3> QED
      BY <3>1, <3>3 DEF MarkFailed, TypeOK, HandledIsUnconsumed
  <2> QED
    BY <2>3, <2>4 DEF HandledIsUnconsumed
<1>8. /\ EffectsAreConsumed' /\ OnlyCommittedRunsChangeState'
      /\ NoLostUpdate' /\ EffectOnce'
  <2>1. Delivery(c) \in Events \X Subscribers /\ deliveries[Delivery(c)].status # "completed"
    BY DeliveryType DEF MarkFailed, NextInBounds, AtHandler,
      HandledIsUnconsumed
  <2> QED
    BY <2>1, DeliveryMoved DEF MarkFailed
<1>9. AttemptsBounded'
  <2>1. Delivery(c) \in Events \X Subscribers
    BY DeliveryType DEF MarkFailed, AtSubscription, NextInBounds, AtHandler
  <2> QED
    BY <2>1 DEF MarkFailed, AttemptsBounded, TypeOK, Retryable,
      HandledIsUnconsumed
<1>10. NobodyActiveWhenDown'
  BY DEF MarkFailed, NobodyActiveWhenDown, Active, Suspended, procVars
<1> QED
  BY <1>1, <1>2, <1>3, <1>4, <1>5, <1>6, <1>7, <1>8, <1>9, <1>10 DEF IInv

(* The call moves past the subscription it was at.                         *)
LEMMA RecordFailurePreserves ==
  ASSUME IInv, NEW c \in Calls, RecordFailure(c)
  PROVE  IInv'
<1> USE BoundsAssumption, EventOfAssumption, SubscriptionsAssumption DEF IInv
<1>1. TypeOK'
  <2>1. failures' \subseteq [run : RunIds, reason : ReasonCodes]
    BY FailureType DEF RecordFailure, TypeOK, ReasonCodes
  <2>2. next' \in [Calls -> Nat] /\ \A d \in Calls : next'[d] \in 1..(Len(Subs(d)) + 1)
    BY DEF RecordFailure, TypeOK, NextInBounds, AtHandler, Subs
  <2> QED
    BY <2>1, <2>2 DEF RecordFailure, TypeOK, Places, procVars, Subs
<1>2. OneCallPerEvent'
  BY DEF TypeOK, RecordFailure, dbVars, procVars, runLocals,
    OneCallPerEvent, Active, Suspended
<1>3. NextInBounds'
  BY DEF TypeOK, RecordFailure, dbVars, procVars, runLocals, NextInBounds,
    AtHandler, Subs
<1>4. RunsFollowCalls'
  BY DEF TypeOK, RecordFailure, dbVars, procVars, runLocals,
    RunsFollowCalls, InRun, Run, RunIds
<1>5. SnapshotsAreOldState'
  BY DEF TypeOK, RecordFailure, dbVars, procVars, runLocals,
    SnapshotsAreOldState, InRun
<1>6. ProposalsOwned'
  BY DEF TypeOK, RecordFailure, dbVars, procVars, runLocals, ProposalsOwned
<1>7. HandledIsUnconsumed'
  BY DEF TypeOK, RecordFailure, dbVars, procVars, runLocals,
    HandledIsUnconsumed, Active, Suspended, Delivery, Subscriber, Subs
<1>8. /\ EffectsAreConsumed' /\ OnlyCommittedRunsChangeState'
      /\ NoLostUpdate' /\ EffectOnce'
  BY LedgerUnchanged DEF RecordFailure, dbVars, procVars, runLocals
<1>9. AttemptsBounded'
  BY DEF RecordFailure, dbVars, procVars, runLocals, AttemptsBounded,
    Retryable
<1>10. NobodyActiveWhenDown'
  BY DEF RecordFailure, NobodyActiveWhenDown, Active, Suspended, procVars
<1> QED
  BY <1>1, <1>2, <1>3, <1>4, <1>5, <1>6, <1>7, <1>8, <1>9, <1>10 DEF IInv

(* An error in dispatch only moves the call.                               *)
LEMMA DispatchErrorPreserves ==
  ASSUME IInv, NEW c \in Calls, DispatchError(c)
  PROVE  IInv'
<1> USE BoundsAssumption, EventOfAssumption, SubscriptionsAssumption DEF IInv
<1>1. TypeOK'
  BY DEF DispatchError, dbVars, procVars, runLocals, TypeOK, Places, Subs,
    AtSubscription
<1>2. OneCallPerEvent'
  BY DEF TypeOK, DispatchError, dbVars, procVars, runLocals,
    OneCallPerEvent, Active, Suspended, AtSubscription
<1>3. NextInBounds'
  BY DEF TypeOK, DispatchError, dbVars, procVars, runLocals, NextInBounds,
    AtHandler, Subs, AtSubscription
<1>4. RunsFollowCalls'
  BY DEF TypeOK, DispatchError, dbVars, procVars, runLocals,
    RunsFollowCalls, InRun, Run, RunIds, AtSubscription
<1>5. SnapshotsAreOldState'
  BY DEF TypeOK, DispatchError, dbVars, procVars, runLocals,
    SnapshotsAreOldState, InRun, AtSubscription
<1>6. ProposalsOwned'
  BY DEF TypeOK, DispatchError, dbVars, procVars, runLocals, ProposalsOwned,
    AtSubscription
<1>7. HandledIsUnconsumed'
  BY DEF TypeOK, DispatchError, dbVars, procVars, runLocals,
    HandledIsUnconsumed, Active, Suspended, Delivery, Subscriber, Subs,
    AtSubscription
<1>8. /\ EffectsAreConsumed' /\ OnlyCommittedRunsChangeState'
      /\ NoLostUpdate' /\ EffectOnce'
  BY LedgerUnchanged DEF DispatchError, dbVars, procVars, runLocals
<1>9. AttemptsBounded'
  BY DEF DispatchError, dbVars, procVars, runLocals, AttemptsBounded,
    Retryable
<1>10. NobodyActiveWhenDown'
  BY DEF DispatchError, NobodyActiveWhenDown, Active, Suspended, procVars,
    AtSubscription
<1> QED
  BY <1>1, <1>2, <1>3, <1>4, <1>5, <1>6, <1>7, <1>8, <1>9, <1>10 DEF IInv

(* The rolled back commit leaves no trace.                                 *)
LEMMA CommitConflictPreserves ==
  ASSUME IInv, NEW c \in Calls, CommitConflict(c)
  PROVE  IInv'
<1> USE BoundsAssumption, EventOfAssumption, SubscriptionsAssumption DEF IInv
<1>1. TypeOK'
  BY DEF CommitConflict, dbVars, procVars, runLocals, TypeOK, Places, Subs,
    DispatchDone
<1>2. OneCallPerEvent'
  BY DEF TypeOK, CommitConflict, dbVars, procVars, runLocals,
    OneCallPerEvent, Active, Suspended, DispatchDone
<1>3. NextInBounds'
  BY DEF TypeOK, CommitConflict, dbVars, procVars, runLocals, NextInBounds,
    AtHandler, Subs, DispatchDone
<1>4. RunsFollowCalls'
  BY SMTT(30) DEF TypeOK, CommitConflict, dbVars, procVars, runLocals,
    RunsFollowCalls, InRun, Run, RunIds, DispatchDone
<1>5. SnapshotsAreOldState'
  BY DEF TypeOK, CommitConflict, dbVars, procVars, runLocals,
    SnapshotsAreOldState, InRun, DispatchDone
<1>6. ProposalsOwned'
  BY DEF TypeOK, CommitConflict, dbVars, procVars, runLocals,
    ProposalsOwned, DispatchDone
<1>7. HandledIsUnconsumed'
  BY DEF TypeOK, CommitConflict, dbVars, procVars, runLocals,
    HandledIsUnconsumed, Active, Suspended, Delivery, Subscriber, Subs,
    DispatchDone
<1>8. /\ EffectsAreConsumed' /\ OnlyCommittedRunsChangeState'
      /\ NoLostUpdate' /\ EffectOnce'
  BY LedgerUnchanged DEF CommitConflict, dbVars, procVars, runLocals
<1>9. AttemptsBounded'
  BY DEF CommitConflict, dbVars, procVars, runLocals, AttemptsBounded,
    Retryable
<1>10. NobodyActiveWhenDown'
  BY DEF CommitConflict, NobodyActiveWhenDown, Active, Suspended, procVars,
    DispatchDone
<1> QED
  BY <1>1, <1>2, <1>3, <1>4, <1>5, <1>6, <1>7, <1>8, <1>9, <1>10 DEF IInv

(* The rolled back commit leaves no trace.                                 *)
LEMMA CommitErrorPreserves ==
  ASSUME IInv, NEW c \in Calls, CommitError(c)
  PROVE  IInv'
<1> USE BoundsAssumption, EventOfAssumption, SubscriptionsAssumption DEF IInv
<1>1. TypeOK'
  BY DEF CommitError, dbVars, procVars, runLocals, TypeOK, Places, Subs,
    DispatchDone
<1>2. OneCallPerEvent'
  BY DEF TypeOK, CommitError, dbVars, procVars, runLocals, OneCallPerEvent,
    Active, Suspended, DispatchDone
<1>3. NextInBounds'
  BY DEF TypeOK, CommitError, dbVars, procVars, runLocals, NextInBounds,
    AtHandler, Subs, DispatchDone
<1>4. RunsFollowCalls'
  BY SMTT(30) DEF TypeOK, CommitError, dbVars, procVars, runLocals, RunsFollowCalls,
    InRun, Run, RunIds, DispatchDone
<1>5. SnapshotsAreOldState'
  BY DEF TypeOK, CommitError, dbVars, procVars, runLocals,
    SnapshotsAreOldState, InRun, DispatchDone
<1>6. ProposalsOwned'
  BY DEF TypeOK, CommitError, dbVars, procVars, runLocals, ProposalsOwned,
    DispatchDone
<1>7. HandledIsUnconsumed'
  BY DEF TypeOK, CommitError, dbVars, procVars, runLocals,
    HandledIsUnconsumed, Active, Suspended, Delivery, Subscriber, Subs,
    DispatchDone
<1>8. /\ EffectsAreConsumed' /\ OnlyCommittedRunsChangeState'
      /\ NoLostUpdate' /\ EffectOnce'
  BY LedgerUnchanged DEF CommitError, dbVars, procVars, runLocals
<1>9. AttemptsBounded'
  BY DEF CommitError, dbVars, procVars, runLocals, AttemptsBounded,
    Retryable
<1>10. NobodyActiveWhenDown'
  BY DEF CommitError, NobodyActiveWhenDown, Active, Suspended, procVars,
    DispatchDone
<1> QED
  BY <1>1, <1>2, <1>3, <1>4, <1>5, <1>6, <1>7, <1>8, <1>9, <1>10 DEF IInv

(* The run that lost the race closes uncommitted; the next attempt has a   *)
(* row of its own.                                                         *)
LEMMA ConflictRunPreserves ==
  ASSUME IInv, NEW c \in Calls, ConflictRun(c)
  PROVE  IInv'
<1> USE BoundsAssumption, EventOfAssumption, SubscriptionsAssumption DEF IInv
<1>1. TypeOK'
  <2>1. failures' \subseteq [run : RunIds, reason : ReasonCodes]
    BY SMTT(30), FailureType DEF ConflictRun, TypeOK, ReasonCodes
  <2>2. runs' \in [RunIds -> RunStatus]
    BY RunType DEF ConflictRun, TypeOK, RunStatus
  <2>3. /\ next' \in [Calls -> Nat] /\ \A d \in Calls : next'[d] \in 1..(Len(Subs(d)) + 1)
        /\ snapshot' \in [Calls -> [Keys -> [version : Nat, value : SUBSET RunIds]]]
        /\ proposals' \in [Calls -> SUBSET (Subscribers \X Keys)]
        /\ handled' \in [Calls -> SUBSET Subscribers]
    BY EndRunType DEF ConflictRun
  <2>4. attempt' \in [Calls -> 1..MaxCommitAttempts]
    BY DEF ConflictRun, TypeOK
  <2>5. outcome' \in [Calls -> Outcomes] /\ pc' \in [Calls -> Places]
    BY DEF ConflictRun, TypeOK, Outcomes, Places
  <2> QED
    BY <2>1, <2>2, <2>3, <2>4, <2>5 DEF ConflictRun, TypeOK, procVars, Subs
<1>2. OneCallPerEvent'
  BY ZenonT(40) DEF TypeOK, ConflictRun, dbVars, procVars, runLocals, OneCallPerEvent,
    Active, Suspended, EndRun, Run, RunIds, EmptyState
<1>3. NextInBounds'
  BY DEF TypeOK, ConflictRun, dbVars, procVars, runLocals, NextInBounds,
    AtHandler, Subs, EndRun, Run, RunIds, EmptyState
<1>4. RunsFollowCalls'
  <2>1. \A r \in RunIds : r # Run(c) => runs'[r] = runs[r]
    BY DEF ConflictRun, TypeOK
  <2>2. \A d \in Calls : d # c => attempt'[d] = attempt[d] /\ pc'[d] = pc[d]
    BY DEF ConflictRun, TypeOK
  <2>3. ASSUME NEW d \in Calls, d # c, NEW n \in 1..MaxCommitAttempts
        PROVE  runs'[<<d, n>>] = runs[<<d, n>>]
    BY <2>1, <2>3 DEF Run, RunIds
  <2>4. ASSUME NEW n \in 1..MaxCommitAttempts, n > attempt[c]
        PROVE  runs'[<<c, n>>] = "none"
    <3>1. <<c, n>> \in RunIds /\ <<c, n>> # Run(c)
      BY <2>4 DEF Run, RunIds, TypeOK
    <3>2. runs[<<c, n>>] = "none"
      BY <2>4 DEF RunsFollowCalls
    <3> QED
      BY <2>1, <3>1, <3>2
  <2>5. /\ pc'[c] \in {"append", "returned"}
        /\ pc'[c] = "append" => attempt'[c] = attempt[c] + 1 /\ attempt[c] < MaxCommitAttempts
        /\ attempt'[c] \in {attempt[c], attempt[c] + 1} /\ attempt[c] \in 1..MaxCommitAttempts
    BY DEF ConflictRun, TypeOK
  <2>6. ASSUME NEW d \in Calls, d # c
        PROVE  /\ pc'[d] \in {"idle", "append", "open"} => runs'[Run(d)'] = "none"
               /\ pc'[d] \in InRun => runs'[Run(d)'] = "running"
               /\ \A n \in 1..MaxCommitAttempts : n > attempt'[d] => runs'[<<d, n>>] = "none"
    <3>1. attempt[d] \in 1..MaxCommitAttempts /\ Run(d)' = Run(d) /\ Run(d) = <<d, attempt[d]>>
      BY <2>2, <2>6 DEF Run, TypeOK
    <3>2. runs'[Run(d)] = runs[Run(d)]
      BY <2>3, <2>6, <3>1
    <3> QED
      BY ZenonT(40), <2>2, <2>3, <2>6, <3>1, <3>2 DEF RunsFollowCalls
  <2>7. /\ pc'[c] \in {"idle", "append", "open"} => runs'[Run(c)'] = "none"
        /\ pc'[c] \notin InRun
        /\ \A n \in 1..MaxCommitAttempts : n > attempt'[c] => runs'[<<c, n>>] = "none"
    <3>1. CASE pc'[c] = "append"
      <4>1. attempt'[c] \in 1..MaxCommitAttempts /\ attempt'[c] > attempt[c]
        BY <2>5, <3>1
      <4> QED
        BY <2>4, <2>5, <3>1, <4>1 DEF Run, InRun
    <3>2. CASE pc'[c] = "returned"
      BY <2>4, <2>5, <3>2 DEF InRun
    <3> QED
      BY <2>5, <3>1, <3>2
  <2> QED
    BY <2>6, <2>7 DEF RunsFollowCalls
<1>5. SnapshotsAreOldState'
  <2>1. \A d \in Calls : pc'[d] \in InRun => d # c /\ pc[d] \in InRun
    BY DEF ConflictRun, TypeOK, InRun
  <2>2. \A d \in Calls : d # c => snapshot'[d] = snapshot[d]
    BY DEF ConflictRun, EndRun, TypeOK
  <2> QED
    BY <2>1, <2>2 DEF ConflictRun, SnapshotsAreOldState
<1>6. ProposalsOwned'
  BY DEF TypeOK, ConflictRun, dbVars, procVars, runLocals, ProposalsOwned,
    EndRun, Run, RunIds, EmptyState
<1>7. HandledIsUnconsumed'
  BY SMTT(30) DEF TypeOK, ConflictRun, dbVars, procVars, runLocals,
    HandledIsUnconsumed, Active, Suspended, Delivery, Subscriber, Subs,
    EndRun, Run, RunIds, EmptyState
<1>8. /\ EffectsAreConsumed' /\ OnlyCommittedRunsChangeState'
      /\ NoLostUpdate' /\ EffectOnce'
  <2>1. Run(c) \in RunIds /\ runs[Run(c)] # "committed"
    BY RunType DEF RunsFollowCalls, ConflictRun, InRun
  <2> QED
    BY <2>1, RunMoved DEF ConflictRun
<1>9. AttemptsBounded'
  BY DEF ConflictRun, dbVars, procVars, runLocals, AttemptsBounded,
    Retryable
<1>10. NobodyActiveWhenDown'
  BY DEF ConflictRun, NobodyActiveWhenDown, Active, Suspended, procVars
<1> QED
  BY <1>1, <1>2, <1>3, <1>4, <1>5, <1>6, <1>7, <1>8, <1>9, <1>10 DEF IInv

(* A failed run closes uncommitted.                                        *)
LEMMA FailRunPreserves ==
  ASSUME IInv, NEW c \in Calls, FailRun(c)
  PROVE  IInv'
<1> USE BoundsAssumption, EventOfAssumption, SubscriptionsAssumption DEF IInv
<1>1. TypeOK'
  <2>1. failures' \subseteq [run : RunIds, reason : ReasonCodes]
    BY FailureType DEF FailRun, TypeOK, ReasonCodes
  <2>2. runs' \in [RunIds -> RunStatus]
    BY RunType DEF FailRun, TypeOK, RunStatus
  <2>3. /\ next' \in [Calls -> Nat] /\ \A d \in Calls : next'[d] \in 1..(Len(Subs(d)) + 1)
        /\ snapshot' \in [Calls -> [Keys -> [version : Nat, value : SUBSET RunIds]]]
        /\ proposals' \in [Calls -> SUBSET (Subscribers \X Keys)]
        /\ handled' \in [Calls -> SUBSET Subscribers]
    BY EndRunType DEF FailRun
  <2>4. attempt' \in [Calls -> 1..MaxCommitAttempts]
    BY DEF FailRun, TypeOK
  <2>5. outcome' \in [Calls -> Outcomes] /\ pc' \in [Calls -> Places]
    BY DEF FailRun, TypeOK, Outcomes, Places
  <2> QED
    BY <2>1, <2>2, <2>3, <2>4, <2>5 DEF FailRun, TypeOK, procVars, Subs
<1>2. OneCallPerEvent'
  BY DEF TypeOK, FailRun, dbVars, procVars, runLocals, OneCallPerEvent,
    Active, Suspended, EndRun, Run, RunIds, EmptyState
<1>3. NextInBounds'
  BY DEF TypeOK, FailRun, dbVars, procVars, runLocals, NextInBounds,
    AtHandler, Subs, EndRun, Run, RunIds, EmptyState
<1>4. RunsFollowCalls'
  BY DEF TypeOK, FailRun, dbVars, procVars, runLocals, RunsFollowCalls,
    InRun, Run, RunIds, EndRun, EmptyState
<1>5. SnapshotsAreOldState'
  <2>1. \A d \in Calls : pc'[d] \in InRun => d # c /\ pc[d] \in InRun
    BY DEF FailRun, TypeOK, InRun
  <2>2. \A d \in Calls : d # c => snapshot'[d] = snapshot[d]
    BY DEF FailRun, EndRun, TypeOK
  <2> QED
    BY <2>1, <2>2 DEF FailRun, SnapshotsAreOldState
<1>6. ProposalsOwned'
  BY DEF TypeOK, FailRun, dbVars, procVars, runLocals, ProposalsOwned,
    EndRun, Run, RunIds, EmptyState
<1>7. HandledIsUnconsumed'
  BY DEF TypeOK, FailRun, dbVars, procVars, runLocals, HandledIsUnconsumed,
    Active, Suspended, Delivery, Subscriber, Subs, EndRun, Run, RunIds,
    EmptyState
<1>8. /\ EffectsAreConsumed' /\ OnlyCommittedRunsChangeState'
      /\ NoLostUpdate' /\ EffectOnce'
  <2>1. Run(c) \in RunIds /\ runs[Run(c)] # "committed"
    BY RunType DEF RunsFollowCalls, FailRun, InRun
  <2> QED
    BY <2>1, RunMoved DEF FailRun
<1>9. AttemptsBounded'
  BY DEF FailRun, dbVars, procVars, runLocals, AttemptsBounded, Retryable
<1>10. NobodyActiveWhenDown'
  BY DEF FailRun, NobodyActiveWhenDown, Active, Suspended, procVars
<1> QED
  BY <1>1, <1>2, <1>3, <1>4, <1>5, <1>6, <1>7, <1>8, <1>9, <1>10 DEF IInv

(* The call ends and its locals go.                                        *)
LEMMA ProcessRaisesPreserves ==
  ASSUME IInv, NEW c \in Calls, ProcessRaises(c)
  PROVE  IInv'
<1> USE BoundsAssumption, EventOfAssumption, SubscriptionsAssumption DEF IInv
<1>1. TypeOK'
  <2>1. /\ next' \in [Calls -> Nat] /\ \A d \in Calls : next'[d] \in 1..(Len(Subs(d)) + 1)
        /\ snapshot' \in [Calls -> [Keys -> [version : Nat, value : SUBSET RunIds]]]
        /\ proposals' \in [Calls -> SUBSET (Subscribers \X Keys)]
        /\ handled' \in [Calls -> SUBSET Subscribers]
    BY EndRunType DEF ProcessRaises
  <2>2. pc' \in [Calls -> Places]
    BY DEF ProcessRaises, TypeOK, Places
  <2> QED
    BY <2>1, <2>2 DEF ProcessRaises, TypeOK, procVars, dbVars, Subs
<1>2. OneCallPerEvent'
  BY DEF TypeOK, ProcessRaises, dbVars, procVars, runLocals,
    OneCallPerEvent, Active, Suspended, EndRun, EmptyState, RunIds
<1>3. NextInBounds'
  BY DEF TypeOK, ProcessRaises, dbVars, procVars, runLocals, NextInBounds,
    AtHandler, Subs, EndRun, EmptyState, RunIds
<1>4. RunsFollowCalls'
  BY DEF TypeOK, ProcessRaises, dbVars, procVars, runLocals,
    RunsFollowCalls, InRun, Run, RunIds, EndRun, EmptyState
<1>5. SnapshotsAreOldState'
  BY DEF TypeOK, ProcessRaises, dbVars, procVars, runLocals,
    SnapshotsAreOldState, InRun, EndRun, EmptyState, RunIds
<1>6. ProposalsOwned'
  BY DEF TypeOK, ProcessRaises, dbVars, procVars, runLocals, ProposalsOwned,
    EndRun, EmptyState, RunIds
<1>7. HandledIsUnconsumed'
  BY DEF TypeOK, ProcessRaises, dbVars, procVars, runLocals,
    HandledIsUnconsumed, Active, Suspended, Delivery, Subscriber, Subs,
    EndRun, EmptyState, RunIds
<1>8. /\ EffectsAreConsumed' /\ OnlyCommittedRunsChangeState'
      /\ NoLostUpdate' /\ EffectOnce'
  BY LedgerUnchanged DEF ProcessRaises, dbVars, procVars, runLocals
<1>9. AttemptsBounded'
  BY DEF ProcessRaises, dbVars, procVars, runLocals, AttemptsBounded,
    Retryable
<1>10. NobodyActiveWhenDown'
  BY DEF ProcessRaises, NobodyActiveWhenDown, Active, Suspended, procVars
<1> QED
  BY <1>1, <1>2, <1>3, <1>4, <1>5, <1>6, <1>7, <1>8, <1>9, <1>10 DEF IInv

(* The step that matters.  What the commit writes was computed from S0; it *)
(* is the present state because the versions agree.                        *)
LEMMA CommitPreserves ==
  ASSUME IInv, NEW c \in Calls, Commit(c)
  PROVE  IInv'
<1> USE BoundsAssumption, EventOfAssumption, SubscriptionsAssumption DEF IInv
<1> DEFINE e == EventOf[c]
           r == Run(c)
<1>1. PICK accepted \in SUBSET proposals[c] :
        /\ VersionsCurrent(c, accepted)
        /\ state' = WriteValues(c, accepted)
        /\ changes' = changes \cup ChangeRows(c, accepted)
        /\ failures' = failures \cup
             (IF accepted = proposals[c] THEN {} ELSE {Failure(c, "rejected_proposal")})
        /\ deliveries' = MarkCompleted(c)
        /\ runs' = [runs EXCEPT ![Run(c)] = CommitStatus(accepted)]
        /\ outcome' = [outcome EXCEPT ![c] = CommitOutcome(c, accepted)]
  BY DEF Commit
<1>2. r \in RunIds /\ runs[r] = "running" /\ e \in Events
  BY RunType DEF RunsFollowCalls, Commit, DispatchDone, InRun
<1>3. \A ch \in changes : ch.run # r
  BY <1>2 DEF OnlyCommittedRunsChangeState
<1>4. ASSUME NEW w \in accepted
      PROVE  /\ w = <<w[1], w[2]>>
             /\ w[1] \in handled[c] /\ w[1] \in Subscribers
             /\ w[2] \in Keys /\ w[2] \in Writes[w[1]]
  BY DEF ProposalsOwned, TypeOK
<1>5. ASSUME NEW v \in accepted, NEW w \in accepted, v[2] = w[2]
      PROVE  v = w
  BY <1>4, <1>5, WritesAssumption
<1>6. ASSUME NEW k \in Targets(accepted)
      PROVE  /\ k \in Keys
             /\ snapshot[c][k] = state[k]
             /\ state'[k] = [version |-> state[k].version + 1,
                             value   |-> state[k].value \cup {r}]
             /\ state'[k].version = state[k].version + 1
             /\ state'[k].value = state[k].value \cup {r}
  <2>1. k \in Keys
    BY <1>4 DEF Targets
  <2>2. pc[c] \in InRun
    BY DEF Commit, DispatchDone, InRun
  <2>3. snapshot[c][k].version = state[k].version
    BY <1>1 DEF VersionsCurrent
  <2>4. snapshot[c][k] = state[k]
    BY <2>1, <2>2, <2>3 DEF SnapshotsAreOldState
  <2>5. state'[k] = [version |-> snapshot[c][k].version + 1,
                     value   |-> snapshot[c][k].value \cup {Run(c)}]
    BY <1>1, <2>1 DEF WriteValues
  <2>6. state'[k] = [version |-> state[k].version + 1,
                     value   |-> state[k].value \cup {r}]
    BY <2>4, <2>5
  <2>7. state'[k].version = state[k].version + 1 /\ state'[k].value = state[k].value \cup {r}
    BY <2>6
  <2> QED
    BY <2>1, <2>4, <2>6, <2>7
<1>7. \A k \in Keys : k \notin Targets(accepted) => state'[k] = state[k]
  BY <1>1 DEF WriteValues
<1>8. \A k \in Keys : state[k].version \in Nat /\ state[k].value \in SUBSET RunIds
  BY DEF TypeOK
<1>9. ChangeRows(c, accepted) =
        {[run |-> r, event |-> e, subscriber |-> w[1], key |-> w[2],
          version |-> state[w[2]].version + 1] : w \in accepted}
  <2>1. \A w \in accepted : snapshot[c][w[2]] = state[w[2]]
    BY <1>6 DEF Targets
  <2> QED
    BY <2>1 DEF ChangeRows
<1>10. \A d \in Calls : d # c => pc'[d] = pc[d] /\ attempt'[d] = attempt[d]
         /\ next'[d] = next[d] /\ snapshot'[d] = snapshot[d]
         /\ proposals'[d] = proposals[d] /\ handled'[d] = handled[d]
  BY DEF Commit, EndRun, TypeOK
<1>11. pc'[c] = "returned" /\ handled'[c] = {} /\ proposals'[c] = {}
  BY DEF Commit, EndRun, TypeOK
<1>12. ASSUME NEW d \in Events \X Subscribers
       PROVE  /\ deliveries'[d].attempts = deliveries[d].attempts
              /\ deliveries'[d] \in DeliveryRow
              /\ d[1] = e /\ d[2] \in handled[c] => deliveries'[d].status = "completed"
              /\ ~(d[1] = e /\ d[2] \in handled[c]) => deliveries'[d] = deliveries[d]
  <2>1. deliveries[d] \in DeliveryRow
    BY DEF TypeOK, DeliveryRow
  <2>2. CASE d[1] = e /\ d[2] \in handled[c]
    <3>1. deliveries'[d] = [deliveries[d] EXCEPT !.status = "completed"]
      BY <1>1, <2>2 DEF MarkCompleted
    <3> QED
      BY <2>1, <2>2, <3>1 DEF DeliveryRow, DeliveryStatus
  <2>3. CASE ~(d[1] = e /\ d[2] \in handled[c])
    <3>1. deliveries'[d] = deliveries[d]
      BY <1>1, <2>3 DEF MarkCompleted
    <3> QED
      BY <2>1, <2>3, <3>1
  <2> QED
    BY <2>2, <2>3
<1>20. TypeOK'
  <2>1. state' \in [Keys -> [version : Nat, value : SUBSET RunIds]]
    <3>1. ASSUME NEW k \in Keys
          PROVE  state'[k] \in [version : Nat, value : SUBSET RunIds]
      <4>1. CASE k \in Targets(accepted)
        <5>1. state[k].version + 1 \in Nat /\ state[k].value \cup {r} \in SUBSET RunIds
          BY <1>2, <1>8
        <5>2. state'[k] = [version |-> state[k].version + 1,
                           value   |-> state[k].value \cup {r}]
          BY <4>1, <1>6
        <5> QED
          BY <5>1, <5>2
      <4>2. CASE k \notin Targets(accepted)
        BY <4>2, <1>7 DEF TypeOK
      <4> QED
        BY <4>1, <4>2
    <3> QED
      BY <1>1, <3>1 DEF WriteValues
  <2>2. changes' \subseteq ChangeRow
    BY <1>1, <1>2, <1>4, <1>8, <1>9 DEF TypeOK, ChangeRow
  <2>3. failures' \subseteq [run : RunIds, reason : ReasonCodes]
    BY <1>1, FailureType DEF TypeOK, ReasonCodes
  <2>4. deliveries' \in [Events \X Subscribers -> DeliveryRow]
    BY <1>1, <1>12 DEF MarkCompleted
  <2>5. runs' \in [RunIds -> RunStatus] /\ outcome' \in [Calls -> Outcomes]
    BY <1>1, <1>2 DEF TypeOK, RunStatus, CommitStatus, Outcomes, CommitOutcome
  <2>6. /\ next' \in [Calls -> Nat] /\ \A d \in Calls : next'[d] \in 1..(Len(Subs(d)) + 1)
        /\ snapshot' \in [Calls -> [Keys -> [version : Nat, value : SUBSET RunIds]]]
        /\ proposals' \in [Calls -> SUBSET (Subscribers \X Keys)]
        /\ handled' \in [Calls -> SUBSET Subscribers]
    BY EndRunType DEF Commit
  <2>7. pc' \in [Calls -> Places]
    BY DEF Commit, TypeOK, Places
  <2> QED
    BY <2>1, <2>2, <2>3, <2>4, <2>5, <2>6, <2>7
       DEF Commit, TypeOK, procVars, DeliveryRow, Subs
<1>21. OneCallPerEvent' /\ NextInBounds' /\ ProposalsOwned'
  BY <1>10, <1>11 DEF OneCallPerEvent, NextInBounds, ProposalsOwned, Active,
     Suspended, AtHandler, Subs
<1>22. RunsFollowCalls'
  <2>1. \A q \in RunIds : q # r => runs'[q] = runs[q]
    BY <1>1 DEF TypeOK
  <2>2. attempt' = attempt /\ attempt[c] \in 1..MaxCommitAttempts
    BY DEF Commit, TypeOK
  <2>3. ASSUME NEW d \in Calls, NEW n \in 1..MaxCommitAttempts, d # c \/ n > attempt[c]
        PROVE  runs'[<<d, n>>] = runs[<<d, n>>]
    BY <2>1, <2>2, <2>3 DEF Run, RunIds
  <2>4. ASSUME NEW d \in Calls, d # c
        PROVE  Run(d)' = Run(d) /\ runs'[Run(d)'] = runs[Run(d)]
    BY <2>2, <2>3, <2>4 DEF Run, TypeOK
  <2>5. ASSUME NEW d \in Calls, d # c
        PROVE  /\ pc'[d] \in {"idle", "append", "open"} => runs'[Run(d)'] = "none"
               /\ pc'[d] \in InRun => runs'[Run(d)'] = "running"
    BY <1>10, <2>4, <2>5 DEF RunsFollowCalls
  <2>6. /\ pc'[c] \notin {"idle", "append", "open"}
        /\ pc'[c] \notin InRun
    BY <1>11 DEF InRun
  <2>7. ASSUME NEW d \in Calls, NEW n \in 1..MaxCommitAttempts, n > attempt'[d]
        PROVE  runs'[<<d, n>>] = "none"
    BY <2>2, <2>3, <2>7 DEF RunsFollowCalls
  <2> QED
    BY <2>5, <2>6, <2>7 DEF RunsFollowCalls
<1>23. SnapshotsAreOldState'
  <2>1. SUFFICES ASSUME NEW d \in Calls, pc'[d] \in InRun, NEW k \in Keys
                 PROVE  /\ snapshot'[d][k].version <= state'[k].version
                        /\ snapshot'[d][k].version = state'[k].version =>
                             snapshot'[d][k] = state'[k]
    BY DEF SnapshotsAreOldState
  <2>2. d # c /\ snapshot'[d] = snapshot[d] /\ pc[d] \in InRun
    BY <2>1, <1>10, <1>11 DEF InRun
  <2>3. /\ snapshot[d][k].version \in Nat
        /\ snapshot[d][k].version <= state[k].version
        /\ snapshot[d][k].version = state[k].version => snapshot[d][k] = state[k]
    BY <2>2 DEF SnapshotsAreOldState, TypeOK
  <2> QED
    <3>1. CASE k \in Targets(accepted)
      <4>1. state'[k].version = state[k].version + 1
        BY <3>1, <1>6
      <4> QED
        BY <2>2, <2>3, <4>1, <1>8
    <3>2. CASE k \notin Targets(accepted)
      BY <2>2, <2>3, <3>2, <1>7
    <3> QED
      BY <3>1, <3>2
<1>24. HandledIsUnconsumed'
  <2>1. ASSUME NEW d \in Calls, d # c, Active(d), NEW s \in Subscribers
        PROVE  deliveries'[<<EventOf[d], s>>] = deliveries[<<EventOf[d], s>>]
    <3>1. EventOf[d] # e /\ EventOf[d] \in Events
      BY <2>1 DEF OneCallPerEvent, Active, Suspended, Commit, DispatchDone
    <3> QED
      BY <3>1, <1>12
  <2>2. \A d \in Calls : handled[d] \subseteq Subscribers
    BY DEF TypeOK
  <2>3. ASSUME NEW d \in Calls, NEW s \in handled'[d]
        PROVE  Active(d)' /\ deliveries'[<<EventOf[d], s>>].status # "completed"
    <3>1. d # c /\ s \in handled[d]
      BY <2>3, <1>10, <1>11
    <3>2. s \in Subscribers /\ Active(d) /\ deliveries[<<EventOf[d], s>>].status # "completed"
      BY <2>2, <3>1 DEF HandledIsUnconsumed
    <3>3. Active(d)'
      BY <3>1, <3>2, <1>10 DEF Active
    <3> QED
      BY <2>1, <3>1, <3>2, <3>3
  <2>4. ASSUME NEW d \in Calls, pc'[d] \in {"handle", "mark_failed"}
        PROVE  deliveries'[Delivery(d)'].status = "pending"
    <3>1. d # c /\ pc[d] \in {"handle", "mark_failed"} /\ Delivery(d)' = Delivery(d)
      BY <2>4, <1>10, <1>11 DEF Delivery, Subscriber, Subs
    <3>2. Subscriber(d) \in Subscribers /\ Active(d)
      BY <3>1, DeliveryType DEF NextInBounds, AtHandler, Active, Suspended
    <3> QED
      BY <2>1, <3>1, <3>2 DEF HandledIsUnconsumed, Delivery
  <2> QED
    BY <2>3, <2>4 DEF HandledIsUnconsumed
<1>25. AttemptsBounded'
  <2>1. ASSUME NEW d \in Events \X Subscribers, Retryable(d)'
        PROVE  deliveries'[d] = deliveries[d]
    BY <2>1, <1>12 DEF Retryable
  <2> QED
    BY <2>1 DEF AttemptsBounded, Retryable
<1>26. EffectsAreConsumed'
  <2>1. \A ch \in changes : <<ch.event, ch.subscriber>> \in Events \X Subscribers
    BY DEF TypeOK, ChangeRow
  <2>2. \A ch \in changes : deliveries'[<<ch.event, ch.subscriber>>].status = "completed"
    BY <2>1, <1>12 DEF EffectsAreConsumed
  <2>3. \A ch \in ChangeRows(c, accepted) :
          deliveries'[<<ch.event, ch.subscriber>>].status = "completed"
    BY <1>2, <1>4, <1>9, <1>12
  <2> QED
    BY <1>1, <2>2, <2>3 DEF EffectsAreConsumed
<1>27. OnlyCommittedRunsChangeState'
  <2>1. \A q \in RunIds : q # r => runs'[q] = runs[q]
    BY <1>1 DEF TypeOK
  <2>2. runs'[r] = "committed" <=> accepted # {}
    BY <1>1, <1>2 DEF TypeOK, CommitStatus
  <2>3. \A ch \in ChangeRows(c, accepted) : ch.run = r
    BY <1>9
  <2>4. accepted # {} => ChangeRows(c, accepted) # {}
    BY <1>9
  <2>5. accepted = {} => ChangeRows(c, accepted) = {}
    BY <1>9
  <2>6. changes' = changes \cup ChangeRows(c, accepted)
    BY <1>1
  <2> HIDE DEF r
  <2>7. runs'[r] = "committed" <=> \E ch \in changes' : ch.run = r
    BY <1>3, <2>2, <2>3, <2>4, <2>5, <2>6
  <2>8. \A q \in RunIds : q # r =>
          ((\E ch \in changes' : ch.run = q) <=> (\E ch \in changes : ch.run = q))
    BY <2>3, <2>6
  <2> QED
    BY <2>1, <2>7, <2>8 DEF OnlyCommittedRunsChangeState
<1>28. NoLostUpdate'
  <2>1. SUFFICES ASSUME NEW k \in Keys
                 PROVE  /\ state'[k].value = {ch.run : ch \in RowsOf(k)'}
                        /\ {ch.version : ch \in RowsOf(k)'} = 1..state'[k].version
                        /\ \A a, b \in RowsOf(k)' : a.version = b.version => a = b
    BY DEF NoLostUpdate
  <2>2. /\ state[k].value = {ch.run : ch \in RowsOf(k)}
        /\ {ch.version : ch \in RowsOf(k)} = 1..state[k].version
        /\ \A a, b \in RowsOf(k) : a.version = b.version => a = b
    BY DEF NoLostUpdate
  <2>3. CASE k \notin Targets(accepted)
    <3>1. RowsOf(k)' = RowsOf(k)
      BY <2>3, <1>1, <1>9 DEF RowsOf, Targets
    <3> QED
      BY ZenonT(40), <2>2, <2>3, <3>1, <1>7
  <2>4. CASE k \in Targets(accepted)
    <3>1. PICK w \in accepted : w[2] = k
      BY <2>4 DEF Targets
    <3> DEFINE row == [run |-> r, event |-> e, subscriber |-> w[1], key |-> k,
                       version |-> state[k].version + 1]
    <3>2. RowsOf(k)' = RowsOf(k) \cup {row}
      BY <3>1, <1>1, <1>5, <1>9 DEF RowsOf
    <3>3. \A ch \in RowsOf(k) : ch.version <= state[k].version
      BY <2>2, <1>8
    <3>4. state'[k].version = state[k].version + 1 /\ state'[k].value = state[k].value \cup {r}
      BY <2>4, <1>6
    <3>5. {ch.version : ch \in RowsOf(k)'} = 1..(state[k].version + 1)
      <4>0. \A v \in Nat : (1..v) \cup {v + 1} = 1..(v + 1)
        OBVIOUS
      <4>1. {ch.version : ch \in RowsOf(k)'} =
              {ch.version : ch \in RowsOf(k)} \cup {state[k].version + 1}
        <5>1. row.version = state[k].version + 1
          OBVIOUS
        <5> HIDE DEF row
        <5> QED
          BY <3>2, <5>1
      <4>2. {ch.version : ch \in RowsOf(k)'} = (1..state[k].version) \cup {state[k].version + 1}
        BY <2>2, <4>1
      <4> QED
        BY <4>0, <4>2, <1>8
    <3>6. {ch.run : ch \in RowsOf(k)'} = state[k].value \cup {r}
      <4>1. row.run = r
        OBVIOUS
      <4> HIDE DEF row, r
      <4> QED
        BY <2>2, <3>2, <4>1
    <3>7. ASSUME NEW a \in RowsOf(k)', NEW b \in RowsOf(k)', a.version = b.version
          PROVE  a = b
      BY <2>2, <3>2, <3>3, <3>7, <1>8
    <3> QED
      BY <3>4, <3>5, <3>6, <3>7
  <2> QED
    BY <2>3, <2>4
<1>29. EffectOnce'
  <2>1. ASSUME NEW a \in changes, NEW b \in ChangeRows(c, accepted),
               a.event = b.event, a.subscriber = b.subscriber
        PROVE  FALSE
    <3>1. b.event = e /\ b.subscriber \in handled[c]
      BY <1>4, <1>9
    <3> QED
      BY <2>1, <3>1 DEF EffectsAreConsumed, HandledIsUnconsumed
  <2>2. \A a \in ChangeRows(c, accepted) : a.run = r
    BY <1>9
  <2> QED
    BY <1>1, <2>1, <2>2 DEF EffectOnce
<1>30. NobodyActiveWhenDown'
  BY <1>10, <1>11 DEF NobodyActiveWhenDown, Commit, DispatchDone, Active, Suspended, procVars
<1> QED
  BY <1>20, <1>21, <1>22, <1>23, <1>24, <1>25, <1>26, <1>27, <1>28, <1>29, <1>30 DEF IInv

(* A crash ends every call and keeps every row.                            *)
LEMMA CrashPreserves ==
  ASSUME IInv, Crash
  PROVE  IInv'
<1> USE BoundsAssumption, EventOfAssumption, SubscriptionsAssumption DEF IInv
<1>1. /\ UNCHANGED <<runs, deliveries, state, changes, attempt>>
      /\ \A c \in Calls : pc'[c] \in {"idle", "returned", "raised", "lost"}
                            /\ (pc'[c] = "idle" => pc[c] = "idle")
      /\ \A c \in Calls : next'[c] = 1 /\ proposals'[c] = {} /\ handled'[c] = {}
  BY DEF Crash, TypeOK, Active, Suspended, dbVars
<1>2. TypeOK'
  <2>1. \A c \in Calls : Len(Subs(c)) \in Nat
    BY DEF Subs
  <2>2. /\ next' \in [Calls -> Nat]
        /\ \A c \in Calls : next'[c] \in 1..(Len(Subs(c)) + 1)
    BY <2>1 DEF Crash
  <2>3. snapshot' \in [Calls -> [Keys -> [version : Nat, value : SUBSET RunIds]]]
    BY DEF Crash, EmptyState
  <2>4. /\ pc' \in [Calls -> Places]
        /\ proposals' \in [Calls -> SUBSET (Subscribers \X Keys)]
        /\ handled' \in [Calls -> SUBSET Subscribers]
    BY DEF Crash, TypeOK, Places
  <2>5. up' \in BOOLEAN /\ crashes' \in 0..MaxCrashes
    <3>1. crashes \in 0..MaxCrashes
      BY DEF TypeOK
    <3>2. crashes < MaxCrashes /\ crashes' = crashes + 1
      BY DEF Crash
    <3>3. crashes' \in 0..MaxCrashes
      BY <3>1, <3>2
    <3>4. up' \in BOOLEAN
      BY Zenon DEF Crash
    <3> QED
      BY <3>3, <3>4
  <2>6. UNCHANGED <<stored, runs, deliveries, state, changes, failures, ownRows, attempt, outcome>>
    BY DEF Crash, dbVars
  <2> QED
    BY <2>2, <2>3, <2>4, <2>5, <2>6 DEF TypeOK, Subs
<1>3. OneCallPerEvent' /\ NextInBounds' /\ SnapshotsAreOldState'
  BY <1>1 DEF OneCallPerEvent, NextInBounds, SnapshotsAreOldState, Active,
     Suspended, AtHandler, InRun
<1>4. RunsFollowCalls'
  BY <1>1 DEF RunsFollowCalls, Run, InRun
<1>5. ProposalsOwned' /\ HandledIsUnconsumed' /\ AttemptsBounded'
  <2>1. \A c \in Calls : pc'[c] \notin {"handle", "mark_failed"}
    BY <1>1
  <2> QED
    BY <1>1, <2>1 DEF ProposalsOwned, HandledIsUnconsumed, AttemptsBounded, Retryable
<1>6. NobodyActiveWhenDown'
  BY <1>1 DEF NobodyActiveWhenDown, Active, Suspended
<1> QED
  BY <1>1, <1>2, <1>3, <1>4, <1>5, <1>6, LedgerUnchanged DEF IInv

(* While the process is down no call is active, so the runs recovery       *)
(* closes belong to nobody.                                                *)
LEMMA RestartPreserves ==
  ASSUME IInv, Restart
  PROVE  IInv'
<1> USE BoundsAssumption, EventOfAssumption, SubscriptionsAssumption DEF IInv
<1>1. /\ UNCHANGED <<crashes, stored, deliveries, state, changes, failures, ownRows>>
      /\ UNCHANGED <<pc, attempt, next, snapshot, proposals, handled, outcome>>
  BY DEF Restart, callVars, runLocals
<1>2. TypeOK'
  BY <1>1 DEF Restart, TypeOK, RunStatus, Subs
<1>3. OneCallPerEvent' /\ NextInBounds' /\ SnapshotsAreOldState' /\ ProposalsOwned'
  BY <1>1 DEF OneCallPerEvent, NextInBounds, SnapshotsAreOldState, ProposalsOwned, Active, Subs
<1>4. HandledIsUnconsumed'
  BY <1>1 DEF HandledIsUnconsumed, Active, Delivery, Subscriber, Subs
<1>5. AttemptsBounded' /\ EffectsAreConsumed' /\ NoLostUpdate' /\ EffectOnce'
  BY <1>1 DEF AttemptsBounded, Retryable, EffectsAreConsumed, NoLostUpdate, EffectOnce, RowsOf
<1>6. \A r \in RunIds : /\ runs[r] = "none" => runs'[r] = "none"
                        /\ runs'[r] = "committed" <=> runs[r] = "committed"
  BY DEF Restart
<1>7. OnlyCommittedRunsChangeState'
  BY <1>1, <1>6 DEF OnlyCommittedRunsChangeState
<1>8. RunsFollowCalls'
  <2>1. \A c \in Calls : pc[c] \notin InRun
    BY DEF NobodyActiveWhenDown, Restart, Active, Suspended, InRun
  <2>2. \A c \in Calls : Run(c)' = Run(c) /\ Run(c) \in RunIds
    BY <1>1, RunType DEF Run
  <2>3. \A c \in Calls, n \in 1..MaxCommitAttempts : <<c, n>> \in RunIds
    BY DEF RunIds
  <2> QED
    BY <1>1, <1>6, <2>1, <2>2, <2>3 DEF RunsFollowCalls
<1>9. NobodyActiveWhenDown'
  BY DEF NobodyActiveWhenDown, Restart
<1> QED
  BY <1>2, <1>3, <1>4, <1>5, <1>7, <1>8, <1>9 DEF IInv

-----------------------------------------------------------------------------
(* The empty database satisfies the invariant.                             *)
LEMMA InitIInv ==
  ASSUME Init
  PROVE  IInv
<1> USE BoundsAssumption, EventOfAssumption, SubscriptionsAssumption
<1>1. TypeOK
  BY DEF Init, TypeOK, RunIds, RunStatus, DeliveryStatus, Places, Outcomes, EmptyState, Subs
<1>2. NoLostUpdate
  BY DEF Init, NoLostUpdate, EmptyState, RowsOf
<1>3. AttemptsBounded /\ NobodyActiveWhenDown
  BY DEF Init, AttemptsBounded, NobodyActiveWhenDown
<1> QED
  BY <1>1, <1>2, <1>3
     DEF Init, IInv, OneCallPerEvent, NextInBounds, RunsFollowCalls,
         SnapshotsAreOldState, ProposalsOwned, HandledIsUnconsumed, EffectsAreConsumed,
         OnlyCommittedRunsChangeState, EffectOnce, Active, Suspended, InRun, AtHandler,
         Run, RunIds

(* A stuttering step changes no variable the invariant reads.              *)
LEMMA StutterPreserves ==
  ASSUME IInv, UNCHANGED vars
  PROVE  IInv'
<1> USE DEF IInv, vars, procVars, dbVars, callVars, runLocals
<1>1. TypeOK'
  BY DEF TypeOK, Subs
<1>2. /\ NobodyActiveWhenDown' /\ OneCallPerEvent' /\ NextInBounds' /\ RunsFollowCalls'
      /\ SnapshotsAreOldState' /\ ProposalsOwned'
  BY DEF NobodyActiveWhenDown, OneCallPerEvent, NextInBounds, RunsFollowCalls,
     SnapshotsAreOldState, ProposalsOwned, Active, Run, Subs
<1>3. HandledIsUnconsumed' /\ AttemptsBounded'
  BY DEF HandledIsUnconsumed, AttemptsBounded, Retryable, Active, Delivery, Subscriber, Subs
<1> QED
  BY <1>1, <1>2, <1>3, LedgerUnchanged DEF IInv

(* Every step preserves the invariant.                                     *)
LEMMA NextPreserves ==
  ASSUME IInv, [Next]_vars
  PROVE  IInv'
<1>1. ASSUME NEW c \in Calls, Process(c) \/ CallStep(c) \/ Fault(c)
      PROVE  IInv'
  BY <1>1, ProcessPreserves, AppendEventPreserves, OpenRunPreserves, InterpretPreserves,
     ReserveDeliveryPreserves, GiveUpDeliveryPreserves, SkipDeliveryPreserves,
     HandleEventPreserves, SubscriberFailsPreserves, MarkFailedPreserves,
     RecordFailurePreserves, DispatchErrorPreserves, CommitPreserves,
     CommitConflictPreserves, CommitErrorPreserves, ConflictRunPreserves,
     FailRunPreserves, ProcessRaisesPreserves
     DEF CallStep, Fault
<1>2. CASE Crash
  BY <1>2, CrashPreserves
<1>3. CASE Restart
  BY <1>3, RestartPreserves
<1>4. CASE UNCHANGED vars
  BY <1>4, StutterPreserves
<1> QED
  BY <1>1, <1>2, <1>3, <1>4 DEF Next

(* The strengthened invariant holds in every reachable state, whatever the *)
(* order in which concurrent calls, faults, crashes and restarts happen.   *)
THEOREM Invariance == Spec => []IInv
<1>1. Init => IInv
  BY InitIInv
<1>2. IInv /\ [Next]_vars => IInv'
  BY NextPreserves
<1> QED
  BY <1>1, <1>2, PTL DEF Spec

(* Type correctness.  It is more than bookkeeping here: a delivery never   *)
(* counts past its budget by more than the attempt that gave it up, and    *)
(* dispatch never runs off its list of subscriptions.                      *)
THEOREM TypeCorrect == Spec => []TypeOK
<1>1. IInv => TypeOK
  BY DEF IInv
<1> QED
  BY <1>1, Invariance, PTL

(* No committed update is ever lost, and the audit log of a key numbers    *)
(* its changes 1, 2, ... without a gap or a repeat (write_value).          *)
THEOREM UpdatesAreNeverLost == Spec => []NoLostUpdate
<1>1. IInv => NoLostUpdate
  BY DEF IInv
<1> QED
  BY <1>1, Invariance, PTL

(* The changes a subscriber makes for an event come from one run, however  *)
(* often the event is retried, offered again or interrupted.               *)
THEOREM EffectsHappenOnce == Spec => []EffectOnce
<1>1. IInv => EffectOnce
  BY DEF IInv
<1> QED
  BY <1>1, Invariance, PTL

(* A run has change rows exactly when it is recorded as committed: partial *)
(* psychology is never persisted through the committer.                    *)
THEOREM CommitIsAllOrNothing == Spec => []OnlyCommittedRunsChangeState
<1>1. IInv => OnlyCommittedRunsChangeState
  BY DEF IInv
<1> QED
  BY <1>1, Invariance, PTL

-----------------------------------------------------------------------------
(* How a step moves the delivery table: nothing that is consumed moves,    *)
(* and only a commit consumes.                                             *)
LEMMA DeliverySteps ==
  ASSUME IInv, [Next]_vars, NEW d \in Events \X Subscribers
  PROVE  /\ deliveries[d].status = "completed" => deliveries'[d] = deliveries[d]
         /\ deliveries[d].status # "completed" /\ deliveries'[d].status = "completed" =>
              \E c \in Calls : Commit(c) /\ d[1] = EventOf[c] /\ d[2] \in handled[c]
<1> USE EventOfAssumption, SubscriptionsAssumption DEF IInv
<1>1. ASSUME UNCHANGED deliveries
      PROVE  deliveries'[d] = deliveries[d]
  BY <1>1
<1>2. ASSUME NEW c \in Calls, Commit(c)
      PROVE  /\ deliveries[d].status = "completed" => deliveries'[d] = deliveries[d]
             /\ deliveries'[d] # deliveries[d] => d[1] = EventOf[c] /\ d[2] \in handled[c]
  <2>1. deliveries' = MarkCompleted(c)
    BY <1>2 DEF Commit
  <2>2. deliveries'[d] = IF d[1] = EventOf[c] /\ d[2] \in handled[c]
                           THEN [deliveries[d] EXCEPT !.status = "completed"]
                           ELSE deliveries[d]
    BY <2>1 DEF MarkCompleted
  <2>3. d = <<d[1], d[2]>>
    OBVIOUS
  <2> QED
    BY <2>2, <2>3 DEF HandledIsUnconsumed
<1>3. ASSUME NEW c \in Calls, NEW row, Delivery(c) \in Events \X Subscribers,
             deliveries' = [deliveries EXCEPT ![Delivery(c)] = row],
             deliveries[Delivery(c)].status # "completed", row.status # "completed"
      PROVE  /\ deliveries[d].status = "completed" => deliveries'[d] = deliveries[d]
             /\ deliveries[d].status # "completed" => deliveries'[d].status # "completed"
  BY <1>3 DEF TypeOK
<1>4. ASSUME NEW c \in Calls, ReserveDelivery(c)
      PROVE  /\ deliveries[d].status = "completed" => deliveries'[d] = deliveries[d]
             /\ deliveries[d].status # "completed" => deliveries'[d].status # "completed"
  <2>1. Delivery(c) \in Events \X Subscribers /\ deliveries[Delivery(c)].status # "completed"
    BY <1>4, DeliveryType DEF ReserveDelivery, AtSubscription, Retryable
  <2> DEFINE row == [status |-> "pending", attempts |-> deliveries[Delivery(c)].attempts + 1]
  <2>2. deliveries' = [deliveries EXCEPT ![Delivery(c)] = row] /\ row.status # "completed"
    BY <1>4, <2>1 DEF ReserveDelivery, TypeOK
  <2> QED
    BY <1>3, <2>1, <2>2
<1>5. ASSUME NEW c \in Calls, GiveUpDelivery(c)
      PROVE  /\ deliveries[d].status = "completed" => deliveries'[d] = deliveries[d]
             /\ deliveries[d].status # "completed" => deliveries'[d].status # "completed"
  <2>1. Delivery(c) \in Events \X Subscribers /\ deliveries[Delivery(c)].status # "completed"
    BY <1>5, DeliveryType DEF GiveUpDelivery, AtSubscription, Retryable
  <2> DEFINE row == [status |-> "failed_permanent",
                     attempts |-> deliveries[Delivery(c)].attempts + 1]
  <2>2. deliveries' = [deliveries EXCEPT ![Delivery(c)] = row] /\ row.status # "completed"
    BY <1>5, <2>1 DEF GiveUpDelivery, TypeOK
  <2> QED
    BY <1>3, <2>1, <2>2
<1>6. ASSUME NEW c \in Calls, MarkFailed(c)
      PROVE  /\ deliveries[d].status = "completed" => deliveries'[d] = deliveries[d]
             /\ deliveries[d].status # "completed" => deliveries'[d].status # "completed"
  <2>1. Delivery(c) \in Events \X Subscribers /\ deliveries[Delivery(c)].status = "pending"
    BY <1>6, DeliveryType DEF MarkFailed, NextInBounds, AtHandler, HandledIsUnconsumed
  <2> QED
    BY <1>6, <2>1 DEF MarkFailed, TypeOK
<1>7. ASSUME NEW c \in Calls,
             \/ Process(c) \/ AppendEvent(c) \/ OpenRun(c) \/ Interpret(c)
             \/ SkipDelivery(c) \/ HandleEvent(c) \/ SubscriberFails(c) \/ RecordFailure(c)
             \/ CommitConflict(c) \/ ConflictRun(c) \/ FailRun(c) \/ Fault(c)
      PROVE  UNCHANGED deliveries
  BY <1>7 DEF Process, AppendEvent, OpenRun, Interpret, SkipDelivery, HandleEvent,
     SubscriberFails, RecordFailure, CommitConflict, ConflictRun, FailRun, Fault,
     DispatchError, CommitError, ProcessRaises, dbVars
<1>8. ASSUME Crash \/ Restart \/ UNCHANGED vars
      PROVE  UNCHANGED deliveries
  BY <1>8 DEF Crash, Restart, vars, dbVars
<1> QED
  BY <1>1, <1>2, <1>4, <1>5, <1>6, <1>7, <1>8 DEF Next, CallStep

(* A consumed delivery is never taken back by a late failure, a retry, a   *)
(* redelivery or a restart.                                                *)
THEOREM ConsumptionIsFinal == Spec => ConsumedIsFinal
<1>1. IInv /\ [Next]_vars =>
        [\A d \in Events \X Subscribers :
           deliveries[d].status = "completed" => deliveries'[d].status = "completed"]_vars
  BY DeliverySteps
<1> QED
  BY <1>1, Invariance, PTL DEF Spec, ConsumedIsFinal

(* A closed run keeps its verdict: no later attempt, crash or recovery     *)
(* rewrites it.                                                            *)
THEOREM VerdictsAreFinal == Spec => ClosedRunsStayClosed
<1>1. ASSUME IInv, [Next]_vars, NEW r \in RunIds, runs[r] \notin {"none", "running"}
      PROVE  runs'[r] = runs[r]
  <2>1. ASSUME NEW c \in Calls, NEW status, runs' = [runs EXCEPT ![Run(c)] = status],
               pc[c] \in InRun \cup {"open"}
        PROVE  runs'[r] = runs[r]
    <3>1. runs[Run(c)] \in {"none", "running"}
      BY <1>1, <2>1 DEF IInv, RunsFollowCalls
    <3> QED
      BY <1>1, <2>1, <3>1 DEF IInv, TypeOK
  <2>2. ASSUME NEW c \in Calls, OpenRun(c) \/ Commit(c) \/ ConflictRun(c) \/ FailRun(c)
        PROVE  runs'[r] = runs[r]
    BY <2>1, <2>2 DEF OpenRun, Commit, ConflictRun, FailRun, DispatchDone, InRun
  <2>3. ASSUME NEW c \in Calls,
               \/ Process(c) \/ AppendEvent(c) \/ Interpret(c) \/ ReserveDelivery(c)
               \/ GiveUpDelivery(c) \/ SkipDelivery(c) \/ HandleEvent(c)
               \/ SubscriberFails(c) \/ MarkFailed(c) \/ RecordFailure(c)
               \/ CommitConflict(c) \/ Fault(c)
        PROVE  UNCHANGED runs
    BY <2>3 DEF Process, AppendEvent, Interpret, ReserveDelivery, GiveUpDelivery,
       SkipDelivery, HandleEvent, SubscriberFails, MarkFailed, RecordFailure,
       CommitConflict, Fault, DispatchError, CommitError, ProcessRaises, dbVars
  <2>4. ASSUME Crash \/ UNCHANGED vars
        PROVE  UNCHANGED runs
    BY <2>4 DEF Crash, vars, dbVars
  <2>5. CASE Restart
    BY <1>1, <2>5 DEF Restart
  <2> QED
    BY <1>1, <2>2, <2>3, <2>4, <2>5 DEF Next, CallStep
<1>2. IInv /\ [Next]_vars =>
        [\A r \in RunIds : runs[r] \notin {"none", "running"} => runs'[r] = runs[r]]_vars
  BY <1>1
<1> QED
  BY <1>2, Invariance, PTL DEF Spec, ClosedRunsStayClosed

-----------------------------------------------------------------------------
(* The refinement: a commit is one Apply of the ledger, every other step   *)
(* leaves what the ledger sees alone.                                      *)
LEMMA CommitApplies ==
  ASSUME IInv, NEW c \in Calls, Commit(c)
  PROVE  Ledger!Next
<1> USE EventOfAssumption, SubscriptionsAssumption DEF IInv
<1> DEFINE e == EventOf[c]
           r == Run(c)
           S == handled[c]
           consumed == {d \in Events \X Subscribers : deliveries[d].status = "completed"}
<1>1. PICK W \in SUBSET proposals[c] :
        /\ VersionsCurrent(c, W)
        /\ state' = WriteValues(c, W)
        /\ changes' = changes \cup ChangeRows(c, W)
        /\ deliveries' = MarkCompleted(c)
  BY DEF Commit
<1>2. r \in RunIds /\ e \in Events /\ S \in SUBSET Subscribers /\ runs[r] = "running"
  BY RunType DEF RunsFollowCalls, Commit, DispatchDone, InRun, TypeOK
<1>3. ASSUME NEW w \in W
      PROVE  w = <<w[1], w[2]>> /\ w[1] \in S /\ w[2] \in Keys
  BY DEF ProposalsOwned, TypeOK
<1>4. W \in SUBSET (S \X Keys)
  BY <1>3
<1>5. \A s \in S : <<e, s>> \notin consumed
  BY DEF HandledIsUnconsumed
<1>6. \A ch \in changes : ch.run # r
  BY <1>2 DEF OnlyCommittedRunsChangeState
<1>7. consumed' = consumed \cup {<<e, s>> : s \in S}
  <2>1. ASSUME NEW d \in Events \X Subscribers
        PROVE  deliveries'[d].status = "completed" <=>
                 deliveries[d].status = "completed" \/ (d[1] = e /\ d[2] \in S)
    BY <1>1 DEF MarkCompleted, TypeOK
  <2>2. ASSUME NEW d \in Events \X Subscribers
        PROVE  d[1] = e /\ d[2] \in S <=> d \in {<<e, s>> : s \in S}
    OBVIOUS
  <2>3. {<<e, s>> : s \in S} \subseteq Events \X Subscribers
    BY <1>2
  <2> QED
    BY <2>1, <2>2, <2>3
<1>8. \A k \in Targets(W) : snapshot[c][k] = state[k]
  <2>1. pc[c] \in InRun /\ Targets(W) \subseteq Keys
    BY <1>3 DEF Commit, DispatchDone, InRun, Targets
  <2> QED
    BY <1>1, <2>1 DEF VersionsCurrent, SnapshotsAreOldState
<1>9. state' = [k \in Keys |->
                  IF \E s \in S : <<s, k>> \in W
                    THEN [version |-> state[k].version + 1,
                          value   |-> state[k].value \cup {r}]
                    ELSE state[k]]
  <2>1. \A k \in Keys : k \in Targets(W) <=> \E s \in S : <<s, k>> \in W
    BY <1>3 DEF Targets
  <2> QED
    BY <1>1, <1>8, <2>1 DEF WriteValues
<1>10. changes' = changes \cup
         {[run |-> r, event |-> e, subscriber |-> w[1], key |-> w[2],
           version |-> state[w[2]].version + 1] : w \in W}
  <2>1. \A w \in W : snapshot[c][w[2]] = state[w[2]]
    BY <1>8 DEF Targets
  <2> QED
    BY <1>1, <2>1 DEF ChangeRows
<1>11. Ledger!Apply(r, e, S, W)
  BY <1>3, <1>5, <1>6, <1>7, <1>9, <1>10 DEF Ledger!Apply
<1> QED
  BY <1>2, <1>4, <1>11 DEF Ledger!Next

(* The pipeline implements the exactly-once ledger: seen through its       *)
(* consumed deliveries, values and audit log, whatever runs, fails or      *)
(* crashes, each event takes effect on each subscriber in one step on the  *)
(* present values, at most once.                                           *)
THEOREM PipelineImplementsLedger == Spec => ImplementsLedger
<1>1. Init => Ledger!Init
  <2>1. ASSUME Init
        PROVE  Ledger!Init
    BY <2>1 DEF Init, Ledger!Init, EmptyState
  <2> QED
    BY <2>1
<1>2. ASSUME IInv, [Next]_vars
      PROVE  [Ledger!Next]_Ledger!vars
  <2>1. CASE \E c \in Calls : Commit(c)
    BY <1>2, <2>1, CommitApplies
  <2>2. CASE ~ \E c \in Calls : Commit(c)
    <3>1. \A d \in Events \X Subscribers :
            deliveries'[d].status = "completed" <=> deliveries[d].status = "completed"
      BY <1>2, <2>2, DeliverySteps
    <3>2. UNCHANGED <<state, changes>>
      BY <1>2, <2>2 DEF Next, CallStep, Fault, vars, dbVars, Process, AppendEvent, OpenRun,
         Interpret, ReserveDelivery, GiveUpDelivery, SkipDelivery, HandleEvent,
         SubscriberFails, MarkFailed, RecordFailure, DispatchError, CommitConflict,
         CommitError, ConflictRun, FailRun, ProcessRaises, Crash, Restart
    <3> QED
      BY <3>1, <3>2 DEF Ledger!vars
  <2> QED
    BY <2>1, <2>2
<1> QED
  BY <1>1, <1>2, Invariance, PTL DEF Spec, ImplementsLedger, Ledger!Spec

-----------------------------------------------------------------------------
(***************************************************************************)
(* The records of an event and what its callers were told.                 *)
(***************************************************************************)
(* A subscriber that was handled is one the event has.                     *)
LEMMA HandlingNeedsASubscriber ==
  ASSUME IInv, NobodyHandlesNothing, [Next]_vars
  PROVE  NobodyHandlesNothing'
<1>1. CASE \E c \in Calls : HandleEvent(c)
  <2>1. PICK c \in Calls : HandleEvent(c)
    BY <1>1
  <2>2. Len(Subs(c)) # 0
    <3>1. next[c] \in 1..Len(Subs(c)) /\ Len(Subs(c)) \in Nat
      BY <2>1, EventOfAssumption, SubscriptionsAssumption
      DEF HandleEvent, IInv, TypeOK, NextInBounds, AtHandler, Subs
    <3>2. QED
      BY <3>1
  <2>3. \A d \in Calls : d # c => handled'[d] = handled[d]
    BY <2>1 DEF HandleEvent, IInv, TypeOK
  <2>4. \A d \in Calls : Subs(d)' = Subs(d)
    BY DEF Subs
  <2>5. QED
    BY <2>2, <2>3, <2>4 DEF NobodyHandlesNothing
<1>2. CASE ~ \E c \in Calls : HandleEvent(c)
  <2>1. \A c \in Calls : handled'[c] \in {handled[c], {}}
    BY <1>2 DEF Next, CallStep, Fault, vars, callVars, runLocals, EndRun, Process, AppendEvent,
       OpenRun, Interpret, ReserveDelivery, GiveUpDelivery, SkipDelivery, SubscriberFails,
       MarkFailed, RecordFailure, DispatchError, Commit, CommitConflict, CommitError,
       ConflictRun, FailRun, ProcessRaises, Crash, Restart, IInv, TypeOK
  <2>2. \A d \in Calls : Subs(d)' = Subs(d)
    BY DEF Subs
  <2>3. QED
    BY <2>1, <2>2 DEF NobodyHandlesNothing
<1>3. QED
  BY <1>1, <1>2

(* A call that moves on keeps its run alive, whoever else does what.       *)
LEMMA CallMovesOn ==
  ASSUME IInv, RecordsInv, NEW c \in Calls, pc[c] \notin {"returned", "lost", "raised"},
         NEW place \in Places \ {"idle", "returned", "lost"}, pc' = [pc EXCEPT ![c] = place],
         UNCHANGED <<up, runs, attempt, outcome>>
  PROVE  OutcomeMatchesRuns' /\ RunningRunsAreLive' /\ ToldWhenReturned'
<1>1. /\ \A d \in Calls : d # c => pc'[d] = pc[d]
      /\ pc'[c] = place /\ (Active(c)' \/ pc'[c] = "raised")
  BY DEF IInv, TypeOK, Active, Suspended, Places
<1>2. OutcomeMatchesRuns'
  BY DEF RecordsInv, RecordsKept, OutcomeMatchesRuns
<1>3. RunningRunsAreLive'
  <2>1. \A d \in Calls : Active(d) \/ pc[d] = "raised" => Active(d)' \/ pc'[d] = "raised"
    BY <1>1 DEF Active
  <2>2. \A r \in RunIds : r[1] \in Calls
    BY DEF RunIds
  <2>3. QED
    BY <2>1, <2>2 DEF RecordsInv, RecordsKept, RunningRunsAreLive
<1>4. ToldWhenReturned'
  BY <1>1 DEF RecordsInv, RecordsKept, ToldWhenReturned
<1>5. QED
  BY <1>2, <1>3, <1>4

(* The steps of a call that are about neither its run nor its deliveries.  *)
LEMMA MovingOnKeepsRecords ==
  ASSUME IInv, RecordsInv, NEW c \in Calls,
         \/ Process(c) \/ AppendEvent(c) \/ Interpret(c) \/ HandleEvent(c) \/ SubscriberFails(c)
         \/ RecordFailure(c) \/ CommitConflict(c) \/ Fault(c)
  PROVE  RecordsKept'
<1>1. /\ \E place \in Places \ {"idle", "returned", "lost"} : pc' = [pc EXCEPT ![c] = place]
      /\ pc[c] \notin {"returned", "lost", "raised"}
      /\ UNCHANGED <<up, runs, attempt, outcome, deliveries>>
  BY DEF Process, AppendEvent, Interpret, HandleEvent, SubscriberFails, RecordFailure,
         CommitConflict, Fault, DispatchError, CommitError, ProcessRaises, DispatchDone,
         AtSubscription, Places, procVars, dbVars, runLocals
<1>2. ConsumedByARun'
  BY <1>1 DEF RecordsInv, RecordsKept, ConsumedByARun
<1>3. QED
  BY <1>1, <1>2, CallMovesOn DEF RecordsKept

(* The steps that move a delivery leave it unconsumed.                     *)
LEMMA DeliveringKeepsRecords ==
  ASSUME IInv, RecordsInv, NEW c \in Calls,
         ReserveDelivery(c) \/ GiveUpDelivery(c) \/ SkipDelivery(c) \/ MarkFailed(c)
  PROVE  RecordsKept'
<1>1. /\ pc[c] \in {"dispatch", "mark_failed"}
      /\ UNCHANGED <<up, runs, attempt, outcome>>
  BY DEF ReserveDelivery, GiveUpDelivery, SkipDelivery, MarkFailed, AtSubscription,
         procVars, dbVars, runLocals
<1>2. pc' = [pc EXCEPT ![c] = pc'[c]] /\ pc'[c] \in {"dispatch", "handle", "record_failure"}
  BY <1>1 DEF ReserveDelivery, GiveUpDelivery, SkipDelivery, MarkFailed, AtSubscription,
              IInv, TypeOK
<1>3. \A d \in Events \X Subscribers :
        deliveries'[d].status = "completed" => deliveries[d].status = "completed"
  <2>1. \A d \in Events \X Subscribers :
          deliveries[d] \in [status : DeliveryStatus, attempts : 0..(MaxAttempts + 1)]
    BY DEF IInv, TypeOK
  <2>2. CASE ReserveDelivery(c) \/ GiveUpDelivery(c)
    <3>1. PICK row : /\ row.status # "completed"
                     /\ deliveries' = [deliveries EXCEPT ![Delivery(c)] = row]
      BY <2>2 DEF ReserveDelivery, GiveUpDelivery
    <3>2. QED
      BY <3>1 DEF IInv, TypeOK
  <2>3. CASE SkipDelivery(c)
    BY <2>3 DEF SkipDelivery, dbVars
  <2>4. CASE MarkFailed(c)
    <3>1. deliveries' = [deliveries EXCEPT ![Delivery(c)].status = "failed_retryable"]
      BY <2>4 DEF MarkFailed
    <3>2. QED
      BY <2>1, <3>1 DEF IInv, TypeOK
  <2>5. QED
    BY <2>2, <2>3, <2>4
<1>4. ConsumedByARun'
  BY <1>1, <1>3 DEF RecordsInv, RecordsKept, ConsumedByARun
<1>5. pc'[c] \in Places \ {"idle", "returned", "lost"}
  BY <1>2 DEF Places
<1>6. QED
  BY <1>1, <1>2, <1>4, <1>5, CallMovesOn DEF RecordsKept

(* A run that was not closed yet gets its status; the others keep theirs.  *)
LEMMA RunsKept ==
  ASSUME IInv, NEW c \in Calls, pc[c] \in InRun \cup {"open"},
         NEW status, runs' = [runs EXCEPT ![Run(c)] = status]
  PROVE  /\ runs[Run(c)] \in {"none", "running"}
         /\ runs'[Run(c)] = status
         /\ \A r \in RunIds : r # Run(c) => runs'[r] = runs[r]
  BY RunType DEF IInv, TypeOK, RunsFollowCalls

LEMMA OpenRunKeepsRecords ==
  ASSUME IInv, RecordsInv, NEW c \in Calls, OpenRun(c)
  PROVE  RecordsKept'
<1>1. /\ pc[c] = "open" /\ pc' = [pc EXCEPT ![c] = "interpret"]
      /\ runs' = [runs EXCEPT ![Run(c)] = "running"]
      /\ UNCHANGED <<up, attempt, outcome, deliveries>>
  BY DEF OpenRun, procVars
<1>2. /\ runs[Run(c)] \in {"none", "running"}
      /\ runs'[Run(c)] = "running"
      /\ \A r \in RunIds : r # Run(c) => runs'[r] = runs[r]
  BY <1>1, RunsKept
<1>3. ConsumedByARun'
  BY <1>1, <1>2 DEF RecordsInv, RecordsKept, ConsumedByARun
<1>4. /\ \A d \in Calls : d # c => pc'[d] = pc[d]
      /\ pc'[c] = "interpret" /\ outcome[c] = "none"
  BY <1>1 DEF IInv, TypeOK, RecordsInv, RecordsKept, ToldWhenReturned
<1>5. ToldWhenReturned'
  BY <1>1, <1>4 DEF RecordsInv, RecordsKept, ToldWhenReturned
<1>6. RunningRunsAreLive'
  <2>1. \A d \in Calls : Active(d) \/ pc[d] = "raised" => Active(d)' \/ pc'[d] = "raised"
    BY <1>4 DEF Active, Suspended
  <2>2. \A r \in RunIds : r[1] \in Calls
    BY DEF RunIds
  <2>3. Run(c)[1] = c /\ Run(c)[2] = attempt[c] /\ Active(c)'
    BY <1>4 DEF Run, Active, Suspended
  <2>4. QED
    BY <1>1, <1>2, <2>1, <2>2, <2>3 DEF RecordsInv, RecordsKept, RunningRunsAreLive
<1>7. OutcomeMatchesRuns'
  <2>1. \A d \in Calls, n \in 1..MaxCommitAttempts :
          <<d, n>> \in RunIds /\ (<<d, n>> # Run(c) => runs'[<<d, n>>] = runs[<<d, n>>])
    BY <1>2 DEF RunIds
  <2>2. SUFFICES ASSUME NEW d \in Calls
        PROVE  LET last == <<d, attempt[d]>> IN
          /\ \A n \in 1..(attempt[d] - 1) : runs'[<<d, n>>] = "conflicted"
          /\ \A n \in (attempt[d] + 1)..MaxCommitAttempts : runs'[<<d, n>>] = "none"
          /\ outcome[d] = "committed" => runs'[last] = "committed"
          /\ outcome[d] \in {"rejected", "no_subscribers"} => runs'[last] = "rejected"
          /\ outcome[d] = "failed" => runs'[last] = "failed"
          /\ outcome[d] = "conflict" => runs'[last] = "conflicted" /\ attempt[d] = MaxCommitAttempts
    BY <1>1 DEF OutcomeMatchesRuns
  <2>3. attempt[d] \in 1..MaxCommitAttempts /\ MaxCommitAttempts \in Nat
    BY BoundsAssumption DEF IInv, TypeOK
  <2>4. \A n \in 1..MaxCommitAttempts : n # attempt[d] \/ d # c => runs'[<<d, n>>] = runs[<<d, n>>]
    BY <2>1 DEF Run
  <2>5. QED
    BY <1>4, <2>3, <2>4 DEF RecordsInv, RecordsKept, OutcomeMatchesRuns
<1>8. QED
  BY <1>3, <1>5, <1>6, <1>7 DEF RecordsKept

(* A run ends: its call learns what the row says, or goes round again.     *)
LEMMA EndingARunKeepsRecords ==
  ASSUME IInv, RecordsInv, NEW c \in Calls, pc[c] \in InRun,
         NEW status \in {"committed", "rejected", "failed", "conflicted"},
         runs' = [runs EXCEPT ![Run(c)] = status],
         \/ /\ status = "conflicted" /\ attempt[c] < MaxCommitAttempts
            /\ attempt' = [attempt EXCEPT ![c] = @ + 1]
            /\ pc' = [pc EXCEPT ![c] = "append"] /\ outcome' = outcome
         \/ /\ pc' = [pc EXCEPT ![c] = "returned"] /\ attempt' = attempt
            /\ \E told \in Outcomes :
                 /\ outcome' = [outcome EXCEPT ![c] = told]
                 /\ told = "committed" => status = "committed"
                 /\ told \in {"rejected", "no_subscribers"} => status = "rejected"
                 /\ told = "failed" => status = "failed"
                 /\ told = "conflict" =>
                      status = "conflicted" /\ attempt[c] = MaxCommitAttempts
  PROVE  OutcomeMatchesRuns' /\ RunningRunsAreLive' /\ ToldWhenReturned'
<1>1. /\ runs[Run(c)] \in {"none", "running"}
      /\ runs'[Run(c)] = status
      /\ \A r \in RunIds : r # Run(c) => runs'[r] = runs[r]
  BY RunsKept
<1>2. /\ \A d \in Calls : d # c =>
           pc'[d] = pc[d] /\ attempt'[d] = attempt[d] /\ outcome'[d] = outcome[d]
      /\ attempt[c] \in 1..MaxCommitAttempts /\ MaxCommitAttempts \in Nat
      /\ outcome[c] = "none"
  BY BoundsAssumption DEF IInv, TypeOK, RecordsInv, RecordsKept, ToldWhenReturned, InRun
<1>3. \/ /\ status = "conflicted" /\ attempt[c] < MaxCommitAttempts
         /\ attempt'[c] = attempt[c] + 1 /\ pc'[c] = "append" /\ outcome'[c] = "none"
      \/ /\ pc'[c] = "returned" /\ attempt'[c] = attempt[c]
         /\ outcome'[c] = "committed" => status = "committed"
         /\ outcome'[c] \in {"rejected", "no_subscribers"} => status = "rejected"
         /\ outcome'[c] = "failed" => status = "failed"
         /\ outcome'[c] = "conflict" =>
              status = "conflicted" /\ attempt[c] = MaxCommitAttempts
  BY <1>2 DEF IInv, TypeOK
<1>4. ToldWhenReturned'
  BY <1>2, <1>3 DEF RecordsInv, RecordsKept, ToldWhenReturned
<1>5. RunningRunsAreLive'
  <2>1. \A d \in Calls : d # c => (Active(d)' <=> Active(d))
    BY <1>2 DEF Active
  <2>2. up' => up
    BY DEF IInv, NobodyActiveWhenDown, Active, Suspended, InRun
  <2>3. SUFFICES ASSUME NEW r \in RunIds, runs'[r] = "running"
        PROVE  attempt'[r[1]] = r[2] /\ (Active(r[1])' \/ pc'[r[1]] = "raised")
    BY DEF RunningRunsAreLive
  <2>4. r # Run(c) /\ runs[r] = "running" /\ r \in Calls \X (1..MaxCommitAttempts)
    BY <1>1, <2>3 DEF RunIds
  <2>5. attempt[r[1]] = r[2] /\ (Active(r[1]) \/ pc[r[1]] = "raised")
    <3>1. up
      BY DEF IInv, NobodyActiveWhenDown, Active, Suspended, InRun
    <3>2. QED
      BY <2>4, <3>1 DEF RecordsInv, RecordsKept, RunningRunsAreLive
  <2>6. r[1] # c
    BY <2>4, <2>5 DEF Run
  <2>7. QED
    BY <1>2, <2>1, <2>4, <2>5, <2>6
<1>6. OutcomeMatchesRuns'
  <2>1. SUFFICES ASSUME NEW d \in Calls
        PROVE  LET last == <<d, attempt'[d]>> IN
          /\ \A n \in 1..(attempt'[d] - 1) : runs'[<<d, n>>] = "conflicted"
          /\ \A n \in (attempt'[d] + 1)..MaxCommitAttempts : runs'[<<d, n>>] = "none"
          /\ outcome'[d] = "committed" => runs'[last] = "committed"
          /\ outcome'[d] \in {"rejected", "no_subscribers"} => runs'[last] = "rejected"
          /\ outcome'[d] = "failed" => runs'[last] = "failed"
          /\ outcome'[d] = "conflict" => runs'[last] = "conflicted" /\ attempt'[d] = MaxCommitAttempts
    BY DEF OutcomeMatchesRuns
  <2>2. attempt[d] \in 1..MaxCommitAttempts
    BY DEF IInv, TypeOK
  <2>3. \A n \in 1..MaxCommitAttempts : n # attempt[d] \/ d # c => runs'[<<d, n>>] = runs[<<d, n>>]
    BY <1>1 DEF Run, RunIds
  <2>4. CASE d # c
    BY <1>2, <2>2, <2>3, <2>4 DEF RecordsInv, RecordsKept, OutcomeMatchesRuns
  <2>5. CASE d = c
    <3>1. runs'[<<c, attempt[c]>>] = status
      BY <1>1 DEF Run
    <3>2. /\ \A n \in 1..(attempt[c] - 1) : runs'[<<c, n>>] = "conflicted"
          /\ \A n \in (attempt[c] + 1)..MaxCommitAttempts : runs'[<<c, n>>] = "none"
      <4>1. /\ \A n \in 1..(attempt[c] - 1) : runs[<<c, n>>] = "conflicted"
            /\ \A n \in (attempt[c] + 1)..MaxCommitAttempts : runs[<<c, n>>] = "none"
        BY DEF RecordsInv, RecordsKept, OutcomeMatchesRuns
      <4>2. \A n \in 1..MaxCommitAttempts : n # attempt[c] => runs'[<<c, n>>] = runs[<<c, n>>]
        BY <2>3, <2>5
      <4>3. attempt[c] \in Nat /\ attempt[c] <= MaxCommitAttempts /\ attempt[c] >= 1
        BY <1>2
      <4>4. \A n \in 1..(attempt[c] - 1) : n \in 1..MaxCommitAttempts /\ n # attempt[c]
        BY <1>2, <4>3
      <4>5. \A n \in (attempt[c] + 1)..MaxCommitAttempts :
              n \in 1..MaxCommitAttempts /\ n # attempt[c]
        BY <1>2, <4>3
      <4>6. QED
        BY <4>1, <4>2, <4>4, <4>5
    <3>3. CASE pc'[c] = "returned"
      BY <1>3, <2>5, <3>1, <3>2, <3>3
    <3>4. CASE pc'[c] = "append"
      <4>1. status = "conflicted" /\ attempt'[c] = attempt[c] + 1 /\ outcome'[c] = "none"
        BY <1>3, <3>4
      <4>2. \A n \in 1..(attempt'[c] - 1) : runs'[<<c, n>>] = "conflicted"
        BY <1>2, <3>1, <3>2, <4>1
      <4>3. \A n \in (attempt'[c] + 1)..MaxCommitAttempts : runs'[<<c, n>>] = "none"
        BY <1>2, <3>2, <4>1
      <4>4. QED
        BY <2>5, <4>1, <4>2, <4>3
    <3>5. QED
      BY <1>3, <3>3, <3>4
  <2>6. QED
    BY <2>4, <2>5
<1>7. QED
  BY <1>4, <1>5, <1>6

(* A run that fails or loses its race had consumed nothing.                *)
LEMMA UncommittedEndKeepsRecords ==
  ASSUME IInv, RecordsInv, NEW c \in Calls, ConflictRun(c) \/ FailRun(c)
  PROVE  RecordsKept'
<1>1. pc[c] \in InRun /\ deliveries' = deliveries
  BY DEF ConflictRun, FailRun, InRun
<1>2. PICK status \in {"failed", "conflicted"} : runs' = [runs EXCEPT ![Run(c)] = status]
  BY DEF ConflictRun, FailRun
<1>3. runs[Run(c)] \in {"none", "running"} /\ \A r \in RunIds : r # Run(c) => runs'[r] = runs[r]
  BY <1>1, <1>2, RunsKept
<1>4. ConsumedByARun'
  BY <1>1, <1>3 DEF RecordsInv, RecordsKept, ConsumedByARun
<1>5. OutcomeMatchesRuns' /\ RunningRunsAreLive' /\ ToldWhenReturned'
  <2>1. attempt[c] \in 1..MaxCommitAttempts /\ MaxCommitAttempts \in Nat
    BY BoundsAssumption DEF IInv, TypeOK
  <2>2. CASE ConflictRun(c)
    <3>1. runs' = [runs EXCEPT ![Run(c)] = "conflicted"]
      BY <2>2 DEF ConflictRun
    <3>2. CASE attempt[c] < MaxCommitAttempts
      <4>1. /\ attempt' = [attempt EXCEPT ![c] = @ + 1]
            /\ pc' = [pc EXCEPT ![c] = "append"] /\ outcome' = outcome
        BY <2>2, <3>2 DEF ConflictRun
      <4>2. QED
        BY <1>1, <3>1, <3>2, <4>1, EndingARunKeepsRecords
    <3>3. CASE attempt[c] = MaxCommitAttempts
      <4>1. /\ attempt' = attempt /\ pc' = [pc EXCEPT ![c] = "returned"]
            /\ outcome' = [outcome EXCEPT ![c] = "conflict"]
        BY <2>1, <2>2, <3>3 DEF ConflictRun
      <4>2. QED
        BY <1>1, <3>1, <3>3, <4>1, EndingARunKeepsRecords DEF Outcomes
    <3>4. QED
      BY <2>1, <3>2, <3>3
  <2>3. CASE FailRun(c)
    BY <1>1, <2>3, EndingARunKeepsRecords DEF FailRun, Outcomes
  <2>4. QED
    BY <2>2, <2>3
<1>6. QED
  BY <1>4, <1>5 DEF RecordsKept

(* The commit consumes what its own run handled, and closes that run.      *)
LEMMA CommitKeepsRecords ==
  ASSUME IInv, RecordsInv, NEW c \in Calls, Commit(c)
  PROVE  RecordsKept'
<1>1. PICK accepted \in SUBSET proposals[c] :
        /\ runs' = [runs EXCEPT ![Run(c)] = CommitStatus(accepted)]
        /\ outcome' = [outcome EXCEPT ![c] = CommitOutcome(c, accepted)]
        /\ deliveries' = MarkCompleted(c)
  BY DEF Commit
<1>2. pc[c] \in InRun /\ pc' = [pc EXCEPT ![c] = "returned"] /\ attempt' = attempt
  BY DEF Commit, DispatchDone, InRun
<1>3. /\ CommitStatus(accepted) \in {"committed", "rejected"}
      /\ CommitOutcome(c, accepted) \in {"no_subscribers", "committed", "rejected"}
      /\ CommitOutcome(c, accepted) = "committed" => CommitStatus(accepted) = "committed"
      /\ CommitOutcome(c, accepted) = "rejected" => CommitStatus(accepted) = "rejected"
  BY DEF CommitStatus, CommitOutcome
<1>4. CommitOutcome(c, accepted) = "no_subscribers" => CommitStatus(accepted) = "rejected"
  <2>1. SUFFICES ASSUME Len(Subs(c)) = 0
        PROVE  accepted = {}
    BY DEF CommitStatus, CommitOutcome
  <2>2. handled[c] = {}
    BY <2>1 DEF RecordsInv, NobodyHandlesNothing
  <2>3. QED
    BY <2>2 DEF IInv, ProposalsOwned
<1>5. OutcomeMatchesRuns' /\ RunningRunsAreLive' /\ ToldWhenReturned'
  BY <1>1, <1>2, <1>3, <1>4, EndingARunKeepsRecords DEF Outcomes
<1>6. ConsumedByARun'
  <2>1. /\ Run(c) \in RunIds /\ Run(c)[1] = c
        /\ runs'[Run(c)] \in {"committed", "rejected"}
        /\ runs[Run(c)] \in {"none", "running"}
        /\ \A r \in RunIds : r # Run(c) => runs'[r] = runs[r]
    BY <1>1, <1>2, <1>3, RunsKept, RunType DEF IInv, Run
  <2>2. SUFFICES ASSUME NEW d \in Events \X Subscribers, deliveries'[d].status = "completed"
        PROVE  \E r \in RunIds : EventOf[r[1]] = d[1] /\ runs'[r] \in {"committed", "rejected"}
    BY DEF ConsumedByARun
  <2>3. CASE d[1] = EventOf[c]
    BY <2>1, <2>3
  <2>4. CASE d[1] # EventOf[c]
    <3>1. deliveries'[d] = deliveries[d]
      BY <1>1, <2>4 DEF MarkCompleted
    <3>2. QED
      BY <2>1, <2>2, <3>1 DEF RecordsInv, RecordsKept, ConsumedByARun
  <2>5. QED
    BY <2>3, <2>4
<1>7. QED
  BY <1>5, <1>6 DEF RecordsKept

(* A crash ends every call in flight, and leaves the rows as they are.     *)
LEMMA CrashKeepsRecords ==
  ASSUME IInv, RecordsInv, Crash
  PROVE  RecordsKept'
<1>1. /\ ~up' /\ UNCHANGED <<runs, deliveries, attempt, outcome>>
      /\ \A c \in Calls : pc'[c] = "returned" <=> pc[c] = "returned"
  BY DEF Crash, dbVars, Active, Suspended
<1>2. QED
  BY <1>1 DEF RecordsInv, RecordsKept, ConsumedByARun, OutcomeMatchesRuns, RunningRunsAreLive,
              ToldWhenReturned

(* Recovery closes the runs of nobody, and no other.                       *)
LEMMA RestartKeepsRecords ==
  ASSUME IInv, RecordsInv, Restart
  PROVE  RecordsKept'
<1>1. /\ UNCHANGED <<deliveries, pc, attempt, outcome>>
      /\ \A r \in RunIds : /\ runs'[r] # "running"
                           /\ runs[r] # "running" => runs'[r] = runs[r]
  BY DEF Restart, callVars
<1>2. ConsumedByARun' /\ ToldWhenReturned'
  BY <1>1 DEF RecordsInv, RecordsKept, ConsumedByARun, ToldWhenReturned
<1>3. RunningRunsAreLive'
  BY <1>1 DEF RunningRunsAreLive
<1>4. OutcomeMatchesRuns'
  <2>1. \A d \in Calls, n \in 1..MaxCommitAttempts :
          runs[<<d, n>>] # "running" => runs'[<<d, n>>] = runs[<<d, n>>]
    BY <1>1 DEF RunIds
  <2>2. SUFFICES ASSUME NEW d \in Calls
        PROVE  LET last == <<d, attempt[d]>> IN
          /\ \A n \in 1..(attempt[d] - 1) : runs'[<<d, n>>] = "conflicted"
          /\ \A n \in (attempt[d] + 1)..MaxCommitAttempts : runs'[<<d, n>>] = "none"
          /\ outcome[d] = "committed" => runs'[last] = "committed"
          /\ outcome[d] \in {"rejected", "no_subscribers"} => runs'[last] = "rejected"
          /\ outcome[d] = "failed" => runs'[last] = "failed"
          /\ outcome[d] = "conflict" => runs'[last] = "conflicted" /\ attempt[d] = MaxCommitAttempts
    BY <1>1 DEF OutcomeMatchesRuns
  <2>3. attempt[d] \in 1..MaxCommitAttempts /\ MaxCommitAttempts \in Nat
    BY BoundsAssumption DEF IInv, TypeOK
  <2>4. QED
    BY <2>1, <2>3 DEF RecordsInv, RecordsKept, OutcomeMatchesRuns
<1>5. QED
  BY <1>2, <1>3, <1>4 DEF RecordsKept

LEMMA RecordsInductive == RecordsInv /\ IInv /\ [Next]_vars => RecordsInv'
<1> SUFFICES ASSUME RecordsInv, IInv, [Next]_vars
             PROVE  RecordsKept'
  BY HandlingNeedsASubscriber DEF RecordsInv
<1>1. ASSUME NEW c \in Calls, Process(c) \/ CallStep(c) \/ Fault(c)
      PROVE  RecordsKept'
  BY <1>1, MovingOnKeepsRecords, DeliveringKeepsRecords, OpenRunKeepsRecords,
     UncommittedEndKeepsRecords, CommitKeepsRecords DEF CallStep
<1>2. CASE UNCHANGED vars
  BY <1>2 DEF vars, procVars, dbVars, callVars, RecordsInv, RecordsKept, ConsumedByARun,
              OutcomeMatchesRuns, RunningRunsAreLive, ToldWhenReturned, Active
<1>3. QED
  BY <1>1, <1>2, CrashKeepsRecords, RestartKeepsRecords DEF Next

LEMMA RecordsInitially == Init => RecordsInv
<1> SUFFICES ASSUME Init PROVE RecordsInv
  OBVIOUS
<1>1. \A d \in Calls, n \in 1..MaxCommitAttempts : runs[<<d, n>>] = "none"
  BY DEF Init, RunIds
<1>2. OutcomeMatchesRuns
  <2>1. \A d \in Calls : attempt[d] = 1 /\ outcome[d] = "none"
    BY DEF Init
  <2>2. \A n \in 1..(1 - 1) : FALSE
    OBVIOUS
  <2>3. \A n \in (1 + 1)..MaxCommitAttempts : n \in 1..MaxCommitAttempts
    BY BoundsAssumption
  <2>4. QED
    BY <1>1, <2>1, <2>2, <2>3 DEF OutcomeMatchesRuns
<1>3. ConsumedByARun /\ RunningRunsAreLive /\ ToldWhenReturned /\ NobodyHandlesNothing
  BY DEF Init, ConsumedByARun, RunningRunsAreLive, ToldWhenReturned, NobodyHandlesNothing
<1>4. QED
  BY <1>2, <1>3 DEF RecordsInv, RecordsKept

LEMMA RecordsInvAgrees == RecordsInv /\ IInv => RecordsAgree
<1> SUFFICES ASSUME RecordsInv, IInv PROVE DeliveriesMatchEffects
  BY DEF RecordsInv, RecordsKept, RecordsAgree
<1>1. ASSUME NEW e \in Events, NEW s \in Subscribers,
             deliveries[<<e, s>>].status = "completed"
      PROVE  \E r \in RunIds : EventOf[r[1]] = e /\ runs[r] \in {"committed", "rejected"}
  <2>1. <<e, s>> \in Events \X Subscribers /\ <<e, s>>[1] = e
    OBVIOUS
  <2>2. QED
    BY <1>1, <2>1 DEF RecordsInv, RecordsKept, ConsumedByARun
<1>2. QED
  BY <1>1 DEF IInv, EffectsAreConsumed, DeliveriesMatchEffects

(* What the database says of an event agrees with itself and with what its *)
(* callers were told: no call reports an effect that was rolled back, no   *)
(* delivery is consumed that no closed run accounts for, and recovery      *)
(* leaves no orphan.                                                       *)
THEOREM CallersAreToldTheTruth == Spec => []RecordsAgree
BY RecordsInitially, RecordsInvAgrees, RecordsInductive, Invariance, PTL DEF Spec

-----------------------------------------------------------------------------
(***************************************************************************)
(* Nothing goes on for ever.                                               *)
(***************************************************************************)

(* What is left of the run a call is in, by its place and the              *)
(* subscriptions still before it.                                          *)
Ahead(c) == 4 * (Len(Subs(c)) + 1 - next[c])
RunLeft(c) ==
  CASE pc[c] = "idle" -> 4 * Len(Subs(c)) + 10
    [] pc[c] = "append" -> Ahead(c) + 5
    [] pc[c] = "open" -> Ahead(c) + 4
    [] pc[c] = "interpret" -> Ahead(c) + 3
    [] pc[c] = "dispatch" -> Ahead(c) + 2
    [] pc[c] = "handle" -> Ahead(c) + 1
    [] pc[c] = "mark_failed" -> Ahead(c)
    [] pc[c] = "record_failure" -> Ahead(c) - 1
    [] pc[c] \in {"fail_dispatch", "fail_commit", "conflict"} -> 1
    [] OTHER -> 0

(* It used up something: an attempt, or a part of the run.                 *)
GotOn(c) ==
  \/ attempt'[c] > attempt[c]
  \/ attempt'[c] = attempt[c] /\ RunLeft(c)' < RunLeft(c)
LeftAlone(c) == attempt'[c] = attempt[c] /\ RunLeft(c)' = RunLeft(c)

LEMMA SubsFixed == \A c \in Calls : Subs(c)' = Subs(c) /\ Len(Subs(c)) \in Nat
BY EventOfAssumption, SubscriptionsAssumption DEF Subs

LEMMA RunLeftIsNat ==
  ASSUME IInv, NEW c \in Calls
  PROVE  /\ RunLeft(c) \in Nat /\ Ahead(c) \in Nat
         /\ Active(c) => RunLeft(c) > 0
<1>1. next[c] \in 1..(Len(Subs(c)) + 1) /\ Len(Subs(c)) \in Nat
  BY SubsFixed DEF IInv, TypeOK
<1>2. Ahead(c) \in Nat
  BY <1>1 DEF Ahead
<1>3. pc[c] \in AtHandler => Ahead(c) >= 4
  BY <1>1 DEF Ahead, IInv, NextInBounds
<1>4. pc[c] \in Places
  BY DEF IInv, TypeOK
<1>5. CASE pc[c] \in AtHandler
  <2>1. RunLeft(c) \in {Ahead(c) + 1, Ahead(c), Ahead(c) - 1}
    BY <1>5 DEF RunLeft, AtHandler
  <2>2. QED
    BY <1>2, <1>3, <1>5, <2>1
<1>6. CASE pc[c] \in {"idle", "append", "open", "interpret", "dispatch"}
  <2>1. RunLeft(c) \in {4 * Len(Subs(c)) + 10, Ahead(c) + 5, Ahead(c) + 4, Ahead(c) + 3, Ahead(c) + 2}
    BY <1>6 DEF RunLeft
  <2>2. QED
    BY <1>1, <1>2, <2>1
<1>7. CASE pc[c] \in {"fail_dispatch", "fail_commit", "conflict"}
  <2>1. RunLeft(c) = 1
    BY <1>7 DEF RunLeft
  <2>2. QED
    BY <1>2, <2>1
<1>8. CASE pc[c] \in {"returned", "raised", "lost"}
  <2>1. RunLeft(c) = 0 /\ ~Active(c)
    BY <1>8 DEF RunLeft, Active, Suspended
  <2>2. QED
    BY <1>2, <2>1
<1>9. QED
  BY <1>4, <1>5, <1>6, <1>7, <1>8 DEF Places, AtHandler

(* What other calls do leaves a call where it is.                          *)
LEMMA OthersAreLeftAlone ==
  ASSUME IInv, NEW c \in Calls, NEW d \in Calls, d # c,
         Process(c) \/ CallStep(c) \/ Fault(c)
  PROVE  LeftAlone(d)
<1>1. pc'[d] = pc[d] /\ next'[d] = next[d] /\ attempt'[d] = attempt[d]
  <2>1. CASE Process(c) \/ AppendEvent(c) \/ OpenRun(c) \/ Interpret(c) \/ ReserveDelivery(c)
             \/ GiveUpDelivery(c) \/ SkipDelivery(c) \/ HandleEvent(c) \/ SubscriberFails(c)
             \/ MarkFailed(c) \/ RecordFailure(c)
    BY <2>1 DEF Process, AppendEvent, OpenRun, Interpret, ReserveDelivery, GiveUpDelivery,
       SkipDelivery, HandleEvent, SubscriberFails, MarkFailed, RecordFailure, IInv, TypeOK,
       runLocals
  <2>2. CASE Commit(c) \/ CommitConflict(c) \/ ConflictRun(c) \/ FailRun(c) \/ Fault(c)
    BY <2>2 DEF Commit, CommitConflict, ConflictRun, FailRun, Fault, DispatchError, CommitError,
       ProcessRaises, EndRun, IInv, TypeOK, runLocals
  <2>3. QED
    BY <2>1, <2>2 DEF CallStep
<1>2. Subs(d)' = Subs(d)
  BY SubsFixed
<1>3. Ahead(d)' = Ahead(d)
  BY <1>1, <1>2 DEF Ahead
<1>4. QED
  BY <1>1, <1>2, <1>3 DEF LeftAlone, RunLeft

(* Every step of a call uses something up.                                 *)
LEMMA CallGetsOn ==
  ASSUME IInv, NEW c \in Calls, Process(c) \/ CallStep(c) \/ Fault(c)
  PROVE  GotOn(c)
<1>1. /\ next[c] \in 1..(Len(Subs(c)) + 1) /\ Len(Subs(c)) \in Nat /\ attempt[c] \in Nat
      /\ Subs(c)' = Subs(c) /\ pc \in [Calls -> Places] /\ next \in [Calls -> Nat]
      /\ attempt \in [Calls -> Nat]
  BY SubsFixed DEF IInv, TypeOK
<1>2. pc[c] \in AtHandler => next[c] <= Len(Subs(c))
  BY DEF IInv, NextInBounds
<1>3. Ahead(c) \in Nat
  BY RunLeftIsNat
<1>4. CASE Process(c)
  <2>1. pc[c] = "idle" /\ pc'[c] = "append" /\ next'[c] = next[c] /\ attempt'[c] = attempt[c]
    BY <1>1, <1>4 DEF Process, runLocals
  <2>2. Ahead(c)' = Ahead(c)
    BY <1>1, <2>1 DEF Ahead
  <2>3. RunLeft(c) = 4 * Len(Subs(c)) + 10 /\ RunLeft(c)' = Ahead(c) + 5
    BY <2>1, <2>2 DEF RunLeft
  <2>4. QED
    BY <1>1, <2>1, <2>3 DEF GotOn, Ahead
<1>5. CASE AppendEvent(c) \/ OpenRun(c) \/ Interpret(c) \/ ReserveDelivery(c)
           \/ SubscriberFails(c) \/ MarkFailed(c)
  <2>1. /\ next'[c] = next[c] /\ attempt'[c] = attempt[c]
        /\ \/ pc[c] = "append" /\ pc'[c] = "open"
           \/ pc[c] = "open" /\ pc'[c] = "interpret"
           \/ pc[c] = "interpret" /\ pc'[c] = "dispatch"
           \/ pc[c] = "dispatch" /\ pc'[c] = "handle"
           \/ pc[c] = "handle" /\ pc'[c] = "mark_failed"
           \/ pc[c] = "mark_failed" /\ pc'[c] = "record_failure"
    BY <1>1, <1>5 DEF AppendEvent, OpenRun, Interpret, ReserveDelivery, AtSubscription,
       SubscriberFails, MarkFailed, runLocals
  <2>2. Ahead(c)' = Ahead(c)
    BY <1>1, <2>1 DEF Ahead
  <2>3. RunLeft(c)' = RunLeft(c) - 1
    BY <1>3, <2>1, <2>2 DEF RunLeft
  <2>4. QED
    BY <2>1, <2>3, RunLeftIsNat DEF GotOn
<1>6. CASE GiveUpDelivery(c) \/ SkipDelivery(c) \/ HandleEvent(c) \/ RecordFailure(c)
  <2>1. /\ next'[c] = next[c] + 1 /\ attempt'[c] = attempt[c] /\ pc'[c] = "dispatch"
        /\ pc[c] \in {"dispatch", "handle", "record_failure"}
        /\ next[c] <= Len(Subs(c))
    BY <1>1, <1>2, <1>6 DEF GiveUpDelivery, SkipDelivery, HandleEvent, RecordFailure,
       AtSubscription, AtHandler
  <2>2. Ahead(c)' = Ahead(c) - 4
    BY <1>1, <2>1 DEF Ahead
  <2>3. RunLeft(c)' = Ahead(c) - 2 /\ RunLeft(c) >= Ahead(c) - 1
    BY <1>3, <2>1, <2>2 DEF RunLeft
  <2>4. QED
    BY <1>3, <2>1, <2>3, RunLeftIsNat DEF GotOn
<1>7. CASE ConflictRun(c) /\ attempt[c] < MaxCommitAttempts
  <2>1. attempt'[c] = attempt[c] + 1
    BY <1>1, <1>7 DEF ConflictRun
  <2>2. QED
    BY <1>1, <2>1 DEF GotOn
<1>8. CASE DispatchError(c) \/ CommitConflict(c) \/ CommitError(c)
  <2>1. /\ attempt'[c] = attempt[c] /\ pc'[c] \in {"fail_dispatch", "fail_commit", "conflict"}
        /\ \/ pc[c] = "dispatch"
           \/ pc[c] \in {"mark_failed", "record_failure"} /\ next[c] <= Len(Subs(c))
    BY <1>1, <1>2, <1>8 DEF DispatchError, CommitConflict, CommitError, AtSubscription,
       DispatchDone, AtHandler
  <2>2. RunLeft(c)' = 1
    BY <2>1 DEF RunLeft
  <2>3. RunLeft(c) >= 2
    <3>1. CASE pc[c] = "dispatch"
      <4>1. RunLeft(c) = Ahead(c) + 2
        BY <3>1 DEF RunLeft
      <4>2. QED
        BY <1>3, <4>1
    <3>2. CASE pc[c] \in {"mark_failed", "record_failure"} /\ next[c] <= Len(Subs(c))
      <4>1. RunLeft(c) \in {Ahead(c), Ahead(c) - 1}
        BY <3>2 DEF RunLeft
      <4>2. Ahead(c) >= 4
        BY <1>1, <3>2 DEF Ahead
      <4>3. QED
        BY <1>3, <4>1, <4>2
    <3>3. QED
      BY <2>1, <3>1, <3>2
  <2>4. QED
    BY <2>1, <2>2, <2>3, RunLeftIsNat DEF GotOn
<1>9. CASE Commit(c) \/ FailRun(c) \/ ProcessRaises(c)
           \/ (ConflictRun(c) /\ ~(attempt[c] < MaxCommitAttempts))
  <2>1. attempt'[c] = attempt[c] /\ pc'[c] \in {"returned", "raised"} /\ Active(c)
    BY <1>1, <1>9 DEF Commit, FailRun, ProcessRaises, ConflictRun, DispatchDone, Active, Suspended
  <2>2. RunLeft(c)' = 0
    BY <2>1 DEF RunLeft
  <2>3. QED
    BY <2>1, <2>2, RunLeftIsNat DEF GotOn
<1>10. QED
  BY <1>4, <1>5, <1>6, <1>7, <1>8, <1>9 DEF CallStep, Fault

(* No call goes on for ever, alone or among others: each step it takes,    *)
(* and a crash, uses up one of its attempts or part of the run it is in,   *)
(* both of them finite, and nobody else's step gives it any back.  With    *)
(* the process up while a call is active and a step for every place, this  *)
(* is why CallsEnd.                                                        *)
THEOREM CallsGetOn ==
  Spec => /\ [](\A c \in Calls : /\ attempt[c] \in 1..MaxCommitAttempts
                                 /\ RunLeft(c) \in Nat
                                 /\ Active(c) => up)
          /\ [][\A c \in Calls :
                  /\ GotOn(c) \/ LeftAlone(c)
                  /\ Process(c) \/ CallStep(c) \/ Fault(c) \/ (Crash /\ Active(c)) => GotOn(c)]_vars
<1>1. IInv => \A c \in Calls : /\ attempt[c] \in 1..MaxCommitAttempts
                               /\ RunLeft(c) \in Nat
                               /\ Active(c) => up
  BY RunLeftIsNat DEF IInv, TypeOK, NobodyActiveWhenDown
<1>2. ASSUME IInv, Next, NEW c \in Calls
      PROVE  /\ GotOn(c) \/ LeftAlone(c)
             /\ Process(c) \/ CallStep(c) \/ Fault(c) \/ (Crash /\ Active(c)) => GotOn(c)
  <2>1. CASE Process(c) \/ CallStep(c) \/ Fault(c)
    BY <1>2, <2>1, CallGetsOn
  <2>2. ASSUME NEW d \in Calls, d # c, Process(d) \/ CallStep(d) \/ Fault(d)
        PROVE  LeftAlone(c)
    BY <1>2, <2>2, OthersAreLeftAlone
  <2>3. CASE Crash
    <3>1. attempt'[c] = attempt[c] /\ pc'[c] = IF Active(c) THEN "lost" ELSE pc[c]
      BY <2>3 DEF Crash
    <3>2. CASE Active(c)
      <4>1. RunLeft(c)' = 0
        BY <3>1, <3>2 DEF RunLeft
      <4>2. QED
        BY <1>2, <3>1, <3>2, <4>1, RunLeftIsNat DEF GotOn
    <3>3. CASE ~Active(c)
      <4>1. pc'[c] = pc[c] /\ pc[c] \in Suspended /\ Subs(c)' = Subs(c)
        BY <3>1, <3>3, SubsFixed DEF Active
      <4>2. RunLeft(c)' = RunLeft(c)
        BY <4>1 DEF RunLeft, Suspended
      <4>3. QED
        BY <1>2, <2>1, <3>1, <3>3, <4>2 DEF LeftAlone
    <3>4. QED
      BY <3>2, <3>3
  <2>4. CASE Restart
    <3>1. pc' = pc /\ next' = next /\ attempt' = attempt /\ Subs(c)' = Subs(c)
      BY <2>4, SubsFixed DEF Restart, callVars, runLocals
    <3>2. LeftAlone(c)
      BY <3>1 DEF LeftAlone, RunLeft, Ahead
    <3>3. ~Crash
      BY <2>4 DEF Restart, Crash
    <3>4. QED
      BY <2>1, <3>2, <3>3
  <2>5. QED
    BY <1>2, <2>1, <2>2, <2>3, <2>4 DEF Next
<1>3. IInv /\ [Next]_vars =>
        [\A c \in Calls :
           /\ GotOn(c) \/ LeftAlone(c)
           /\ Process(c) \/ CallStep(c) \/ Fault(c) \/ (Crash /\ Active(c)) => GotOn(c)]_vars
  BY <1>2
<1>4. QED
  BY <1>1, <1>3, Invariance, PTL DEF Spec
=============================================================================
