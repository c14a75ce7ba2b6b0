--------------------------- MODULE EventPipeline ---------------------------
(***************************************************************************)
(* The root event pipeline: EventProcessor.process, the idempotent         *)
(* dispatcher, optimistic commit, and recovery after a crash.              *)
(*                                                                         *)
(* A call of process() is a coroutine.  Every database unit of work runs   *)
(* in a worker thread under one lock, so each is an atomic step, and calls *)
(* interleave between them.  A call makes at most MaxCommitAttempts runs;  *)
(* run <<c, n>> is attempt n of call c.                                    *)
(*                                                                         *)
(* Abstractions: a value is the set of runs it accounts for, so that a     *)
(* lost update is visible; a subscriber's proposals are (subscriber, key)  *)
(* pairs over the keys it owns; the arbitrator, a pure function modelled   *)
(* in Arbitration.tla, is a choice of which proposals it accepts.          *)
(***************************************************************************)
EXTENDS Naturals, Sequences, FiniteSets

CONSTANTS
  Events,             \* root events
  Subscribers,        \* engines registered on the bus
  Keys,               \* state keys
  Calls,              \* calls of process()
  EventOf,            \* call -> the event it processes
  SubscriptionsFor,   \* event -> its subscribers in bus order
  Writes,             \* subscriber -> the keys it owns
  DirectWriters,      \* subscribers whose handle() writes rows of its own
  MaxCommitAttempts,  \* processor.max_commit_attempts
  MaxAttempts,        \* deliveries.DEFAULT_MAX_ATTEMPTS
  MaxCrashes          \* bound on process crashes

ASSUME SubscriptionsAssumption == SubscriptionsFor \in [Events -> Seq(Subscribers)]
ASSUME WritesAssumption ==
  /\ Writes \in [Subscribers -> SUBSET Keys]
  /\ \A s, t \in Subscribers : s # t => Writes[s] \cap Writes[t] = {}
ASSUME DirectWritersAssumption == DirectWriters \subseteq Subscribers
ASSUME EventOfAssumption == EventOf \in [Calls -> Events]
ASSUME BoundsAssumption ==
  /\ MaxCommitAttempts \in Nat \ {0}
  /\ MaxAttempts \in Nat \ {0}
  /\ MaxCrashes \in Nat

VARIABLES
  up,           \* the process is running
  crashes,      \* crashes so far (bounded by MaxCrashes)
  stored,       \* events table
  runs,         \* processing_runs: <<call, attempt>> -> status
  deliveries,   \* event_deliveries: <<event, subscriber>> -> status, attempts
  state,        \* state_values
  changes,      \* state_changes
  failures,     \* failures
  ownRows,      \* <<run, subscriber>>: rows handle() wrote outside the commit
  pc,           \* where each call is
  attempt,      \* commit_attempt of a call
  next,         \* index of the subscription a call handles next
  snapshot,     \* S0 of a call's run
  proposals,    \* proposals collected by a call's dispatch
  handled,      \* subscribers whose delivery the commit will complete
  outcome       \* what process() returned

procVars  == <<up, crashes>>
dbVars    == <<stored, runs, deliveries, state, changes, failures, ownRows>>
runLocals == <<next, snapshot, proposals, handled>>
callVars  == <<pc, attempt, runLocals, outcome>>
vars      == <<procVars, dbVars, callVars>>

RunIds == Calls \X (1..MaxCommitAttempts)

RunStatus == {"none", "running", "committed", "rejected", "failed",
              "interrupted", "conflicted"}

DeliveryStatus == {"none", "pending", "completed", "failed_retryable",
                   "failed_permanent"}

ReasonCodes == {"interpretation_failed", "subscriber_failed", "rejected_proposal",
                "commit_conflict", "dispatch_failed", "commit_failed"}

Outcomes == {"none", "committed", "rejected", "no_subscribers", "failed", "conflict"}

EmptyState == [k \in Keys |-> [version |-> 0, value |-> {}]]

(* The run a call is working on, and the subscription it is at.            *)
Run(c)        == <<c, attempt[c]>>
Subs(c)       == SubscriptionsFor[EventOf[c]]
Subscriber(c) == Subs(c)[next[c]]
Delivery(c)   == <<EventOf[c], Subscriber(c)>>

Places == {"idle", "append", "open", "interpret", "dispatch", "handle",
           "mark_failed", "record_failure", "fail_dispatch", "fail_commit",
           "conflict", "returned", "raised", "lost"}
Suspended == {"idle", "returned", "raised", "lost"}
Active(c) == pc[c] \notin Suspended

(* The locals of _process_once go out of scope.                            *)
EndRun(c) ==
  /\ next' = [next EXCEPT ![c] = 1]
  /\ snapshot' = [snapshot EXCEPT ![c] = EmptyState]
  /\ proposals' = [proposals EXCEPT ![c] = {}]
  /\ handled' = [handled EXCEPT ![c] = {}]

Failure(c, reason) == [run |-> Run(c), reason |-> reason]

Init ==
  /\ up = TRUE
  /\ crashes = 0
  /\ stored = {}
  /\ runs = [r \in RunIds |-> "none"]
  /\ deliveries = [d \in Events \X Subscribers |-> [status |-> "none", attempts |-> 0]]
  /\ state = EmptyState
  /\ changes = {}
  /\ failures = {}
  /\ ownRows = {}
  /\ pc = [c \in Calls |-> "idle"]
  /\ attempt = [c \in Calls |-> 1]
  /\ next = [c \in Calls |-> 1]
  /\ snapshot = [c \in Calls |-> EmptyState]
  /\ proposals = [c \in Calls |-> {}]
  /\ handled = [c \in Calls |-> {}]
  /\ outcome = [c \in Calls |-> "none"]

(***************************************************************************)
(* process() is called.  One event is worked on by one call at a time:     *)
(* every producer creates its event and awaits its processing, and replay  *)
(* offers a recorded event after the earlier call has ended.               *)
(***************************************************************************)
Process(c) ==
  /\ up
  /\ pc[c] = "idle"
  /\ \A d \in Calls : EventOf[d] = EventOf[c] => ~Active(d)
  /\ pc' = [pc EXCEPT ![c] = "append"]
  /\ UNCHANGED <<procVars, dbVars, attempt, runLocals, outcome>>

(* INSERT OR IGNORE: an event already stored is left alone.                *)
AppendEvent(c) ==
  /\ pc[c] = "append"
  /\ stored' = stored \cup {EventOf[c]}
  /\ pc' = [pc EXCEPT ![c] = "open"]
  /\ UNCHANGED <<procVars, runs, deliveries, state, changes, failures,
                 attempt, runLocals, outcome, ownRows>>

(* One transaction: capture S0 and insert the run.                         *)
OpenRun(c) ==
  /\ pc[c] = "open"
  /\ snapshot' = [snapshot EXCEPT ![c] = state]
  /\ runs' = [runs EXCEPT ![Run(c)] = "running"]
  /\ pc' = [pc EXCEPT ![c] = "interpret"]
  /\ UNCHANGED <<procVars, stored, deliveries, state, changes, failures,
                 attempt, next, proposals, handled, outcome, ownRows>>

(* Phase 1.  A failed interpretation is recorded and degrades the run.     *)
Interpret(c) ==
  /\ pc[c] = "interpret"
  /\ failures' \in {failures, failures \cup {Failure(c, "interpretation_failed")}}
  /\ pc' = [pc EXCEPT ![c] = "dispatch"]
  /\ UNCHANGED <<procVars, stored, runs, deliveries, state, changes,
                 attempt, runLocals, outcome, ownRows>>

(***************************************************************************)
(* begin_attempt, one transaction per subscription: the delivery is        *)
(* reserved, reported as already settled, or given up for good.            *)
(***************************************************************************)
AtSubscription(c) == pc[c] = "dispatch" /\ next[c] <= Len(Subs(c))

(* Mutant: a consumed delivery is offered again.                           *)
RetryableWhenConsumed(d) == deliveries[d].status # "failed_permanent"

Retryable(d) == deliveries[d].status \in {"none", "pending", "failed_retryable"}

ReserveDelivery(c) ==
  /\ AtSubscription(c)
  /\ Retryable(Delivery(c))
  /\ deliveries[Delivery(c)].attempts < MaxAttempts
  /\ deliveries' = [deliveries EXCEPT ![Delivery(c)] =
                      [status |-> "pending", attempts |-> @.attempts + 1]]
  /\ pc' = [pc EXCEPT ![c] = "handle"]
  /\ UNCHANGED <<procVars, stored, runs, state, changes, failures,
                 attempt, runLocals, outcome, ownRows>>

GiveUpDelivery(c) ==
  /\ AtSubscription(c)
  /\ Retryable(Delivery(c))
  /\ deliveries[Delivery(c)].attempts >= MaxAttempts
  /\ deliveries' = [deliveries EXCEPT ![Delivery(c)] =
                      [status |-> "failed_permanent", attempts |-> @.attempts + 1]]
  /\ next' = [next EXCEPT ![c] = @ + 1]
  /\ UNCHANGED <<procVars, stored, runs, state, changes, failures,
                 pc, attempt, snapshot, proposals, handled, outcome, ownRows>>

SkipDelivery(c) ==
  /\ AtSubscription(c)
  /\ ~Retryable(Delivery(c))
  /\ next' = [next EXCEPT ![c] = @ + 1]
  /\ UNCHANGED <<procVars, dbVars, pc, attempt, snapshot,
                 proposals, handled, outcome>>

OwnRows(c) == {<<Run(c), s>> : s \in DirectWriters \cap {Subscriber(c)}}

(* handle() answers in time; any of the subscriber's own keys may be       *)
(* proposed, and the delivery joins those the commit completes.  An engine *)
(* that keeps rows of its own has written them by the time it answers.     *)
HandleEvent(c) ==
  /\ pc[c] = "handle"
  /\ \E K \in SUBSET Writes[Subscriber(c)] :
       proposals' = [proposals EXCEPT ![c] = @ \cup ({Subscriber(c)} \X K)]
  /\ ownRows' = ownRows \cup OwnRows(c)
  /\ handled' = [handled EXCEPT ![c] = @ \cup {Subscriber(c)}]
  /\ next' = [next EXCEPT ![c] = @ + 1]
  /\ pc' = [pc EXCEPT ![c] = "dispatch"]
  /\ UNCHANGED <<procVars, stored, runs, deliveries, state, changes, failures,
                 attempt, snapshot, outcome>>

(* handle() raises, times out or returns something else.                   *)
SubscriberFails(c) ==
  /\ pc[c] = "handle"
  /\ \E rows \in {{}, OwnRows(c)} : ownRows' = ownRows \cup rows
  /\ pc' = [pc EXCEPT ![c] = "mark_failed"]
  /\ UNCHANGED <<procVars, stored, runs, deliveries, state, changes, failures,
                 attempt, runLocals, outcome>>

(* The delivery and the failure row are two separate units of work.        *)
MarkFailed(c) ==
  /\ pc[c] = "mark_failed"
  /\ deliveries' = [deliveries EXCEPT ![Delivery(c)].status = "failed_retryable"]
  /\ pc' = [pc EXCEPT ![c] = "record_failure"]
  /\ UNCHANGED <<procVars, stored, runs, state, changes, failures,
                 attempt, runLocals, outcome, ownRows>>

(* Mutant: retry the handler at once, outside the attempt budget.          *)
RetryHandler(c) ==
  /\ pc[c] = "record_failure"
  /\ failures' = failures \cup {Failure(c, "subscriber_failed")}
  /\ pc' = [pc EXCEPT ![c] = "handle"]
  /\ UNCHANGED <<procVars, stored, runs, deliveries, state, changes,
                 attempt, runLocals, outcome, ownRows>>

RecordFailure(c) ==
  /\ pc[c] = "record_failure"
  /\ failures' = failures \cup {Failure(c, "subscriber_failed")}
  /\ next' = [next EXCEPT ![c] = @ + 1]
  /\ pc' = [pc EXCEPT ![c] = "dispatch"]
  /\ UNCHANGED <<procVars, stored, runs, deliveries, state, changes,
                 attempt, snapshot, proposals, handled, outcome, ownRows>>

(* A database error inside dispatch ends the run, not the process.         *)
DispatchError(c) ==
  /\ \/ AtSubscription(c)
     \/ pc[c] \in {"mark_failed", "record_failure"}
  /\ pc' = [pc EXCEPT ![c] = "fail_dispatch"]
  /\ UNCHANGED <<procVars, dbVars, attempt, runLocals, outcome>>

(***************************************************************************)
(* Arbitrate and commit.  Arbitration is synchronous and reads S0 only, so *)
(* it belongs to the step that opens the commit transaction.               *)
(***************************************************************************)
DispatchDone(c) == pc[c] = "dispatch" /\ next[c] > Len(Subs(c))

(* The keys a set of accepted changes writes.                              *)
Targets(accepted) == {w[2] : w \in accepted}

(* Mutant: last writer wins.                                               *)
VersionsUnchecked(c, accepted) == TRUE

(* write_value: the version the run read is still the stored one.          *)
VersionsCurrent(c, accepted) ==
  \A k \in Targets(accepted) : state[k].version = snapshot[c][k].version

WriteValues(c, accepted) ==
  [k \in Keys |->
     IF k \in Targets(accepted)
       THEN [version |-> snapshot[c][k].version + 1,
             value   |-> snapshot[c][k].value \cup {Run(c)}]
       ELSE state[k]]

(* Mutant: the audit row carries the version the run read.                 *)
ChangeRowsOfSnapshot(c, accepted) ==
  {[run |-> Run(c), event |-> EventOf[c], subscriber |-> w[1], key |-> w[2],
    version |-> snapshot[c][w[2]].version] : w \in accepted}

ChangeRows(c, accepted) ==
  {[run |-> Run(c), event |-> EventOf[c], subscriber |-> w[1], key |-> w[2],
    version |-> snapshot[c][w[2]].version + 1] : w \in accepted}

(* Mutant: the commit forgets the deliveries.                              *)
MarkNothing(c) == deliveries

MarkCompleted(c) ==
  [d \in Events \X Subscribers |->
     IF d[1] = EventOf[c] /\ d[2] \in handled[c]
       THEN [deliveries[d] EXCEPT !.status = "completed"]
       ELSE deliveries[d]]

(* Mutants: the verdict ignores what the arbitrator accepted.              *)
AlwaysCommitted(accepted) == "committed"
CommitStatus(accepted) == IF accepted # {} THEN "committed" ELSE "rejected"

CommitOutcome(c, accepted) ==
  IF Len(Subs(c)) = 0 THEN "no_subscribers"
  ELSE IF accepted # {} THEN "committed"
  ELSE "rejected"

Commit(c) ==
  /\ DispatchDone(c)
  /\ \E accepted \in SUBSET proposals[c] :
       /\ VersionsCurrent(c, accepted)
       /\ state' = WriteValues(c, accepted)
       /\ changes' = changes \cup ChangeRows(c, accepted)
       /\ failures' = failures \cup
            (IF accepted = proposals[c] THEN {} ELSE {Failure(c, "rejected_proposal")})
       /\ deliveries' = MarkCompleted(c)
       /\ runs' = [runs EXCEPT ![Run(c)] = CommitStatus(accepted)]
       /\ outcome' = [outcome EXCEPT ![c] = CommitOutcome(c, accepted)]
  /\ pc' = [pc EXCEPT ![c] = "returned"]
  /\ EndRun(c)
  /\ UNCHANGED <<procVars, stored, attempt, ownRows>>

(* ConcurrentStateWriteError: the transaction rolls back.                  *)
CommitConflict(c) ==
  /\ DispatchDone(c)
  /\ \E accepted \in SUBSET proposals[c] : ~VersionsCurrent(c, accepted)
  /\ pc' = [pc EXCEPT ![c] = "conflict"]
  /\ UNCHANGED <<procVars, dbVars, attempt, runLocals, outcome>>

(* Any other error in the transaction: it rolls back as well.              *)
CommitError(c) ==
  /\ DispatchDone(c)
  /\ pc' = [pc EXCEPT ![c] = "fail_commit"]
  /\ UNCHANGED <<procVars, dbVars, attempt, runLocals, outcome>>

(* Close the run that lost the race, then reprocess the event against a    *)
(* fresh snapshot, or give up once the attempts are used.                  *)
ConflictRun(c) ==
  /\ pc[c] = "conflict"
  /\ runs' = [runs EXCEPT ![Run(c)] = "conflicted"]
  /\ failures' = failures \cup {Failure(c, "commit_conflict")}
  /\ IF attempt[c] < MaxCommitAttempts
       THEN /\ attempt' = [attempt EXCEPT ![c] = @ + 1]
            /\ pc' = [pc EXCEPT ![c] = "append"]
            /\ outcome' = outcome
       ELSE /\ attempt' = attempt
            /\ pc' = [pc EXCEPT ![c] = "returned"]
            /\ outcome' = [outcome EXCEPT ![c] = "conflict"]
  /\ EndRun(c)
  /\ UNCHANGED <<procVars, stored, deliveries, state, changes, ownRows>>

FailRun(c) ==
  /\ pc[c] \in {"fail_dispatch", "fail_commit"}
  /\ runs' = [runs EXCEPT ![Run(c)] = "failed"]
  /\ failures' = failures \cup
       {Failure(c, IF pc[c] = "fail_commit" THEN "commit_failed" ELSE "dispatch_failed")}
  /\ pc' = [pc EXCEPT ![c] = "returned"]
  /\ outcome' = [outcome EXCEPT ![c] = "failed"]
  /\ EndRun(c)
  /\ UNCHANGED <<procVars, stored, deliveries, state, changes, attempt, ownRows>>

(* A database error outside the guarded parts of process() reaches the     *)
(* caller; an open run stays 'running'.                                    *)
ProcessRaises(c) ==
  /\ pc[c] \in {"append", "open", "interpret", "conflict", "fail_dispatch", "fail_commit"}
  /\ pc' = [pc EXCEPT ![c] = "raised"]
  /\ EndRun(c)
  /\ UNCHANGED <<procVars, dbVars, attempt, outcome>>

(***************************************************************************)
(* The process dies at any point (or stops, cancelling its tasks); what    *)
(* was committed stays.  Building the application again closes the runs    *)
(* left open.  Nothing reads the deliveries left incomplete.               *)
(***************************************************************************)
Crash ==
  /\ up
  /\ crashes < MaxCrashes
  /\ up' = FALSE
  /\ crashes' = crashes + 1
  /\ pc' = [c \in Calls |-> IF Active(c) THEN "lost" ELSE pc[c]]
  /\ next' = [c \in Calls |-> 1]
  /\ snapshot' = [c \in Calls |-> EmptyState]
  /\ proposals' = [c \in Calls |-> {}]
  /\ handled' = [c \in Calls |-> {}]
  /\ UNCHANGED <<dbVars, attempt, outcome>>

Restart ==
  /\ ~up
  /\ up' = TRUE
  /\ runs' = [r \in RunIds |-> IF runs[r] = "running" THEN "interrupted" ELSE runs[r]]
  /\ UNCHANGED <<crashes, stored, deliveries, state, changes, failures, ownRows, callVars>>

(* The steps the event loop drives, and the faults that may befall a call. *)
CallStep(c) ==
  \/ AppendEvent(c) \/ OpenRun(c) \/ Interpret(c)
  \/ ReserveDelivery(c) \/ GiveUpDelivery(c) \/ SkipDelivery(c)
  \/ HandleEvent(c) \/ SubscriberFails(c) \/ MarkFailed(c) \/ RecordFailure(c)
  \/ Commit(c) \/ CommitConflict(c) \/ ConflictRun(c) \/ FailRun(c)

Fault(c) == DispatchError(c) \/ CommitError(c) \/ ProcessRaises(c)

Next ==
  \/ \E c \in Calls : Process(c) \/ CallStep(c) \/ Fault(c)
  \/ Crash
  \/ Restart

Spec == Init /\ [][Next]_vars

(* A handler answers or times out after 30 s, every other step is local    *)
(* work the event loop gets to, and the service is started again.  New     *)
(* calls and faults are not fair: nothing makes them happen.               *)
Fairness ==
  /\ \A c \in Calls : WF_vars(CallStep(c))
  /\ WF_vars(Restart)

FairSpec == Spec /\ Fairness

-----------------------------------------------------------------------------
ChangeRow == [run : RunIds, event : Events, subscriber : Subscribers,
              key : Keys, version : Nat]

TypeOK ==
  /\ up \in BOOLEAN
  /\ crashes \in 0..MaxCrashes
  /\ stored \subseteq Events
  /\ runs \in [RunIds -> RunStatus]
  /\ deliveries \in [Events \X Subscribers ->
                       [status : DeliveryStatus, attempts : 0..(MaxAttempts + 1)]]
  /\ state \in [Keys -> [version : Nat, value : SUBSET RunIds]]
  /\ changes \subseteq ChangeRow
  /\ failures \subseteq [run : RunIds, reason : ReasonCodes]
  /\ ownRows \subseteq RunIds \X Subscribers
  /\ pc \in [Calls -> Places]
  /\ attempt \in [Calls -> 1..MaxCommitAttempts]
  /\ next \in [Calls -> Nat]
  /\ \A c \in Calls : next[c] \in 1..(Len(Subs(c)) + 1)
  /\ snapshot \in [Calls -> [Keys -> [version : Nat, value : SUBSET RunIds]]]
  /\ proposals \in [Calls -> SUBSET (Subscribers \X Keys)]
  /\ handled \in [Calls -> SUBSET Subscribers]
  /\ outcome \in [Calls -> Outcomes]

RowsOf(k) == {ch \in changes : ch.key = k}

(* No update is lost: the stored value of a key accounts for every change  *)
(* the audit log records on it, and the log numbers them 1..version, each  *)
(* once.  This is what the version check in write_value is for: runs that  *)
(* think at the same time read the same snapshot.                          *)
NoLostUpdate ==
  \A k \in Keys :
    /\ state[k].value = {ch.run : ch \in RowsOf(k)}
    /\ {ch.version : ch \in RowsOf(k)} = 1..state[k].version
    /\ \A a, b \in RowsOf(k) : a.version = b.version => a = b

(* No double psychology: whatever is retried, redelivered or restarted,    *)
(* the changes a subscriber made for an event come from one run only.      *)
EffectOnce ==
  \A a, b \in changes :
    a.event = b.event /\ a.subscriber = b.subscriber => a.run = b.run

(* The delivery rows and the effects commit together: an effect without    *)
(* its delivery consumed could be applied again, and a delivery consumed   *)
(* without a closed run of the event would have swallowed it.              *)
DeliveriesMatchEffects ==
  /\ \A ch \in changes : deliveries[<<ch.event, ch.subscriber>>].status = "completed"
  /\ \A e \in Events, s \in Subscribers :
       deliveries[<<e, s>>].status = "completed" =>
         \E r \in RunIds : EventOf[r[1]] = e /\ runs[r] \in {"committed", "rejected"}

(* Partial psychology is never persisted: a run has change rows exactly    *)
(* when it is recorded as committed; a conflicted, failed, interrupted or  *)
(* rejected run has none.                                                  *)
OnlyCommittedRunsChangeState ==
  \A r \in RunIds : runs[r] = "committed" <=> \E ch \in changes : ch.run = r

(* What process() told its caller is what the database says: one committed *)
(* run behind "committed", none behind any other answer, and every attempt *)
(* before the last one lost a version race.                                *)
OutcomeMatchesRuns ==
  \A c \in Calls :
    LET last == <<c, attempt[c]>> IN
    /\ \A n \in 1..(attempt[c] - 1) : runs[<<c, n>>] = "conflicted"
    /\ \A n \in (attempt[c] + 1)..MaxCommitAttempts : runs[<<c, n>>] = "none"
    /\ outcome[c] = "committed" => runs[last] = "committed"
    /\ outcome[c] \in {"rejected", "no_subscribers"} => runs[last] = "rejected"
    /\ outcome[c] = "failed" => runs[last] = "failed"
    /\ outcome[c] = "conflict" => runs[last] = "conflicted" /\ attempt[c] = MaxCommitAttempts

(* Recovery resolves what a crash left open: while the process is up, a    *)
(* run recorded as running has a live call behind it, or one that ended by *)
(* raising out of process().                                               *)
RunningRunsAreLive ==
  up => \A r \in RunIds :
          runs[r] = "running" =>
            /\ attempt[r[1]] = r[2]
            /\ Active(r[1]) \/ pc[r[1]] = "raised"

(* What the database says of an event agrees with itself and with what its *)
(* callers were told, over conflicts, retries, redelivery and recovery.    *)
RecordsAgree == DeliveriesMatchEffects /\ OutcomeMatchesRuns /\ RunningRunsAreLive

(* A consumed delivery is never taken back, by a late failure, a retry or  *)
(* a restart.                                                              *)
ConsumedIsFinal ==
  [][\A d \in Events \X Subscribers :
       deliveries[d].status = "completed" => deliveries'[d].status = "completed"]_vars

(* A closed run keeps its verdict, and recovery closes only open ones.     *)
ClosedRunsStayClosed ==
  [][\A r \in RunIds :
       runs[r] \notin {"none", "running"} => runs'[r] = runs[r]]_vars

(* Every call ends: retries are bounded, skipped deliveries are passed     *)
(* over, and no interleaving of runs keeps one conflicting for ever.  A    *)
(* call is made once, so that means the pipeline comes to rest.            *)
CallsEnd == <>[](\A c \in Calls : ~Active(c))

(* The pipeline implements the exactly-once ledger.                        *)
Ledger == INSTANCE EffectLedger WITH
  consumed <- {d \in Events \X Subscribers : deliveries[d].status = "completed"}

ImplementsLedger == Ledger!Spec
=============================================================================
