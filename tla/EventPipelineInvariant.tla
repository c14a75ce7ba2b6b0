----------------------- MODULE EventPipelineInvariant -----------------------
(***************************************************************************)
(* The inductive invariant of EventPipeline.  The properties alone are not *)
(* inductive: they say nothing of what a call in flight remembers, and a   *)
(* commit applies exactly that.                                            *)
(***************************************************************************)
EXTENDS EventPipeline

(* A call between OpenRun and the end of its run.                          *)
InRun == {"interpret", "dispatch", "handle", "mark_failed", "record_failure",
          "fail_dispatch", "fail_commit", "conflict"}

(* At a subscription: next points at one.                                  *)
AtHandler == {"handle", "mark_failed", "record_failure"}

(* A crash takes every call with it.                                      *)
NobodyActiveWhenDown == ~up => \A c \in Calls : ~Active(c)

OneCallPerEvent ==
  \A c, d \in Calls : EventOf[c] = EventOf[d] /\ Active(c) /\ Active(d) => c = d

NextInBounds ==
  \A c \in Calls : pc[c] \in AtHandler => next[c] <= Len(Subs(c))

(* Where a call is, and the status of its runs.                            *)
RunsFollowCalls ==
  \A c \in Calls :
    /\ pc[c] \in {"idle", "append", "open"} => runs[Run(c)] = "none"
    /\ pc[c] \in InRun => runs[Run(c)] = "running"
    /\ \A n \in 1..MaxCommitAttempts : n > attempt[c] => runs[<<c, n>>] = "none"

(* A snapshot is the present state of a key or an older version of it.     *)
SnapshotsAreOldState ==
  \A c \in Calls : pc[c] \in InRun =>
    \A k \in Keys :
      /\ snapshot[c][k].version <= state[k].version
      /\ snapshot[c][k].version = state[k].version => snapshot[c][k] = state[k]

(* Proposals come from handled subscribers, on keys they own.              *)
ProposalsOwned ==
  \A c \in Calls : \A w \in proposals[c] :
    w[1] \in handled[c] /\ w[2] \in Writes[w[1]]

(* What a call handled nobody has consumed; what it is handling is pending.*)
HandledIsUnconsumed ==
  \A c \in Calls :
    /\ \A s \in handled[c] :
         Active(c) /\ deliveries[<<EventOf[c], s>>].status # "completed"
    /\ pc[c] \in {"handle", "mark_failed"} =>
         deliveries[Delivery(c)].status = "pending"

(* The attempt that exceeds the budget is the one that gives up.           *)
AttemptsBounded ==
  \A d \in Events \X Subscribers :
    Retryable(d) => deliveries[d].attempts <= MaxAttempts

EffectsAreConsumed ==
  \A ch \in changes : deliveries[<<ch.event, ch.subscriber>>].status = "completed"

DeliveryRow == [status : DeliveryStatus, attempts : 0..(MaxAttempts + 1)]

IInv ==
  /\ TypeOK
  /\ NobodyActiveWhenDown
  /\ OneCallPerEvent
  /\ NextInBounds
  /\ RunsFollowCalls
  /\ SnapshotsAreOldState
  /\ ProposalsOwned
  /\ HandledIsUnconsumed
  /\ AttemptsBounded
  /\ EffectsAreConsumed
  /\ OnlyCommittedRunsChangeState
  /\ NoLostUpdate
  /\ EffectOnce

(***************************************************************************)
(* What RecordsAgree needs beyond IInv: every completed delivery has a run *)
(* of its event behind it, only a call that has returned was told anything,*)
(* and a call of an event without subscribers handles nothing.             *)
(***************************************************************************)
ConsumedByARun ==
  \A d \in Events \X Subscribers : deliveries[d].status = "completed" =>
    \E r \in RunIds : EventOf[r[1]] = d[1] /\ runs[r] \in {"committed", "rejected"}
ToldWhenReturned == \A c \in Calls : pc[c] # "returned" => outcome[c] = "none"

NobodyHandlesNothing == \A c \in Calls : Len(Subs(c)) = 0 => handled[c] = {}

RecordsKept == ConsumedByARun /\ OutcomeMatchesRuns /\ RunningRunsAreLive /\ ToldWhenReturned
RecordsInv == RecordsKept /\ NobodyHandlesNothing
=============================================================================
