----------------------------- MODULE ModelCalls -----------------------------
(***************************************************************************)
(* One local model, one queue: ResourceManager hands out the model's slots *)
(* by priority and StructuredGenerator.generate makes the calls, taking a  *)
(* slot for every attempt and giving it back between attempts.             *)
(*                                                                         *)
(* All of it runs on one event loop, so a step is what a task does from    *)
(* one await to the next.  A waiter is woken in two steps: release()       *)
(* resolves its future and counts it in, the loop resumes it later.        *)
(*                                                                         *)
(* Abstractions: a job is one logical call of generate(); a ticket is one  *)
(* of its places in the queue; what the model says is one of a few kinds   *)
(* of answer.                                                              *)
(***************************************************************************)
EXTENDS Integers, FiniteSets

CONSTANTS
  Jobs,         \* logical calls
  Rank,         \* job -> rank(priority), 0 is P0
  Cancellable,  \* jobs run under wait_for, or in a task that gets cancelled
  Capacity,     \* resources.concurrency
  MaxAttempts   \* plan.max_attempts

ASSUME JobsAssumption == IsFiniteSet(Jobs) /\ Cancellable \subseteq Jobs
ASSUME RankAssumption == Rank \in [Jobs -> Nat]
ASSUME BoundsAssumption == Capacity \in Nat \ {0} /\ MaxAttempts \in Nat \ {0}

VARIABLES
  inFlight,   \* _in_flight
  waiting,    \* _waiting: tickets
  sequence,   \* _sequence
  pc,         \* where the task of a job is
  attempt,    \* attempt of a job
  traced      \* calls the tracer has started and not finished

vars == <<inFlight, waiting, sequence, pc, attempt, traced>>

Places == {"idle", "acquire", "waiting", "cancelling", "granted", "calling",
           "answered", "failed", "backoff", "accepted", "gave_up", "cancelled"}
Ended == {"accepted", "gave_up", "cancelled"}

(* Jobs whose slot is counted: resumed already, or about to be.            *)
Holders == {j \in Jobs : pc[j] \in {"granted", "calling"}}

(* A cancelled future stays listed until its task gets to run.             *)
Live(t) == pc[t.job] = "waiting"

(* Mutant: most urgent first, but the newest of them.                      *)
BeforeNewest(t, u) ==
  \/ Rank[t.job] < Rank[u.job]
  \/ Rank[t.job] = Rank[u.job] /\ t.number > u.number

(* QueuedWork.sort_key.                                                    *)
Before(t, u) ==
  \/ Rank[t.job] < Rank[u.job]
  \/ Rank[t.job] = Rank[u.job] /\ t.number < u.number

Init ==
  /\ inFlight = 0
  /\ waiting = {}
  /\ sequence = 0
  /\ pc = [j \in Jobs |-> "idle"]
  /\ attempt = [j \in Jobs |-> 1]
  /\ traced = {}

(* generate() is called; every attempt opens a trace row first.            *)
Generate(j) ==
  /\ pc[j] = "idle"
  /\ pc' = [pc EXCEPT ![j] = "acquire"]
  /\ traced' = traced \cup {<<j, attempt[j]>>}
  /\ UNCHANGED <<inFlight, waiting, sequence, attempt>>

(* acquire(): straight through when a slot is free and nobody waits.       *)
Acquire(j) ==
  /\ pc[j] = "acquire"
  /\ sequence' = sequence + 1
  /\ IF inFlight < Capacity /\ waiting = {}
       THEN /\ inFlight' = inFlight + 1
            /\ pc' = [pc EXCEPT ![j] = "calling"]
            /\ UNCHANGED waiting
       ELSE /\ waiting' = waiting \cup {[job |-> j, number |-> sequence + 1]}
            /\ pc' = [pc EXCEPT ![j] = "waiting"]
            /\ UNCHANGED inFlight
  /\ UNCHANGED <<attempt, traced>>

(* The granted waiter runs.                                                *)
Resume(j) ==
  /\ pc[j] = "granted"
  /\ pc' = [pc EXCEPT ![j] = "calling"]
  /\ UNCHANGED <<inFlight, waiting, sequence, attempt, traced>>

(***************************************************************************)
(* release(): the slot goes to the first live ticket; the cancelled ones   *)
(* in front of it are dropped.  goesTo is where the releasing job goes.    *)
(***************************************************************************)
AtLeastZero(n) == IF n < 0 THEN 0 ELSE n

(* Mutant: nobody is woken.                                                *)
ReleaseOnly(j, goesTo) ==
  /\ inFlight' = AtLeastZero(inFlight - 1)
  /\ waiting' = waiting
  /\ pc' = [pc EXCEPT ![j] = goesTo]

Release(j, goesTo) ==
  LET free == AtLeastZero(inFlight - 1)
      live == {t \in waiting : Live(t)} IN
  \/ /\ live = {}
     /\ inFlight' = free
     /\ waiting' = {}
     /\ pc' = [pc EXCEPT ![j] = goesTo]
  \/ \E t \in live :
       /\ \A u \in live \ {t} : Before(t, u)
       /\ waiting' = {u \in waiting : u # t /\ ~Before(u, t)}
       /\ inFlight' = free + 1
       /\ pc' = [pc EXCEPT ![j] = goesTo, ![t.job] = "granted"]

(* The model answers, or the transport fails or times out: either way the  *)
(* slot is given back before anything else happens.                        *)
Answer(j) ==
  /\ pc[j] = "calling"
  /\ \E goesTo \in {"answered", "failed"} : Release(j, goesTo)
  /\ UNCHANGED <<sequence, attempt, traced>>

CloseTrace(j) == traced' = traced \ {<<j, attempt[j]>>}

(* An answer that parses and validates is the outcome.                     *)
Accept(j) ==
  /\ pc[j] = "answered"
  /\ CloseTrace(j)
  /\ pc' = [pc EXCEPT ![j] = "accepted"]
  /\ UNCHANGED <<inFlight, waiting, sequence, attempt>>

(* A transport error or an invalid answer of a kind that is not retried,   *)
(* or on the last attempt.                                                 *)
GiveUp(j) ==
  /\ pc[j] \in {"answered", "failed"}
  /\ CloseTrace(j)
  /\ pc' = [pc EXCEPT ![j] = "gave_up"]
  /\ UNCHANGED <<inFlight, waiting, sequence, attempt>>

(* An invalid answer is repaired in a new attempt, with a new ticket.      *)
Repair(j) ==
  /\ pc[j] = "answered"
  /\ attempt[j] < MaxAttempts
  /\ attempt' = [attempt EXCEPT ![j] = @ + 1]
  /\ traced' = (traced \ {<<j, attempt[j]>>}) \cup {<<j, attempt[j] + 1>>}
  /\ pc' = [pc EXCEPT ![j] = "acquire"]
  /\ UNCHANGED <<inFlight, waiting, sequence>>

(* A retryable transport error: wait, with no slot held, and try again.    *)
BackOff(j) ==
  /\ pc[j] = "failed"
  /\ attempt[j] < MaxAttempts
  /\ CloseTrace(j)
  /\ pc' = [pc EXCEPT ![j] = "backoff"]
  /\ UNCHANGED <<inFlight, waiting, sequence, attempt>>

TryAgain(j) ==
  /\ pc[j] = "backoff"
  /\ attempt' = [attempt EXCEPT ![j] = @ + 1]
  /\ traced' = traced \cup {<<j, attempt[j] + 1>>}
  /\ pc' = [pc EXCEPT ![j] = "acquire"]
  /\ UNCHANGED <<inFlight, waiting, sequence>>

(***************************************************************************)
(* Cancellation (a timeout around generate, or the task's owner stopping). *)
(* What happens depends on the await it is delivered to.                   *)
(***************************************************************************)
CancelWaiter(j) ==
  /\ j \in Cancellable
  /\ pc[j] = "waiting"
  /\ pc' = [pc EXCEPT ![j] = "cancelling"]
  /\ UNCHANGED <<inFlight, waiting, sequence, attempt, traced>>

(* acquire()'s except clause takes the ticket out of the list.             *)
Withdraw(j) ==
  /\ pc[j] = "cancelling"
  /\ waiting' = {t \in waiting : t.job # j}
  /\ pc' = [pc EXCEPT ![j] = "cancelled"]
  /\ UNCHANGED <<inFlight, sequence, attempt, traced>>

(* The future was resolved but the task has not resumed: the same except   *)
(* clause finds no ticket to take out, and nobody gives the slot back.     *)
CancelGranted(j) ==
  /\ j \in Cancellable
  /\ pc[j] = "granted"
  /\ pc' = [pc EXCEPT ![j] = "cancelled"]
  /\ UNCHANGED <<inFlight, waiting, sequence, attempt, traced>>

CancelCall(j) ==
  /\ j \in Cancellable
  /\ pc[j] = "calling"
  /\ Release(j, "cancelled")
  /\ UNCHANGED <<sequence, attempt, traced>>

CancelElsewhere(j) ==
  /\ j \in Cancellable
  /\ pc[j] \in {"acquire", "answered", "failed", "backoff"}
  /\ pc' = [pc EXCEPT ![j] = "cancelled"]
  /\ UNCHANGED <<inFlight, waiting, sequence, attempt, traced>>

Step(j) ==
  \/ Acquire(j) \/ Resume(j) \/ Answer(j)
  \/ Accept(j) \/ GiveUp(j) \/ Repair(j) \/ BackOff(j) \/ TryAgain(j)
  \/ Withdraw(j)

Cancel(j) == CancelWaiter(j) \/ CancelGranted(j) \/ CancelCall(j) \/ CancelElsewhere(j)

Next == \E j \in Jobs : Generate(j) \/ Step(j) \/ Cancel(j)

Spec == Init /\ [][Next]_vars

(* The event loop runs every ready task, and a model call ends: it answers *)
(* or it times out.                                                        *)
FairSpec == Spec /\ \A j \in Jobs : WF_vars(Step(j))

-----------------------------------------------------------------------------
(* Nobody is overtaken: when a job gets a slot, everybody still waiting is *)
(* less urgent, or as urgent and came later.  A reply is never behind a    *)
(* diary entry, and a retry goes to the back of its class.                 *)
NobodyIsOvertaken ==
  [][\A j \in Holders' \ Holders : \A t \in waiting :
        Live(t) /\ t.job # j =>
          \/ Rank[t.job] > Rank[j]
          \/ \E u \in waiting : u.job = j /\ Rank[t.job] = Rank[j] /\ u.number < t.number
    ]_vars

(* Every call ends, over attempts, repairs, back-off and cancellations of  *)
(* others, and in spite of more urgent work arriving, unless a slot has    *)
(* been lost for good (CancelledJobsHoldNothing).                          *)
EveryCallEnds ==
  \A j \in Jobs :
    pc[j] \notin {"idle"} \cup Ended
      ~> (pc[j] \in Ended \/ inFlight > Cardinality(Holders))

-----------------------------------------------------------------------------
(* resources.py:23: "Nothing is killed mid-write: a cancelled job leaves   *)
(* no half-finished state": once the tasks that hold slots are counted,    *)
(* nothing is in flight for a job that was cancelled.                      *)
CancelledJobsHoldNothing == inFlight = Cardinality(Holders)
=============================================================================
