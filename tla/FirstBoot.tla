----------------------------- MODULE FirstBoot -----------------------------
(***************************************************************************)
(* FirstBootOrchestrator: the one object that decides whether she exists.  *)
(* Each command of the command line is a process of its own; what they     *)
(* share is the row of first_boot_state, moved by compare-and-set, and the *)
(* lease of first_boot_lock, which lapses fifteen minutes after its last   *)
(* heartbeat.  Nothing calls beat, so a lease lapses while its holder is   *)
(* still generating (LeaseLapses).                                         *)
(*                                                                         *)
(* The checks of start and of resume are one step with the taking of the   *)
(* lease: they are consecutive statements, milliseconds apart.  The status *)
(* READY is written by nobody and is left out.                             *)
(***************************************************************************)
EXTENDS Genesis

CONSTANTS
  MaxAttempts,      \* MAX_ATTEMPTS of firstboot/state.py
  MaxCommands,      \* bound: starts and resumes issued
  MaxCrashes        \* bound: processes that end in the middle

VARIABLES
  status,     \* of the epoch's row; "" before there is one
  attached,   \* whether the row names a run
  attempts,   \* attempt_count
  report,     \* whether the report is saved
  run,        \* the row of genesis_runs: "none", "open" or "finished"
  lease,      \* the holder of the lease and whether it is live
  npcs,       \* runtime people created for each person of the past
  linked,     \* people whose entity row names its runtime person
  overdue,    \* jobs still due in the simulated past
  lifeDays,   \* life days opened
  commands, crashes,
  takeovers   \* leases taken from a process that was still at work

stateVars == <<status, attached, attempts, report, run>>
landVars == <<npcs, linked, overdue, lifeDays>>
boundVars == <<commands, crashes, takeovers>>
vars == <<genesisVars, stateVars, lease, landVars, boundVars>>

Nobody == "nobody"
NoLease == [holder |-> Nobody, live |-> FALSE]
Startable == {"", "PENDING"}
Resumable == {"RUNNING", "PAUSED", "BLOCKED_RETRYABLE", "AUDITING"}
RetryableBlocks ==
  {"model_unavailable", "critic_unavailable", "incomplete", "landing_failed"}
FatalBlocks == {"contradiction", "retry_exhausted"}
Idle(p) == pc[p] = "off"
Finalising == {"finalise", "audit", "promote", "link", "retire jobs", "open day",
               "consistency", "report", "complete", "finish run"}
Places == {"off", "backup", "new run", "attach", "mark running", "bump",
           "blocking", "release"} \cup Generating \cup Finalising

Init ==
  /\ GenesisInit
  /\ pc = [p \in Process |-> "off"]
  /\ status = "" /\ attached = FALSE /\ attempts = 0 /\ report = FALSE
  /\ run = "none" /\ lease = NoLease
  /\ npcs = [q \in Person |-> 0] /\ linked = {}
  /\ overdue = TRUE /\ lifeDays = 0
  /\ commands = 0 /\ crashes = 0 /\ takeovers = 0

(***************************************************************************)
(* The row and the lease.                                                  *)
(***************************************************************************)
\* Mutant: the status is written whatever it has become.
SetStatus(expected, to) == status' = to

\* repository.transition; the callers that ignore its answer just go on.
Transition(expected, to) ==
  status' = IF status \in expected THEN to ELSE status

\* repository.acquire: a lapsed lease is deleted, a live one refuses.
Acquire(p) ==
  /\ ~lease.live
  /\ lease' = [holder |-> p, live |-> TRUE]
  /\ takeovers' = IF \E q \in Process : ~Idle(q) THEN takeovers + 1 ELSE takeovers

\* repository.release: a process deletes its own lease only.
Release(p) ==
  /\ pc[p] = "release"
  /\ lease' = IF lease.holder = p THEN NoLease ELSE lease
  /\ Go(p, "off")
  /\ UNCHANGED <<recordVars, loopVars, faults, stateVars, landVars, boundVars>>

\* Fifteen minutes without a heartbeat: only a holder that is gone or waits
\* for the model takes that long.
LeaseLapses ==
  /\ lease.live
  /\ lease.holder \in Process => pc[lease.holder] \in Generating
  /\ lease' = [lease EXCEPT !.live = FALSE]
  /\ UNCHANGED <<genesisVars, stateVars, landVars, boundVars>>

(***************************************************************************)
(* Commands.                                                               *)
(***************************************************************************)
Command == commands < MaxCommands /\ commands' = commands + 1

\* start up to the lease.  Preflight refuses an open run that is not this
\* epoch's.
Start(p) ==
  /\ Command /\ Idle(p)
  /\ status \in Startable /\ ~attached /\ run # "open"
  /\ status' = "PENDING"
  /\ Acquire(p)
  /\ Go(p, "backup")
  /\ UNCHANGED <<recordVars, loopVars, faults, attached, attempts, report, run,
                 landVars, crashes>>

Backup(p) ==
  /\ pc[p] = "backup"
  /\ \/ Go(p, "new run") /\ UNCHANGED faults
     \/ Fault /\ Go(p, "release")
  /\ UNCHANGED <<recordVars, loopVars, stateVars, lease, landVars, boundVars>>

NewRun(p) ==
  /\ pc[p] = "new run"
  /\ run' = "open" /\ Go(p, "attach")
  /\ UNCHANGED <<recordVars, loopVars, faults, status, attached, attempts, report,
                 lease, landVars, boundVars>>

AttachRun(p) ==
  /\ pc[p] = "attach"
  /\ attached' = TRUE /\ Go(p, "mark running")
  /\ UNCHANGED <<recordVars, loopVars, faults, status, attempts, report, run, lease,
                 landVars, boundVars>>

\* resume up to the lease; which run it is, the row says.
Resume(p) ==
  /\ Command /\ Idle(p)
  /\ status \in Resumable /\ attached
  /\ Acquire(p)
  /\ Go(p, "mark running")
  /\ UNCHANGED <<recordVars, loopVars, faults, stateVars, landVars, crashes>>

\* Starting expects PENDING and resuming what is resumable: as only one of
\* them can be here for a given status, one step serves both.
MarkRunning(p) ==
  /\ pc[p] = "mark running"
  /\ Transition({"PENDING"} \cup Resumable, "RUNNING")
  /\ Go(p, "bump")
  /\ UNCHANGED <<recordVars, loopVars, faults, attached, attempts, report, run, lease,
                 landVars, boundVars>>

BumpAttempt(p) ==
  /\ pc[p] = "bump"
  /\ attempts' = attempts + 1
  /\ Begin(p)
  /\ UNCHANGED <<recordVars, faults, status, attached, report, run, lease,
                 landVars, boundVars>>

\* pause writes the status and nothing else, from a process of its own.
Pause ==
  /\ Fault
  /\ attached /\ status \in {"RUNNING", "AUDITING"}
  /\ status' = "PAUSED"
  /\ UNCHANGED <<recordVars, pc, loopVars, attached, attempts, report, run, lease,
                 landVars, boundVars>>

(***************************************************************************)
(* _drive after the runner returns, and _block.                            *)
(***************************************************************************)
\* The first of the reasons _drive looks at.
BlockKind(found) ==
  CHOOSE k \in {"model_unavailable", "contradiction", "critic_unavailable", "incomplete"} :
    /\ k \in found
    /\ "model_unavailable" \in found => k = "model_unavailable"
    /\ k # "model_unavailable" /\ "contradiction" \in found => k = "contradiction"
    /\ k = "incomplete" => "critic_unavailable" \notin found

\* A retryable reason is not retryable for ever.
KindAfter(kind) ==
  IF kind \in RetryableBlocks /\ attempts >= MaxAttempts THEN "retry_exhausted" ELSE kind
BlockStatus(kind) ==
  IF kind \in FatalBlocks THEN "BLOCKED_FATAL" ELSE "BLOCKED_RETRYABLE"
Block(p, kind) ==
  /\ Transition({"RUNNING", "AUDITING", "PAUSED"}, BlockStatus(KindAfter(kind)))
  /\ Go(p, "release")

Judge(p) ==
  /\ pc[p] = "judge"
  /\ IF issues[p] # {}
     THEN Block(p, BlockKind(issues[p]))
     ELSE Go(p, "finalise") /\ UNCHANGED status
  /\ Forget(p)
  /\ UNCHANGED <<recordVars, faults, attached, attempts, report, run, lease,
                 landVars, boundVars>>

(***************************************************************************)
(* _finalise.                                                              *)
(***************************************************************************)
ToAuditing(p) ==
  /\ pc[p] = "finalise"
  /\ Transition({"RUNNING", "AUDITING"}, "AUDITING")
  /\ Go(p, "audit")
  /\ UNCHANGED <<recordVars, loopVars, faults, attached, attempts, report, run, lease,
                 landVars, boundVars>>

\* The ten audits; passing them is a checkpoint too, and the survivors are read
\* once, in the statement after them.
Audit(p) ==
  /\ pc[p] = "audit"
  /\ \/ /\ RecordPassesAudit
        /\ reached' = reached \cup {<<"audits", 0>>}
        /\ todo' = [todo EXCEPT ![p] = Survivors]
        /\ Go(p, "promote")
        /\ UNCHANGED <<status, faults>>
     \/ /\ ~RecordPassesAudit
        /\ Block(p, "audit_failed")
        /\ UNCHANGED <<reached, todo, faults>>
     \/ /\ Fault
        /\ Block(p, "audit_failed")
        /\ UNCHANGED <<reached, todo>>
  /\ UNCHANGED <<years, months, seen, summaries, staged, replayed, lived, unmarked,
                 remembers, year, month, issues, attached, attempts, report, run, lease,
                 landVars, boundVars>>

\* promote_survivors, in the order of the rows: one who is not linked is
\* introduced, then linked.  The others of her past stay in the archive.
InTurn(people) == CHOOSE q \in people : TRUE

Introduce(p) ==
  /\ pc[p] = "promote"
  /\ \/ /\ todo[p] = {}
        /\ Go(p, "retire jobs")
        /\ UNCHANGED <<npcs, todo>>
     \/ /\ todo[p] # {} /\ InTurn(todo[p]) \in linked
        /\ todo' = [todo EXCEPT ![p] = @ \ {InTurn(todo[p])}]
        /\ UNCHANGED <<pc, npcs>>
     \/ /\ todo[p] # {} /\ InTurn(todo[p]) \notin linked
        /\ npcs' = [npcs EXCEPT ![InTurn(todo[p])] = @ + 1]
        /\ Go(p, "link")
        /\ UNCHANGED todo
  /\ UNCHANGED <<recordVars, year, month, issues, faults, stateVars, lease, linked,
                 overdue, lifeDays, boundVars>>

Link(p) ==
  /\ pc[p] = "link"
  /\ linked' = linked \cup {InTurn(todo[p])}
  /\ todo' = [todo EXCEPT ![p] = @ \ {InTurn(todo[p])}]
  /\ Go(p, "promote")
  /\ UNCHANGED <<recordVars, year, month, issues, faults, stateVars, lease, npcs,
                 overdue, lifeDays, boundVars>>

\* _land: what is due in the past is retired, the first thousand pending jobs
\* of it, and her first day starts here.
RetireJobs(p) ==
  /\ pc[p] = "retire jobs"
  /\ overdue' \in {FALSE, overdue} /\ Go(p, "open day")
  /\ UNCHANGED <<recordVars, loopVars, faults, stateVars, lease, npcs, linked, lifeDays,
                 boundVars>>

OpenDay(p) ==
  /\ pc[p] = "open day"
  /\ lifeDays' = IF lifeDays = 0 THEN 1 ELSE lifeDays
  /\ Go(p, "consistency")
  /\ UNCHANGED <<recordVars, loopVars, faults, stateVars, lease, npcs, linked, overdue,
                 boundVars>>

LandingFails(p) ==
  /\ pc[p] \in {"retire jobs", "open day"}
  /\ Fault
  /\ Block(p, "landing_failed")
  /\ UNCHANGED <<recordVars, loopVars, attached, attempts, report, run, lease, landVars,
                 boundVars>>

\* Whether she is whole and in the present; what the world and the feelings
\* of the past left behind is a choice.
Arrived ==
  /\ years # {} /\ months # {} /\ staged # {} /\ remembers
  /\ ~overdue /\ lifeDays # 0

FinalConsistency(p) ==
  /\ pc[p] = "consistency"
  /\ \/ Arrived /\ Go(p, "report") /\ UNCHANGED <<status, faults>>
     \/ ~Arrived /\ Block(p, "contradiction") /\ UNCHANGED faults
     \/ Fault /\ Block(p, "contradiction")
  /\ UNCHANGED <<recordVars, loopVars, attached, attempts, report, run, lease, landVars,
                 boundVars>>

SaveReport(p) ==
  /\ pc[p] = "report"
  /\ report' = TRUE /\ Go(p, "complete")
  /\ UNCHANGED <<recordVars, loopVars, faults, status, attached, attempts, run, lease,
                 landVars, boundVars>>

\* The one place COMPLETE is written.  A status that moved ends it here.
Complete(p) ==
  /\ pc[p] = "complete"
  /\ IF status = "AUDITING"
     THEN status' = "COMPLETE" /\ Go(p, "finish run")
     ELSE Go(p, "release") /\ UNCHANGED status
  /\ UNCHANGED <<recordVars, loopVars, faults, attached, attempts, report, run, lease,
                 landVars, boundVars>>

FinishRun(p) ==
  /\ pc[p] = "finish run"
  /\ run' = "finished" /\ Go(p, "release")
  /\ UNCHANGED <<recordVars, loopVars, faults, status, attached, attempts, report, lease,
                 landVars, boundVars>>

\* A process ends: its lease stays, its rows stay.
Crash(p) ==
  /\ ~Idle(p) /\ crashes < MaxCrashes
  /\ crashes' = crashes + 1
  /\ pc' = [pc EXCEPT ![p] = "off"]
  /\ Forget(p)
  /\ lease' = IF lease.holder = p THEN [lease EXCEPT !.holder = Nobody] ELSE lease
  /\ UNCHANGED <<recordVars, faults, stateVars, landVars, commands,
                 takeovers>>

Generate(p) ==
  GenesisStep(p) /\ UNCHANGED <<stateVars, lease, landVars, boundVars>>

Step(p) ==
  \/ Generate(p) \/ Backup(p) \/ NewRun(p) \/ AttachRun(p) \/ MarkRunning(p)
  \/ BumpAttempt(p) \/ Judge(p) \/ ToAuditing(p) \/ Audit(p) \/ Introduce(p)
  \/ Link(p) \/ RetireJobs(p) \/ OpenDay(p) \/ LandingFails(p)
  \/ FinalConsistency(p) \/ SaveReport(p) \/ Complete(p) \/ FinishRun(p) \/ Release(p)

Next ==
  \/ \E p \in Process : Start(p) \/ Resume(p) \/ Step(p) \/ Crash(p)
  \/ Pause \/ LeaseLapses

Spec == Init /\ [][Next]_vars

-----------------------------------------------------------------------------
\* The path to COMPLETE: every year summarised and every month there, all that
\* was extracted gone through, somebody in it and everybody who was still
\* around linked to a runtime person, the jobs of the past gone, one day open
\* and a report of it.
Whole ==
  /\ summaries = Year /\ months = Month
  /\ staged = replayed
  /\ remembers /\ known # {} /\ Survivors \subseteq linked
  /\ \A q \in linked : npcs[q] > 0
  /\ ~overdue /\ lifeDays = 1 /\ report

\* Whatever ended in the middle and was resumed, failed or was paused, she is
\* not called complete before she is, provided that no process lost its lease
\* while it was at work.
BornWhole == status = "COMPLETE" /\ takeovers = 0 => Whole

\* An experience is lived again only as often as a process ended between
\* living and marking it, could not mark it, or lost its lease to another
\* while at work.
RelivingIsExplained ==
  \A e \in Experience : lived[e] <= 1 + crashes + takeovers + unmarked

=============================================================================
