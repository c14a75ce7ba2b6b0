------------------------- MODULE AutonomousRuntime -------------------------
(***************************************************************************)
(* The autonomous loop (runtime/autonomous.py) over the stored schedule    *)
(* (jobs/scheduler.py, storage/repositories/world.py).                     *)
(*                                                                         *)
(* The loop sleeps until the next due time or until a USER turn wakes it,  *)
(* collects what the scheduler offers, lets one candidate be chosen and    *)
(* awaits its handler.  Everything from waking to the first await of the   *)
(* handler runs without giving up the event loop, so it is one step, Look; *)
(* the only place another coroutine gets in is the handler (loop =         *)
(* "acting") or the sleep (loop = "asleep").  A job is marked "fired" when *)
(* it is offered, before anybody has chosen it.  The process may be        *)
(* stopped, which cancels the loop, or may crash, also between two rows of *)
(* one collection; the rows survive, the loop's memory does not.  The row  *)
(* of runtime_ticks that reports a tick is best effort and left out.       *)
(*                                                                         *)
(* Every job with a window_end is written with expires_at = window_end     *)
(* (schedule_window), so is_expired answers before missed_window can, and  *)
(* a job here is timed (FIXED, WINDOW, BACKGROUND) or a CONDITION.  Time   *)
(* is counted in units of MIN_SLEEP_SECONDS and stops at Horizon, where    *)
(* timers that would end later end.                                        *)
(***************************************************************************)
EXTENDS Integers, FiniteSets

CONSTANTS Jobs,         \* rows of scheduled_jobs, numbered in the order they are inserted
          Shapes,       \* the jobs that may be scheduled: records [timed, due, expires]
          Turns,        \* USER turns
          Horizon,      \* bound: the last instant of a run
          Idle,         \* idle_seconds
          MaxPerTick,   \* max_opportunities_per_tick
          ScanLimit,    \* rows a tick looks at
          RestoreLimit, \* rows the restore after a start looks at
          MaxEnds,      \* bound: shutdowns and crashes of the process
          MaxFaults     \* bound: ticks that raise, or whose collection does

ASSUME RuntimeAssumption ==
    /\ Jobs \subseteq Nat
    /\ Turns # {} /\ IsFiniteSet(Turns)
    /\ Shapes \subseteq [timed : BOOLEAN, due : Nat, expires : Nat]
    /\ {Horizon, MaxEnds, MaxFaults} \subseteq Nat
    /\ {Idle, MaxPerTick, ScanLimit, RestoreLimit} \subseteq Nat \ {0}

VARIABLES now,        \* the clock
          status,     \* scheduled_jobs.status, "none" before the row exists
          shape,      \* the rest of the row
          holds,      \* do the registered conditions hold?
          loop,       \* where the loop's task is
          wake,       \* self._wake
          deadline,   \* when the sleep times out, 0 when it does not sleep
          userTurns,  \* self._user_turns
          wokeAt,     \* the moment of the tick whose handler runs
          faults, ends,   \* counted against their bounds
          (* history, read by the properties only *)
          openTurns,  \* the USER turns in progress
          called,     \* a turn began since the loop last looked around
          offers,     \* how often each job was offered
          known       \* jobs the loop could see when it planned its sleep

loopVars == <<loop, wake, deadline, wokeAt, known, called>>
vars == <<now, status, shape, holds, loopVars, userTurns, faults,
          ends, openTurns, offers>>

Statuses == {"none", "pending", "fired", "expired"}
NoShape == [timed |-> FALSE, due |-> 0, expires |-> 0]

Larger(a, b) == IF a < b THEN b ELSE a
Smallest(S) == CHOOSE a \in S : \A b \in S : a <= b

----------------------------------------------------------------------------
(* The schedule.                                                           *)

Pending == {j \in Jobs : status[j] = "pending"}

IsExpired(j) == now >= shape[j].expires

\* ORDER BY due_at: conditions have none and come first; ties by insertion.
DueKey(j) == IF shape[j].timed THEN shape[j].due ELSE -1
Before(i, j) == \/ DueKey(i) < DueKey(j)
                \/ DueKey(i) = DueKey(j) /\ i < j

First(limit, S) == {j \in S : Cardinality({i \in S : Before(i, j)}) < limit}

\* No query reads the whole schedule, and conditions wait at its head until
\* they hold: enough of them keep the timed jobs out of sight.
Scan(limit) == First(limit, Pending)
Scanned == Scan(ScanLimit)

\* Mutant: a job is only offered at its very moment.
ReadyOnTheDot == {j \in Scanned : /\ ~IsExpired(j)
                                  /\ IF shape[j].timed THEN now = shape[j].due ELSE holds}
Ready == {j \in Scanned : /\ ~IsExpired(j)
                          /\ IF shape[j].timed THEN now >= shape[j].due ELSE holds}

\* The jobs one tick offers: the first MaxPerTick of those that are ready.
Offered == First(MaxPerTick, Ready)

\* The jobs it retires: those that are past it and that it comes to.
Retired == LET offered == Offered
           IN  {j \in Scanned :
                  /\ IsExpired(j)
                  /\ Cardinality({i \in offered : Before(i, j)}) < MaxPerTick}

\* Every row of the collection is marked, whatever becomes of the opportunity.
Mark(fired, expired) ==
    /\ status' = [j \in Jobs |-> IF j \in fired THEN "fired"
                                 ELSE IF j \in expired THEN "expired"
                                 ELSE status[j]]
    /\ offers' = [j \in Jobs |-> offers[j] + IF j \in fired THEN 1 ELSE 0]

\* What a collection marks.  One that ends on the way, at a row that could not
\* be marked or a condition that raises, has marked the rows up to some job, or
\* none, and the look goes on without what was on them.
Whole == [fired |-> Offered, expired |-> Retired, raised |-> 0]
Parts ==
    LET whole == Whole
        marked == whole.fired \cup whole.expired
        UpTo(last) == {j \in marked : j = last \/ Before(j, last)}
    IN  {[fired |-> whole.fired \cap rows, expired |-> whole.expired \cap rows, raised |-> 1] :
            rows \in {{}} \cup {UpTo(last) : last \in marked}}
Collections == {Whole} \cup Parts

Schedule(j, s) ==
    /\ loop # "down"
    /\ status[j] = "none"
    /\ \A i \in Jobs : i < j => status[i] # "none"
    /\ status' = [status EXCEPT ![j] = "pending"]
    /\ shape' = [shape EXCEPT ![j] = s]
    /\ UNCHANGED <<now, holds, loopVars, userTurns, faults, ends, openTurns, offers>>

ConditionFlips ==
    /\ \E j \in Pending : ~shape[j].timed
    /\ holds' = ~holds
    /\ UNCHANGED <<now, status, shape, loopVars, userTurns, faults,
                   ends, openTurns, offers>>

----------------------------------------------------------------------------
(* The USER comes first.                                                   *)

BusyWithUser == userTurns > 0

BeginTurn(t) ==
    /\ loop # "down"
    /\ t \notin openTurns
    /\ openTurns' = openTurns \cup {t}
    /\ userTurns' = userTurns + 1
    /\ wake' = TRUE
    /\ called' = TRUE
    /\ UNCHANGED <<now, status, shape, holds, loop, deadline, wokeAt,
                   known, faults, ends, offers>>

\* Mutant: the turn's end clears the flag instead of counting down.
LeaveAll(n) == 0
Leave(n) == Larger(0, n - 1)

EndTurn(t) ==
    /\ t \in openTurns
    /\ openTurns' = openTurns \ {t}
    /\ userTurns' = Leave(userTurns)
    /\ UNCHANGED <<now, status, shape, holds, loopVars, faults, ends, offers>>

----------------------------------------------------------------------------
(* Sleeping.                                                               *)

\* The soonest of what the source expects and the idle interval; a source that
\* is due already is asked again after the minimum.
NextWake(moment, pending) ==
    Smallest({moment + Idle} \cup
             {Larger(shape[j].due, moment + 1) : j \in {i \in pending : shape[i].timed}})

SleepUntil(due) == Smallest({Horizon, Larger(now + 1, due)})

\* Mutant: the wake flag is cleared on the way into the sleep.
FallAsleepDeaf(due) ==
    /\ loop' = "asleep"
    /\ deadline' = SleepUntil(due)
    /\ wake' = FALSE

FallAsleep(due) ==
    /\ loop' = "asleep"
    /\ deadline' = SleepUntil(due)
    /\ wake' = (wake /\ loop = "acting")     \* cleared before the tick, not after it

Awake == \/ loop = "starting"
         \/ loop = "asleep" /\ (wake \/ now >= deadline)

----------------------------------------------------------------------------
(* One wake-up.                                                            *)

\* A scheduler that raises is passed over, the look goes on without it.
Collect(c) ==
    /\ faults + c.raised <= MaxFaults
    /\ faults' = faults + c.raised
    /\ Mark(c.fired, c.expired)

SleepAfter(c) ==
    /\ called' = FALSE
    /\ UNCHANGED <<now, shape, holds, userTurns, wokeAt, ends, openTurns>>
    /\ Collect(c)
    /\ known' = First(ScanLimit, Pending \ (c.fired \cup c.expired))
    /\ FallAsleep(NextWake(now, known'))

\* Nothing is worth doing, or a turn is in flight, or nothing carries the
\* choice out: she goes back to sleep.
LookAndSleep == Awake /\ \E c \in Collections : SleepAfter(c)

\* A candidate is chosen, of a job or of another source, and its handler runs.
LookAndAct ==
    /\ Awake
    /\ ~BusyWithUser
    /\ loop' = "acting"
    /\ wake' = FALSE
    /\ called' = FALSE
    /\ wokeAt' = now
    /\ deadline' = 0 /\ known' = {}
    /\ UNCHANGED <<now, shape, holds, userTurns, ends, openTurns>>
    /\ \E c \in Collections : Collect(c)

\* The decision could not be stored, whatever had been collected: the tick
\* raises and the loop sleeps blind.
LookAndRaise ==
    /\ Awake
    /\ ~BusyWithUser
    /\ faults < MaxFaults
    /\ faults' = faults + 1
    /\ FallAsleep(now + Idle)
    /\ known' = {}
    /\ called' = FALSE
    /\ UNCHANGED <<now, shape, holds, userTurns, wokeAt, ends, openTurns>>
    /\ \E c \in Collections : Mark(c.fired, c.expired)

\* The handler returns or raises.
HandlerEnds ==
    /\ loop = "acting"
    /\ known' = Scanned
    /\ FallAsleep(NextWake(wokeAt, Scanned))
    /\ wokeAt' = 0
    /\ UNCHANGED <<now, status, shape, holds, userTurns, called, faults, ends, openTurns, offers>>

Advance ==
    /\ now < Horizon
    /\ ~Awake
    /\ now' = now + 1
    /\ UNCHANGED <<status, shape, holds, loopVars, userTurns, faults,
                   ends, openTurns, offers>>

----------------------------------------------------------------------------
(* The process.                                                            *)

\* What a new process finds: the rows.  Its loop and its turns are new.
ForgetMemory ==
    /\ loop' = "down"
    /\ wake' = FALSE
    /\ called' = FALSE
    /\ known' = {}
    /\ openTurns' = {}
    /\ userTurns' = 0
    /\ deadline' = 0 /\ wokeAt' = 0
    /\ UNCHANGED <<now, shape, holds, faults>>

\* Application.stop: the loop's task is cancelled wherever it waits, and drained.
Stop ==
    /\ loop # "down"
    /\ ends < MaxEnds
    /\ ends' = ends + 1
    /\ ForgetMemory
    /\ UNCHANGED <<status, offers>>

\* A crash, during a collection after the rows up to some job were marked.
Crash ==
    /\ loop # "down"
    /\ ends < MaxEnds
    /\ ends' = ends + 1
    /\ ForgetMemory
    /\ \/ UNCHANGED <<status, offers>>
       \/ Awake /\ \E c \in Parts : Mark(c.fired, c.expired)

\* Mutant: the restore puts the jobs that fired back on the schedule.
RestoredAgain(j) == IF status[j] = "fired" THEN "pending" ELSE status[j]
Restored(j) == IF j \in Scan(RestoreLimit) /\ IsExpired(j) THEN "expired" ELSE status[j]

\* Application.start: the schedule is restored, then the loop is started.
Boot ==
    /\ loop = "down"
    /\ status' = [j \in Jobs |-> Restored(j)]
    /\ loop' = "starting"
    /\ UNCHANGED <<now, shape, holds, wake, deadline, wokeAt, known,
                   called, userTurns, faults, ends,
                   openTurns, offers>>

----------------------------------------------------------------------------
Init ==
    /\ now = 0
    /\ status = [j \in Jobs |-> "none"]
    /\ shape = [j \in Jobs |-> NoShape]
    /\ holds = FALSE
    /\ loop = "down"
    /\ wake = FALSE
    /\ deadline = 0
    /\ userTurns = 0
    /\ wokeAt = 0
    /\ faults = 0 /\ ends = 0
    /\ openTurns = {}
    /\ called = FALSE
    /\ offers = [j \in Jobs |-> 0]
    /\ known = {}

Next ==
    \/ \E j \in Jobs, s \in Shapes : Schedule(j, s)
    \/ ConditionFlips
    \/ \E t \in Turns : BeginTurn(t)
    \/ \E t \in Turns : EndTurn(t)
    \/ LookAndSleep
    \/ LookAndAct
    \/ LookAndRaise
    \/ HandlerEnds
    \/ Advance
    \/ Stop
    \/ Crash
    \/ Boot

Spec == Init /\ [][Next]_vars

Look == LookAndSleep \/ LookAndAct \/ LookAndRaise

\* The event loop runs what is runnable, a handler ends, and time passes.
\* While she is awake nothing takes from her that she may look and sleep, so
\* the fairness of that makes her look, in whichever way.
MaySleep == Awake /\ \E c \in {Whole} : SleepAfter(c)
FairSpec == /\ Spec
            /\ WF_vars(MaySleep)
            /\ WF_vars(HandlerEnds)
            /\ WF_vars(Advance)

----------------------------------------------------------------------------
(* Properties.                                                             *)

TypeOK ==
    /\ now \in 0..Horizon
    /\ status \in [Jobs -> Statuses]
    /\ shape \in [Jobs -> Shapes \cup {NoShape}]
    /\ holds \in BOOLEAN
    /\ loop \in {"down", "starting", "acting", "asleep"}
    /\ wake \in BOOLEAN /\ called \in BOOLEAN
    /\ deadline \in Nat /\ wokeAt \in Nat
    /\ userTurns \in Nat
    /\ {known} \subseteq SUBSET Jobs
    /\ faults \in 0..MaxFaults /\ ends \in 0..MaxEnds
    /\ openTurns \subseteq Turns
    /\ offers \in [Jobs -> Nat]

\* A job is handed out at most once, whatever is chosen, deferred, stopped,
\* crashed or restarted in between: a fired job is never pending again, so no
\* reminder is acted on twice.
OfferedAtMostOnce == \A j \in Jobs : offers[j] <= 1

\* A USER turn that began while the loop was in the middle of something is still
\* going to wake it: the flag is up until the loop looks around again.
InterruptsSurvive == (called /\ loop # "down") => (wake \/ loop = "starting")

\* An action is started only when no USER turn at all is in progress, overlapping
\* turns included (the code only keeps their number).
ActsBetweenTurns ==
    [][(loop # "acting" /\ loop' = "acting") => openTurns = {}]_vars

\* As many conditions wait as a tick looks at rows.
Crowded == Cardinality({j \in Pending : ~shape[j].timed}) >= ScanLimit

\* A job whose moment has come is eventually handed out or retired while the
\* process stays up, even behind a backlog larger than one tick takes or looks
\* at; only conditions that do not come to hold can keep it waiting.
DueJobsAreTaken ==
    \A j \in Jobs :
        (status[j] = "pending" /\ shape[j].timed /\ shape[j].due <= now)
            ~> (status[j] # "pending" \/ loop = "down" \/ Crowded)
============================================================================
