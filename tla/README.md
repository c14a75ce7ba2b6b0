# DiscordPersonalityBot: a TLA+ model of the program

The program keeps one artificial person, YUI, alive in one Python process: it
answers messages on Discord, lets her do things of her own accord, remembers,
and changes slowly. All state is in one SQLite file. One asyncio event loop runs
everything; database units of work run in worker threads under one lock, and a
local language model is asked for interpretations and for text. Beside the bot
there is a command line whose commands (first boot, administration, repair) are
processes of their own on the same file.

This directory holds the specifications of the parts whose correctness depends on
order, failure and interleaving, the TLC configurations that check them on small
instances, and the proofs that hold for every value of the constants.

Paths below are relative to the repository; `app/` is `src/app/`.

## 1. Inventory

### The pipeline of an event

| Component | Code | State | Operations |
|---|---|---|---|
| Root event pipeline | `app/orchestrator/processor.py`, `app/events/dispatcher.py`, `bus.py` | `events`, `processing_runs`, `event_deliveries`, `failures`; per call: attempt, snapshot, proposals | `process`, `_process_once`, `dispatch`, conflict and failure handling |
| State commit | `app/state/committer.py`, `app/storage/repositories/state.py` | `state_values` with versions, `state_changes` | `commit`, `write_value`, `capture_snapshot` |
| State arbitration | `app/state/arbitrator.py`, `policy.py`, `ownership.py`, `dependency_graph.py` | none (pure) | `arbitrate` |
| Event store | `app/events/store.py` | `events` | append (idempotent), invalidate, query |

Every change of her mind goes through one path. A root event is stored, a run is
opened and a snapshot S0 of the state is captured, the event is interpreted (a
model call, which may fail and then degrades the run), every subscriber of the
event's type handles it and returns proposals, the arbitrator judges the
proposals against S0 and one transaction writes the accepted values, the audit
rows, the failures, the completed deliveries and the verdict of the run. A value
changed since S0 makes the transaction roll back and the event is tried again.

*Hard*: calls overlap at every await; the snapshot is stale by the time it is
used; a delivery must be consumed exactly when its effects are; a crash may come
between any two units of work; the same event may be offered again.
*Correct when*: no update is lost, effects happen once and all together with the
delivery, a caller is told what the database says, recovery closes what a crash
left open, every call ends, and state moves only within its policy.

### The model queue

| Component | Code | State | Operations |
|---|---|---|---|
| Model calls and slots | `app/reliability/resources.py`, `app/llm/structured.py`, `tracing.py` | `_in_flight`, `_waiting`, `_sequence`; open rows of `llm_calls` | `acquire`, `release`, `generate` with attempts, repairs and back-off |
| Transport, validation | `app/llm/client.py`, `ollama.py`, `validation.py`, `prompts.py` | none | HTTP, parsing |

*Hard*: a waiter is woken in two steps and may be cancelled in each; retries
queue again. *Correct when*: slots are never oversubscribed and never idle while
somebody waits, nobody is overtaken by a less urgent call, every call ends.

### What she does on her own

| Component | Code | State | Operations |
|---|---|---|---|
| Autonomous runtime | `app/runtime/autonomous.py`, `sources.py` | task, `_wake`, `_user_turns`; `runtime_ticks` | `start`, `stop`, `tick`, `interrupt`, `user_turn` |
| Scheduler | `app/jobs/scheduler.py` | `scheduled_jobs` | schedule, collect, mark, restore |
| World, activities, sleep | `app/world/`, `app/runtime/life.py` | activities, sleep episodes, life days, sleep pressure | start and finish an activity, reflect, lie down, fall asleep, wake, begin a day |
| Agency | `app/agency/`, `app/runtime/agency.py` | goals, plans, habits | pursue, start work, do a habit |
| Diary | `app/diary/` | the entry of a day | owe, write, close the day |
| Society | `app/society/`, `app/runtime/social.py` | npcs, interactions, relationships, models, memberships | introduce, contact, promote, attend, the stages |
| Knowledge | `app/knowledge/`, `app/runtime/knowledge.py`, `app/epistemics/` | the layer of what was public, what she acquired, gaps, searches | cover a past, expose, investigate |
| Tools | `app/tools/` | tool executions | request, run, record |
| Proactive contact | `app/jobs/proactive.py`, `app/runtime/proactive.py`, `shadow.py` | contacts, deliberations, the mode | assess, deliberate, send, record |

*Hard*: the loop, the USER's turns and the process's stop meet at two awaits; a
job is taken off the schedule before it is acted on; a handler is several rows
with awaits in between, may be cut after any of them, and the next handler takes
what it finds; time passes while a handler runs. *Correct when*: a job is handed
out at most once and in its time, nothing of her own is started while the USER is
speaking, a wake-up is never lost; she does one thing at a time and her days are
accounted for, whatever was cut; what she learns existed when she learned it; a
USER who does not answer hears less of her.

### Talking

| Component | Code | State | Operations |
|---|---|---|---|
| Conversation turn | `app/interfaces/discord/gateway.py`, `app/conversation/` | events, `conversation_turns`, `common_ground_claims`, failures; traces, typing, the shared appraisal context, background tasks | `handle_inbound`, `plan_turn`, `draft_reply`, send, `confirm_sent`, `record_send_failure`, `review_correction` |
| Grounding, evaluation | `app/grounding/`, `app/evaluation/`, `app/context/` | none | what is known at a turn, what a text claims, whether it may be sent |
| Immediate psychology | `app/psychology/` | emotions, mood, needs, with the time of each | appraise, feel |
| Social cognition | `app/social/` | relationship, attachment, the model of the USER | propose from each message |
| Memory | `app/memory/` | episodes, memories | observe, segment, encode |
| Recall and forgetting | `app/memory/` | accessibility, retrievals | recall, select, practise, forget |

*Hard*: two messages of one conversation overlap; a reply is on the wire before
it is recorded; maintenance of two turns works on copies of the same rows; a
value that is refused keeps its old time, so the next event's step is larger.
*Correct when*: what she is recorded to have said is what was sent and what she
knew; an event is remembered once; trust is earned; practice is counted once a
use.

### Slow change, and the past

| Component | Code | State | Operations |
|---|---|---|---|
| Consolidation and growth | `app/consolidation/` | consolidations, adaptations, candidates, histories | a job in ten steps from evidence to promotion |
| First boot and Genesis | `app/firstboot/`, `app/genesis/` | the row of first boot, its lease, checkpoints, the record of the years | start, resume, pause, generate, live, judge, introduce |
| Past simulation | `app/simulation/` | blocks, budget, consolidations, audits | block by block |
| Admin control plane | `app/admin/` | actions, database files | operations on a memory; repair, rebuild, switch, roll back, reset |
| Storage, versioning | `app/storage/`, `app/versioning/` | schema version, backups | migrate, verify, back up |
| Bootstrap and process | `app/bootstrap.py`, `app/main.py` | the process | start, recover, stop |

*Hard*: generations take hours and are cut anywhere; leases lapse while their
holder works; programs of different releases open one file; files are moved one
after the other beside a bot that runs. *Correct when*: nothing is lived twice
without a reason or called complete before it is; deep change has the evidence it
claims; the schema is always that of a version; no file with real history goes.

## 2. Modules

Each module is one component; its header says which abstractions it makes.
`EventPipeline` is the centre: the others either are a part of it seen more
closely (`Arbitration`), or are subscribers and what they propose (`Bond`,
`Feelings`), or what calls it (`AutonomousRuntime`, `Conversation`,
`ProactiveContact`, the handlers of `Life`, `Society`, `Knowledge`, `Growth`), or
what it calls (`ModelCalls`). A module that uses the pipeline takes `process()` as
one step that commits or does not.

### EffectLedger, EventPipeline, EventPipelineInvariant, EventPipelineProofs

`EffectLedger` is the promise: a subscriber consumes an event at most once, and
everything the consuming run changes is applied in one step to the values as
they are at that moment. `EventPipeline` is the code: a call of `process()` is a
coroutine whose program counter `pc[c]` stands at the awaits of
`EventProcessor._process_once`; every unit of work of `storage/database.py` is
one action.

| Action | Code |
|---|---|
| `Process`, `AppendEvent`, `OpenRun`, `Interpret` | `process` up to the end of phase 1 |
| `ReserveDelivery`, `GiveUpDelivery`, `SkipDelivery` | `DeliveryRepository.begin_attempt`, by its three answers |
| `HandleEvent`, `SubscriberFails`, `MarkFailed`, `RecordFailure` | one subscription in `EventDispatcher.dispatch`; the failure is written in two units of work |
| `Commit`, `CommitConflict`, `CommitError` | `StateCommitter.commit` and its two ways of rolling back |
| `ConflictRun`, `FailRun`, `ProcessRaises` | `_conflict_run`, `_fail_run`, an error outside any guarded part |
| `Crash`, `Restart` | the process dies; `ProcessingRunRepository.mark_interrupted` |

A stored value is the set of runs it accounts for: two runs that both add to it
from the same snapshot would leave one of them out, which is what "lost update"
means. What the arbitrator accepts is a choice among all subsets of the
proposals, so the properties hold whatever its policy is. Events derived in a
commit are appended by it and dispatched by nobody; they add no state a property
could see. One event is processed by one call at a time, because every producer
in `app/` creates its event and awaits its processing. `DirectWriters` are the
subscribers that write rows of their own while they handle an event.

### ModelCalls, ModelCallsProofs

`acquire`/`release` of `ResourceManager` and `generate` of
`StructuredGenerator`. A waiter's future is resolved by `release`
(`pc = "granted"`) and its task is resumed later; cancellation is an action for
each await it can arrive at. The ranks are those the callers pass
(`PriorityOf`); the diary passes none and gets the default. The model's answers
are kinds: accepted, invalid, transport error.

### Arbitration

`StateArbitrator.arbitrate` as operators (`Admissible`, `Agree`, `Resolve`), and
a machine that applies it run after run to one state, so that its rules are
judged by what any sequence of runs can do. `EventPipeline` covers runs that
overlap.

### AutonomousRuntime, AutonomousRuntimeProofs

The loop of `AutonomousRuntime._run`/`_tick` over the rows of the scheduler.
There is no await between waking and the handler's first one, so waking, looking
around, marking the jobs and choosing are one step (`LookAndSleep`,
`LookAndAct`, `LookAndRaise`); USER turns, the clock, `Stop` and `Crash`
interleave with the sleep and with the handler. Each row of a collection is marked
in a unit of work of its own, so what a look marks is one of `Collections`: the
whole of it, or the rows up to some job when one could not be marked or a condition
raised (`Parts`; the look goes on, and the fault is counted). A crash, too, may come
between two rows. A tick reads the first `ScanLimit` pending rows and a start the
first `RestoreLimit` (200 and 500 in the code), in the order of `due_at`, where
conditions have none and come first.

### Conversation, ConversationProofs

A turn is one message and what comes of it, from the gateway to the background
work after the reply. `pc[t]` stands at the await the task of the turn is at;
tasks of different messages overlap, since Discord starts one for each.
`processor.process` is one step, the whole of `EventPipeline`. The rows are
`events`, `rows` (the projection other turns read), `claims` (common ground,
one claim a reply) and the two kinds of failure row; `wire` and `shown` are what
the world outside knows: `wire` holds sends that were confirmed, `shown` also
those that arrived although the call failed.

| Action | Code |
|---|---|
| `Receive`, `ReadRecent`, `AppendMessage`, `ProjectMessage`, `ProcessMessage`, `Recall` | `handle_inbound` up to the correction |
| `ReviewClaim`, `ResolveClaim` | `review_correction` and `set_status`, two units of work |
| `Plan`, `StaySilent`, `DraftReply`, `RecordRefusal`, `Suppress` | `plan_turn`, `_stay_silent`, `draft_reply`, `_suppress` |
| `Send`, `SendFails`, `RecordSendFailure` | the gateway's send and `record_send_failure` |
| `AppendSent`, `ProjectSent`, `RecordClaims`, `ProcessSent`, `BackgroundEnds` | `confirm_sent` and what it schedules |
| `Raises`, `Crash` | an exception at any await, inside or outside the gateway's `try`; the process ends |

### Reply

The inside of one turn, which `Conversation` takes as a choice: what is known
when it begins (`Hear`), the response intent and what a pushback of the USER makes
of it (`WithCorrection`, `Vetoed`, `Plan`), the draft with its claim, the question
within it and the one it ends in (`Write`), of which the guard reads the last alone
(`AsksWell`, as `text.py:31` does), the one rewrite (`Rewrite`), and what a delivery adds to the
common ground (`DeliverReply`). A statement is a kind and a topic; evidence is matched
by topic. Her activities go on between the steps.

### ProactiveContact, ProactiveContactProofs

The chain of `ProactiveDeliberation.deliberate`, one deliberation at a time as
the runtime awaits it: the gate (`TooManyUnanswered`, `TooSoon`), the judgment
and the draft, the mode, the send, the event's run, the contact row and the
deliberation row. The sender is whatever implements `OutboundSender`: it may
deliver and answer, deliver and fail, fail, or send nothing. `bootstrap.py:964`
wires no sender, so the application as it stands only ever takes `SendEmpty`;
the model covers the sender the class is written for. The mode is read when the
process starts and may be another one after a restart.

### Feelings, Bond

What one event does, from the snapshot the engines read to what the arbiter lets
through and the commit: `Feelings` is the appraisal with `EmotionEngine`,
`MoodEngine` and `NeedEngine`; `Bond` is `RelationshipEngine`, `AttachmentEngine`
and the trait estimate of `SocialCognitionEngine`. The formulas are kept, in
integers (hundredths, thousandths), since what can go wrong is in the numbers: a
step one engine takes against the limit another file sets, and the time since a
value was last *written*, which goes on growing while its proposals are refused.
Her own messages come by too (`HerOwn`): they are no contact, but the engines look
for an apology or a kept promise in them as in the USER's. `kept` and `quiet` of
`Bond` are history: what the messages that speak of a kept promise were worth and
how many consistent messages there were.

### Memory, Recall

`Memory` is the way from events to episodes (`Observe`, `ObserveCloses`,
`ObservePlaces`, the reads and writes of `observe()`), from episodes to memories
(`StartMaintenance` to `EndMaintenance`, with the model call in
`EncodeEpisode`/`Summarise` and the second write in `MarkEncoded`), and back: an
administrator's operation through its stages (`Request`, `Snapshot`, `Apply`,
`Finish`). Observers and maintainers overlap and work on the copies they read
(`todo`, gone through from the oldest episode on); `MemoryRestart` cuts all of
them.

`Recall` is the other half of the engine: a recall reads, in one of the two modes
the properties tell apart of those the code has (one that searches deliberately and
one that does not), is judged (a choice of labels), selects, reports, and is practised from the copies in the report, at
once (`ConsciouslyRecall`) or when the reply is delivered (`MarkUsedInReply`),
while other recalls, the forgetting and the owner move the same rows.

### Life, Society, Knowledge, Growth

What the handlers of the autonomous loop do. One handler runs at a time, and each
of its writes is an action: `handler`, `contact`, `doing` and `job` say which
write is next. A stop, or an exception that leaves the handler, may come at every
one of them, and nothing takes the handler up again.

| Module | Handlers and actions |
|---|---|
| `Life` | `Tick` offers what is possible and picks; `RunStartActivity`, `RunFinishActivity`; the evening `ReflectAtBedtime`, `WriteDiary`, `CloseDay`, `LieDown`, `FallAsleep`; the morning `WakeUp`, `BeginDay`; `PursueGoal`, `StartPlan`, `StartWork`; `DoHabit`, `StartHabit`; the group, met first (`MeetGroup`, its event) and then an activity of hers (`JoinIn`); sleep pressure in every `Hour` and `HandleEvent` |
| `Society` | a contact is `ChooseContact`, `Interact` (the row), `HandleInteraction` and `RunEnds` (the run of its event, in which the relationship engine writes at once and proposes what may not be committed), `MaybePromote`; stages and the group |
| `Knowledge` | the simulated past: `PlanWindow`, `RegisterNext`, `CompleteJob`, then `LiveBlock`, `Expose`, `Keep`, `EndBlock`; ordinary life: `Consider`, `CallTool`, `ToolAnswers` or `ToolFails`, `RecordSearch`, `CloseGap` |
| `Growth` | `StartJob`, `ObserveEvidence`, `RaiseCandidates`, `ExpireCandidates`, `UpdateThemes`, `Review` (the deep transaction through the pipeline, which may also commit nothing; stored values of zero read as none), `PromoteTrait`, `PromoteValue`, `FinishJob`; `LifeChanges` and `Retell` are what the rest of her life commits meanwhile |

### Genesis, FirstBoot

`Genesis` is `GenesisRunner.run` as a machine over its checkpoints: a stage is
left by a checkpoint row, which makes a later run skip it, and between checkpoints
every row is a commit. `seen` says when somebody of the life was last mentioned, and
`Survivors` are those the ledger finds recent enough to be handed to the runtime; the
others stay in the archive. The mark of a lived experience is a write after it, which
may fail (`unmarked`). `FirstBoot` composes it with the orchestrator: commands are
processes `p`, the row of `first_boot_state` moves by compare-and-set
(`Transition`), the lease may lapse while its holder still generates
(`LeaseLapses`), since nothing calls the heartbeat, and another process may then
take over.

### PastSimulation

The simulated life of a rebuild: blocks (`BeginBlock` to `EndOfLife`) with the
sampler's budget and its ceilings (`EnforceCeilings`), failing narrations,
periodic and final consolidations, the seven audits and the event of first boot.

### Schema

`MIGRATIONS` is the list of what the migrations of `storage/migrations.py` do to
tables, foreign keys and added columns, each migration a sequence of statements
folded over the schema by `Execute`. Processes of any release read what is
applied, apply what they know in one transaction each, verify and serve.

### DatabaseFiles

The production file, the shadow, the repaired copy and the files whose names never
collide, as lives with sets of real events; the bot that opens and writes
production; and the commands of repair, reset and rollback move by move
(`MoveAside` and `MoveIn`, `RollAside` and `RollBack`).

### The compositions MCDailyLife, MCInnerLife, MCFoundations

Components that share no variable are checked in one run: a variable `part`,
chosen in the initial state and constant, says which of them moves. The reachable
states of the run are the union, over the components, of the states each reaches
alone (beside the others' initial states), so an invariant or a step property of
a component holds in the run exactly if it holds of the component. These runs
say nothing about liveness and use none. Each composition extends its components,
so that what a run checks is what the theorems below are about, and it evaluates
their assumptions:

| Run's module | Components | Their theorems |
|---|---|---|
| `MCDailyLife` | `Arbitration`, `Life`, `Knowledge`, `Growth`, `Society` | `DailyLifeProofs` |
| `MCInnerLife` | `ProactiveContact`, `Memory`, `Recall`, `Bond`, `Feelings`, `Reply` | `InnerLifeProofs`; `ProactiveContactProofs` |
| `MCFoundations` | `FirstBoot` (with `Genesis`), `PastSimulation`, `Schema`, `DatabaseFiles` | `FoundationsProofs` |

## 3. Runs

| Run | Instance | What it shows |
|---|---|---|
| `EventPipelineConcurrent` | 3 calls of 3 events (two, one and no subscribers, one of which also writes rows of its own), 2 keys, 2 commit attempts, 1 crash | No update is lost; every step is a step of `EffectLedger` |
| `EventPipelineRedelivery` | the same event twice beside another, delivery budget 2, 1 crash, fairness | Effects once; runs, deliveries, effects and callers agree; every call ends |
| `ModelCallsQueue` | 4 calls of 3 ranks, 1 slot, 2 attempts, 1 cancellable, fairness | Order survives cancellation anywhere; every call ends |
| `ModelCallsLeak` | 3 calls, 1 slot | *Violated*: finding 1 |
| `AutonomousRuntimeLoop` | 3 jobs of 3 shapes, 1 job a tick, 2 rows a look and a restore, 2 turns, 3 instants, 1 stop or crash, 1 fault, fairness | Jobs once, nothing during a turn, no lost wake-up, a backlog is worked off |
| `ConversationOverlap` | 2 turns, 1 exception, 1 crash, fairness | What is recorded as said was said; each turn one end; the next turn sees what was said; every turn ends |
| `ProactiveContactReply` | 3 deliberations, limit 2 | *Violated*: finding 2 |
| `DailyLife` | see below | State moves within its gates; no cut leaves two activities, an unaccounted day, an unearned promotion, a friend who stays a stranger, knowledge before its time or an answer nobody found |
| `InnerLife` | see below | Few messages ever further apart; one memory an event and no deletion without a snapshot; one practice a use; trust that was earned; needs that are always written; words that were known and a retraction that ends on no question |
| `Foundations` | see below | Complete means whole, ceilings hold, the file is always at a version, real history stays |
| `MemoryDeletion` | 2 events, 2 maintenances, 1 operation, 1 restart | *Violated*: finding 3 |
| `BondRepair` | 6 messages, the policy's own numbers | *Violated*: finding 4 |

**Bounds of the pipeline, the queue, the loop and the turns.** Three calls are
what it takes for one call to lose its race twice (`MaxCommitAttempts = 2`), one
crash is enough to leave each kind of unfinished work behind, and two subscribers
with a key each allow a run that changes part of what another one read. Two
attempts of a delivery allow a retry and an exhausted budget. For the queue, one
slot makes every hand-over a contention, four calls let a cancelled ticket stand
in front of two live ones of different rank. Three jobs with a limit of one a tick
make a backlog, and with two rows a look, two conditions that do not hold keep a
timed job out of sight; three instants and the shapes fixed (due at 0), windowed (1 to 2)
and conditional let a window open, close and be slept through. Two turns of a
conversation give every overlap of two.

**Bounds of DailyLife.** Values of `Arbitration` are 0, 1 and 3 against bounds
0..2 (0..1 for the other domain) and limit 1: one value out of bounds, a step over
the limit, and two steps within it whose sum is over; 2 proposals a run and 3
writes a key. `Life`: 2 hours, 2 activities, 1 stop, with gain and recovery of
pressure scaled so that she can fall asleep, nap and wake within them. `Growth`: 3
runs, one of which can be cut with its evidence counted and another repeat it, 2
adaptations that lead to two values and, one for and one against, to the trait, 3
values whose priorities share a sum, and a minimum of evidence at the arbiter above
that of the gate. `Society`: one person and 3 interactions, one more than
promotes; whoever is contacted is chosen, so people do not influence each other.
`Knowledge`: 4 statements (public at once, later, only briefly, never in time), 2
gaps of which one she ignores, 2 searches, 1 stop, a past of two windows.

**Bounds of InnerLife.** Three deliberations against a limit of two give one the
limit must stop, and 6 hours hold the waits of 2 and 4 hours before it; 1 fault, 1
crash. `Memory`: 2 events, hence episodes of one and of two; 2 maintenances, 1
operation, 1 restart. `Recall`: one memory, two recalls of either mode, one
forgetting (properties relate a memory to its own uses). `Bond`: 5 events with
silences of 0 and 4 days; `Feelings`: 3 events and gaps of 0, 1 and 48 hours,
beyond what decays within a limit. `Reply`: one topic, three turns, so that a
claim, a pushback and a turn after the retraction follow each other.

**Bounds of Foundations.** `FirstBoot`: 2 processes, 2 years of 1 month, 1
experience a month, 1 fault, 1 crash, 2 commands; two processes are what it takes
to lose a lease, two years to leave a loop and enter it again and, with only the
second counted as recent, to have somebody drift away. `PastSimulation`: 3
blocks against ceilings of one. `Schema`: all 31 migrations, 2 processes of three
releases: this one, one of fifteen versions, one with the text of a migration
changed. `DatabaseFiles`: 2 real events, 2 commands, 1 failure.

**Symmetry** is used in `Foundations`, for the two processes; no property of it is
temporal beyond a step.

**Fairness.** `EventPipeline!Fairness`: a step of a call is local work the event
loop gets to, or a handler, which answers or is timed out by the dispatcher; the
service is started again. New calls and faults are not fair. `ModelCalls!FairSpec`:
ready tasks run and a model call ends (the client has a timeout).
`AutonomousRuntime!FairSpec`: the loop's task runs when it is ready (what is fair is
that she may look and sleep, which nothing takes from her while she is awake; a look
that ends otherwise serves as well), a handler ends, time passes. `Conversation!FairSpec`: a turn's task runs and its awaits end
(units of work, model calls, which time out, Discord calls). New turns, faults,
stops and crashes are not fair anywhere. Fairness matters to the liveness
properties only: `CallsEnd`, `EveryCallEnds` (which is stated for behaviours in
which no slot has leaked, see finding 1), `DueJobsAreTaken` (which leaves out the
states in which conditions fill what a look reads, `Crowded`) and `TurnsEnd`. The
other modules have none: nothing obliges her to speak, to sleep or to grow, and a
handler that was cut is taken up by nobody.

**Deadlock** is not checked where a bounded instance really ends: all calls have
returned, or a bound is used up. It is checked for the autonomous runtime, where
something can always happen.

A mutant in `PROJECT.json` is a definition with a plausible bug, kept beside the
one it would replace and marked `Mutant:`; no specification uses it.

## 4. Proofs

`EventPipelineProofs` proves the type invariant and all safety properties of
`EventPipeline` named in `PROJECT.json`, and that it implements `EffectLedger`,
for any events, subscribers, keys, calls and bounds. Assumptions (in
`EventPipeline`): each engine owns its keys, bounds are natural numbers, the
subscription table is a sequence per event. The properties are not inductive:
they say nothing of what a call in flight remembers, and a commit applies exactly
that. `IInv` (`EventPipelineInvariant`) adds what a call remembers:

* `SnapshotsAreOldState`: a snapshot is the present row of a key or an older
  version of it, so equal versions mean equal values. With it the version check
  in `write_value` gives `NoLostUpdate`.
* `OneCallPerEvent`, `HandledIsUnconsumed`: what a call has handled nobody has
  consumed, so completing those deliveries with the effects gives `EffectOnce`.
* `RunsFollowCalls`, `ProposalsOwned`, `NextInBounds`, `AttemptsBounded`,
  `NobodyActiveWhenDown`: the program counter and the rows agree.

One lemma per action shows `IInv` preserved; lemmas on the parts a group of
actions leaves alone (`LedgerUnchanged`, `DeliveryMoved`) keep them short. The
refinement is step by step: `Commit` maps to `Apply`, every other step to a
stutter.

`RecordsAgree` says what a caller was told and what the database holds, so it
needs a second invariant on top (`RecordsInv`): a completed delivery has a
committed or rejected run of its event behind it (`ConsumedByARun`), only a call
that has returned was told anything (`ToldWhenReturned`), and a call of an event
without subscribers handles nothing, which is what makes its empty answer true.

What `CallsEnd` rests on is proved as well (`CallsGetOn`): an active call has the
process up, each step it takes uses up an attempt or lowers what is left of its run
(`RunLeft`, from its place and the subscriptions before it), and no step of another
call gives any of it back. The step from there to `CallsEnd` is fairness and an
induction on the pair.

`ModelCallsProofs` proves that nobody is overtaken: a job that gets a slot found
nobody waiting or holds the ticket that goes before every live one, and the order
is by rank and then by number of arrival, for any ranks, jobs and cancellations.
It also proves that no more slots are counted than there are, and at least as many
as are held (`SlotsCounted`): an inequality, since finding 1 is that a slot may be
counted for nobody. `SlotsAreLostInOneWay` says how far the finding goes: the
difference (`LostSlots`) grows by one with each job cancelled between being granted
a slot and resuming, changes with nothing else and never shrinks.

Of `EveryCallEnds` it proves the two halves that need no fairness, for any jobs,
slots and attempts. `NobodyWaitsForNothing`: who waits has its ticket in the list,
so a release finds it; nobody waits while a slot is free; and while anybody waits,
somebody has a slot to give back, unless slots were lost. The invariant
(`QueueInv`) says that tickets have one number and one job each and that the tickets
a release drops are of cancelled jobs. `TheWorkRunsOut`: `WorkLeft`, a natural number
for each job made of its attempts and its place, is lowered for some job by every
step and raised for none.

`AutonomousRuntimeProofs` proves that a job is handed out at most once, that a
turn's call to the loop is never lost and that nothing starts during a turn. The
invariant adds that a job was handed out exactly if its row is past pending
(`OffersAreRows`) and that the counter of turns counts the turns
(`TurnsAreCounted`), which is what lets a counter stand for a set.

Of `DueJobsAreTaken` it proves, for any schedule and clock, the two facts about the
code. `NothingDueIsSleptThrough`: asleep, the loop looks again within the idle
interval, and no later than the first timed job it knew of when it planned the
sleep, or the minimum sleep after it (`NextWake` and the timer are minima of sets of
moments; the invariant `ClockInv` carries that a job it knew of keeps its row).
`EveryLookServesTheQueue`: of the rows a look reads, it takes every job that is due
or has expired, or one that goes before it, because the order of a collection has a
first element in every set of jobs (`FirstOfJobs`); if it does not, it was cut short
by a fault, which is counted, and took a front part of that. What is beyond the scan
limit is served by no look. A job scheduled during a sleep is not known to it and
waits for the next look, at most the idle interval.

`ConversationProofs` proves all safety properties of `Conversation` for any
number of turns. A step moves one turn, so the argument is by turn: `Frame(t)` is
what a step of `t` leaves of the others, `OneTurnMoves` shows that a step within
the frame preserves the invariant if it does for `t`, and a lemma per action does
the rest. What the properties lack to be inductive is `PlacesAgree`: what the
place of a task says of the rows, of the trace and of the screen.
`SaidBeforeItIsDigested` follows from it: a message's row exists from the moment
its task passes the projection.

`EveryTurnEnds` is `TurnsEnd` for one turn, proved for any number of turns around
it. A task never goes back to a place it has left (`StepsGoAlong`,
`NobodyMovesBack`), and it has twenty stages, so it takes no steps for ever, with no
fairness at all (`StepsComeToAnEnd`). The fairness it needs then is `Scheduled`: a
task that stays at a place with a step, or background work that stays scheduled,
moves at last. This is `WF_vars` with the guard of the step in the place of
`ENABLED`, which the prover does not know; the guard is the place alone, since every
action of `TurnStep` has an outcome at its place (a review may find no claim).
That it holds of all turns at once, as `TurnsEnd` says, is left to TLC with it.

`ProactiveContactProofs` proves all its safety properties for any policy. A
deliberation remembers, through a judgment, a draft and a send, what the gate saw
(`PastTheGate`); `SilenceWidens` needs that nothing came between, and
`ContactsFollowWire`, that a contact is dated after its message. The bound on
messages counts the losses: a message is on the wire and not yet a contact only
while one deliberation has it in flight, or if a fault or a crash took it
(`LossesAreFaults`). The waits are an assumption on the constants
(`WaitAssumption`): natural numbers, not their growth.

`DailyLifeProofs`, component by component:

* `Arbitration`: the bounds, the deep-state gate, the rule that the unknown is
  never taken for zero, and that every change is arbitrated, for any registry,
  policy and number of proposals. One lemma says what a group resolves to
  (`ResolvedAsAsked`). What a group of adjustments adds up to is a fold over a set;
  that the sum is an integer, whatever the order of the fold, is one of the
  inductions on the size of a set with which the module begins (`FoldExists`,
  `OneByOne`), carried out by least counterexample. The invariant `WholeNumbers` says that stored values carry
  integers and that a run has gathered finitely many proposals.
* `Life`: she does one thing at a time and every day is accounted for, for any
  nights, naps and number of stops. The tables do not say why: a handler writes on
  the strength of what its source saw when the tick offered it. `OneInv` says what
  each step may still rely on: every handler but the waking one runs while she is
  awake, and she falls asleep with nothing going on. `DayInv` adds that an entry
  not yet written was never written, and that the day being drafted is owed its
  entry.
* `Knowledge`: nothing she knows is hindsight and every answer has its search, for
  any statements, dates, windows and gaps, with no assumption on them. `HandsInv`
  says that what is about to be kept existed at the moment the handler began, and
  that a coverage job never holds a statement the layer has, so no row is ever
  changed (`RowsStay`); `SearchesInv`, that what a search in flight has learned its
  own tool call brought.
* `Society`: who was met often enough is a full person whatever was cut. Nobody's
  tier moves while a contact goes on, so the count made at its end is the one that
  promotes. Assumption: somebody is met at least once before that
  (`PromotionAssumption`; the policy asks for more).
* `Growth`: promotions are earned, for any thresholds of evidence, values, traits
  and leads, any length of a life and wherever a job is cut. What is promoted in a
  run's last steps rests on a review steps ago, so the invariant (`GrowthInv`)
  carries its outcome through: a run of the pipeline changes deep state once
  (`RunsChangeOnce`), what the job took from the commit is on record
  (`CommitsAreRecorded`), and whichever candidate the job may still promote has
  earned it (`PromotableIsEarned`). The review itself is arithmetic: the share that
  a value gains is no more than what the others lose, by the rounding too
  (`RedistributionFollows`), which takes sums over a set of any size that do not
  depend on the order of the fold (`SumSplits`, `SumGrows`); and the candidates of a
  run are a fold over the leads, which leaves what is promoted as it was
  (`RaisedIsKept`). Assumption (`GrowthAssumption`): finitely many values and leads,
  steps that are natural numbers.

  The property says what the proof needed it to. Promotion looks at the target, not
  at the direction (`consolidation/growth.py:182`), so a candidate may be promoted
  by a change that went against it. `FollowsEvidence` says when: of a trait, if it
  stood at the end of its scale, where its own candidate proposes nothing, or if
  the candidate has enough evidence for the gate and too little for the arbiter,
  which counts evidence once where the gate counts runs. Of a value, whenever the
  candidate's own proposal is not part of the change; shares may be too small to be
  divided, and no closer bound holds.

`InnerLifeProofs`, component by component:

* `Memory`: an event is remembered once and what was destroyed is in a snapshot,
  for any numbers of events, maintenances and operations, with no assumption on
  them. An event is in one episode, and in none before its observer has placed it
  (`EpisodesInv`); a copy and a memory hold nothing their episode does not
  (`CopiesInv`, `MemoriesInv`), so memories of different episodes share no event;
  what is about to be marked encoded has its memory (`EncodedInv`); and between its
  stages the ceremony keeps what it has established (`CeremonyInv`).
* `Recall`: a memory is practised at most once for each call that recalled or used
  it. The count is of calls: each has a set of memories it has counted, either in
  its report or by the row it has just marked (`Counted`), and the row of what it
  has counted is among the uses; so a count is bounded by a cardinality
  (`RecallInv`). Assumption: finitely many calls.
* `Bond`: trust is worth no more than the messages, the USER's or her own, that speak
  of a kept promise. Nothing else may raise it,
  and the one other thing that would, a repair that completes, never does: repair
  stands at nothing or at its first step (`BondInv`), since the arbiter refuses the
  second. This is finding 4 seen from the other side, and it is proved from what
  the two policy files say together (`RepairAssumption`: the step is beyond the
  limit of its domain, 20 against 5 hundredths).
* `Feelings`: no need is ever refused, after any silence. A need moves by at most
  `NeedStep` from its stored value, and the limit has room for one (`NeedsAssumption`,
  200 against 250 thousandths).
* `Reply`: what is out was known and a turn that takes something back does not end on
  a question, for any activities, claims and messages. Within the text a question
  may still be asked (section 5). The text waiting to be sent passed the
  guards against the evidence of its turn, which nothing changes until it is sent
  (`ReplyInv`).

`FoundationsProofs`, component by component:

* `FirstBoot` with `Genesis`, for any number of processes, years, months and
  experiences (`LifeAssumption`: finitely many processes).
  `RelivingIsExplained`: no more processes are at work than one and one for each
  take-over; an experience not yet marked was lived once for each crash and for
  each process that stands between living and marking it, one that is marked once
  more at most for those that still hold it in hand (`LivedInv`). Each step of the
  replay moves one of these cardinalities by one. A mark that fails is counted too
  (`unmarked`): the run is blocked there, and a resume lives the experience again.
  `BornWhole`: the years, months and experiences are all there, and whoever was still
  around is linked to a runtime person. While no lease was lost one process is at work (`Alone`), a
  checkpoint vouches for what it stands for, even after a process ended between
  the rows and the checkpoint (`CheckpointsHold`), what a process has passed has
  been seen to (`SeenTo`), and nothing moves once she is complete
  (`OverWhenComplete`). Each of these fails without the others: a resumed process
  skips what a checkpoint vouches for. After a take-over two processes are at work
  and the theorem says nothing; she may then be called complete by one while the
  other goes on.
* `PastSimulation`: the ceilings, for any allowances and lengths. The budget counts
  the blocks of each class, as cardinalities (`SimulationInv`), and the sampler
  hands out no class whose ceiling is reached, demotion after demotion. Assumption:
  allowances are natural numbers (`SimulationAssumption`).
* `DatabaseFiles`: what was recorded is in a file still. A step that takes a file
  away leaves its history in another (`FilesGoOn`); that a switch may write over
  the name of production rests on there being no file of that name between its
  two moves, as a rollback does between its own, and a rebuild on there being no shadow (`FilesInv`).
* `Schema`: what is applied is an initial stretch of the migrations, and a process
  serves on the schema of its own release only, for any releases and processes
  side by side. A process that migrates has every migration it knows applied as it
  knows it or still before it, and it takes the least, so a migration that another
  process has applied in the meantime ends it. Assumption: a release knows some of
  the first migrations (`ReleaseAssumption`).
  `FileIsAtAVersion`: the database is the file of the version its records say,
  whatever processes migrate side by side and wherever they end. A migration is a
  fold of `Execute` over its statements, so the steps of a fold come first
  (`Executions`, `ExecutedOneByOne`) and give `NextVersion`: the file of version
  n + 1 is that of n with migration n + 1 executed. What rows are in the tables does
  not change what a statement does to tables, keys and columns (`FoldedBare`). The
  31 migrations are then taken one by one: thirty fit the tables they find, leave
  every foreign key with its table and every row with its row (`MigrationsFit`), and
  the sixteenth, which makes a table anew and moves its rows, does so as a whole
  (`MadeAnew`). `FileInv` puts it together with `AppliedInOrder`.

All assumptions on constants are evaluated by the runs.

Every safety property that a passing run checks is stated by a theorem. Only
model-checked are the liveness properties as they stand (`CallsEnd`,
`EveryCallEnds`, `DueJobsAreTaken`, `TurnsEnd`): `ENABLED`, and with it `WF_vars`, is
beyond the prover, and so is the induction over what is left to do, which is
temporal and has no bound in the first three. What each of them rests on in the
code is proved, as said above under its module.

## 5. Findings

Each is a run whose property quotes the repository, and which TLC violates.

1. `ModelCallsLeak`: `reliability/resources.py:23` says a cancelled job leaves no
   half-finished state. A waiter cancelled after the slot was handed to it and
   before it resumes keeps the slot counted for ever.
2. `ProactiveContactReply`: `jobs/proactive.py:147` says a reply clears the
   backlog. `note_user_replied` has no caller, so contacts count as unanswered
   for ever and the limit is one on her life.
3. `MemoryDeletion`: the impact analysis of a hard delete says it "removes the
   subjective memory permanently". The memory and the mark of its episode are two
   writes, and an episode found to have a memory already is not marked; delete
   that memory, and the next maintenance encodes the same episode again.
4. `BondRepair`: `social/relationship.py:9` says trust comes back through repeated
   consistent behaviour. Repair moves by one fifth a message and the arbiter
   refuses, never clamps, what moves more than 0.05 from a known value: only the
   first step is ever taken.

There are more disagreements of this kind, which are not kept as runs. Most are
properties that were stated and found violated; some were met in translating the
code, and the model follows it (the words of `Bond`, the question of `Reply`, the
pause, `touch`, the scan limit). Each is given so that it can be stated again.

* `EventPipeline`: an event whose handling was cut "is processed again after
  restart" (`events/dispatcher.py:9`), but `DeliveryRepository.incomplete` has no
  caller. A run that fails leaves nothing (`state/committer.py:11`), but the rows
  of `DirectWriters` stay.
* `Conversation`: a retracted claim is out of the conversation for good
  (`conversation/common_ground.py:12`); of two overlapping corrections the one that
  found evidence may write last.
* `Reply`: what she says she did "needs a completed Activity or an authoritative
  Event" (`grounding/models.py:67`); an activity that goes on is taken too.
  A pushback's answer asks nothing (`conversation/quality.py:153`), but the guard
  looks at how the text ends (`text.py:31`): a question in the middle goes out.
* `Bond`: trust comes back through behaviour, and a kept promise is what "the other
  side did" (`social/relationship.py:9`, `social/signals.py:31`); it is found in her
  own messages as well (`signals.py:88`), and they raise her trust in the USER.
* `AutonomousRuntime`: a FIXED job "fires at a time" (`jobs/scheduler.py:7`), unless
  two hundred conditions that do not hold wait before it (`scheduler.py:128`). A
  condition that raises ends the collection at its row, at every look.
* `FirstBoot`: a pause is noticed by the generating process "at its next checkpoint
  boundary" (`firstboot/orchestrator.py:421`, `main.py:688`); nothing there reads the
  status, all the work is done and only the last move, to COMPLETE, is refused. Whoever is still around at the end is handed
  to the runtime (`genesis/ledger.py:16`), but `touch` writes the moment it is given
  over a later one, so that who is mentioned again in an earlier month counts as gone.
* `Feelings`: mood drifts back to its baseline (`psychology/mood.py:3`), unless so
  much time has passed that the drift is more than the arbiter admits; then it is
  refused, and from then on every time.
* `Recall`: practice raises accessibility (`memory/accessibility.py:8`); computed
  from the copy in a report it may lower what another recall has raised.
* `Life`: a nap does not end a day (`runtime/life.py:331`), but the evening that
  closes the day runs before the sleep whose length decides what it is. Pressure
  discharges while she sleeps (`world/sleep.py:61`), but whether she is awake is read
  from a state key that nothing writes, so it only ever accumulates.
* `Growth`: priorities sum to one (`consolidation/values.py:6`); when of several
  moved priorities some are refused, the sum moves. A candidate whose trait moved
  the other way may be promoted with the one that moved it (section 4).
* `Society`: the cooldown spaces contacts with a person (`runtime/social.py:49`);
  a group meeting leaves no row and is never counted.
* `Knowledge`: a search that just failed is not retried at once
  (`epistemics/actions.py:138`); one whose call was cut before its search was
  recorded is.
* `PastSimulation`: consolidations at the end count for the periodic ones the audit
  asks for (`simulation/policy.py:115`).
* `DatabaseFiles`: real history survives a repair untouched
  (`admin/repair.py:58`); what the bot records while the shadow is rebuilt is not
  in the plan, and stays in the file moved aside. Nothing removes a file
  (`admin/repair.py:21`), but a second repair that is rolled back moves its copy over
  the one the first left; `NothingIsDeleted` counts this and leaves it out, as it does
  a bot that makes a file of its own between two moves.

## 6. Not modelled

Text: prompts, validation of what the model says, the scoring of candidate
replies, formatting, logs. Pure I/O: HTTP, Discord, the copying of files. Beliefs
and the self model: no path of the application gives them anything. What has no
caller: `user_input_arrived`/`checkpoint` of the resource manager,
`DeliveryRepository.mark_skipped`, `raise_gap`, `apply_fading`, `found_group`,
`connect`, `decay`, `retry_pending`, `complete_plan`, `record_progress`,
`retire_stale`, `derive_from_state`, `apply_disuse`, `cue_encountered`. Commands
that only read. Readiness, traces and static resources.

## 7. Plan

1. An abstract exactly-once memory which `Memory` implements up to deletion, and
   an abstract generation which `Genesis` implements under one process.
2. The refinement of `Conversation` to an abstract exchange of utterances, with
   `Reply` as what a turn decides.
3. The confirmation dialogue of the admin commands and the rebuild of the
   conversation's projection.
