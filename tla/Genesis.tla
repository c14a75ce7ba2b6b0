------------------------------ MODULE Genesis ------------------------------
(***************************************************************************)
(* GenesisRunner.run: nineteen years of life, generated a month at a time, *)
(* extracted into experiences and lived through the ordinary pipeline.     *)
(*                                                                         *)
(* The rows are one life record, which any process that drives the run     *)
(* reads and writes; pc[p] stands at a stage of process p.  A stage is     *)
(* left by a checkpoint, whose row makes a later run skip it.  Every       *)
(* statement commits by itself, so each write is an action and a process   *)
(* may end between any two.                                                *)
(*                                                                         *)
(* Abstractions: what the model writes is whether it wrote anything, whom  *)
(* a month mentions and how many experiences it yields; living an          *)
(* experience is processor.process and the encoder after it, which may     *)
(* refuse it.  FirstBoot composes this with what drives it.                *)
(***************************************************************************)
EXTENDS Naturals, FiniteSets

CONSTANTS
  Process,          \* runs of the command line, of which several may be alive
  NYears,           \* spans of the anchors
  NMonths,          \* months of a span
  MaxPerMonth,      \* experiences one month may yield
  Person,           \* people a sketch or a month may mention
  Recent,           \* months that lie within a year of her present
  MaxFaults         \* bound: failures of the model, the critics, a handler; pauses

ASSUME LifeAssumption ==
  /\ IsFiniteSet(Process)
  /\ NYears \in Nat /\ NMonths \in Nat /\ MaxPerMonth \in Nat

VARIABLES
  years,      \* life_years with a scaffold
  months,     \* life_months with a narrative
  seen,       \* life_entities of type NPC: when each was last_seen_at
  summaries,  \* life_years with a final summary
  staged,     \* genesis_experiences
  replayed,   \* those of them marked replayed
  reached,    \* genesis_checkpoints: a stage and its year
  lived,      \* how often each experience went through the pipeline
  unmarked,   \* how often one that did could not be marked
  remembers,  \* whether any of it became a memory
  pc,
  year, month, todo, \* where p stands in its loops, and what it has yet to go through
  issues,     \* GenesisProgress: why p's run is not complete
  faults

recordVars == <<years, months, seen, summaries, staged, replayed, reached,
                lived, unmarked, remembers>>
loopVars == <<year, month, todo, issues>>
genesisVars == <<recordVars, pc, loopVars, faults>>

Year == 1..NYears
Month == Year \X (1..NMonths)
Experience == Year \X (1..NMonths) \X (1..MaxPerMonth)
Stages == {"months", "critics", "synthesis", "extraction", "replay", "memory"}
StageAfter ==
  [months |-> "critics", critics |-> "synthesis", synthesis |-> "extraction",
   extraction |-> "replay", replay |-> "memory", memory |-> "year done"]
Inside == {"scaffolds", "scaffolded", "year", "noting", "staging", "living",
           "marking", "year done"} \cup Stages
Generating == Inside \cup {"judge"}

\* The people of her past, and those the ledger still counts as in her life.
known == {q \in Person : seen[q] # "never"}
Survivors == {q \in Person : seen[q] = "recently"}

MonthsOf(y) == {m \in Month : m[1] = y}
StagedOf(m) == {e \in staged : <<e[1], e[2]>> = m}
Pending(y) == {e \in staged \ replayed : e[1] = y}
\* The first of a year's experiences: by month, and as they were extracted.
First(e, S) ==
  /\ e \in S
  /\ \A f \in S \ {e} : e[2] < f[2] \/ (e[2] = f[2] /\ e[3] < f[3])

GenesisInit ==
  /\ years = {} /\ months = {} /\ summaries = {}
  /\ staged = {} /\ replayed = {} /\ reached = {}
  /\ lived = [e \in Experience |-> 0]
  /\ seen = [q \in Person |-> "never"]
  /\ remembers = FALSE /\ unmarked = 0
  /\ year = [p \in Process |-> 1] /\ month = [p \in Process |-> 1]
  /\ todo = [p \in Process |-> {}]
  /\ issues = [p \in Process |-> {}]
  /\ faults = 0

(***************************************************************************)
(* Moves within a run.                                                     *)
(***************************************************************************)
Go(p, place) == pc' = [pc EXCEPT ![p] = place]
Turn(p, counter) == [counter EXCEPT ![p] = @ + 1]
Note(p, kinds) == issues' = [issues EXCEPT ![p] = @ \cup kinds]
Fault == faults < MaxFaults /\ faults' = faults + 1

\* A run's progress is an object of its process and goes with it.
Forget(p) ==
  /\ year' = [year EXCEPT ![p] = 1] /\ month' = [month EXCEPT ![p] = 1]
  /\ todo' = [todo EXCEPT ![p] = {}]
  /\ issues' = [issues EXCEPT ![p] = {}]

\* ContinuityLedger.note: the moment it is given replaces the one that is there,
\* a later one too.
NoteAs(mentioned, m) ==
  seen' = [q \in Person |->
             IF q \notin mentioned THEN seen[q]
             ELSE IF m \in Recent THEN "recently" ELSE "long ago"]

\* The run is over for this year and so for all: no year on a doubtful one.
Stop(p, kinds) == Go(p, "judge") /\ Note(p, kinds)

\* runs.reached: the stage was done before, by this run or by one cut short.
SkipStage(p) ==
  /\ pc[p] \in Stages
  /\ <<pc[p], year[p]>> \in reached
  /\ Go(p, StageAfter[pc[p]])
  /\ month' = [month EXCEPT ![p] = 1]
  /\ UNCHANGED <<recordVars, year, todo, issues, faults>>

At(p, stage) == pc[p] = stage /\ <<stage, year[p]>> \notin reached
\* runs.checkpoint at the end of a stage.
Checkpoint(p, stage) ==
  /\ reached' = reached \cup {<<stage, year[p]>>}
  /\ Go(p, StageAfter[stage])
  /\ month' = [month EXCEPT ![p] = 1]

(***************************************************************************)
(* Stage A: a sketch of every year, and of whom it names.                  *)
(***************************************************************************)
Begin(p) == Go(p, "scaffolds") /\ UNCHANGED loopVars

Scaffold(p) ==
  /\ pc[p] = "scaffolds" /\ year[p] \in Year
  /\ \/ /\ year[p] \in years
        /\ UNCHANGED <<years, seen, issues, faults>>
     \/ /\ year[p] \notin years
        /\ years' = years \cup {year[p]}
        /\ \E mentioned \in SUBSET Person : NoteAs(mentioned, <<year[p], 1>>)
        /\ UNCHANGED <<issues, faults>>
     \/ /\ year[p] \notin years
        /\ Fault /\ Note(p, {"incomplete"})
        /\ UNCHANGED <<years, seen>>
  /\ year' = Turn(p, year)
  /\ UNCHANGED <<months, summaries, staged, replayed, reached, lived,
                 unmarked, remembers, pc, month, todo>>

ScaffoldsDone(p) ==
  /\ pc[p] = "scaffolds" /\ year[p] \notin Year
  /\ IF Year \subseteq years
     THEN reached' = reached \cup {<<"scaffolds", 0>>} /\ UNCHANGED issues
     ELSE Note(p, {"incomplete"}) /\ UNCHANGED reached
  /\ year' = [year EXCEPT ![p] = 1]
  /\ Go(p, "year")
  /\ UNCHANGED <<years, months, seen, summaries, staged, replayed, lived,
                 unmarked, remembers, month, todo, faults>>

(***************************************************************************)
(* A year of stages B and C.                                               *)
(***************************************************************************)
EnterYear(p) ==
  /\ pc[p] = "year"
  /\ IF year[p] \in years
     THEN Go(p, "months") /\ UNCHANGED issues
     ELSE Stop(p, {"incomplete"})
  /\ month' = [month EXCEPT ![p] = 1]
  /\ UNCHANGED <<recordVars, year, todo, faults>>

\* A month written before is left alone; one the model did not write is left
\* out and the next one is tried.  Whom it mentions is noted after the row.
WriteMonth(p) ==
  LET m == <<year[p], month[p]>> IN
  /\ At(p, "months") /\ m \in Month
  /\ \/ /\ m \in months
        /\ month' = Turn(p, month)
        /\ UNCHANGED <<months, pc, issues, faults>>
     \/ /\ m \notin months
        /\ months' = months \cup {m}
        /\ Go(p, "noting")
        /\ UNCHANGED <<month, issues, faults>>
     \/ /\ m \notin months
        /\ Fault /\ Note(p, {"incomplete"})
        /\ month' = Turn(p, month)
        /\ UNCHANGED <<months, pc>>
  /\ UNCHANGED <<years, seen, summaries, staged, replayed, reached, lived,
                 unmarked, remembers, year, todo>>

NoteAll(p) ==
  /\ pc[p] = "noting"
  /\ \E mentioned \in SUBSET Person : NoteAs(mentioned, <<year[p], month[p]>>)
  /\ month' = Turn(p, month)
  /\ Go(p, "months")
  /\ UNCHANGED <<years, months, summaries, staged, replayed, reached, lived,
                 unmarked, remembers, year, todo, issues, faults>>

\* Mutant: the months are ticked off whether the model wrote them or not.
MonthsTickedOff(p) ==
  /\ At(p, "months") /\ <<year[p], month[p]>> \notin Month
  /\ Checkpoint(p, "months")
  /\ UNCHANGED <<years, months, seen, summaries, staged, replayed, lived,
                 unmarked, remembers, year, todo, issues, faults>>

MonthsDone(p) ==
  /\ At(p, "months") /\ <<year[p], month[p]>> \notin Month
  /\ IF MonthsOf(year[p]) \subseteq months
     THEN Checkpoint(p, "months") /\ UNCHANGED issues
     ELSE Stop(p, {"incomplete"}) /\ UNCHANGED <<reached, month>>
  /\ UNCHANGED <<years, months, seen, summaries, staged, replayed, lived,
                 unmarked, remembers, year, todo, faults>>

\* What the board finds: a critic may object, or a required one may not have
\* been able to look, which is not an approval either.
Findings == SUBSET {"contradiction", "critic_unavailable"}

\* Every month is reviewed.
ReviewYear(p) ==
  /\ At(p, "critics")
  /\ \/ Checkpoint(p, "critics") /\ UNCHANGED <<issues, faults>>
     \/ /\ \E verdict \in Findings :
             verdict # {} /\ Stop(p, verdict)
        /\ Fault
        /\ UNCHANGED <<reached, month>>
  /\ UNCHANGED <<years, months, seen, summaries, staged, replayed, lived,
                 unmarked, remembers, year, todo>>

\* The row's own summary is its checkpoint.
Synthesise(p) ==
  /\ pc[p] = "synthesis"
  /\ \/ /\ summaries' = summaries \cup {year[p]}
        /\ Go(p, "extraction")
        /\ UNCHANGED <<issues, faults>>
     \/ /\ year[p] \notin summaries
        /\ Fault /\ Stop(p, {"incomplete"})
        /\ UNCHANGED summaries
  /\ UNCHANGED <<years, months, seen, staged, replayed, reached, lived,
                 unmarked, remembers, year, month, todo>>

\* A month with a staged experience counts as extracted.
Extract(p) ==
  LET m == <<year[p], month[p]>> IN
  /\ At(p, "extraction") /\ m \in Month
  /\ \/ /\ StagedOf(m) # {}
        /\ month' = Turn(p, month)
        /\ UNCHANGED <<pc, todo, issues, faults>>
     \/ /\ StagedOf(m) = {}
        /\ \E n \in 0..MaxPerMonth :
             todo' = [todo EXCEPT ![p] = {<<m[1], m[2], s>> : s \in 1..n}]
        /\ Go(p, "staging")
        /\ UNCHANGED <<month, issues, faults>>
     \/ /\ StagedOf(m) = {}
        /\ Fault /\ Stop(p, {"incomplete"})
        /\ UNCHANGED <<month, todo>>
  /\ UNCHANGED <<recordVars, year>>

Stage(p) ==
  /\ pc[p] = "staging"
  /\ \/ /\ todo[p] = {}
        /\ Go(p, "extraction") /\ month' = Turn(p, month)
        /\ UNCHANGED <<staged, todo>>
     \/ \E e \in Experience :
          /\ First(e, todo[p])
          /\ staged' = staged \cup {e}
          /\ todo' = [todo EXCEPT ![p] = @ \ {e}]
          /\ UNCHANGED <<pc, month>>
  /\ UNCHANGED <<years, months, seen, summaries, replayed, reached, lived,
                 unmarked, remembers, year, issues, faults>>

ExtractionDone(p) ==
  /\ At(p, "extraction") /\ <<year[p], month[p]>> \notin Month
  /\ Checkpoint(p, "extraction")
  /\ UNCHANGED <<years, months, seen, summaries, staged, replayed, lived,
                 unmarked, remembers, year, todo, issues, faults>>

(***************************************************************************)
(* Replay: the rows still pending are read once and lived one by one.      *)
(***************************************************************************)
ReadPending(p) ==
  /\ At(p, "replay")
  /\ todo' = [todo EXCEPT ![p] = Pending(year[p])]
  /\ Go(p, "living")
  /\ UNCHANGED <<recordVars, year, month, issues, faults>>

\* Mutant: what goes wrong in the encoder ends the year too.
LiveUnlessEncodingFails(p) ==
  /\ pc[p] = "living"
  /\ \E e \in Experience : First(e, todo[p]) /\ lived' = [lived EXCEPT ![e] = @ + 1]
  /\ \/ remembers' \in {remembers, TRUE} /\ Go(p, "marking") /\ UNCHANGED <<issues, faults>>
     \/ Fault /\ Stop(p, {"model_unavailable"}) /\ UNCHANGED remembers
  /\ UNCHANGED <<years, months, seen, summaries, staged, replayed, reached,
                 unmarked, year, month, todo>>

\* processor.process and the encoder.  What process answers is not looked at,
\* so an experience whose run was refused or failed is marked as well; only
\* one it raises for stays pending.
Live(p) ==
  /\ pc[p] = "living" /\ todo[p] # {}
  /\ \/ /\ \/ /\ \E e \in Experience : First(e, todo[p]) /\ lived' = [lived EXCEPT ![e] = @ + 1]
              /\ UNCHANGED faults
           \/ Fault /\ UNCHANGED lived
        /\ remembers' \in {remembers, TRUE}
        /\ Go(p, "marking")
        /\ UNCHANGED issues
     \/ /\ Fault /\ Stop(p, {"model_unavailable"})
        /\ UNCHANGED <<lived, remembers>>
  /\ UNCHANGED <<years, months, seen, summaries, staged, replayed, reached,
                 unmarked, year, month, todo>>

\* A mark that cannot be written ends the run like an event that cannot be, and
\* what was lived stays pending.
MarkReplayed(p) ==
  /\ pc[p] = "marking"
  /\ \/ /\ \E e \in Experience :
             /\ First(e, todo[p])
             /\ replayed' = replayed \cup {e}
             /\ todo' = [todo EXCEPT ![p] = @ \ {e}]
        /\ Go(p, "living")
        /\ UNCHANGED <<issues, unmarked, faults>>
     \/ /\ Fault /\ Stop(p, {"model_unavailable"})
        /\ unmarked' = unmarked + 1
        /\ UNCHANGED <<replayed, todo>>
  /\ UNCHANGED <<years, months, seen, summaries, staged, reached, lived,
                 remembers, year, month>>

ReplayDone(p) ==
  /\ pc[p] = "living" /\ todo[p] = {}
  /\ Checkpoint(p, "replay")
  /\ UNCHANGED <<years, months, seen, summaries, staged, replayed, lived,
                 unmarked, remembers, year, todo, issues, faults>>

MemoryDone(p) ==
  /\ At(p, "memory")
  /\ IF Pending(year[p]) = {}
     THEN Checkpoint(p, "memory") /\ UNCHANGED issues
     ELSE Stop(p, {"incomplete"}) /\ UNCHANGED <<reached, month>>
  /\ UNCHANGED <<years, months, seen, summaries, staged, replayed, lived,
                 unmarked, remembers, year, todo, faults>>

LeaveYear(p) ==
  /\ pc[p] = "year done"
  /\ IF year[p] < NYears
     THEN Go(p, "year") /\ year' = Turn(p, year)
     ELSE Go(p, "judge") /\ UNCHANGED year
  /\ UNCHANGED <<recordVars, month, todo, issues, faults>>

GenesisStep(p) ==
  \/ SkipStage(p) \/ Scaffold(p) \/ ScaffoldsDone(p) \/ EnterYear(p)
  \/ WriteMonth(p) \/ NoteAll(p) \/ MonthsDone(p) \/ ReviewYear(p)
  \/ Synthesise(p) \/ Extract(p) \/ Stage(p) \/ ExtractionDone(p)
  \/ ReadPending(p) \/ Live(p) \/ MarkReplayed(p) \/ ReplayDone(p)
  \/ MemoryDone(p) \/ LeaveYear(p)

\* The audits that read the record (coverage, replay, memory health, growth,
\* people); those that read the text are a choice of FirstBoot.
RecordPassesAudit ==
  /\ Year \subseteq years
  /\ MonthsOf(NYears) \subseteq months
  /\ staged = replayed /\ replayed # {}
  /\ remembers
  /\ known # {}
=============================================================================
