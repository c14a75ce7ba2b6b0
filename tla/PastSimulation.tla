--------------------------- MODULE PastSimulation ---------------------------
(***************************************************************************)
(* A past lived block by block in a database of its own, and the gate in   *)
(* front of it (src/app/simulation/, with the repositories simulation.py   *)
(* and health.py; src/app/admin/shadow.py, rebuild_genesis).               *)
(*                                                                         *)
(* Days are counted in units of the shorter block.  A stop or an exception *)
(* that leaves the run ends it for good: nothing resumes a simulation.     *)
(***************************************************************************)
EXTENDS Integers, Sequences, FiniteSets, SequencesExt

CONSTANTS
  Period,              \* scaffold.period_end, the start being 0
  PhaseCount,          \* life phases of equal length
  CompressedDays,      \* compressed_block_days; an expanded block lasts one unit
  MaxBlocks,           \* max_blocks
  Interval,            \* consolidation_interval_simulated_days
  MajorAllowance,      \* max_major_per_year times the years
  MaxTurningPoints,    \* max_turning_points_total
  MinBlocks, MinPeriodic,        \* floors of the audits
  MaxNarrationFailures

ASSUME SimulationAssumption ==
  /\ Period \in Nat /\ CompressedDays \in Nat
  /\ MajorAllowance \in Nat /\ MaxTurningPoints \in Nat

VARIABLES
  day,              \* moment of the simulated life
  simulation,       \* simulation_runs: its status, and whether it booted
  blocks,           \* simulation_blocks, in order
  budget,           \* ExperienceBudget
  narrationFailures,
  lastConsolidated, previousPhase,
  consolidations,   \* consolidation_runs, in order
  material,         \* are there episode events not yet encoded?
  left,             \* what the life left behind: appraisals, memories, knowledge
  audits,           \* genesis_audits: the kinds passed and failed
  step              \* where run() or first_boot() is

simulationVars == <<day, simulation, blocks, budget, narrationFailures, lastConsolidated,
                    previousPhase, consolidations, material, left, audits, step>>

Class == {"ordinary", "meaningful", "major", "turning_point"}   \* routine and minor are one
Significant == {"major", "turning_point"}
None == "none"

SimulationInit ==
  /\ day = 0 /\ simulation = [status |-> "running", booted |-> FALSE]
  /\ blocks = <<>>
  /\ budget = [major |-> 0, turning |-> 0, negative |-> 0]
  /\ narrationFailures = 0 /\ lastConsolidated = 0 /\ previousPhase = -1
  /\ consolidations = <<>> /\ material = FALSE
  /\ left = {} /\ audits = {} /\ step = [at |-> "block"]

---------------------------------------------------------------------------
(* What happens in a block: a class is drawn and the ceilings are applied. *)

TooMuchHardship ==
  /\ budget.major + budget.turning >= 2
  /\ 2 * budget.negative >= budget.major + budget.turning

Permitted(c, negative) ==
  CASE c = "turning_point" -> /\ budget.turning < MaxTurningPoints
                              /\ ~(negative /\ TooMuchHardship)
    [] c = "major" -> /\ budget.major < MajorAllowance
                      /\ ~(negative /\ TooMuchHardship)
    [] OTHER -> TRUE

Demote(c) == IF c = "turning_point" THEN "major" ELSE "meaningful"

\* Mutant: one demotion, and no second look.
EnforceOnce(drawn, negative) ==
  IF Permitted(drawn, negative) THEN drawn ELSE Demote(drawn)

EnforceCeilings(drawn, negative) ==
  IF Permitted(drawn, negative) THEN drawn
  ELSE IF Permitted(Demote(drawn), negative) THEN Demote(drawn)
  ELSE Demote(Demote(drawn))

\* A demoted experience draws its valence again.
Sampled ==
  {e \in [class : Class, negative : BOOLEAN] :
     \E drawn \in Class, negative \in BOOLEAN :
       /\ e.class = EnforceCeilings(drawn, negative)
       /\ e.class = drawn => e.negative = negative}

Spend(e) ==
  budget' = [major |-> budget.major + (IF e.class = "major" THEN 1 ELSE 0),
             turning |-> budget.turning + (IF e.class = "turning_point" THEN 1 ELSE 0),
             negative |-> budget.negative + (IF e.class \in Significant /\ e.negative THEN 1 ELSE 0)]

EndOf(length) == IF day + length > Period THEN Period ELSE day + length

\* What leaves an ordinary stretch out of the expansion is a small valence.
BeginBlock ==
  /\ step.at = "block" /\ day < Period /\ Len(blocks) < MaxBlocks
  /\ \E e \in Sampled, strong \in BOOLEAN :
       LET expanded == e.class \in Significant \/ (strong /\ e.class # "ordinary")
           end == EndOf(IF expanded THEN 1 ELSE CompressedDays)
       IN /\ Spend(e)
          /\ blocks' = Append(blocks, [from |-> day, to |-> end, class |-> e.class,
                                       events |-> 0])
          /\ step' = [at |-> "narrate", costs |-> e.class # "ordinary"]
  /\ UNCHANGED <<day, simulation, narrationFailures, lastConsolidated, previousPhase,
                 consolidations, material, left, audits>>

\* A class worth a model call gets one, until the model has failed too often
\* in a row; any other summary is composed without it.
Narrate ==
  /\ step.at = "narrate"
  /\ IF step.costs /\ narrationFailures < MaxNarrationFailures
     THEN narrationFailures' \in {0, narrationFailures + 1}
     ELSE UNCHANGED narrationFailures
  /\ step' = [at |-> "experience"]
  /\ UNCHANGED <<day, simulation, blocks, budget, lastConsolidated, previousPhase,
                 consolidations, material, left, audits>>

\* The experience runs through the pipeline, becomes episode material (unless
\* that raises), meets what the world was saying, and closes its block.
LiveBlock ==
  /\ step.at = "experience"
  /\ \E observed \in BOOLEAN, effects \in {{}, {"appraisal", "knowledge"}} :
       /\ material' = (material \/ observed)
       /\ left' = left \cup effects
  /\ blocks' = [blocks EXCEPT ![Len(blocks)].events = 2]
  /\ day' = blocks[Len(blocks)].to
  /\ step' = [at |-> "trigger"]
  /\ UNCHANGED <<simulation, budget, narrationFailures, lastConsolidated, previousPhase,
                 consolidations, audits>>

---------------------------------------------------------------------------
(* Consolidation, as the life goes on.                                     *)

PhaseAt(t) == (t * PhaseCount) \div Period

\* The phase of the block just lived, not of the moment it ended at.
Trigger ==
  LET b == blocks[Len(blocks)] IN
  IF b.class \in Significant THEN "major_event"
  ELSE IF Len(blocks) > 1 /\ PhaseAt(b.from) # previousPhase THEN "phase_boundary"
  ELSE IF day - lastConsolidated >= Interval THEN "interval" ELSE None

PullTrigger ==
  /\ step.at = "trigger"
  /\ previousPhase' = PhaseAt(blocks[Len(blocks)].from)
  /\ step' = IF Trigger = None THEN [at |-> "block"] ELSE [at |-> "encode", kind |-> Trigger]
  /\ UNCHANGED <<day, simulation, blocks, budget, narrationFailures, lastConsolidated,
                 consolidations, material, left, audits>>

EndOfLife ==
  /\ step.at = "block" /\ ~(day < Period /\ Len(blocks) < MaxBlocks)
  /\ step' = [at |-> "encode", kind |-> "final"]
  /\ UNCHANGED <<day, simulation, blocks, budget, narrationFailures, lastConsolidated,
                 previousPhase, consolidations, material, left, audits>>

\* Memory first: closing, encoding and forgetting, or an exception that is
\* swallowed and leaves the material for the next time.
Encode ==
  /\ step.at = "encode"
  /\ \/ /\ material' = FALSE
        /\ \E kept \in SUBSET {"memory"} : left' = IF material THEN left \cup kept ELSE left
     \/ UNCHANGED <<material, left>>
  /\ step' = [at |-> "consolidate", kind |-> step.kind]
  /\ UNCHANGED <<day, simulation, blocks, budget, narrationFailures, lastConsolidated,
                 previousPhase, consolidations, audits>>

ConsolidatedAt(done) == IF done THEN day ELSE lastConsolidated

\* The row of the run is there before anything of it is done.
Consolidate ==
  /\ step.at = "consolidate"
  /\ \E done \in BOOLEAN :
       /\ consolidations' = Append(consolidations,
            [kind |-> step.kind, at |-> day, status |-> IF done THEN "completed" ELSE "running"])
       /\ lastConsolidated' = IF step.kind = "final" THEN lastConsolidated
                              ELSE ConsolidatedAt(done)
  /\ step' = [at |-> IF step.kind = "final" THEN "finish" ELSE "block"]
  /\ UNCHANGED <<day, simulation, blocks, budget, narrationFailures, previousPhase,
                 material, left, audits>>

\* The run completes whether the life reached its end or the last block.
CompleteRun ==
  /\ step.at = "finish"
  /\ simulation' = [simulation EXCEPT !.status = "completed"]
  /\ step' = [at |-> "boot"]
  /\ UNCHANGED <<day, blocks, budget, narrationFailures, lastConsolidated, previousPhase,
                 consolidations, material, left, audits>>

---------------------------------------------------------------------------
(* FIRST BOOT: a deep consolidation, the audits, and the boot.             *)

\* The consolidation of the gate is not caught: if it fails, so does the boot.
GenesisConsolidation ==
  /\ step.at = "boot" /\ ~simulation.booted
  /\ \E done \in BOOLEAN :
       /\ consolidations' = Append(consolidations,
            [kind |-> "genesis", at |-> day, status |-> IF done THEN "completed" ELSE "running"])
       /\ step' = [at |-> IF done THEN "audit" ELSE "over"]
  /\ UNCHANGED <<day, simulation, blocks, budget, narrationFailures, lastConsolidated,
                 previousPhase, material, left, audits>>

BlocksInOrder ==
  /\ \A i \in 2..Len(blocks) : blocks[i - 1].from <= blocks[i].from
  /\ \A i \in 1..Len(blocks) : blocks[i].from >= 0 /\ blocks[i].to <= Period

\* consolidation_runs whose kind begins with "genesis": those of the life are
\* "genesis_" and their trigger, that of the gate is "genesis".
PeriodicConsolidationRuns == Len(consolidations)

Passed ==
  {k \in {"consistency", "quality", "pipeline_health", "growth_health", "memory_health",
          "knowledge_health", "block"} :
     CASE k = "consistency" -> BlocksInOrder
       [] k = "quality" -> Len(blocks) >= MinBlocks /\ "knowledge" \in left
       [] k = "pipeline_health" -> /\ "appraisal" \in left
                                   /\ PeriodicConsolidationRuns >= MinPeriodic
                                   /\ "knowledge" \in left
       [] k = "growth_health" -> \E i \in 1..Len(consolidations) :
                                consolidations[i].status = "completed"
       [] k = "memory_health" -> "memory" \in left
       [] k = "knowledge_health" -> "knowledge" \in left
       [] k = "block" -> /\ \A i \in 1..Len(blocks) : blocks[i].events > 0
                         /\ blocks # <<>>}

RunAudits ==
  /\ step.at = "audit"
  /\ audits' = Passed
  /\ step' = [at |-> IF Cardinality(Passed) = 7 THEN "event" ELSE "over"]
  /\ UNCHANGED <<day, simulation, blocks, budget, narrationFailures, lastConsolidated,
                 previousPhase, consolidations, material, left>>

RecordFirstBoot ==
  /\ step.at = "event"
  /\ simulation' = [simulation EXCEPT !.booted = TRUE]
  /\ step' = [at |-> "over"]
  /\ UNCHANGED <<day, blocks, budget, narrationFailures, lastConsolidated, previousPhase,
                 consolidations, material, left, audits>>

SimulationStops ==
  /\ step.at # "over" /\ step' = [at |-> "over"]
  /\ UNCHANGED <<day, simulation, blocks, budget, narrationFailures, lastConsolidated,
                 previousPhase, consolidations, material, left, audits>>

SimulationNext ==
  \/ BeginBlock \/ Narrate \/ LiveBlock \/ PullTrigger \/ EndOfLife
  \/ Encode \/ Consolidate \/ CompleteRun
  \/ GenesisConsolidation \/ RunAudits \/ RecordFirstBoot \/ SimulationStops

SimulationSpec == SimulationInit /\ [][SimulationNext]_simulationVars

---------------------------------------------------------------------------
\* However the experiences fall, and whatever each was demoted from, a life
\* has no more turning points and no more major events than its ceilings
\* allow (ExperienceSampler._enforce_ceilings).
CeilingsHold ==
  /\ Cardinality({i \in 1..Len(blocks) : blocks[i].class = "turning_point"}) <= MaxTurningPoints
  /\ Cardinality({i \in 1..Len(blocks) : blocks[i].class = "major"}) <= MajorAllowance

=============================================================================
