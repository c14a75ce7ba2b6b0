------------------------------- MODULE Schema -------------------------------
(***************************************************************************)
(* storage/migrations.py: how the schema of the one database file comes to *)
(* be.  Every process that opens the file (the bot, each command of the    *)
(* command line) is of some release of the program, applies the migrations *)
(* it knows and the file does not, and refuses a file it does not know.    *)
(*                                                                         *)
(* applied_versions is read once, before the first transaction; each       *)
(* migration is one transaction of BEGIN IMMEDIATE, which SQLite makes     *)
(* atomic, so a migration is one step and a process may end, or another    *)
(* migrate, between any two.                                               *)
(*                                                                         *)
(* A migration is the sequence of what its statements do to the set of     *)
(* tables, to added columns and to foreign keys.  Columns of new tables,   *)
(* indexes and the triggers on events are left out, and of the rows only   *)
(* whether a table has any.                                                *)
(***************************************************************************)
EXTENDS Naturals, Sequences, SequencesExt

CONSTANTS
  Opener,   \* processes that open the database file
  Releases    \* releases of the program: [latest, edited]

VARIABLES
  database,  \* [tables, keys, columns, rows]
  recorded,  \* migrations: the definition applied for each version
  filled,    \* tables that ever got a row
  opener,    \* where each process stands
  release,   \* the program it runs
  unapplied       \* the versions it found not applied

schemaVars == <<database, recorded, filled, opener, release, unapplied>>

(***************************************************************************)
(* What a statement does.  SQLite refuses to create what exists and to add *)
(* a column that is there; the transaction then raises.                    *)
(***************************************************************************)
Empty == [tables |-> {}, keys |-> {}, columns |-> {}, rows |-> {}]
Raised == [raised |-> TRUE]

Table(name, references) ==
  [does |-> "create", names |-> {name}, keys |-> {<<name, r>> : r \in references}]
Tables(names) == [does |-> "create", names |-> names, keys |-> {}]
Columns(name, added) == [does |-> "alter", columns |-> {<<name, c>> : c \in added}]
Copy(from, to) == [does |-> "copy", from |-> from, to |-> to]
Drop(name) == [does |-> "drop", name |-> name]
Rename(from, to) == [does |-> "rename", from |-> from, to |-> to]

Without(db, t) ==
  [tables |-> db.tables \ {t}, rows |-> db.rows \ {t},
   keys |-> {k \in db.keys : k[1] # t}, columns |-> {c \in db.columns : c[1] # t}]

Execute(db, s) ==
  IF db = Raised THEN Raised ELSE
  CASE s.does = "create" ->
         IF s.names \cap db.tables # {} THEN Raised
         ELSE [db EXCEPT !.tables = @ \cup s.names, !.keys = @ \cup s.keys]
    [] s.does = "alter" ->
         IF s.columns \cap db.columns # {} THEN Raised
         ELSE [db EXCEPT !.columns = @ \cup s.columns]
    [] s.does = "copy" ->
         [db EXCEPT !.rows = IF s.from \in @ THEN @ \cup {s.to} ELSE @]
    [] s.does = "drop" ->
         IF s.name \notin db.tables \/ \E k \in db.keys : k[2] = s.name /\ k[1] \in db.rows
         THEN Raised ELSE Without(db, s.name)
    [] s.does = "rename" ->
         [Without(db, s.from) EXCEPT
            !.tables = @ \cup {s.to},
            !.rows = IF s.from \in db.rows THEN @ \cup {s.to} ELSE @]

(***************************************************************************)
(* The migrations, by their names.                                         *)
(***************************************************************************)
CoreEventState ==
  << Tables({"schema_meta", "migrations", "runtime_manifests", "events"}),
    Table("event_deliveries", {"events"}),
    Table("processing_runs", {"events", "runtime_manifests"}),
    Tables({"state_snapshots", "state_values"}),
    Table("state_changes", {"events", "processing_runs"}),
    Tables({"failures"}) >>

LlmCallTraces ==
  << Table("llm_calls", {"runtime_manifests"}) >>

ConversationProjection ==
  << Tables({"conversations"}),
    Table("conversation_turns", {"conversations", "events"}) >>

SubjectiveMemory ==
  << Tables({"episodes"}),
    Table("episodic_memories", {"episodes"}),
    Tables({"episodic_memories_fts", "semantic_memories", "memory_links"}),
    Table("memory_retrievals", {"episodic_memories"}),
    Table("memory_revisions", {"episodic_memories"}) >>

BeliefsAndSelf ==
  << Tables({"beliefs"}),
    Table("belief_evidence", {"beliefs"}),
    Tables({"self_schemas"}),
    Table("self_event_connections", {"self_schemas"}),
    Tables({"possible_selves"}) >>

ToolCalls ==
  << Tables({"tool_calls"}) >>

GoalsAndHabits ==
  << Tables({"goals"}),
    Table("plans", {"goals"}),
    Tables({"habits", "decisions"}) >>

WorldSleepScheduler ==
  << Tables({"activities", "world_state_history", "sleep_episodes", "scheduled_jobs",
      "proactive_contacts"}) >>

GrowthConsolidation ==
  << Tables({"characteristic_adaptations", "personality_traits", "personality_history",
      "value_priorities", "value_history", "deep_update_candidates", "narrative_identity",
      "drift_observations", "consolidation_runs"}) >>

NpcSociety ==
  << Tables({"npcs"}),
    Table("npc_models", {"npcs"}),
    Table("npc_relationships", {"npcs"}),
    Tables({"npc_groups"}),
    Table("group_memberships", {"npc_groups", "npcs"}),
    Table("npc_social_links", {"npcs"}),
    Table("npc_interactions", {"npc_groups", "npcs"}) >>

HistoricalKnowledge ==
  << Tables({"knowledge_sources"}),
    Table("external_knowledge", {"knowledge_sources"}),
    Table("knowledge_versions", {"external_knowledge"}),
    Table("knowledge_exposure_opportunities", {"external_knowledge"}),
    Table("knowledge_acquisitions", {"external_knowledge",
      "knowledge_exposure_opportunities"}),
    Tables({"historical_coverage_jobs"}) >>

PastSimulation ==
  << Tables({"temperament_seeds"}),
    Table("life_scaffolds", {"temperament_seeds"}),
    Table("simulation_runs", {"life_scaffolds", "temperament_seeds"}),
    Table("life_phases", {"simulation_runs"}),
    Table("simulation_blocks", {"life_phases", "simulation_runs"}),
    Table("genesis_audits", {"simulation_runs"}) >>

AdminAndBackup ==
  << Tables({"admin_actions", "backups"}) >>

LlmCallTelemetry ==
  << Columns("llm_calls", {"logical_call_id", "attempt", "queue_wait_ms",
      "transport_latency_ms", "model_total_duration_ms", "load_duration_ms",
      "prompt_eval_duration_ms", "eval_duration_ms", "thinking_enabled",
      "thinking_present", "thinking_char_count"}) >>

ProcessingRunConflicts ==
  << Columns("processing_runs", {"retry_of_run_id", "conflict_count", "commit_attempt",
      "snapshot_fingerprint"}) >>

\* Mutant: the table is made anew without its rows.
CandidatesNotCopied ==
  << Tables({"deep_update_candidates_new"}),
     Drop("deep_update_candidates"),
     Rename("deep_update_candidates_new", "deep_update_candidates") >>

DeepUpdateCandidateHistory ==
  << Tables({"deep_update_candidates_new"}),
    Copy("deep_update_candidates", "deep_update_candidates_new"),
    Drop("deep_update_candidates"),
    Rename("deep_update_candidates_new", "deep_update_candidates") >>

ConversationTraces ==
  << Tables({"conversation_traces"}) >>

RebuildEpochs ==
  << Tables({"rebuild_epochs"}) >>

CommonGround ==
  << Table("common_ground_claims", {"conversations"}) >>

RetrievalStages ==
  << Columns("memory_retrievals", {"group_id", "mode", "state", "relevance",
      "relevance_source", "relevance_reason", "reject_stage", "reject_reason",
      "accessibility_at", "availability", "candidate_reasons", "used_in_reply",
      "practice_applied", "llm_call_id"}) >>

RealizationTrace ==
  << Columns("conversation_traces", {"social_interpretation_started_at",
      "social_interpretation_ended_at", "reference_retrieval_started_at",
      "reference_retrieval_ended_at", "realization_started_at", "realization_ended_at"}) >>

ResponseIntentTrace ==
  << Columns("conversation_traces", {"response_intent_started_at",
      "response_intent_ended_at"}) >>

RuntimeTicks ==
  << Tables({"runtime_ticks"}) >>

LifeDrivenByTheRuntime ==
  << Columns("sleep_episodes", {"kind"}),
    Columns("activities", {"expected_end_at"}) >>

ProactiveDeliberations ==
  << Tables({"proactive_deliberations"}) >>

Diary ==
  << Tables({"life_days", "diary_entries", "diary_references"}) >>

SearchAndProvenance ==
  << Tables({"knowledge_gaps", "search_calls"}),
    Columns("external_knowledge", {"source_type", "source_url", "retrieved_at",
      "search_id", "acquisition_event_id"}) >>

GenesisV2 ==
  << Tables({"genesis_runs"}),
    Table("genesis_checkpoints", {"genesis_runs"}),
    Table("life_anchors", {"genesis_runs"}),
    Table("life_years", {"genesis_runs"}),
    Table("life_months", {"life_years"}),
    Table("life_entities", {"genesis_runs"}),
    Table("life_entity_snapshots", {"life_entities"}),
    Tables({"generation_audits"}) >>

GenesisExperiences ==
  << Table("genesis_experiences", {"genesis_runs"}) >>

FirstBootState ==
  << Tables({"first_boot_state", "first_boot_lock"}) >>

ShadowDecisions ==
  << Tables({"shadow_decisions"}) >>

MIGRATIONS ==
  << CoreEventState, LlmCallTraces, ConversationProjection, SubjectiveMemory,
     BeliefsAndSelf, ToolCalls, GoalsAndHabits, WorldSleepScheduler,
     GrowthConsolidation, NpcSociety, HistoricalKnowledge, PastSimulation,
     AdminAndBackup, LlmCallTelemetry, ProcessingRunConflicts,
     DeepUpdateCandidateHistory, ConversationTraces, RebuildEpochs, CommonGround,
     RetrievalStages, RealizationTrace, ResponseIntentTrace, RuntimeTicks,
     LifeDrivenByTheRuntime, ProactiveDeliberations, Diary, SearchAndProvenance,
     GenesisV2, GenesisExperiences, FirstBootState, ShadowDecisions >>
Version == 1..Len(MIGRATIONS)

\* A release knows the first few; an edited definition has another checksum
\* and does the same to the tables.
Checksum(r, v) == IF v \in r.edited THEN "edited" ELSE "original"
Knows(r) == 1..r.latest
Unapplied == "unapplied"
Applied(record) == {v \in Version : record[v] # Unapplied}
SchemaVersion(record) == IF Applied(record) = {} THEN 0 ELSE Max(Applied(record))

\* A program knows some of the first migrations and no others.
ASSUME ReleaseAssumption ==
  \A r \in Releases : r.latest \in 0..Len(MIGRATIONS)

\* Several programs, none of which has opened the file.
SchemaInit ==
  /\ database = Empty /\ filled = {}
  /\ recorded = [v \in Version |-> Unapplied]
  /\ opener = [p \in Opener |-> "closed"]
  /\ release \in [Opener -> Releases]
  /\ unapplied = [p \in Opener |-> {}]

Enter(p, place) == opener' = [opener EXCEPT ![p] = place]

\* migrate up to its loop; a definition that differs from the one recorded is
\* refused before anything is applied.
ReadApplied(p) ==
  /\ opener[p] = "closed"
  /\ IF \A v \in Knows(release[p]) : recorded[v] \in {Unapplied, Checksum(release[p], v)}
     THEN /\ Enter(p, "migrating")
          /\ unapplied' = [unapplied EXCEPT ![p] = Knows(release[p]) \ Applied(recorded)]
     ELSE Enter(p, "refused") /\ UNCHANGED unapplied
  /\ UNCHANGED <<database, recorded, filled, release>>

\* The statements of one migration and its row, whose version is a key; the
\* transaction that fails raises out of migrate.
Migrated(v) == FoldLeft(Execute, database, MIGRATIONS[v])
ApplyMigration(p) ==
  LET v == Min(unapplied[p]) IN
  /\ opener[p] = "migrating" /\ unapplied[p] # {}
  /\ \/ /\ Migrated(v) # Raised /\ recorded[v] = Unapplied
        /\ database' = Migrated(v)
        /\ recorded' = [recorded EXCEPT ![v] = Checksum(release[p], v)]
        /\ unapplied' = [unapplied EXCEPT ![p] = @ \ {v}]
        /\ UNCHANGED opener
     \/ /\ Migrated(v) = Raised \/ recorded[v] # Unapplied
        /\ Enter(p, "refused")
        /\ unapplied' = [unapplied EXCEPT ![p] = {}]
        /\ UNCHANGED <<database, recorded>>
  /\ UNCHANGED <<filled, release>>

\* Mutant: a file that is newer is taken as well.
VerifySchemaAtLeast(p) ==
  /\ opener[p] = "migrating" /\ unapplied[p] = {}
  /\ Enter(p, IF SchemaVersion(recorded) >= release[p].latest THEN "serving" ELSE "refused")
  /\ UNCHANGED <<database, recorded, filled, release, unapplied>>

\* verify_schema, by the highest version.
VerifySchema(p) ==
  /\ opener[p] = "migrating" /\ unapplied[p] = {}
  /\ Enter(p, IF SchemaVersion(recorded) = release[p].latest THEN "serving" ELSE "refused")
  /\ UNCHANGED <<database, recorded, filled, release, unapplied>>

\* What runs writes rows, here of tables whose rows a migration moves or that
\* refer to others.
Watched == {"events", "event_deliveries", "deep_update_candidates"}
WriteRow(p, t) ==
  /\ opener[p] = "serving"
  /\ t \in Watched \cap database.tables
  /\ \A k \in database.keys : k[1] = t => k[2] \in database.rows
  /\ database' = [database EXCEPT !.rows = @ \cup {t}]
  /\ filled' = filled \cup {t}
  /\ UNCHANGED <<recorded, opener, release, unapplied>>

\* A process ends, by itself or not, and is started again.
Close(p) ==
  /\ opener[p] # "closed" /\ Enter(p, "closed")
  /\ unapplied' = [unapplied EXCEPT ![p] = {}]
  /\ UNCHANGED <<database, recorded, filled, release>>

SchemaNext ==
  \E p \in Opener :
    \/ ReadApplied(p) \/ ApplyMigration(p) \/ VerifySchema(p) \/ Close(p)
    \/ \E t \in Watched : WriteRow(p, t)
SchemaSpec == SchemaInit /\ [][SchemaNext]_schemaVars

-----------------------------------------------------------------------------
(***************************************************************************)
(* Properties.                                                             *)
(***************************************************************************)
\* Whatever processes of whatever releases migrate side by side and end in
\* the middle, the file is at some version: the migrations up to it applied
\* once and in order, every foreign key to a table that is there, and no row
\* lost (migrations.py:_0016: "Every existing row is carried across; nothing
\* is dropped").
AlwaysAtAVersion ==
  LET n == SchemaVersion(recorded) IN
  /\ Applied(recorded) = 1..n
  /\ [database EXCEPT !.rows = {}]
       = FoldLeft(LAMBDA db, v : FoldLeft(Execute, db, MIGRATIONS[v]), Empty, [v \in 1..n |-> v])
  /\ \A k \in database.keys : {k[1], k[2]} \subseteq database.tables
  /\ filled \subseteq database.rows

\* A process that begins to serve does so on the schema of its own program,
\* in the definitions of its own program, whoever migrated in between.
ServesItsOwnSchema ==
  [][\A p \in Opener : opener[p] # "serving" /\ opener'[p] = "serving" =>
       /\ Applied(recorded) = Knows(release[p])
       /\ \A v \in Knows(release[p]) : recorded[v] = Checksum(release[p], v)]_schemaVars

=============================================================================
