------------------------------ MODULE Memory ------------------------------
(***************************************************************************)
(* Events become episodes, episodes become memories, and an administrator  *)
(* may take a memory away again (src/app/memory/engine.py,                 *)
(* src/app/storage/repositories/memory.py, src/app/admin/control_plane.py).*)
(*                                                                         *)
(* Every statement of the repository commits on its own, and the engine is *)
(* called from several threads: observe() for the USER's message and for   *)
(* YUI's reply, run_memory_maintenance() once per delivered reply with a   *)
(* model call in the middle.  So each call is modelled as its reads and    *)
(* writes, one step each, working on the copies it read.                   *)
(***************************************************************************)
EXTENDS Integers, Sequences, FiniteSets

CONSTANTS
  Event,          \* events shown to the engine
  Maintainer,     \* background maintenance tasks
  MaxEpisodes,    \* bound: episodes ever opened
  MaxMemories,    \* bound: memories ever written
  MaxEvents,      \* SegmentationRules.max_events
  MinEvents,      \* SegmentationRules.min_events_to_encode
  PendingLimit,   \* encode_pending's limit
  MaxOperations,  \* bound: admin operations
  MaxRestarts     \* bound: restarts

VARIABLES
  episodes,    \* the episodes table, in the order of started_at
  memories,    \* the episodic_memories table, in the order of insertion
  observer,    \* event -> where its observe() is, and the episode it read
  maintainer,  \* task -> where its maintenance is, and the copies it has to go through
  actions,     \* the admin_actions table
  ceremony,    \* the admin operation in flight: an index of actions, or 0
  snapshots,   \* one set of memories per verified backup
  memoryRestarts

memoryVars == <<episodes, memories, observer, maintainer, actions, ceremony,
                snapshots, memoryRestarts>>

EpisodeIds == DOMAIN episodes
MemoryIds == DOMAIN memories
Operations == {"suppress", "invalidate", "redact", "hard_delete"}
Risk == [op \in Operations |->
           IF op \in {"redact", "hard_delete"} THEN "DESTRUCTIVE" ELSE "MUTATING"]
Stages == <<"requested", "impact_analysed", "previewed", "confirmed",
            "snapshotted", "mutated", "cascaded", "validated", "audited">>

AtRest == [at |-> "idle", todo |-> {}]

MemoryInit ==
  /\ episodes = <<>> /\ memories = <<>>
  /\ observer = [e \in Event |-> [at |-> "unseen", current |-> 0]]
  /\ maintainer = [t \in Maintainer |-> AtRest]
  /\ actions = <<>> /\ ceremony = 0 /\ snapshots = {}
  /\ memoryRestarts = 0

---------------------------------------------------------------------------
(* The repository.                                                         *)

\* The newest open episode of the stream; 0 when there is none.
OpenEpisodeFor ==
  LET open == {i \in EpisodeIds : episodes[i].status = "open"}
  IN IF open = {} THEN 0 ELSE CHOOSE i \in open : \A j \in open : j <= i

\* INSERT, status 'open', with its first event.
OpenEpisode(e) ==
  /\ Len(episodes) < MaxEpisodes
  /\ episodes' = Append(episodes, [status |-> "open", events |-> {e}])

\* The UPDATE names the episode, not its status.
AppendToEpisode(i, e) == episodes' = [episodes EXCEPT ![i].events = @ \cup {e}]
CloseEpisode(i) == episodes' = [episodes EXCEPT ![i].status = "closed"]
MarkEpisode(i, s) == episodes' = [episodes EXCEPT ![i].status = s]

\* The oldest closed episodes, as rows copied out of the table.
PendingEpisodes ==
  LET closed == {i \in EpisodeIds : episodes[i].status = "closed"}
      oldest == {i \in closed : Cardinality({j \in closed : j < i}) < PendingLimit}
  IN {[id |-> i, events |-> episodes[i].events] : i \in oldest}

MemoryForEpisode(i) ==
  {m \in MemoryIds : memories[m].episode = i /\ memories[m].status # "absent"}

\* Mutant: a plain INSERT, without the unique episode.
InsertEveryMemory(copy) ==
  /\ Len(memories) < MaxMemories
  /\ memories' = Append(memories,
       [episode |-> copy.id, sources |-> copy.events, status |-> "active",
        redacted |-> FALSE])

\* INSERT OR IGNORE: the table has one memory per episode.
InsertMemory(copy) ==
  IF MemoryForEpisode(copy.id) # {}
  THEN memories' = memories
  ELSE /\ Len(memories) < MaxMemories
       /\ memories' = Append(memories,
            [episode |-> copy.id, sources |-> copy.events, status |-> "active",
             redacted |-> FALSE])

---------------------------------------------------------------------------
(* observe(): find the stream's open episode, close it at a boundary, open *)
(* or append, and touch.  Touching moves only the time that boundaries are *)
(* measured from, which is left to the choice of "due".                    *)

\* A boundary: silence or duration (due), or the episode is full.
Boundary(i, due) == due \/ Cardinality(episodes[i].events) >= MaxEvents

Observe(e) ==
  /\ observer[e].at = "unseen"
  /\ \E due \in BOOLEAN :
       LET current == OpenEpisodeFor
           closes == current # 0 /\ Boundary(current, due)
       IN observer' = [observer EXCEPT ![e] =
            [at |-> IF closes THEN "closing" ELSE "placing", current |-> current]]
  /\ UNCHANGED <<episodes, memories, maintainer, actions, ceremony, snapshots,
                 memoryRestarts>>

ObserveCloses(e) ==
  /\ observer[e].at = "closing"
  /\ CloseEpisode(observer[e].current)
  /\ observer' = [observer EXCEPT ![e] = [at |-> "placing", current |-> 0]]
  /\ UNCHANGED <<memories, maintainer, actions, ceremony, snapshots,
                 memoryRestarts>>

ObservePlaces(e) ==
  /\ observer[e].at = "placing"
  /\ IF observer[e].current = 0
     THEN OpenEpisode(e)
     ELSE AppendToEpisode(observer[e].current, e)
  /\ observer' = [observer EXCEPT ![e] = [at |-> "placed", current |-> 0]]
  /\ UNCHANGED <<memories, maintainer, actions, ceremony, snapshots,
                 memoryRestarts>>

---------------------------------------------------------------------------
(* run_memory_maintenance(): close_due_episodes, then encode_pending.      *)

Maintain(t, to, todo) ==
  maintainer' = [maintainer EXCEPT ![t] = [at |-> to, todo |-> todo]]

\* A list of episodes is gone through from the oldest on.
Current(t) ==
  {c \in maintainer[t].todo : \A d \in maintainer[t].todo : c.id <= d.id}
GoOn(t, to, copy) == Maintain(t, to, maintainer[t].todo \ {copy})
StayWith(t, to) == Maintain(t, to, maintainer[t].todo)

StartMaintenance(t) ==
  /\ maintainer[t].at = "idle"
  /\ \E due \in SUBSET {i \in EpisodeIds : episodes[i].status = "open"} :
       Maintain(t, "closing", {[id |-> i, events |-> {}] : i \in due})
  /\ UNCHANGED <<episodes, memories, observer, actions, ceremony, snapshots,
                 memoryRestarts>>

CloseDueEpisode(t) ==
  /\ maintainer[t].at = "closing"
  /\ \E c \in Current(t) : CloseEpisode(c.id) /\ GoOn(t, "closing", c)
  /\ UNCHANGED <<memories, observer, actions, ceremony, snapshots, memoryRestarts>>

ReadPending(t) ==
  /\ maintainer[t].at = "closing" /\ maintainer[t].todo = {}
  /\ Maintain(t, "encoding", PendingEpisodes)
  /\ UNCHANGED <<episodes, memories, observer, actions, ceremony, snapshots,
                 memoryRestarts>>

\* An episode already remembered is passed over as it stands, closed.  One
\* whose turns are no longer at hand is discarded, as is one too small.
EncodeEpisode(t) ==
  /\ maintainer[t].at = "encoding"
  /\ \E copy \in Current(t) :
       LET remembered == MemoryForEpisode(copy.id) # {}
       IN \/ remembered /\ GoOn(t, "encoding", copy) /\ UNCHANGED episodes
          \/ /\ ~remembered
             /\ MarkEpisode(copy.id, "discarded") /\ GoOn(t, "encoding", copy)
          \/ /\ ~remembered /\ Cardinality(copy.events) >= MinEvents
             /\ StayWith(t, "summarising") /\ UNCHANGED episodes
  /\ UNCHANGED <<memories, observer, actions, ceremony, snapshots, memoryRestarts>>

\* No summary: the episode stays closed.  Below the threshold: discarded.
Summarise(t) ==
  /\ maintainer[t].at = "summarising"
  /\ \E copy \in Current(t) :
       \/ GoOn(t, "encoding", copy) /\ UNCHANGED <<episodes, memories>>
       \/ /\ MarkEpisode(copy.id, "discarded") /\ GoOn(t, "encoding", copy)
          /\ UNCHANGED memories
       \/ InsertMemory(copy) /\ StayWith(t, "marking") /\ UNCHANGED episodes
  /\ UNCHANGED <<observer, actions, ceremony, snapshots, memoryRestarts>>

MarkEncoded(t) ==
  /\ maintainer[t].at = "marking"
  /\ \E copy \in Current(t) :
       MarkEpisode(copy.id, "encoded") /\ GoOn(t, "encoding", copy)
  /\ UNCHANGED <<memories, observer, actions, ceremony, snapshots, memoryRestarts>>

EndMaintenance(t) ==
  /\ maintainer[t].at = "encoding" /\ maintainer[t].todo = {}
  /\ maintainer' = [maintainer EXCEPT ![t] = AtRest]
  /\ UNCHANGED <<episodes, memories, observer, actions, ceremony, snapshots,
                 memoryRestarts>>

---------------------------------------------------------------------------
(* memory_operation(): the ceremony, each stage recorded after it is done. *)

Operation == actions[ceremony]
Stage(s) == actions' = [actions EXCEPT ![ceremony].stage = s]
Unmoved == UNCHANGED <<episodes, observer, maintainer, memoryRestarts>>

\* Open, analyse and preview touch nothing but the record; a dry run, or a
\* destructive operation without confirmation, ends there.
Request(m, op, dryRun, confirm) ==
  /\ ceremony = 0 /\ Len(actions) < MaxOperations
  /\ m \in MemoryIds /\ memories[m].status # "absent"
  /\ LET refused == Risk[op] = "DESTRUCTIVE" /\ ~confirm
     IN /\ actions' = Append(actions,
             [operation |-> op, target |-> m,
              stage |-> CASE dryRun -> "audited"
                          [] ~dryRun /\ refused -> "refused"
                          [] ~dryRun /\ ~refused ->
                               IF Risk[op] = "DESTRUCTIVE" THEN "confirmed" ELSE "previewed",
              dry |-> dryRun, snapshot |-> FALSE])
        /\ ceremony' = IF dryRun \/ refused THEN 0 ELSE Len(actions) + 1
  /\ UNCHANGED <<memories, snapshots>> /\ Unmoved

\* before_operation() raises when the copy cannot be verified: nothing runs.
Snapshot ==
  /\ ceremony # 0 /\ Operation.stage = "confirmed"
  /\ \/ /\ snapshots' = snapshots \cup {[m \in MemoryIds |-> memories[m].status # "absent"]}
        /\ actions' = [actions EXCEPT ![ceremony].stage = "snapshotted",
                                      ![ceremony].snapshot = TRUE]
        /\ UNCHANGED ceremony
     \/ /\ ceremony' = 0 /\ UNCHANGED <<snapshots, actions>>
  /\ UNCHANGED memories /\ Unmoved

\* Mutant: the operation runs as soon as it is confirmed.
ReadyAtOnce == Operation.stage \in {"previewed", "confirmed", "snapshotted"}

Ready ==
  \/ Operation.stage = "snapshotted"
  \/ Operation.stage = "previewed" /\ Risk[Operation.operation] = "MUTATING"

\* The mutation itself; "mutated" is recorded after it.  Redaction rewrites
\* the summary and suppresses in two statements.
Apply ==
  /\ ceremony # 0 /\ Ready
  /\ LET m == Operation.target
     IN CASE Operation.operation = "suppress" ->
               memories' = [memories EXCEPT ![m].status = "suppressed"]
          [] Operation.operation = "invalidate" ->
               memories' = [memories EXCEPT ![m].status = "invalidated"]
          [] Operation.operation = "redact" ->
               IF memories[m].redacted
               THEN memories' = [memories EXCEPT ![m].status = "suppressed"]
               ELSE memories' = [memories EXCEPT ![m].redacted = TRUE]
          [] Operation.operation = "hard_delete" ->
               memories' = [memories EXCEPT ![m].status = "absent"]
  /\ UNCHANGED <<actions, ceremony, snapshots>> /\ Unmoved

Applied ==
  LET m == Operation.target
  IN CASE Operation.operation = "suppress" -> memories[m].status = "suppressed"
       [] Operation.operation = "invalidate" -> memories[m].status = "invalidated"
       [] Operation.operation = "redact" -> memories[m].status = "suppressed" /\ memories[m].redacted
       [] Operation.operation = "hard_delete" -> memories[m].status = "absent"

\* mutated, cascaded, validated and audited follow with no other write.
Finish ==
  /\ ceremony # 0 /\ Ready /\ Applied
  /\ Stage("audited") /\ ceremony' = 0
  /\ UNCHANGED <<memories, snapshots>> /\ Unmoved

\* The process stops anywhere and starts again: calls in flight are gone.
MemoryRestart ==
  /\ memoryRestarts < MaxRestarts
  /\ memoryRestarts' = memoryRestarts + 1
  /\ observer' = [e \in Event |->
       IF observer[e].at \in {"unseen", "placed"} THEN observer[e]
       ELSE [at |-> "lost", current |-> 0]]
  /\ maintainer' = [t \in Maintainer |-> AtRest]
  /\ ceremony' = 0
  /\ UNCHANGED <<episodes, memories, actions, snapshots>>

MemoryNext ==
  \/ \E e \in Event : Observe(e) \/ ObserveCloses(e) \/ ObservePlaces(e)
  \/ \E t \in Maintainer :
       \/ StartMaintenance(t) \/ CloseDueEpisode(t) \/ ReadPending(t)
       \/ EncodeEpisode(t) \/ Summarise(t) \/ MarkEncoded(t) \/ EndMaintenance(t)
  \/ \E m \in MemoryIds, op \in Operations, dryRun, confirm \in BOOLEAN :
       Request(m, op, dryRun, confirm)
  \/ Snapshot \/ Apply \/ Finish
  \/ MemoryRestart

MemorySpec == MemoryInit /\ [][MemoryNext]_memoryVars
---------------------------------------------------------------------------
(* Properties.                                                             *)

\* An event is remembered once: however two maintenances and two observers
\* interleave, and wherever they are cut, no event is a source of two memories,
\* and an episode recorded as encoded has its memory (memory/engine.py: an
\* encoding cut between its two writes is taken up again, not repeated).
RememberedOnce ==
  /\ \A m, n \in MemoryIds :
       m # n /\ memories[m].status # "absent" /\ memories[n].status # "absent"
         => memories[m].sources \cap memories[n].sources = {}
  /\ \A i \in EpisodeIds : episodes[i].status = "encoded" =>
       \E m \in MemoryIds : memories[m].episode = i

\* A memory is destroyed only by a confirmed operation on it that is on
\* record with its snapshot, and that snapshot still held the memory.
DestroyedIsInASnapshot ==
  \A m \in MemoryIds : memories[m].status = "absent" \/ memories[m].redacted =>
    /\ \E a \in DOMAIN actions :
         /\ actions[a].target = m /\ actions[a].snapshot /\ ~actions[a].dry
         /\ actions[a].stage \in {"snapshotted", "audited"}
    /\ \E s \in snapshots : m \in DOMAIN s /\ s[m]

\* What the impact analysis says of a hard delete: "this removes the
\* subjective memory permanently".  The episode does not come back.
DeletedStaysDeleted ==
  \A m \in MemoryIds : memories[m].status = "absent" =>
    MemoryForEpisode(memories[m].episode) = {}
=============================================================================
