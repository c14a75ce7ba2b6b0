-------------------------- MODULE InnerLifeProofs --------------------------
(***************************************************************************)
(* Theorems about what goes on in her: what she remembers and recalls, how *)
(* she feels, what the bond is worth, and what she may say.  The parts     *)
(* share no state; each has an inductive invariant of its own, and every   *)
(* theorem holds for all values of the constants of its component.         *)
(***************************************************************************)
EXTENDS Memory, Recall, Bond, Feelings, Reply, FiniteSetTheorems, TLAPS

-----------------------------------------------------------------------------
(***************************************************************************)
(* An event is remembered once, and what was destroyed is in a snapshot,   *)
(* for any numbers of events, maintenances, episodes and operations.       *)
(*                                                                         *)
(* Neither property is inductive.  Observers and maintainers work on what  *)
(* they read earlier: the invariant says that a copy holds no event its    *)
(* episode does not hold, that an event is in an episode only once its     *)
(* observer has placed it, and that what is about to be marked encoded has *)
(* its memory.  The ceremony is trusted with what it has established: that *)
(* the memory of an operation is there, and then that it is in a snapshot. *)
(***************************************************************************)

Status  == {"open", "closed", "encoded", "discarded"}
Episode == [status : Status, events : SUBSET Event]
Row     == [episode : Nat, sources : SUBSET Event,
            status : {"active", "suppressed", "invalidated", "absent"}, redacted : BOOLEAN]
Action  == [operation : Operations, target : Nat,
            stage : {"previewed", "confirmed", "refused", "snapshotted", "audited"},
            dry : BOOLEAN, snapshot : BOOLEAN]
Copy    == [id : Nat, events : SUBSET Event]
Task    == [at : {"idle", "closing", "encoding", "summarising", "marking"},
            todo : SUBSET Copy]

MemoryTypeInv ==
  /\ episodes \in Seq(Episode)
  /\ memories \in Seq(Row)
  /\ observer = [e \in Event |-> observer[e]]
  /\ maintainer \in [Maintainer -> Task]
  /\ actions \in Seq(Action)
  /\ ceremony \in Nat

\* An event is in one episode, and in none before it is placed.
EpisodesInv ==
  /\ \A i \in EpisodeIds : \A e \in episodes[i].events : observer[e].at = "placed"
  /\ \A i, j \in EpisodeIds : i # j => episodes[i].events \cap episodes[j].events = {}

\* Copies and memories hold what their episode holds.
IsOf(id, events) == id \in EpisodeIds /\ events \subseteq episodes[id].events

CopiesInv ==
  \A t \in Maintainer : \A c \in maintainer[t].todo : IsOf(c.id, c.events)

There(m) == memories[m].status # "absent"

MemoriesInv ==
  /\ \A m \in MemoryIds : IsOf(memories[m].episode, memories[m].sources)
  /\ \A m, n \in MemoryIds :
       m # n /\ There(m) /\ There(n) => memories[m].episode # memories[n].episode

HasMemory(i) == \E m \in MemoryIds : memories[m].episode = i

EncodedInv ==
  /\ \A i \in EpisodeIds : episodes[i].status = "encoded" => HasMemory(i)
  /\ \A t \in Maintainer : maintainer[t].at = "marking" =>
       \A c \in Current(t) : HasMemory(c.id)

InSnapshot(m) == \E s \in snapshots : m \in DOMAIN s /\ s[m]

\* What the ceremony in flight has established.
CeremonyInv ==
  ceremony # 0 =>
    /\ ceremony \in DOMAIN actions /\ ~Operation.dry
    /\ Operation.target \in MemoryIds
    /\ Operation.operation # "hard_delete" \/ Operation.stage = "confirmed" =>
         There(Operation.target)
    /\ Operation.stage = "snapshotted" => Operation.snapshot /\ InSnapshot(Operation.target)

MemoryInv == MemoryTypeInv /\ EpisodesInv /\ CopiesInv /\ MemoriesInv /\ EncodedInv /\ CeremonyInv
          /\ DestroyedIsInASnapshot

LEMMA MemoryInitially == MemoryInit => MemoryInv
<1>1. SUFFICES ASSUME MemoryInit PROVE MemoryInv
  OBVIOUS
<1>2. /\ episodes = <<>> /\ memories = <<>> /\ actions = <<>> /\ ceremony = 0
      /\ observer = [e \in Event |-> [at |-> "unseen", current |-> 0]]
      /\ maintainer = [t \in Maintainer |-> AtRest]
  BY <1>1, Zenon DEF MemoryInit
<1>3. AtRest \in Task /\ AtRest.at = "idle" /\ AtRest.todo = {}
  BY DEF AtRest, Task
<1>4. observer = [e \in Event |-> observer[e]]
  BY <1>2
<1>5. maintainer \in [Maintainer -> Task] /\ \A t \in Maintainer : maintainer[t] = AtRest
  BY <1>2, <1>3
<1>6. MemoryTypeInv
  BY <1>2, <1>4, <1>5 DEF MemoryTypeInv
<1>7. EpisodesInv /\ MemoriesInv /\ DestroyedIsInASnapshot /\ CeremonyInv
  BY <1>2 DEF EpisodesInv, MemoriesInv, DestroyedIsInASnapshot, CeremonyInv, EpisodeIds,
     MemoryIds
<1>8. CopiesInv /\ EncodedInv
  BY <1>2, <1>3, <1>5 DEF CopiesInv, EncodedInv, EpisodeIds
<1>9. QED
  BY <1>6, <1>7, <1>8 DEF MemoryInv

-----------------------------------------------------------------------------
(* What a step leaves of the tables.                                       *)

\* The same episodes with the same events.
EventsStay ==
  /\ EpisodeIds' = EpisodeIds
  /\ \A i \in EpisodeIds : episodes'[i].events = episodes[i].events

\* A status moves, the events stay.
LEMMA StatusMoves ==
  ASSUME MemoryTypeInv, NEW i, NEW s \in Status, MarkEpisode(i, s)
  PROVE  /\ episodes' \in Seq(Episode) /\ EventsStay
         /\ \A j \in EpisodeIds : episodes'[j].status = episodes[j].status
                                  \/ (j = i /\ episodes'[j].status = s)
<1> USE DEF EventsStay, EpisodeIds
<1>1. episodes \in Seq(Episode) /\ DOMAIN episodes = 1..Len(episodes)
  BY DEF MemoryTypeInv
<1>2. CASE i \in DOMAIN episodes
  <2> DEFINE new == [episodes[i] EXCEPT !.status = s]
  <2>1. episodes[i] \in Episode
    BY <1>1, <1>2
  <2>2. new \in Episode /\ new.status = s /\ new.events = episodes[i].events
    BY <2>1 DEF Episode
  <2>3. episodes' = [episodes EXCEPT ![i] = new]
    BY DEF MarkEpisode
  <2> HIDE DEF new
  <2>4. QED
    BY <1>1, <1>2, <2>2, <2>3
<1>3. CASE i \notin DOMAIN episodes
  <2>1. episodes' = episodes
    BY <1>1, <1>3 DEF MarkEpisode
  <2>2. QED
    BY <1>1, <2>1
<1>4. QED
  BY <1>2, <1>3

LEMMA EpisodesMove ==
  ASSUME MemoryTypeInv, [MemoryNext]_memoryVars
  PROVE  \/ episodes' \in Seq(Episode) /\ EventsStay
         \/ \E e \in Event : ObservePlaces(e)
<1>1. ASSUME NEW i, NEW s \in Status, MarkEpisode(i, s) \/ UNCHANGED episodes
      PROVE  episodes' \in Seq(Episode) /\ EventsStay
  BY <1>1, StatusMoves DEF MemoryTypeInv, EventsStay, EpisodeIds
<1>2. CASE UNCHANGED episodes
  BY <1>2 DEF MemoryTypeInv, EventsStay, EpisodeIds
<1>3. ASSUME NEW e \in Event, ObserveCloses(e)
      PROVE  episodes' \in Seq(Episode) /\ EventsStay
  BY <1>1, <1>3 DEF ObserveCloses, CloseEpisode, MarkEpisode, Status
<1>4. ASSUME NEW t \in Maintainer,
             CloseDueEpisode(t) \/ EncodeEpisode(t) \/ Summarise(t) \/ MarkEncoded(t)
      PROVE  episodes' \in Seq(Episode) /\ EventsStay
  <2>1. PICK i : \/ UNCHANGED episodes \/ CloseEpisode(i)
                 \/ MarkEpisode(i, "discarded") \/ MarkEpisode(i, "encoded")
    <3>1. CASE CloseDueEpisode(t)
      BY <3>1 DEF CloseDueEpisode
    <3>2. CASE EncodeEpisode(t)
      BY <3>2 DEF EncodeEpisode
    <3>3. CASE Summarise(t)
      BY <3>3 DEF Summarise
    <3>4. CASE MarkEncoded(t)
      BY <3>4 DEF MarkEncoded
    <3>5. QED
      BY <1>4, <3>1, <3>2, <3>3, <3>4
  <2>2. CloseEpisode(i) => MarkEpisode(i, "closed")
    BY DEF CloseEpisode, MarkEpisode
  <2>3. "closed" \in Status /\ "discarded" \in Status /\ "encoded" \in Status
    BY DEF Status
  <2>4. QED
    BY <1>1, <1>2, <2>1, <2>2, <2>3
<1>5. QED
  BY <1>2, <1>3, <1>4 DEF MemoryNext, Observe, StartMaintenance, ReadPending, EndMaintenance,
     Request, Snapshot, Apply, Finish, Unmoved, MemoryRestart, memoryVars

\* An event is placed: in a new episode, or in one that is there.
LEMMA EventPlaced ==
  ASSUME MemoryTypeInv, NEW e \in Event, ObservePlaces(e)
  PROVE  /\ episodes' \in Seq(Episode) /\ EpisodeIds \subseteq EpisodeIds'
         /\ \A i \in EpisodeIds : episodes[i].events \subseteq episodes'[i].events
         /\ \A i \in EpisodeIds : episodes'[i].status = episodes[i].status
         /\ \A i \in EpisodeIds' \ EpisodeIds : /\ episodes'[i].status = "open"
                                                /\ episodes'[i].events = {e}
         /\ \E i : \A j \in EpisodeIds' :
              \A f \in episodes'[j].events : \/ f = e /\ j = i
                                             \/ j \in EpisodeIds /\ f \in episodes[j].events
<1> USE DEF EpisodeIds
<1>1. /\ episodes \in Seq(Episode) /\ DOMAIN episodes = 1..Len(episodes)
      /\ Len(episodes) \in Nat
  BY DEF MemoryTypeInv
<1>2. CASE OpenEpisode(e)
  <2> DEFINE new == [status |-> "open", events |-> {e}]
  <2>1. new \in Episode /\ new.status = "open" /\ new.events = {e}
    BY DEF Episode, Status
  <2>2. episodes' = Append(episodes, new)
    BY <1>2 DEF OpenEpisode
  <2> HIDE DEF new
  <2>3. /\ episodes' \in Seq(Episode) /\ Len(episodes') = Len(episodes) + 1
        /\ episodes'[Len(episodes) + 1] = new
        /\ \A i \in 1..Len(episodes) : episodes'[i] = episodes[i]
        /\ DOMAIN episodes' = 1..(Len(episodes) + 1)
    <3>1. /\ Append(episodes, new) \in Seq(Episode)
          /\ Len(Append(episodes, new)) = Len(episodes) + 1
          /\ Append(episodes, new)[Len(episodes) + 1] = new
          /\ \A i \in 1..Len(episodes) : Append(episodes, new)[i] = episodes[i]
      BY <1>1, <2>1
    <3>2. QED
      BY <2>2, <3>1
  <2>4. \A j \in DOMAIN episodes' :
          \/ j = Len(episodes) + 1 /\ episodes'[j] = new
          \/ j \in DOMAIN episodes /\ episodes'[j] = episodes[j]
    BY <1>1, <2>3
  <2>5. DOMAIN episodes \subseteq DOMAIN episodes'
    BY <1>1, <2>3
  <2>6. \A i \in DOMAIN episodes : episodes'[i] = episodes[i]
    BY <1>1, <2>3
  <2>7. \A j \in DOMAIN episodes' :
          \A f \in episodes'[j].events : \/ f = e /\ j = Len(episodes) + 1
                                         \/ j \in DOMAIN episodes /\ f \in episodes[j].events
    BY <2>1, <2>4
  <2>8. \A i \in DOMAIN episodes' \ DOMAIN episodes : episodes'[i] = new
    BY <2>4
  <2>9. QED
    BY <2>1, <2>3, <2>5, <2>6, <2>7, <2>8
<1>3. CASE AppendToEpisode(observer[e].current, e) /\ observer[e].current \in DOMAIN episodes
  <2> DEFINE i == observer[e].current
             new == [episodes[i] EXCEPT !.events = @ \cup {e}]
  <2>1. episodes[i] \in Episode
    BY <1>1, <1>3
  <2>2. /\ new \in Episode /\ new.status = episodes[i].status
        /\ new.events = episodes[i].events \cup {e}
    BY <2>1 DEF Episode
  <2>3. episodes' = [episodes EXCEPT ![i] = new]
    BY <1>3 DEF AppendToEpisode
  <2> HIDE DEF i, new
  <2>4. /\ episodes' \in Seq(Episode) /\ DOMAIN episodes' = DOMAIN episodes
        /\ episodes'[i] = new
        /\ \A j \in DOMAIN episodes : j # i => episodes'[j] = episodes[j]
    BY <1>1, <1>3, <2>2, <2>3 DEF i
  <2>5. QED
    BY <2>2, <2>4
<1>4. CASE AppendToEpisode(observer[e].current, e) /\ observer[e].current \notin DOMAIN episodes
  <2>1. episodes' = episodes
    BY <1>1, <1>4 DEF AppendToEpisode
  <2>2. QED
    BY <1>1, <2>1
<1>5. QED
  BY <1>2, <1>3, <1>4 DEF ObservePlaces

\* What holds something of an episode still does.
LEMMA HeldIsHeld ==
  ASSUME MemoryTypeInv, [MemoryNext]_memoryVars, NEW i, NEW held, IsOf(i, held)
  PROVE  IsOf(i, held)'
<1>1. EpisodeIds \subseteq EpisodeIds'
      /\ \A j \in EpisodeIds : episodes[j].events \subseteq episodes'[j].events
  <2>1. CASE EventsStay
    BY <2>1 DEF EventsStay
  <2>2. ASSUME NEW e \in Event, ObservePlaces(e)
        PROVE  EpisodeIds \subseteq EpisodeIds'
               /\ \A j \in EpisodeIds : episodes[j].events \subseteq episodes'[j].events
    BY <2>2, EventPlaced
  <2>3. QED
    BY <2>1, <2>2, EpisodesMove
<1>2. QED
  BY <1>1 DEF IsOf

LEMMA EpisodesKept ==
  ASSUME MemoryTypeInv, EpisodesInv, [MemoryNext]_memoryVars
  PROVE  EpisodesInv'
<1>1. \A e \in Event : observer[e].at = "placed" => observer'[e].at = "placed"
  BY DEF MemoryTypeInv, MemoryNext, Observe, ObserveCloses, ObservePlaces, StartMaintenance,
     CloseDueEpisode, ReadPending, EncodeEpisode, Summarise, MarkEncoded, EndMaintenance,
     Request, Snapshot, Apply, Finish, Unmoved, MemoryRestart, memoryVars
<1>2. \A i \in EpisodeIds : episodes[i].events \subseteq Event
  <2>1. \A i \in EpisodeIds : episodes[i] \in Episode
    BY DEF MemoryTypeInv, EpisodeIds
  <2>2. QED
    BY <2>1 DEF Episode
<1>3. CASE EventsStay
  BY <1>1, <1>2, <1>3 DEF EventsStay, EpisodesInv
<1>4. ASSUME NEW e \in Event, ObservePlaces(e)
      PROVE  EpisodesInv'
  <2>1. PICK i : \A j \in EpisodeIds' :
              \A f \in episodes'[j].events : \/ f = e /\ j = i
                                             \/ j \in EpisodeIds /\ f \in episodes[j].events
    BY <1>4, EventPlaced
  <2>2. observer[e].at = "placing" /\ observer'[e].at = "placed"
    BY <1>4 DEF ObservePlaces, MemoryTypeInv
  <2>3. \A j \in EpisodeIds : e \notin episodes[j].events
    BY <2>2 DEF EpisodesInv
  <2>4. \A j \in EpisodeIds' : \A f \in episodes'[j].events : observer'[f].at = "placed"
    BY <1>1, <1>2, <2>1, <2>2 DEF EpisodesInv
  <2>5. \A j, k \in EpisodeIds' : \A f :
          f \in episodes'[j].events /\ f \in episodes'[k].events => j = k
    BY <2>1, <2>3 DEF EpisodesInv
  <2>6. QED
    BY <2>4, <2>5 DEF EpisodesInv
<1>5. QED
  BY <1>3, <1>4, EpisodesMove

-----------------------------------------------------------------------------
(* The maintainers and their copies.                                       *)

LEMMA TaskMoves ==
  ASSUME MemoryTypeInv, NEW t \in Maintainer, NEW to \in {"closing", "encoding", "summarising", "marking"},
         NEW todo \in SUBSET Copy, Maintain(t, to, todo)
  PROVE  /\ maintainer' \in [Maintainer -> Task]
         /\ maintainer'[t].at = to /\ maintainer'[t].todo = todo
         /\ \A u \in Maintainer : u # t => maintainer'[u] = maintainer[u]
<1> DEFINE new == [at |-> to, todo |-> todo]
<1>1. new \in Task /\ new.at = to /\ new.todo = todo
  BY DEF Task
<1>2. maintainer' = [maintainer EXCEPT ![t] = new]
  BY DEF Maintain
<1> HIDE DEF new
<1>3. QED
  BY <1>1, <1>2 DEF MemoryTypeInv

\* A task goes on with fewer of its copies, or reads the episodes anew.
LEMMA TasksMove ==
  ASSUME MemoryTypeInv, [MemoryNext]_memoryVars
  PROVE  /\ maintainer' \in [Maintainer -> Task]
         /\ \A t \in Maintainer :
              \A c \in maintainer'[t].todo : c \in maintainer[t].todo \/ IsOf(c.id, c.events)
         /\ \A t \in Maintainer : maintainer'[t].at = "marking" =>
              \/ maintainer'[t] = maintainer[t]
              \/ Summarise(t) /\ maintainer'[t].todo = maintainer[t].todo
<1>1. \A t \in Maintainer : maintainer[t].todo \subseteq Copy
  BY DEF MemoryTypeInv, Task
<1>2. CASE UNCHANGED maintainer
  BY <1>2 DEF MemoryTypeInv
<1>3. ASSUME NEW t \in Maintainer, NEW todo \in SUBSET Copy,
             NEW to \in {"closing", "encoding", "summarising"}, Maintain(t, to, todo),
             \A c \in todo : c \in maintainer[t].todo \/ IsOf(c.id, c.events)
      PROVE  /\ maintainer' \in [Maintainer -> Task]
             /\ \A u \in Maintainer :
                  \A c \in maintainer'[u].todo : c \in maintainer[u].todo \/ IsOf(c.id, c.events)
             /\ \A u \in Maintainer : maintainer'[u].at = "marking" =>
                  maintainer'[u] = maintainer[u]
  BY <1>3, TaskMoves
<1>4. ASSUME NEW t \in Maintainer, NEW c,
             GoOn(t, "closing", c) \/ GoOn(t, "encoding", c) \/ StayWith(t, "summarising")
      PROVE  /\ maintainer' \in [Maintainer -> Task]
             /\ \A u \in Maintainer :
                  \A d \in maintainer'[u].todo : d \in maintainer[u].todo \/ IsOf(d.id, d.events)
             /\ \A u \in Maintainer : maintainer'[u].at = "marking" =>
                  maintainer'[u] = maintainer[u]
  BY <1>1, <1>3, <1>4 DEF GoOn, StayWith
<1>5. ASSUME NEW t \in Maintainer, StartMaintenance(t)
      PROVE  /\ maintainer' \in [Maintainer -> Task]
             /\ \A u \in Maintainer :
                  \A d \in maintainer'[u].todo : d \in maintainer[u].todo \/ IsOf(d.id, d.events)
             /\ \A u \in Maintainer : maintainer'[u].at = "marking" =>
                  maintainer'[u] = maintainer[u]
  <2>1. PICK due \in SUBSET EpisodeIds :
          Maintain(t, "closing", {[id |-> i, events |-> {}] : i \in due})
    BY <1>5 DEF StartMaintenance
  <2> DEFINE todo == {[id |-> i, events |-> {}] : i \in due}
  <2>2. todo \in SUBSET Copy /\ \A c \in todo : IsOf(c.id, c.events)
    BY DEF Copy, IsOf, MemoryTypeInv, EpisodeIds
  <2> HIDE DEF todo
  <2>3. QED
    BY <1>3, <2>1, <2>2 DEF todo
<1>6. ASSUME NEW t \in Maintainer, ReadPending(t)
      PROVE  /\ maintainer' \in [Maintainer -> Task]
             /\ \A u \in Maintainer :
                  \A d \in maintainer'[u].todo : d \in maintainer[u].todo \/ IsOf(d.id, d.events)
             /\ \A u \in Maintainer : maintainer'[u].at = "marking" =>
                  maintainer'[u] = maintainer[u]
  <2>1. Maintain(t, "encoding", PendingEpisodes)
    BY <1>6 DEF ReadPending
  <2>2. PendingEpisodes \in SUBSET Copy /\ \A c \in PendingEpisodes : IsOf(c.id, c.events)
    <3> DEFINE copy(i) == [id |-> i, events |-> episodes[i].events]
    <3>1. ASSUME NEW i \in EpisodeIds
          PROVE  copy(i) \in Copy /\ IsOf(copy(i).id, copy(i).events)
      <4>1. i \in Nat /\ episodes[i] \in Episode
        BY DEF MemoryTypeInv, EpisodeIds
      <4>2. QED
        BY <4>1 DEF Episode, Copy, IsOf
    <3>2. \A c \in PendingEpisodes : \E i \in EpisodeIds : c = copy(i)
      BY DEF PendingEpisodes
    <3> HIDE DEF copy
    <3>3. QED
      BY <3>1, <3>2
  <2>3. QED
    BY <1>3, <2>1, <2>2
<1>7. ASSUME NEW t \in Maintainer, Summarise(t), StayWith(t, "marking")
      PROVE  /\ maintainer' \in [Maintainer -> Task]
             /\ \A u \in Maintainer : maintainer'[u].todo = maintainer[u].todo
             /\ \A u \in Maintainer : u # t => maintainer'[u] = maintainer[u]
  BY <1>1, <1>7, TaskMoves DEF StayWith
<1>8. CASE (\E t \in Maintainer : EndMaintenance(t)) \/ MemoryRestart
  <2>1. AtRest \in Task /\ AtRest.at = "idle" /\ AtRest.todo = {}
    BY DEF AtRest, Task
  <2>2. QED
    BY <1>8, <2>1 DEF EndMaintenance, MemoryRestart, MemoryTypeInv
<1>9. QED
  BY <1>2, <1>4, <1>5, <1>6, <1>7, <1>8 DEF MemoryNext, Observe, ObserveCloses, ObservePlaces,
     CloseDueEpisode, EncodeEpisode, Summarise, MarkEncoded, Request, Snapshot, Apply,
     Finish, Unmoved, memoryVars

LEMMA CopiesKept ==
  ASSUME MemoryTypeInv, CopiesInv, [MemoryNext]_memoryVars
  PROVE  CopiesInv'
  BY TasksMove, HeldIsHeld DEF CopiesInv

-----------------------------------------------------------------------------
(* The memories, one of an episode.                                        *)

LEMMA RowMoves ==
  ASSUME MemoryTypeInv, NEW m \in MemoryIds, NEW new \in Row, memories' = [memories EXCEPT ![m] = new]
  PROVE  /\ memories' \in Seq(Row) /\ MemoryIds' = MemoryIds /\ memories'[m] = new
         /\ \A n \in MemoryIds : n # m => memories'[n] = memories[n]
<1>1. memories \in Seq(Row) /\ DOMAIN memories = 1..Len(memories)
  BY DEF MemoryTypeInv
<1>2. QED
  BY <1>1 DEF MemoryIds

\* An operation on a memory changes its status or redacts it, no more; it
\* brings back no memory, and only a hard deletion or a redaction destroys.
LEMMA Applies ==
  ASSUME MemoryTypeInv, CeremonyInv, Apply, NEW m, m = Operation.target
  PROVE  /\ memories' \in Seq(Row) /\ MemoryIds' = MemoryIds
         /\ m \in MemoryIds /\ ceremony # 0
         /\ \A n \in MemoryIds : n # m => memories'[n] = memories[n]
         /\ memories'[m].episode = memories[m].episode
         /\ memories'[m].sources = memories[m].sources
         /\ There(m)' => There(m)
         /\ Operation.operation # "hard_delete" => There(m)'
         /\ Operation.operation \notin {"redact", "hard_delete"} =>
              memories'[m].redacted = memories[m].redacted
<1>1. ceremony # 0 /\ m \in MemoryIds /\ memories[m] \in Row
  BY DEF Apply, CeremonyInv, MemoryTypeInv, MemoryIds
<1>2. Operation.operation # "hard_delete" => There(m)
  BY <1>1 DEF CeremonyInv
<1> DEFINE Becomes(new) ==
             /\ memories' = [memories EXCEPT ![m] = new]
             /\ new.episode = memories[m].episode
             /\ new.sources = memories[m].sources
             /\ new.status # "absent" <=> Operation.operation # "hard_delete"
             /\ Operation.operation \notin {"redact", "hard_delete"} =>
                  new.redacted = memories[m].redacted
<1>3. \E row \in Row : Becomes(row)
  <2> DEFINE With(s) == [memories[m] EXCEPT !.status = s]
             Redacted == [memories[m] EXCEPT !.redacted = TRUE]
  <2>1. \A s \in {"suppressed", "invalidated", "absent"} :
          /\ With(s) \in Row /\ With(s).status = s /\ With(s).episode = memories[m].episode
          /\ With(s).sources = memories[m].sources
          /\ With(s).redacted = memories[m].redacted
    BY <1>1 DEF Row
  <2>2. /\ Redacted \in Row /\ Redacted.status = memories[m].status
        /\ Redacted.episode = memories[m].episode /\ Redacted.sources = memories[m].sources
    BY <1>1 DEF Row
  <2>3. CASE \/ Operation.operation = "suppress"
             \/ Operation.operation = "redact" /\ memories[m].redacted
    <3>1. memories' = [memories EXCEPT ![m] = With("suppressed")]
      BY <2>3 DEF Apply
    <3> HIDE DEF With
    <3>2. QED
      BY <2>1, <2>3, <3>1
  <2>4. CASE Operation.operation = "invalidate"
    <3>1. memories' = [memories EXCEPT ![m] = With("invalidated")]
      BY <2>4 DEF Apply
    <3> HIDE DEF With
    <3>2. QED
      BY <2>1, <2>4, <3>1
  <2>5. CASE Operation.operation = "redact" /\ ~memories[m].redacted
    <3>1. memories' = [memories EXCEPT ![m] = Redacted]
      BY <2>5 DEF Apply
    <3> HIDE DEF Redacted
    <3>2. QED
      BY <1>2, <2>2, <2>5, <3>1 DEF There
  <2>6. CASE Operation.operation = "hard_delete"
    <3>1. memories' = [memories EXCEPT ![m] = With("absent")]
      BY <2>6 DEF Apply
    <3> HIDE DEF With
    <3>2. QED
      BY <2>1, <2>6, <3>1
  <2>7. Operation.operation \in Operations
    <3>1. ceremony \in DOMAIN actions
      BY <1>1 DEF CeremonyInv
    <3>2. actions[ceremony] \in Action
      BY <3>1 DEF MemoryTypeInv
    <3>3. QED
      BY <3>2 DEF Action, Operation
  <2>8. \/ Operation.operation = "suppress" \/ Operation.operation = "invalidate"
        \/ Operation.operation = "redact" \/ Operation.operation = "hard_delete"
    BY <2>7 DEF Operations
  <2>9. CASE Operation.operation = "redact"
    BY <2>3, <2>5, <2>9, Zenon
  <2> HIDE DEF Becomes
  <2>10. QED
    BY <2>3, <2>4, <2>6, <2>8, <2>9
<1>4. PICK new \in Row : Becomes(new)
  BY <1>3
<1>5. /\ memories' \in Seq(Row) /\ MemoryIds' = MemoryIds /\ memories'[m] = new
      /\ \A n \in MemoryIds : n # m => memories'[n] = memories[n]
  BY <1>1, <1>4, RowMoves
<1>6. QED
  BY <1>1, <1>2, <1>4, <1>5 DEF There

RowOf(copy) ==
  [episode |-> copy.id, sources |-> copy.events, status |-> "active", redacted |-> FALSE]

LEMMA RowAdded ==
  ASSUME MemoryTypeInv, NEW c \in Copy, memories' = Append(memories, RowOf(c)),
         NEW n, n = Len(memories) + 1
  PROVE  /\ memories' \in Seq(Row) /\ n \notin MemoryIds /\ MemoryIds' = MemoryIds \cup {n}
         /\ \A m \in MemoryIds : memories'[m] = memories[m]
         /\ memories'[n].episode = c.id /\ memories'[n].sources = c.events
         /\ memories'[n].status = "active" /\ ~memories'[n].redacted
<1> DEFINE new == RowOf(c)
<1>1. /\ new \in Row /\ new.episode = c.id /\ new.sources = c.events
      /\ new.status = "active" /\ ~new.redacted
  BY DEF RowOf, Row, Copy
<1>2. memories \in Seq(Row) /\ DOMAIN memories = 1..Len(memories) /\ Len(memories) \in Nat
  BY DEF MemoryTypeInv
<1> HIDE DEF new
<1>3. /\ Append(memories, new) \in Seq(Row) /\ Len(Append(memories, new)) = n
      /\ Append(memories, new)[n] = new
      /\ \A m \in 1..Len(memories) : Append(memories, new)[m] = memories[m]
  BY <1>1, <1>2
<1>4. /\ memories' \in Seq(Row) /\ memories'[n] = new /\ DOMAIN memories' = 1..n
      /\ \A m \in 1..Len(memories) : memories'[m] = memories[m]
  BY <1>3 DEF new
<1>5. MemoryIds' = MemoryIds \cup {n} /\ n \notin MemoryIds
  BY <1>2, <1>4 DEF MemoryIds
<1>6. QED
  BY <1>1, <1>2, <1>4, <1>5 DEF MemoryIds

LEMMA MemoriesMove ==
  ASSUME MemoryTypeInv, [MemoryNext]_memoryVars
  PROVE  \/ UNCHANGED memories
         \/ Apply
         \/ \E t \in Maintainer : \E c \in Current(t) :
              /\ MemoryForEpisode(c.id) = {} /\ memories' = Append(memories, RowOf(c))
              /\ UNCHANGED <<episodes, observer, actions, ceremony, snapshots>>
<1>1. ASSUME NEW t \in Maintainer, Summarise(t), memories' # memories
      PROVE  \E c \in Current(t) :
               /\ MemoryForEpisode(c.id) = {} /\ memories' = Append(memories, RowOf(c))
               /\ UNCHANGED <<episodes, observer, actions, ceremony, snapshots>>
  <2>1. PICK c \in Current(t) : InsertMemory(c) /\ UNCHANGED episodes
    BY <1>1 DEF Summarise
  <2>2. MemoryForEpisode(c.id) = {} /\ memories' = Append(memories, RowOf(c))
    BY <1>1, <2>1 DEF InsertMemory, RowOf
  <2>3. QED
    BY <1>1, <2>1, <2>2 DEF Summarise
<1>2. QED
  BY <1>1 DEF MemoryNext, Observe, ObserveCloses, ObservePlaces, StartMaintenance,
     CloseDueEpisode, ReadPending, EncodeEpisode, MarkEncoded, EndMaintenance, Request,
     Snapshot, Finish, MemoryRestart, memoryVars

\* No memory loses its episode or its sources, and none comes back.
LEMMA RowsStay ==
  ASSUME MemoryTypeInv, CeremonyInv, [MemoryNext]_memoryVars
  PROVE  /\ memories' \in Seq(Row) /\ MemoryIds \subseteq MemoryIds'
         /\ \A m \in MemoryIds : /\ memories'[m].episode = memories[m].episode
                                 /\ memories'[m].sources = memories[m].sources
                                 /\ There(m)' => There(m)
<1>1. CASE UNCHANGED memories
  BY <1>1 DEF MemoryTypeInv, MemoryIds, There
<1>2. CASE Apply
  BY <1>2, Applies DEF There
<1>3. ASSUME NEW t \in Maintainer, NEW c \in Current(t), memories' = Append(memories, RowOf(c))
      PROVE  /\ memories' \in Seq(Row) /\ MemoryIds \subseteq MemoryIds'
             /\ \A m \in MemoryIds : memories'[m] = memories[m]
  <2>1. c \in Copy
    BY DEF Current, MemoryTypeInv, Task
  <2>2. QED
    BY <1>3, <2>1, RowAdded
<1>4. QED
  BY <1>1, <1>2, <1>3, MemoriesMove DEF There

LEMMA MemoriesKept ==
  ASSUME MemoryTypeInv, CopiesInv, MemoriesInv, CeremonyInv, [MemoryNext]_memoryVars
  PROVE  MemoriesInv'
<1>1. \A m \in MemoryIds : IsOf(memories[m].episode, memories[m].sources)'
  <2>1. \A m \in MemoryIds : IsOf(memories[m].episode, memories[m].sources)
    BY DEF MemoriesInv
  <2>2. QED
    BY <2>1, HeldIsHeld, RowsStay DEF IsOf
<1>2. CASE MemoryIds' = MemoryIds
  BY <1>1, <1>2, RowsStay DEF MemoriesInv
<1>3. ASSUME NEW t \in Maintainer, NEW c \in Current(t),
             MemoryForEpisode(c.id) = {}, memories' = Append(memories, RowOf(c))
      PROVE  MemoriesInv'
  <2> DEFINE n == Len(memories) + 1
  <2>1. c \in Copy /\ IsOf(c.id, c.events)'
    BY HeldIsHeld DEF Current, MemoryTypeInv, Task, CopiesInv
  <2>2. /\ n \notin MemoryIds /\ MemoryIds' = MemoryIds \cup {n}
        /\ \A m \in MemoryIds : memories'[m] = memories[m]
        /\ memories'[n].episode = c.id /\ memories'[n].sources = c.events
    BY <1>3, <2>1, RowAdded
  <2>3. \A m \in MemoryIds : There(m) => memories[m].episode # c.id
    BY <1>3 DEF MemoryForEpisode, There
  <2> HIDE DEF n
  <2>4. \A m \in MemoryIds' : IsOf(memories[m].episode, memories[m].sources)'
    BY <1>1, <2>1, <2>2 DEF IsOf
  <2>5. \A m, k \in MemoryIds' :
          m # k /\ There(m)' /\ There(k)' => memories'[m].episode # memories'[k].episode
    BY <2>2, <2>3 DEF MemoriesInv, There
  <2>6. QED
    BY <2>4, <2>5 DEF MemoriesInv
<1>4. QED
  BY <1>2, <1>3, MemoriesMove, Applies DEF MemoryIds

LEMMA MemoryStays ==
  ASSUME MemoryTypeInv, CeremonyInv, [MemoryNext]_memoryVars, NEW i, HasMemory(i)
  PROVE  HasMemory(i)'
  BY RowsStay DEF HasMemory

LEMMA EncodedKept ==
  ASSUME MemoryTypeInv, CeremonyInv, EncodedInv, [MemoryNext]_memoryVars
  PROVE  EncodedInv'
<1>1. ASSUME NEW i \in EpisodeIds', episodes'[i].status = "encoded"
      PROVE  HasMemory(i)'
  <2>1. CASE i \in EpisodeIds /\ episodes[i].status = "encoded"
    BY <2>1, MemoryStays DEF EncodedInv
  <2>2. CASE UNCHANGED episodes
    BY <1>1, <2>1, <2>2 DEF EpisodeIds
  <2>3. ASSUME NEW e \in Event, ObservePlaces(e)
        PROVE  HasMemory(i)'
    BY <1>1, <2>1, <2>3, EventPlaced
  <2>4. ASSUME NEW j, NEW st \in Status \ {"encoded"}, MarkEpisode(j, st)
        PROVE  HasMemory(i)'
    <3>1. i \in EpisodeIds /\ episodes[i].status = "encoded"
      BY <1>1, <2>4, StatusMoves DEF EventsStay
    <3>2. QED
      BY <2>1, <3>1
  <2>5. ASSUME NEW t \in Maintainer, MarkEncoded(t)
        PROVE  HasMemory(i)'
    <3>1. PICK c \in Current(t) : MarkEpisode(c.id, "encoded")
      BY <2>5 DEF MarkEncoded
    <3>2. HasMemory(c.id)'
      BY <2>5, MemoryStays DEF MarkEncoded, EncodedInv
    <3>3. i \in EpisodeIds /\ (episodes[i].status = "encoded" \/ i = c.id)
      BY <1>1, <3>1, StatusMoves DEF EventsStay, Status
    <3>4. QED
      BY <2>1, <3>2, <3>3
  <2>6. \A j : CloseEpisode(j) => MarkEpisode(j, "closed")
    BY DEF CloseEpisode, MarkEpisode
  <2>7. "closed" \in Status \ {"encoded"} /\ "discarded" \in Status \ {"encoded"}
    BY DEF Status
  <2>8. ASSUME NEW t \in Maintainer, CloseDueEpisode(t) \/ EncodeEpisode(t) \/ Summarise(t)
        PROVE  HasMemory(i)'
    <3>1. PICK j : UNCHANGED episodes \/ CloseEpisode(j) \/ MarkEpisode(j, "discarded")
      <4>1. CASE CloseDueEpisode(t)
        BY <4>1 DEF CloseDueEpisode
      <4>2. CASE EncodeEpisode(t)
        BY <4>2 DEF EncodeEpisode
      <4>3. CASE Summarise(t)
        BY <4>3 DEF Summarise
      <4>4. QED
        BY <2>8, <4>1, <4>2, <4>3
    <3>2. QED
      BY <2>2, <2>4, <2>6, <2>7, <3>1
  <2>9. ASSUME NEW e \in Event, ObserveCloses(e)
        PROVE  HasMemory(i)'
    BY <2>4, <2>6, <2>7, <2>9 DEF ObserveCloses
  <2>10. QED
    BY <2>2, <2>3, <2>5, <2>8, <2>9 DEF MemoryNext, Observe, StartMaintenance, ReadPending,
       EndMaintenance, Request, Snapshot, Apply, Finish, Unmoved, MemoryRestart, memoryVars
<1>2. ASSUME NEW t \in Maintainer, maintainer'[t].at = "marking", NEW d \in Current(t)'
      PROVE  HasMemory(d.id)'
  <2>1. CASE maintainer'[t] = maintainer[t]
    BY <1>2, <2>1, MemoryStays DEF EncodedInv, Current
  <2>2. CASE Summarise(t) /\ maintainer'[t].todo = maintainer[t].todo
    <3>1. d \in Current(t) /\ maintainer[t].todo \subseteq Copy
      BY <1>2, <2>2 DEF Current, MemoryTypeInv, Task
    <3>2. PICK c \in Current(t) : InsertMemory(c)
      <4>1. ASSUME NEW c \in Current(t), GoOn(t, "encoding", c)
            PROVE  FALSE
        BY <1>2, <3>1, <4>1, TaskMoves DEF GoOn
      <4>2. QED
        BY <2>2, <4>1 DEF Summarise
    <3>3. c.id = d.id /\ c \in Copy
      BY <3>1 DEF Current, Copy
    <3>4. CASE MemoryForEpisode(c.id) # {}
      <4>1. HasMemory(c.id)
        BY <3>4 DEF MemoryForEpisode, HasMemory
      <4>2. QED
        BY <3>3, <4>1, MemoryStays
    <3>5. CASE memories' = Append(memories, RowOf(c))
      BY <3>3, <3>5, RowAdded DEF HasMemory
    <3>6. QED
      BY <3>2, <3>4, <3>5 DEF InsertMemory, RowOf
  <2>3. QED
    BY <1>2, <2>1, <2>2, TasksMove
<1>3. QED
  BY <1>1, <1>2 DEF EncodedInv

-----------------------------------------------------------------------------
(* The ceremony and its record.                                            *)

\* What the record of an action says of a destroyed memory.
Covers(a, m) ==
  /\ a \in DOMAIN actions /\ actions[a].target = m /\ actions[a].snapshot /\ ~actions[a].dry
  /\ actions[a].stage \in {"snapshotted", "audited"}

LEMMA ActionMoves ==
  ASSUME MemoryTypeInv, NEW a \in DOMAIN actions, NEW new \in Action,
         actions' = [actions EXCEPT ![a] = new]
  PROVE  /\ actions' \in Seq(Action) /\ DOMAIN actions' = DOMAIN actions /\ actions'[a] = new
         /\ \A b \in DOMAIN actions : b # a => actions'[b] = actions[b]
<1>1. actions \in Seq(Action) /\ DOMAIN actions = 1..Len(actions)
  BY DEF MemoryTypeInv
<1>2. QED
  BY <1>1

LEMMA Requested ==
  ASSUME MemoryTypeInv, NEW m \in MemoryIds, NEW op \in Operations, NEW dryRun \in BOOLEAN,
         NEW confirm \in BOOLEAN, Request(m, op, dryRun, confirm)
  PROVE  /\ actions' \in Seq(Action) /\ ceremony' \in Nat
         /\ \A a, n : Covers(a, n) => Covers(a, n)'
         /\ CeremonyInv'
<1> DEFINE turned == Risk[op] = "DESTRUCTIVE" /\ ~confirm
           stage == CASE dryRun -> "audited"
                      [] ~dryRun /\ turned -> "refused"
                      [] ~dryRun /\ ~turned ->
                           IF Risk[op] = "DESTRUCTIVE" THEN "confirmed" ELSE "previewed"
           new == [operation |-> op, target |-> m, stage |-> stage, dry |-> dryRun,
                   snapshot |-> FALSE]
           n == Len(actions) + 1
<1>1. /\ stage \in {"previewed", "confirmed", "refused", "audited"}
      /\ ~dryRun /\ ~turned => stage \in {"previewed", "confirmed"}
  OBVIOUS
<1>2. /\ actions' = Append(actions, new)
      /\ ceremony' = IF dryRun \/ turned THEN 0 ELSE n
      /\ UNCHANGED memories /\ memories[m].status # "absent"
  BY DEF Request
<1> HIDE DEF stage, turned
<1>3. /\ new \in Action /\ new.operation = op /\ new.target = m /\ new.stage = stage
      /\ new.dry = dryRun /\ ~new.snapshot
  BY <1>1 DEF Action, MemoryTypeInv, MemoryIds
<1>4. actions \in Seq(Action) /\ DOMAIN actions = 1..Len(actions) /\ Len(actions) \in Nat
  BY DEF MemoryTypeInv
<1> HIDE DEF new
<1>5. /\ Append(actions, new) \in Seq(Action) /\ Len(Append(actions, new)) = Len(actions) + 1
      /\ Append(actions, new)[Len(actions) + 1] = new
      /\ \A a \in 1..Len(actions) : Append(actions, new)[a] = actions[a]
  BY <1>3, <1>4
<1>6. /\ actions' \in Seq(Action) /\ DOMAIN actions' = DOMAIN actions \cup {n}
      /\ actions'[n] = new /\ \A a \in DOMAIN actions : actions'[a] = actions[a]
  BY <1>2, <1>4, <1>5
<1>7. \A a, k : Covers(a, k) => Covers(a, k)'
  BY <1>6 DEF Covers
<1>8. ceremony' \in Nat
  BY <1>2, <1>4
<1>9. CeremonyInv'
  <2>1. CASE ceremony' = 0
    BY <2>1 DEF CeremonyInv
  <2>2. CASE ceremony' = n /\ ~dryRun /\ ~turned
    BY <1>1, <1>2, <1>3, <1>6, <2>2 DEF CeremonyInv, Operation, MemoryIds, There
  <2>3. QED
    BY <1>2, <2>1, <2>2
<1>10. QED
  BY <1>6, <1>7, <1>8, <1>9

LEMMA Snapshotted ==
  ASSUME MemoryTypeInv, CeremonyInv, Snapshot
  PROVE  /\ actions' \in Seq(Action) /\ ceremony' \in Nat
         /\ \A a, n : Covers(a, n) => Covers(a, n)'
         /\ CeremonyInv'
<1>1. CASE ceremony' = 0 /\ UNCHANGED actions
  BY <1>1 DEF MemoryTypeInv, Covers, CeremonyInv
<1>2. CASE /\ snapshots' = snapshots \cup {[m \in MemoryIds |-> memories[m].status # "absent"]}
           /\ actions' = [actions EXCEPT ![ceremony].stage = "snapshotted",
                                         ![ceremony].snapshot = TRUE]
           /\ UNCHANGED ceremony
  <2> DEFINE new == [actions[ceremony] EXCEPT !.stage = "snapshotted", !.snapshot = TRUE]
             s == [m \in MemoryIds |-> memories[m].status # "absent"]
  <2>0. PICK m : m = actions[ceremony].target
    OBVIOUS
  <2>1. /\ ceremony \in DOMAIN actions /\ actions[ceremony] \in Action
        /\ ~actions[ceremony].dry /\ m \in MemoryIds /\ There(m)
    BY <2>0 DEF Snapshot, CeremonyInv, Operation, MemoryTypeInv
  <2>2. /\ new \in Action /\ new.operation = actions[ceremony].operation /\ new.target = m
        /\ new.stage = "snapshotted" /\ new.dry = actions[ceremony].dry /\ new.snapshot
    BY <2>0, <2>1 DEF Action
  <2>3. actions' = [actions EXCEPT ![ceremony] = new]
    BY <1>2
  <2> HIDE DEF new, s
  <2>4. /\ actions' \in Seq(Action) /\ DOMAIN actions' = DOMAIN actions
        /\ actions'[ceremony] = new
        /\ \A a \in DOMAIN actions : a # ceremony => actions'[a] = actions[a]
    BY <2>1, <2>2, <2>3, ActionMoves
  <2>5. \A a, n : Covers(a, n) => Covers(a, n)'
    BY <2>0, <2>1, <2>2, <2>4 DEF Covers
  <2>6. InSnapshot(m)'
    <3>1. s \in snapshots'
      BY <1>2 DEF s
    <3>2. m \in DOMAIN s /\ s[m]
      BY <2>1, Zenon DEF s, There
    <3>3. QED
      BY <3>1, <3>2 DEF InSnapshot
  <2>7. CeremonyInv'
    <3>1. There(m)' /\ MemoryIds' = MemoryIds /\ UNCHANGED ceremony
      BY <1>2, <2>1 DEF Snapshot, There, MemoryIds
    <3>2. Operation' = new
      BY <2>4, <3>1 DEF Operation
    <3>3. QED
      BY <2>1, <2>2, <2>4, <2>6, <3>1, <3>2 DEF CeremonyInv
  <2>8. QED
    BY <1>2, <2>4, <2>5, <2>7 DEF MemoryTypeInv
<1>3. QED
  BY <1>1, <1>2 DEF Snapshot

LEMMA Finished ==
  ASSUME MemoryTypeInv, CeremonyInv, Finish
  PROVE  /\ actions' \in Seq(Action) /\ ceremony' \in Nat
         /\ \A a, n : Covers(a, n) => Covers(a, n)'
         /\ CeremonyInv'
<1> DEFINE new == [actions[ceremony] EXCEPT !.stage = "audited"]
<1>1. ceremony \in DOMAIN actions /\ actions[ceremony] \in Action
  BY DEF Finish, CeremonyInv, MemoryTypeInv
<1>2. /\ new \in Action /\ new.target = actions[ceremony].target /\ new.stage = "audited"
      /\ new.dry = actions[ceremony].dry /\ new.snapshot = actions[ceremony].snapshot
  BY <1>1 DEF Action
<1>3. actions' = [actions EXCEPT ![ceremony] = new] /\ ceremony' = 0
  BY DEF Finish, Stage
<1> HIDE DEF new
<1>4. /\ actions' \in Seq(Action) /\ DOMAIN actions' = DOMAIN actions /\ actions'[ceremony] = new
      /\ \A a \in DOMAIN actions : a # ceremony => actions'[a] = actions[a]
  BY <1>1, <1>2, <1>3, ActionMoves
<1>5. \A a, n : Covers(a, n) => Covers(a, n)'
  BY <1>2, <1>4 DEF Covers
<1>6. QED
  BY <1>3, <1>4, <1>5 DEF CeremonyInv

\* Everything but an applied operation leaves the memories there are as they
\* are, and everything but the ceremony leaves its record.
LEMMA RecordKept ==
  ASSUME MemoryTypeInv, CeremonyInv, [MemoryNext]_memoryVars
  PROVE  /\ actions' \in Seq(Action) /\ ceremony' \in Nat
         /\ \A a, n : Covers(a, n) => Covers(a, n)'
         /\ CeremonyInv'
<1>1. ASSUME UNCHANGED <<actions, ceremony, snapshots>>, ~Apply
      PROVE  CeremonyInv'
  <2>1. \A m \in MemoryIds : m \in MemoryIds' /\ memories'[m] = memories[m]
    <3>1. CASE UNCHANGED memories
      BY <3>1 DEF MemoryIds
    <3>2. ASSUME NEW t \in Maintainer, NEW c \in Current(t), memories' = Append(memories, RowOf(c))
          PROVE  \A m \in MemoryIds : m \in MemoryIds' /\ memories'[m] = memories[m]
      <4>1. c \in Copy
        BY DEF Current, MemoryTypeInv, Task
      <4>2. QED
        BY <3>2, <4>1, RowAdded
    <3>3. QED
      BY <1>1, <3>1, <3>2, MemoriesMove
  <2>2. QED
    BY <1>1, <2>1 DEF CeremonyInv, Operation, There, InSnapshot
<1>2. CASE UNCHANGED <<actions, ceremony, snapshots>> /\ ~Apply
  BY <1>1, <1>2 DEF MemoryTypeInv, Covers
<1>3. CASE Apply
  <2>1. PICK m : m = Operation.target
    OBVIOUS
  <2>2. /\ UNCHANGED <<actions, ceremony, snapshots>> /\ MemoryIds' = MemoryIds
        /\ m \in MemoryIds /\ ceremony # 0
        /\ Operation.operation # "hard_delete" => There(m)'
        /\ Operation.stage # "confirmed"
    BY <1>3, <2>1, Applies DEF Apply, Ready
  <2>3. QED
    BY <2>1, <2>2 DEF CeremonyInv, Operation, InSnapshot, MemoryTypeInv, Covers
<1>4. CASE MemoryRestart
  BY <1>4 DEF MemoryRestart, CeremonyInv, MemoryTypeInv, Covers
<1>5. ASSUME NEW m \in MemoryIds, NEW op \in Operations, NEW dryRun \in BOOLEAN,
             NEW confirm \in BOOLEAN, Request(m, op, dryRun, confirm)
      PROVE  /\ actions' \in Seq(Action) /\ ceremony' \in Nat
             /\ \A a, n : Covers(a, n) => Covers(a, n)'
             /\ CeremonyInv'
  BY <1>5, Requested
<1>6. QED
  BY <1>2, <1>3, <1>4, <1>5, Snapshotted, Finished DEF MemoryNext, Observe, ObserveCloses,
     ObservePlaces, StartMaintenance, CloseDueEpisode, ReadPending, EncodeEpisode, Summarise,
     MarkEncoded, EndMaintenance, memoryVars

\* Only an operation with its snapshot destroys what is there.
LEMMA DestructionCovered ==
  ASSUME MemoryTypeInv, CeremonyInv, DestroyedIsInASnapshot, [MemoryNext]_memoryVars
  PROVE  DestroyedIsInASnapshot'
<1> DEFINE Destroyed(m) == memories[m].status = "absent" \/ memories[m].redacted
           Accounted(m) == (\E a : Covers(a, m)) /\ InSnapshot(m)
<1>1. DestroyedIsInASnapshot <=> \A m \in MemoryIds : Destroyed(m) => Accounted(m)
  BY DEF DestroyedIsInASnapshot, Covers, InSnapshot
<1>2. \A m : Accounted(m) => Accounted(m)'
  <2>1. snapshots \subseteq snapshots'
    BY DEF MemoryNext, Observe, ObserveCloses, ObservePlaces, StartMaintenance, CloseDueEpisode,
       ReadPending, EncodeEpisode, Summarise, MarkEncoded, EndMaintenance, Request, Snapshot,
       Apply, Finish, Unmoved, MemoryRestart, memoryVars
  <2>2. QED
    BY <2>1, RecordKept DEF InSnapshot
<1>3. CASE UNCHANGED memories
  <2>1. \A m \in MemoryIds' : m \in MemoryIds /\ (Destroyed(m)' => Destroyed(m))
    BY <1>3 DEF MemoryIds
  <2>2. QED
    BY <1>1, <1>2, <2>1 DEF DestroyedIsInASnapshot, Covers, InSnapshot
<1>4. ASSUME NEW t \in Maintainer, NEW c \in Current(t), memories' = Append(memories, RowOf(c))
      PROVE  DestroyedIsInASnapshot'
  <2>1. c \in Copy
    BY DEF Current, MemoryTypeInv, Task
  <2>2. \A m \in MemoryIds' : Destroyed(m)' => m \in MemoryIds /\ Destroyed(m)
    BY <1>4, <2>1, RowAdded
  <2>3. QED
    BY <1>1, <1>2, <2>2 DEF DestroyedIsInASnapshot, Covers, InSnapshot
<1>5. CASE Apply
  <2>1. PICK m : m = Operation.target
    OBVIOUS
  <2>2. MemoryIds' = MemoryIds /\ \A n \in MemoryIds : n # m => memories'[n] = memories[n]
    BY <1>5, <2>1, Applies
  <2>3. CASE Operation.operation \in {"redact", "hard_delete"}
    <3>1. Operation.stage = "snapshotted"
      BY <1>5, <2>3 DEF Apply, Ready, Risk, Operations
    <3>2. Covers(ceremony, m) /\ InSnapshot(m)
      BY <1>5, <2>1, <3>1 DEF Apply, CeremonyInv, Operation, Covers
    <3>3. Accounted(m)'
      BY <1>2, <3>2
    <3>4. \A n \in MemoryIds : n # m => (Destroyed(n)' => Destroyed(n))
      BY <2>2
    <3>5. QED
      BY <1>1, <1>2, <2>2, <3>3, <3>4 DEF DestroyedIsInASnapshot, Covers, InSnapshot
  <2>4. CASE Operation.operation \notin {"redact", "hard_delete"}
    <3>1. There(m)' /\ memories'[m].redacted = memories[m].redacted
      BY <1>5, <2>1, <2>4, Applies
    <3>2. \A n \in MemoryIds : Destroyed(n)' => Destroyed(n)
      BY <2>2, <3>1 DEF There
    <3>3. QED
      BY <1>1, <1>2, <2>2, <3>2 DEF DestroyedIsInASnapshot, Covers, InSnapshot
  <2>5. QED
    BY <2>3, <2>4
<1>6. QED
  BY <1>3, <1>4, <1>5, MemoriesMove

LEMMA MemoryTypeKept ==
  ASSUME MemoryTypeInv, CeremonyInv, [MemoryNext]_memoryVars
  PROVE  MemoryTypeInv'
<1>1. episodes' \in Seq(Episode)
  BY EpisodesMove, EventPlaced
<1>2. observer' = [e \in Event |-> observer'[e]]
  BY DEF MemoryTypeInv, MemoryNext, Observe, ObserveCloses, ObservePlaces, StartMaintenance,
     CloseDueEpisode, ReadPending, EncodeEpisode, Summarise, MarkEncoded, EndMaintenance,
     Request, Snapshot, Apply, Finish, Unmoved, MemoryRestart, memoryVars
<1>3. QED
  BY <1>1, <1>2, RowsStay, TasksMove, RecordKept DEF MemoryTypeInv

-----------------------------------------------------------------------------
(* The theorems.                                                           *)

\* What observers, maintainers and the ceremony remember agrees with the
\* tables, however they interleave and wherever they are cut.
THEOREM MemoryInvariance == MemorySpec => []MemoryInv
<1>1. MemoryInv /\ [MemoryNext]_memoryVars => MemoryInv'
  BY MemoryTypeKept, EpisodesKept, CopiesKept, MemoriesKept, EncodedKept, RecordKept,
     DestructionCovered DEF MemoryInv
<1>2. QED
  BY <1>1, MemoryInitially, PTL DEF MemorySpec

\* No event is a source of two memories, and what is recorded as encoded has
\* its memory, for any number of observers, maintenances and restarts.
THEOREM EventsAreRememberedOnce == MemorySpec => []RememberedOnce
<1>1. MemoryInv => RememberedOnce
  <2>1. SUFFICES ASSUME MemoryInv PROVE RememberedOnce
    OBVIOUS
  <2>2. ASSUME NEW m \in MemoryIds, NEW n \in MemoryIds, m # n, There(m), There(n)
        PROVE  memories[m].sources \cap memories[n].sources = {}
    <3>1. /\ IsOf(memories[m].episode, memories[m].sources)
          /\ IsOf(memories[n].episode, memories[n].sources)
          /\ memories[m].episode # memories[n].episode
      BY <2>1, <2>2 DEF MemoryInv, MemoriesInv
    <3>2. QED
      BY <2>1, <3>1 DEF MemoryInv, EpisodesInv, IsOf
  <2>3. QED
    BY <2>1, <2>2 DEF MemoryInv, EncodedInv, HasMemory, RememberedOnce, There
<1>2. QED
  BY <1>1, MemoryInvariance, PTL

\* Whatever was deleted or redacted is in a snapshot that an operation on it
\* took first, for any number of operations, dry runs and restarts.
THEOREM DestructionIsBackedUp == MemorySpec => []DestroyedIsInASnapshot
<1>1. MemoryInv => DestroyedIsInASnapshot
  BY DEF MemoryInv
<1>2. QED
  BY <1>1, MemoryInvariance, PTL

-----------------------------------------------------------------------------
(***************************************************************************)
(* Recall.  A memory is practised by one call at a time; what a call has   *)
(* practised so far is in its report, except that a use already marked     *)
(* leaves the report: then the row and the report together show it.        *)
(***************************************************************************)

Uses == {"consciously_recalled", "used_in_reply"}
States == {"none", "candidate", "relevance_passed", "selected"} \cup Uses
RetrievalRow == [state : States, practised : BOOLEAN]

\* A report has these fields, whatever its mode and its copies are.
IsReport(r) ==
  /\ r = [at |-> r.at, mode |-> r.mode, copies |-> r.copies, selected |-> r.selected,
          practised |-> r.practised]
  /\ DOMAIN r.copies \subseteq Recollection
  /\ r.selected \subseteq Recollection /\ r.practised \subseteq Recollection
  /\ r.at \in {"none", "judging"} => r.selected = {} /\ r.practised = {}

RecallTypeInv ==
  /\ recallCount \in [Recollection -> Nat]
  /\ retrievals \in [Call \X Recollection -> RetrievalRow]
  /\ reports = [c \in Call |-> reports[c]]
  /\ \A c \in Call : IsReport(reports[c])

\* The call has added its one to the memory's count.
Counted(c, m) ==
  \/ m \in reports[c].practised
  \/ /\ reports[c].at = "marking" /\ m \notin reports[c].selected
     /\ retrievals[<<c, m>>].state = "used_in_reply"
CountedBy(m) == {c \in Call : Counted(c, m)}

RecallInv ==
  /\ RecallTypeInv
  /\ \A c \in Call, m \in Recollection :
       retrievals[<<c, m>>].practised \/ Counted(c, m) => retrievals[<<c, m>>].state \in Uses
  /\ \A m \in Recollection : recallCount[m] <= Cardinality(CountedBy(m))

LEMMA RecallInitially == RecallInit => RecallInv
<1>1. SUFFICES ASSUME RecallInit PROVE RecallInv
  OBVIOUS
<1>2. IsReport(NoReport) /\ NoReport.practised = {} /\ NoReport.at = "none"
  BY DEF NoReport, IsReport
<1>3. NoRow \in RetrievalRow /\ ~NoRow.practised
  BY DEF NoRow, RetrievalRow, States, Uses
<1>4. RecallTypeInv
  BY <1>1, <1>2, <1>3 DEF RecallInit, RecallTypeInv
<1>5. \A c \in Call, m \in Recollection : ~Counted(c, m) /\ ~retrievals[<<c, m>>].practised
  BY <1>1, <1>2, <1>3 DEF RecallInit, Counted
<1>6. \A m \in Recollection : Cardinality(CountedBy(m)) = 0
  BY <1>5, FS_EmptySet DEF CountedBy
<1>7. QED
  BY <1>1, <1>4, <1>5, <1>6 DEF RecallInit, RecallInv

\* No call takes its one back: the count may stay.
LEMMA CountStays ==
  ASSUME RecallInv, RecallTypeInv', recallCount' = recallCount,
         \A c \in Call, m \in Recollection : Counted(c, m) => Counted(c, m)'
  PROVE  \A m \in Recollection : recallCount'[m] <= Cardinality(CountedBy(m)')
<1>1. TAKE m \in Recollection
<1>2. CountedBy(m) \in SUBSET CountedBy(m)' /\ CountedBy(m)' \in SUBSET Call
  BY DEF CountedBy
<1>3. IsFiniteSet(CountedBy(m)')
  BY <1>2, FS_Subset, CallAssumption
<1>4. IsFiniteSet(CountedBy(m)) /\ Cardinality(CountedBy(m)) <= Cardinality(CountedBy(m)')
  BY <1>2, <1>3, FS_Subset
<1>5. Cardinality(CountedBy(m)) \in Nat /\ Cardinality(CountedBy(m)') \in Nat
  BY <1>3, <1>4, FS_CardinalityType
<1>6. QED
  BY <1>4, <1>5 DEF RecallInv, RecallTypeInv

\* A call that had not added its one adds it.
LEMMA CountOnceMore ==
  ASSUME RecallInv, RecallTypeInv', NEW c \in Call, NEW m \in Recollection,
         recallCount' = [recallCount EXCEPT ![m] = @ + 1],
         ~Counted(c, m), Counted(c, m)',
         \A d \in Call, n \in Recollection : Counted(d, n) => Counted(d, n)'
  PROVE  \A n \in Recollection : recallCount'[n] <= Cardinality(CountedBy(n)')
<1>1. TAKE n \in Recollection
<1>2. CountedBy(n) \in SUBSET CountedBy(n)' /\ CountedBy(n)' \in SUBSET Call
  BY DEF CountedBy
<1>3. IsFiniteSet(CountedBy(n)')
  BY <1>2, FS_Subset, CallAssumption
<1>4. IsFiniteSet(CountedBy(n)) /\ Cardinality(CountedBy(n)) <= Cardinality(CountedBy(n)')
  BY <1>2, <1>3, FS_Subset
<1>5. Cardinality(CountedBy(n)) \in Nat /\ Cardinality(CountedBy(n)') \in Nat
  BY <1>3, <1>4, FS_CardinalityType
<1>6. CASE n # m
  BY <1>4, <1>5, <1>6 DEF RecallInv, RecallTypeInv
<1>7. CASE n = m
  <2>1. c \notin CountedBy(n) /\ CountedBy(n) \cup {c} \in SUBSET CountedBy(n)'
    BY <1>2, <1>7 DEF CountedBy
  <2>2. Cardinality(CountedBy(n) \cup {c}) = Cardinality(CountedBy(n)) + 1
    BY <1>4, <2>1, FS_AddElement
  <2>3. Cardinality(CountedBy(n) \cup {c}) <= Cardinality(CountedBy(n)')
    BY <1>3, <2>1, FS_Subset
  <2>4. QED
    BY <1>5, <1>7, <2>2, <2>3 DEF RecallInv, RecallTypeInv
<1>8. QED
  BY <1>6, <1>7

LEMMA RetrieveKeeps ==
  ASSUME RecallInv, NEW c \in Call, Retrieve(c)
  PROVE  RecallInv'
<1> DEFINE Judging(found, mode) ==
      [at |-> "judging", mode |-> mode, copies |-> [m \in found |-> accessibility[m]],
       selected |-> {}, practised |-> {}]
<1>0. PICK found \in Candidates, mode \in Classify :
        reports' = [reports EXCEPT ![c] = Judging(found, mode)]
  BY DEF Retrieve
<1> DEFINE r == Judging(found, mode)
<1>1. /\ reports' = [reports EXCEPT ![c] = r]
      /\ IsReport(r) /\ r.at = "judging" /\ r.practised = {}
  <2>2. found \subseteq Recollection
    BY DEF Candidates
  <2>3. QED
    BY <1>0, <2>2 DEF IsReport
<1> HIDE DEF r
<1>2. UNCHANGED <<recallCount, retrievals>> /\ reports[c].at = "none"
  BY DEF Retrieve
<1>3. RecallTypeInv'
  BY <1>1, <1>2 DEF RecallInv, RecallTypeInv, IsReport
<1>4. \A d \in Call, m \in Recollection : Counted(d, m) <=> Counted(d, m)'
  BY <1>1, <1>2 DEF Counted, RecallInv, RecallTypeInv, IsReport
<1>5. QED
  BY <1>2, <1>3, <1>4, CountStays DEF RecallInv

LEMMA SelectKeeps ==
  ASSUME RecallInv, NEW c \in Call, Select(c)
  PROVE  RecallInv'
<1>0. PICK labels \in Judgements(DOMAIN reports[c].copies)
                         \cup FallbackJudgements(DOMAIN reports[c].copies) :
        \E chosen \in Selections(reports[c].copies, labels, reports[c].mode) :
        /\ retrievals' = [k \in Call \X Recollection |->
             IF k[1] = c /\ k[2] \in DOMAIN reports[c].copies
             THEN [state |-> StageReached(k[2], labels, chosen), practised |-> FALSE]
             ELSE retrievals[k]]
        /\ reports' = [reports EXCEPT ![c].selected = chosen,
             ![c].at = IF IsDeliberate(reports[c].mode) THEN "recalling" ELSE "replying"]
  BY Zenon DEF Select
<1>1. PICK chosen \in Selections(reports[c].copies, labels, reports[c].mode) :
        /\ retrievals' = [k \in Call \X Recollection |->
             IF k[1] = c /\ k[2] \in DOMAIN reports[c].copies
             THEN [state |-> StageReached(k[2], labels, chosen), practised |-> FALSE]
             ELSE retrievals[k]]
        /\ reports' = [reports EXCEPT ![c].selected = chosen,
             ![c].at = IF IsDeliberate(reports[c].mode) THEN "recalling" ELSE "replying"]
  BY <1>0
<1>2. UNCHANGED recallCount /\ reports[c].at = "judging"
  BY DEF Select
<1>3. chosen \subseteq DOMAIN reports[c].copies
  BY <1>0, <1>1 DEF Selections, Judgements, FallbackJudgements
<1> DEFINE r == reports[c]  s == reports'[c]
<1>4. /\ IsReport(s) /\ s.practised = {} /\ s.at \in {"recalling", "replying"}
      /\ reports' = [reports EXCEPT ![c] = s]
  <2>1. IsReport(r) /\ r.practised = {} /\ reports = [d \in Call |-> reports[d]]
    BY <1>2 DEF RecallInv, RecallTypeInv, IsReport
  <2>2. s = [r EXCEPT !.selected = chosen,
                      !.at = IF IsDeliberate(r.mode) THEN "recalling" ELSE "replying"]
    BY <1>1, <2>1
  <2>3. QED
    BY <1>1, <1>3, <2>1, <2>2 DEF IsReport
<1>5. retrievals' \in [Call \X Recollection -> RetrievalRow]
  BY <1>1 DEF RecallInv, RecallTypeInv, RetrievalRow, States, StageReached
<1>6. \A d \in Call, m \in Recollection :
        /\ d # c => retrievals'[<<d, m>>] = retrievals[<<d, m>>]
        /\ retrievals'[<<c, m>>].practised => retrievals[<<c, m>>].practised
        /\ retrievals'[<<c, m>>].practised => retrievals'[<<c, m>>] = retrievals[<<c, m>>]
  BY <1>1
<1>7. RecallTypeInv'
  BY <1>2, <1>4, <1>5 DEF RecallInv, RecallTypeInv
<1>8. \A d \in Call, m \in Recollection : Counted(d, m) <=> Counted(d, m)'
  BY <1>2, <1>4, <1>6 DEF Counted, RecallInv, RecallTypeInv, IsReport
<1>9. \A d \in Call, m \in Recollection :
        retrievals'[<<d, m>>].practised \/ Counted(d, m)' => retrievals'[<<d, m>>].state \in Uses
  <2>1. TAKE d \in Call, m \in Recollection
  <2>2. CASE d # c
    BY <1>6, <1>8, <2>2 DEF RecallInv
  <2>3. CASE d = c
    BY <1>4, <1>6, <2>3 DEF RecallInv, Counted
  <2>4. QED
    BY <2>2, <2>3
<1>10. QED
  BY <1>2, <1>7, <1>8, <1>9, CountStays DEF RecallInv

\* A use is marked: the row changes, and no call's count of it.
LEMMA PromotionKeeps ==
  ASSUME RecallInv, NEW c \in Call, NEW m \in Recollection, NEW state \in Uses,
         PromoteRetrieval(c, m, state), UNCHANGED <<recallCount, reports>>,
         m \in reports[c].practised \/ m \in reports[c].selected
  PROVE  RecallInv'
<1>1. /\ retrievals' = [retrievals EXCEPT ![<<c, m>>] = [state |-> state, practised |-> TRUE]]
      /\ [state |-> state, practised |-> TRUE] \in RetrievalRow
  BY DEF PromoteRetrieval, RetrievalRow, States
<1>2. RecallTypeInv'
  BY <1>1 DEF RecallInv, RecallTypeInv
<1>3. /\ retrievals'[<<c, m>>].state \in Uses
      /\ \A d \in Call, n \in Recollection :
           d # c \/ n # m => retrievals'[<<d, n>>] = retrievals[<<d, n>>]
  BY <1>1 DEF RecallInv, RecallTypeInv
<1>4. \A d \in Call, n \in Recollection : Counted(d, n) <=> Counted(d, n)'
  BY <1>3 DEF Counted
<1>5. QED
  BY <1>2, <1>3, <1>4, CountStays DEF RecallInv

LEMMA ConsciouslyRecallKeeps ==
  ASSUME RecallInv, NEW c \in Call, ConsciouslyRecall(c)
  PROVE  RecallInv'
<1>1. IsReport(reports[c]) /\ reports = [d \in Call |-> reports[d]]
  BY DEF RecallInv, RecallTypeInv
<1>2. CASE \E m \in reports[c].selected \ reports[c].practised :
             /\ PromoteRetrieval(c, m, "consciously_recalled")
             /\ UNCHANGED <<recallCount, reports>>
  BY <1>1, <1>2, PromotionKeeps DEF IsReport, Uses
<1>3. ASSUME NEW m \in reports[c].selected \ reports[c].practised,
             retrievals[<<c, m>>].practised, Practise(c, m), UNCHANGED retrievals,
             reports[c].at = "recalling",
             reports' = [reports EXCEPT ![c].practised = @ \cup {m}]
      PROVE  RecallInv'
  <2>1. /\ reports' = [reports EXCEPT ![c] = reports'[c]] /\ IsReport(reports'[c])
        /\ reports'[c].practised = reports[c].practised \cup {m}
        /\ reports'[c].at = "recalling" /\ m \in Recollection
    BY <1>1, <1>3 DEF IsReport
  <2>2. recallCount' = [recallCount EXCEPT ![m] = @ + 1]
    BY <1>3 DEF Practise
  <2>3. RecallTypeInv'
    <3>1. recallCount' \in [Recollection -> Nat]
      BY <2>1, <2>2 DEF RecallInv, RecallTypeInv
    <3>2. QED
      BY <1>3, <2>1, <3>1 DEF RecallInv, RecallTypeInv
  <2>4. ~Counted(c, m) /\ Counted(c, m)'
    BY <1>3, <2>1 DEF Counted
  <2>5. \A d \in Call, n \in Recollection :
          /\ Counted(d, n) => Counted(d, n)'
          /\ Counted(d, n)' => Counted(d, n) \/ (d = c /\ n = m)
    <3>1. TAKE d \in Call, n \in Recollection
    <3>2. CASE d # c
      BY <1>1, <1>3, <2>1, <3>2 DEF Counted
    <3>3. CASE d = c
      BY <1>3, <2>1, <3>3 DEF Counted
    <3>4. QED
      BY <3>2, <3>3
  <2>6. \A n \in Recollection : recallCount'[n] <= Cardinality(CountedBy(n)')
    BY <2>1, <2>2, <2>3, <2>4, <2>5, CountOnceMore
  <2>7. QED
    BY <1>3, <2>3, <2>5, <2>6 DEF RecallInv
<1>4. ASSUME reports[c].at = "recalling", reports' = [reports EXCEPT ![c].at = "replying"],
             UNCHANGED <<recallCount, retrievals>>
      PROVE  RecallInv'
  <2>1. /\ reports' = [reports EXCEPT ![c] = reports'[c]] /\ IsReport(reports'[c])
        /\ reports'[c].practised = reports[c].practised /\ reports'[c].at = "replying"
    BY <1>1, <1>4 DEF IsReport
  <2>2. RecallTypeInv'
    BY <1>4, <2>1 DEF RecallInv, RecallTypeInv
  <2>3. \A d \in Call, n \in Recollection : Counted(d, n) <=> Counted(d, n)'
    BY <1>1, <1>4, <2>1 DEF Counted
  <2>4. QED
    BY <1>4, <2>2, <2>3, CountStays DEF RecallInv
<1>5. QED
  BY <1>2, <1>3, <1>4 DEF ConsciouslyRecall

LEMMA ReplyIsOutKeeps ==
  ASSUME RecallInv, NEW c \in Call, ReplyIsOut(c)
  PROVE  RecallInv'
<1>1. PICK used \in SUBSET reports[c].selected :
        reports' = [reports EXCEPT ![c].at = "marking", ![c].selected = used]
  BY DEF ReplyIsOut
<1>2. UNCHANGED <<recallCount, retrievals>> /\ reports[c].at = "replying"
  BY DEF ReplyIsOut
<1>3. /\ reports' = [reports EXCEPT ![c] = reports'[c]] /\ IsReport(reports'[c])
      /\ reports'[c].practised = reports[c].practised /\ reports'[c].at = "marking"
  <2>1. IsReport(reports[c]) /\ reports = [d \in Call |-> reports[d]]
    BY DEF RecallInv, RecallTypeInv
  <2>2. reports'[c] = [reports[c] EXCEPT !.at = "marking", !.selected = used]
    BY <1>1, <2>1
  <2>3. reports' = [reports EXCEPT ![c] = reports'[c]]
    BY <1>1, <2>1
  <2>4. QED
    BY <2>1, <2>2, <2>3 DEF IsReport
<1>4. RecallTypeInv'
  BY <1>2, <1>3 DEF RecallInv, RecallTypeInv
<1>5. \A d \in Call, n \in Recollection :
        /\ Counted(d, n) => Counted(d, n)'
        /\ Counted(d, n)' => Counted(d, n) \/ retrievals[<<d, n>>].state = "used_in_reply"
  BY <1>2, <1>3 DEF Counted, RecallInv, RecallTypeInv
<1>6. QED
  BY <1>2, <1>4, <1>5, CountStays DEF RecallInv, Uses

LEMMA MarkUsedInReplyKeeps ==
  ASSUME RecallInv, NEW c \in Call, MarkUsedInReply(c)
  PROVE  RecallInv'
<1>1. IsReport(reports[c]) /\ reports = [d \in Call |-> reports[d]]
  BY DEF RecallInv, RecallTypeInv
<1>2. CASE \E m \in reports[c].selected :
             /\ PromoteRetrieval(c, m, "used_in_reply")
             /\ UNCHANGED <<recallCount, reports>>
  BY <1>1, <1>2, PromotionKeeps DEF IsReport, Uses
<1>3. ASSUME NEW m \in reports[c].selected,
             retrievals[<<c, m>>].state = "used_in_reply", UNCHANGED retrievals,
             reports[c].at = "marking",
             IF m \in reports[c].practised THEN UNCHANGED recallCount ELSE Practise(c, m),
             reports' = [reports EXCEPT ![c].selected = @ \ {m}]
      PROVE  RecallInv'
  <2>1. /\ reports' = [reports EXCEPT ![c] = reports'[c]] /\ IsReport(reports'[c])
        /\ reports'[c].practised = reports[c].practised
        /\ reports'[c].selected = reports[c].selected \ {m}
        /\ reports'[c].at = "marking" /\ m \in Recollection
    BY <1>1, <1>3 DEF IsReport
  <2>2. \A d \in Call, n \in Recollection :
          /\ Counted(d, n) => Counted(d, n)'
          /\ Counted(d, n)' => Counted(d, n) \/ (d = c /\ n = m)
    <3>1. TAKE d \in Call, n \in Recollection
    <3>2. CASE d # c
      BY <1>1, <1>3, <2>1, <3>2 DEF Counted
    <3>3. CASE d = c
      BY <1>3, <2>1, <3>3 DEF Counted
    <3>4. QED
      BY <3>2, <3>3
  <2>3. CASE m \in reports[c].practised
    <3>1. RecallTypeInv'
      BY <1>3, <2>1, <2>3 DEF RecallInv, RecallTypeInv
    <3>2. QED
      BY <1>3, <2>2, <2>3, <3>1, CountStays DEF RecallInv, Uses
  <2>4. CASE m \notin reports[c].practised
    <3>1. recallCount' = [recallCount EXCEPT ![m] = @ + 1]
      BY <1>3, <2>4 DEF Practise
    <3>2. RecallTypeInv'
      <4>1. recallCount' \in [Recollection -> Nat]
        BY <2>1, <3>1 DEF RecallInv, RecallTypeInv
      <4>2. QED
        BY <1>3, <2>1, <4>1 DEF RecallInv, RecallTypeInv
    <3>3. ~Counted(c, m) /\ Counted(c, m)'
      BY <1>3, <2>1, <2>4 DEF Counted
    <3>4. \A n \in Recollection : recallCount'[n] <= Cardinality(CountedBy(n)')
      BY <2>1, <2>2, <3>1, <3>2, <3>3, CountOnceMore
    <3>5. QED
      BY <1>3, <2>2, <3>2, <3>4 DEF RecallInv, Uses
  <2>5. QED
    BY <2>3, <2>4
<1>4. QED
  BY <1>2, <1>3 DEF MarkUsedInReply

\* However the stages of the calls interleave, what has been counted has been
\* marked, and no call counts a memory twice.
THEOREM RecallInvariance == RecallSpec => []RecallInv
<1>1. ASSUME RecallInv, [RecallNext]_recallVars
      PROVE  RecallInv'
  <2>1. CASE UNCHANGED <<recallCount, retrievals, reports>>
    BY <1>1, <2>1 DEF RecallInv, RecallTypeInv, IsReport, CountedBy, Counted
  <2>2. CASE ~UNCHANGED <<recallCount, retrievals, reports>>
    BY <1>1, <2>2, RetrieveKeeps, SelectKeeps, ConsciouslyRecallKeeps, ReplyIsOutKeeps,
       MarkUsedInReplyKeeps
       DEF RecallNext, recallVars, ApplyForgetting, ForgetOne, SetStatus
  <2>3. QED
    BY <2>1, <2>2
<1>2. QED
  BY <1>1, RecallInitially, PTL DEF RecallSpec

\* A memory is practised no more often than it was consciously recalled or
\* used, for any number of memories, calls and forgettings in any order.
THEOREM RetrievingIsNotRemembering == RecallSpec => []PractisedOncePerUse
<1>1. ASSUME RecallInv
      PROVE  PractisedOncePerUse
  <2>1. SUFFICES ASSUME NEW m \in Recollection
        PROVE  recallCount[m] <= Cardinality({c \in Call :
                 retrievals[<<c, m>>].state \in {"consciously_recalled", "used_in_reply"}})
    BY DEF PractisedOncePerUse
  <2> DEFINE Used == {c \in Call : retrievals[<<c, m>>].state \in Uses}
  <2>2. CountedBy(m) \in SUBSET Used /\ Used \in SUBSET Call
    BY <1>1 DEF CountedBy, RecallInv
  <2>3. IsFiniteSet(Used)
    BY <2>2, FS_Subset, CallAssumption
  <2>4. IsFiniteSet(CountedBy(m)) /\ Cardinality(CountedBy(m)) <= Cardinality(Used)
    BY <2>2, <2>3, FS_Subset
  <2>5. Cardinality(CountedBy(m)) \in Nat /\ Cardinality(Used) \in Nat
    BY <2>3, <2>4, FS_CardinalityType
  <2>6. recallCount[m] <= Cardinality(Used)
    BY <1>1, <2>4, <2>5 DEF RecallInv, RecallTypeInv
  <2>7. QED
    BY <2>6 DEF Uses
<1>2. QED
  BY <1>1, RecallInvariance, PTL

-----------------------------------------------------------------------------
(***************************************************************************)
(* The bond.  A repair takes its first step when it is not yet known, and  *)
(* never another: the arbiter refuses the next, and the setback too.       *)
(***************************************************************************)

LEMMA StepOfARepair == RepairStep \in Nat /\ RepairStep <= 33
  BY RepairAssumption, SMTT(30) DEF RepairStep

BondInv ==
  /\ trust = [written |-> trust.written, value |-> trust.value]
  /\ trust.value \in Int /\ kept \in Nat
  /\ progress = [written |-> progress.written, value |-> progress.value]
  /\ progress.value = IF progress.written THEN RepairStep ELSE 0
  /\ progress.written \in BOOLEAN
  /\ trust.value <= Start.trust + kept

LEMMA BondInitially == BondInit => BondInv
  BY DEF BondInit, BondInv, Unwritten, Start

LEMMA NoRepairCompletes ==
  ASSUME BondInv, NEW m \in Experience, IsConsistent(m)
  PROVE  NextProgress(m) # 100
<1>1. NextProgress(m) \in {Clamp(RepairStep), Clamp(RepairStep + RepairStep)}
  BY StepOfARepair DEF NextProgress, IsConsistent, BondInv
<1>2. QED
  BY <1>1, StepOfARepair DEF Clamp

\* Progress stays what its first step made it.
LEMMA ProgressKeeps ==
  ASSUME BondInv, NEW m \in Experience,
         progress' = Written(progress, NextProgress(m), RelationshipLimit)
  PROVE  /\ progress' = [written |-> progress'.written, value |-> progress'.value]
         /\ progress'.value = IF progress'.written THEN RepairStep ELSE 0
         /\ progress'.written \in BOOLEAN
<1> DEFINE next == NextProgress(m)
<1>1. next \in {0, progress.value, Clamp(progress.value + RepairStep)}
  BY DEF NextProgress
<1>2. CASE progress.written
  <2>1. next \in {0, RepairStep, RepairStep + RepairStep}
    BY <1>1, <1>2, StepOfARepair DEF BondInv, Clamp
  <2>2. progress' = progress
    BY <1>2, <2>1, StepOfARepair, RepairAssumption DEF BondInv, Written, Admits
  <2>3. QED
    BY <1>2, <2>2 DEF BondInv
<1>3. CASE ~progress.written
  <2>1. next \in {0, RepairStep}
    BY <1>1, <1>3, StepOfARepair DEF BondInv, Clamp
  <2>2. CASE next = 0
    BY <1>3, <2>2 DEF BondInv, Written
  <2>3. CASE next = RepairStep
    BY <1>3, <2>3 DEF BondInv, Written, Admits
  <2>4. QED
    BY <2>1, <2>2, <2>3
<1>4. QED
  BY <1>2, <1>3

\* A promise said to be kept is worth what kept counts, whoever says it;
\* nothing else raises trust.
LEMMA TrustKeeps ==
  ASSUME BondInv, NEW m \in Experience,
         trust' = Written(trust, NextTrust(m), RelationshipLimit),
         kept' = IF m.promise /\ ~HasConflict(m) THEN kept + TrustGain ELSE kept
  PROVE  /\ trust' = [written |-> trust'.written, value |-> trust'.value]
         /\ trust'.value \in Int /\ kept' \in Nat
         /\ trust'.value <= Start.trust + kept'
<1>1. /\ m.promise \in BOOLEAN
      /\ m.conflict \in {"none", "disagreement", "conflict"}
  BY DEF Experience, Message, HerOwn
<1>2. kept' \in Nat /\ kept <= kept'
  BY DEF BondInv, TrustGain
<1>3. TrustLoss \in [{"none", "disagreement", "conflict"} -> Nat]
  BY DEF TrustLoss
<1>4. /\ NextTrust(m) \in Int
      /\ NextTrust(m) <= Start.trust + kept'
  <2>1. CASE HasConflict(m)
    BY <1>1, <1>2, <1>3, <2>1 DEF NextTrust, BondInv, Clamp, Start
  <2>2. CASE ~HasConflict(m) /\ m.promise
    BY <1>1, <2>2 DEF NextTrust, BondInv, Clamp, Start, TrustGain
  <2>3. CASE ~HasConflict(m) /\ ~m.promise
    BY <1>2, <2>3, NoRepairCompletes DEF NextTrust, BondInv, Clamp, Start
  <2>4. QED
    BY <1>1, <2>1, <2>2, <2>3
<1>5. trust' = trust \/ trust' = [written |-> TRUE, value |-> NextTrust(m)]
  BY DEF Written
<1>6. CASE trust' = trust
  BY <1>2, <1>6 DEF BondInv, Start
<1>7. CASE trust' = [written |-> TRUE, value |-> NextTrust(m)]
  BY <1>2, <1>4, <1>7
<1>8. QED
  BY <1>5, <1>6, <1>7

\* Trust is worth no more than the promises that the USER or she herself said
\* were kept, however many events there were, and in whatever order quarrels,
\* apologies and silences came.
THEOREM TrustIsForPromises == BondSpec => []TrustIsOnlyEarned
<1>1. ASSUME BondInv, [BondNext]_bondVars
      PROVE  BondInv'
  <2>1. CASE UNCHANGED <<trust, progress, kept>>
    BY <1>1, <2>1 DEF BondInv
  <2>2. CASE Process
    <3>1. PICK m \in Experience :
            /\ trust' = Written(trust, NextTrust(m), RelationshipLimit)
            /\ progress' = Written(progress, NextProgress(m), RelationshipLimit)
            /\ kept' = IF m.promise /\ ~HasConflict(m) THEN kept + TrustGain ELSE kept
      BY <2>2 DEF Process, Entry, Proposed, Limit
    <3>2. QED
      BY <1>1, <3>1, ProgressKeeps, TrustKeeps DEF BondInv
  <2>3. QED
    BY <1>1, <2>1, <2>2 DEF BondNext, bondVars
<1>2. BondInv => TrustIsOnlyEarned
  BY DEF BondInv, TrustIsOnlyEarned
<1>3. QED
  BY <1>1, <1>2, BondInitially, PTL DEF BondSpec

-----------------------------------------------------------------------------
(***************************************************************************)
(* What she feels.  A need moves by its own step, which the arbiter's      *)
(* limit is at least as wide as.                                           *)
(***************************************************************************)

NeedEntry == [value : 0..1000, at : Nat]

FeelingsInv ==
  /\ clock \in Nat
  /\ needs \in [Need -> NeedEntry]
  /\ refused \subseteq Emotion \cup {"mood"}

LEMMA FeelingsInitially == FeelingsInit => FeelingsInv
  BY DEF FeelingsInit, FeelingsInv, NeedEntry, NeverWritten, DefaultNeed, Need

LEMMA TargetIsANumber ==
  ASSUME FeelingsInv, clock' \in Nat, NEW n \in Need,
         NEW isContact \in BOOLEAN, NEW belongs \in BOOLEAN
  PROVE  NeedTarget(n, isContact, belongs) \in Int
<1> DEFINE hours == Since(needs["relatedness"])
<1>1. hours \in Int
  BY DEF FeelingsInv, Since, Need, NeedEntry
<1> HIDE DEF hours
<1>2. Alone(n, hours) \in Int
  BY <1>1 DEF Alone, Need
<1>3. Contact[n] \in Int
  BY DEF Contact, Need
<1>4. needs[n].value \in Int
  <2>1. needs[n] \in NeedEntry
    BY DEF FeelingsInv
  <2>2. \A entry \in NeedEntry : entry.value \in Int
    BY DEF NeedEntry
  <2>3. QED
    BY <2>1, <2>2
<1>5. QED
  BY <1>2, <1>3, <1>4 DEF NeedTarget, BelongingFloor, hours

LEMMA NeedIsTaken ==
  ASSUME FeelingsInv, clock' \in Nat, NEW n \in Need,
         NEW isContact \in BOOLEAN, NEW belongs \in BOOLEAN
  PROVE  /\ NextNeed(n, isContact, belongs) \in 0..1000
         /\ Fits(needs[n], NextNeed(n, isContact, belongs), NeedsLimit)
<1> DEFINE old == needs[n].value  target == NeedTarget(n, isContact, belongs)
<1>1. old \in 0..1000 /\ target \in Int
  BY TargetIsANumber DEF FeelingsInv, NeedEntry
<1>2. NextNeed(n, isContact, belongs) = Clamped(Step(old, target, NeedStep), 1000)
  BY DEF NextNeed
<1> HIDE DEF old, target
<1>3. Step(old, target, NeedStep) \in (old - NeedStep)..(old + NeedStep)
  BY <1>1 DEF Step, NeedStep
<1>4. /\ Clamped(Step(old, target, NeedStep), 1000) \in 0..1000
      /\ Clamped(Step(old, target, NeedStep), 1000) - old \in -NeedsLimit..NeedsLimit
  BY <1>1, <1>3, NeedsAssumption DEF Clamped, NeedStep
<1>5. QED
  BY <1>2, <1>4 DEF Fits, old

\* However long nothing happened and whatever it was that did, what the needs
\* make of an event is never refused: for any limits with room for one step.
THEOREM NeedsAreTaken == FeelingsSpec => []NeedsAreNeverRefused
<1>1. ASSUME FeelingsInv, Feel
      PROVE  FeelingsInv'
  <2>1. PICK gap \in Gaps, reading \in Reading, isContact \in BOOLEAN, belongs \in BOOLEAN :
          /\ clock' = clock + gap
          /\ needs' = [n \in Need |->
               Stored(needs[n], NextNeed(n, isContact, belongs), NeedsLimit)]
          /\ refused' \ refused \subseteq Emotion \cup {"mood"} \cup
               {n \in Need : ~Fits(needs[n], NextNeed(n, isContact, belongs), NeedsLimit)}
    BY <1>1 DEF Feel
  <2>2. clock' \in Nat
    BY <1>1, <2>1, NeedsAssumption DEF FeelingsInv
  <2>3. \A n \in Need :
          /\ Stored(needs[n], NextNeed(n, isContact, belongs), NeedsLimit) \in NeedEntry
          /\ Fits(needs[n], NextNeed(n, isContact, belongs), NeedsLimit)
    BY <1>1, <2>2, NeedIsTaken DEF Stored, NeedEntry, FeelingsInv
  <2>4. QED
    BY <1>1, <2>1, <2>2, <2>3 DEF FeelingsInv
<1>2. ASSUME FeelingsInv, UNCHANGED feelingVars
      PROVE  FeelingsInv'
  BY <1>2 DEF FeelingsInv, feelingVars
<1>3. FeelingsInv => NeedsAreNeverRefused
  BY DEF FeelingsInv, NeedsAreNeverRefused, Emotion, Need
<1>4. QED
  BY <1>1, <1>2, <1>3, FeelingsInitially, PTL DEF FeelingsSpec, FeelingsNext

-----------------------------------------------------------------------------
(***************************************************************************)
(* What she says.  A text waiting to be sent passed the guards against the *)
(* evidence and the plan of its turn, which nothing changes until it is    *)
(* sent; a turn that takes something back was planned to ask nothing, and  *)
(* what is looked at is whether a text ends in a question.                 *)
(***************************************************************************)

Utterance == [claim : Claim, known : SUBSET {"ongoing", "completed"},
              status : {"supported", "provisional", "contested"}]

ReplyTypeInv ==
  /\ activity \in [Topic -> SUBSET {"ongoing", "completed"}]
  /\ context \in [Topic -> SUBSET {"ongoing", "completed"}]
  /\ phase \in {"idle", "planning", "drafting", "rewriting", "sending"}
  /\ mayAsk \in BOOLEAN
  /\ draft \in Drafts
  /\ ground \in Seq(Utterance)

ReplyInv ==
  /\ ReplyTypeInv
  /\ phase = "sending" => ~Blocking(draft.claim) /\ (draft.last # NoQuestion => mayAsk)
  /\ phase \in {"drafting", "rewriting", "sending"} /\ retraction # "none" => ~mayAsk
  /\ phase # "idle" => outcome = "open"
  /\ SaidWasKnown
  /\ RetractionEndsOnNoQuestion

LEMMA ReplyInitially == ReplyInit => ReplyInv
<1>1. SUFFICES ASSUME ReplyInit PROVE ReplyInv
  OBVIOUS
<1>2. NoDraft \in Drafts
  BY DEF NoDraft, Drafts
<1>3. ReplyTypeInv
  <2>1. Nothing \in [Topic -> SUBSET {"ongoing", "completed"}]
    BY DEF Nothing
  <2>2. ground \in Seq(Utterance)
    BY <1>1 DEF ReplyInit
  <2>3. QED
    BY <1>1, <1>2, <2>1, <2>2 DEF ReplyInit, ReplyTypeInv
<1>4. DOMAIN ground = {}
  BY <1>1 DEF ReplyInit
<1>5. SaidWasKnown /\ RetractionEndsOnNoQuestion
  BY <1>1, <1>4 DEF ReplyInit, SaidWasKnown, RetractionEndsOnNoQuestion
<1>6. QED
  BY <1>1, <1>3, <1>5 DEF ReplyInit, ReplyInv

LEMMA WorldMovesKeeps ==
  ASSUME ReplyInv, NEW next \in [Topic -> SUBSET {"ongoing", "completed"}], WorldMoves(next)
  PROVE  ReplyInv'
<1>1. ReplyTypeInv'
  BY DEF WorldMoves, ReplyInv, ReplyTypeInv, turnVars
<1>2. QED
  BY <1>1 DEF WorldMoves, ReplyInv, turnVars, SaidWasKnown, RetractionEndsOnNoQuestion, Blocking

LEMMA ActivitiesKeep ==
  ASSUME ReplyInv, \/ \E t \in Topic : StartActivity(t) \/ CompleteActivity(t)
                   \/ DayPasses
  PROVE  ReplyInv'
<1>1. activity \in [Topic -> SUBSET {"ongoing", "completed"}]
  BY DEF ReplyInv, ReplyTypeInv
<1>2. ASSUME NEW t \in Topic, StartActivity(t) PROVE ReplyInv'
  <2>1. [u \in Topic |-> IF u = t THEN activity[u] \cup {"ongoing"} ELSE activity[u] \ {"ongoing"}]
          \in [Topic -> SUBSET {"ongoing", "completed"}]
    BY <1>1
  <2>2. QED
    BY <1>2, <2>1, WorldMovesKeeps DEF StartActivity
<1>3. ASSUME NEW t \in Topic, CompleteActivity(t) PROVE ReplyInv'
  <2>1. [activity EXCEPT ![t] = {"completed"}] \in [Topic -> SUBSET {"ongoing", "completed"}]
    BY <1>1
  <2>2. QED
    BY <1>3, <2>1, WorldMovesKeeps DEF CompleteActivity
<1>4. ASSUME DayPasses PROVE ReplyInv'
  <2>1. [t \in Topic |-> activity[t] \ {"completed"}] \in [Topic -> SUBSET {"ongoing", "completed"}]
    BY <1>1
  <2>2. QED
    BY <1>4, <2>1, WorldMovesKeeps DEF DayPasses
<1>5. QED
  BY <1>2, <1>3, <1>4

\* A claim resolved again keeps its evidence; a retracted one is gone.
LEMMA HearKeeps ==
  ASSUME ReplyInv, NEW m \in MessageKind, Hear(m)
  PROVE  ReplyInv'
<1>1. /\ phase' = "planning" /\ outcome' = "open" /\ draft' = NoDraft /\ context' = activity
      /\ UNCHANGED <<activity, mayAsk>>
  BY DEF Hear, Known
<1>2. NoDraft \in Drafts
  BY DEF NoDraft, Drafts
<1>3. /\ ground' \in Seq(Utterance)
      /\ \A i \in DOMAIN ground' : /\ i \in DOMAIN ground
                                   /\ ground'[i].claim = ground[i].claim
                                   /\ ground'[i].known = ground[i].known
  <2>1. ground \in Seq(Utterance) /\ Newest = Len(ground)
    BY DEF ReplyInv, ReplyTypeInv, Newest
  <2>2. CASE UNCHANGED ground
    BY <2>1, <2>2
  <2>3. CASE ground # <<>> /\ ground' = [ground EXCEPT ![Newest].status = "contested"]
    <3>1. Newest \in 1..Len(ground) /\ ground[Newest] \in Utterance
      BY <2>1, <2>3
    <3>2. [ground[Newest] EXCEPT !.status = "contested"] \in Utterance
      BY <3>1 DEF Utterance
    <3>3. ground' = [ground EXCEPT ![Newest] = [ground[Newest] EXCEPT !.status = "contested"]]
      BY <2>3
    <3>4. QED
      BY <2>1, <3>1, <3>2, <3>3 DEF Utterance
  <2>4. CASE ground # <<>> /\ ground' = SubSeq(ground, 1, Newest - 1)
    BY <2>1, <2>4
  <2>5. QED
    BY <2>2, <2>3, <2>4 DEF Hear
<1>4. ReplyTypeInv'
  BY <1>1, <1>2, <1>3 DEF ReplyInv, ReplyTypeInv
<1>5. SaidWasKnown'
  BY <1>3 DEF ReplyInv, SaidWasKnown
<1>6. QED
  BY <1>1, <1>4, <1>5 DEF ReplyInv, RetractionEndsOnNoQuestion

LEMMA PlanKeeps ==
  ASSUME ReplyInv, Plan
  PROVE  ReplyInv'
<1>1. /\ UNCHANGED <<activity, ground, draft, retraction>>
      /\ phase = "planning" /\ outcome = "open"
  BY DEF Plan, Forget, ReplyInv
<1>2. Nothing \in [Topic -> SUBSET {"ongoing", "completed"}]
  BY DEF Nothing
<1>3. CASE phase' = "idle" /\ outcome' = "silent" /\ Forget
  BY <1>1, <1>2, <1>3 DEF Forget, ReplyInv, ReplyTypeInv, SaidWasKnown, RetractionEndsOnNoQuestion
<1>4. ASSUME NEW r \in SocialReading \cup {Minimal(message)},
             phase' = "drafting", mayAsk' = QuestionBudget(WithCorrection(r)),
             UNCHANGED <<context, outcome>>
      PROVE  ReplyInv'
  <2>1. r = [move |-> r.move, question |-> r.question, leads |-> r.leads, wish |-> r.wish]
    BY <1>4 DEF SocialReading, Minimal
  <2>2. retraction # "none" => ~mayAsk'
    BY <1>4, <2>1 DEF QuestionBudget, WithCorrection
  <2>3. mayAsk' \in BOOLEAN
    BY <1>4 DEF QuestionBudget
  <2>4. QED
    BY <1>1, <1>4, <2>2, <2>3 DEF ReplyInv, ReplyTypeInv, SaidWasKnown, RetractionEndsOnNoQuestion
<1>5. QED
  BY <1>3, <1>4 DEF Plan

LEMMA SuppressedKeeps ==
  ASSUME ReplyInv, Suppressed
  PROVE  ReplyInv'
<1>1. Nothing \in [Topic -> SUBSET {"ongoing", "completed"}] /\ NoDraft \in Drafts
  BY DEF Nothing, NoDraft, Drafts
<1>2. QED
  BY <1>1 DEF Suppressed, Forget, ReplyInv, ReplyTypeInv, SaidWasKnown, RetractionEndsOnNoQuestion

LEMMA WriteKeeps ==
  ASSUME ReplyInv, Write
  PROVE  ReplyInv'
<1>1. ASSUME NEW d \in Drafts, draft' = d, phase = "drafting",
             (Passes(d) /\ phase' = "sending") \/ phase' = "rewriting",
             UNCHANGED <<activity, turnVars, ground, outcome>>
      PROVE  ReplyInv'
  BY <1>1 DEF ReplyInv, ReplyTypeInv, turnVars, Passes, AsksWell, Blocking,
              SaidWasKnown, RetractionEndsOnNoQuestion
<1>2. QED
  BY <1>1, SuppressedKeeps DEF Write

LEMMA RewriteKeeps ==
  ASSUME ReplyInv, Rewrite
  PROVE  ReplyInv'
<1>1. ASSUME NEW d \in Drafts, draft' = d, phase = "rewriting", RewritePasses(d),
             phase' = "sending", UNCHANGED <<activity, turnVars, ground, outcome>>
      PROVE  ReplyInv'
  BY <1>1 DEF ReplyInv, ReplyTypeInv, turnVars, RewritePasses, Passes, AsksWell, Blocking,
              SaidWasKnown, RetractionEndsOnNoQuestion
<1>2. QED
  BY <1>1, SuppressedKeeps DEF Rewrite

LEMMA DeliverReplyKeeps ==
  ASSUME ReplyInv, DeliverReply
  PROVE  ReplyInv'
<1>1. /\ phase = "sending" /\ phase' = "idle" /\ outcome' = "sent" /\ Forget
      /\ UNCHANGED <<activity, draft>>
  BY DEF DeliverReply
<1>2. Nothing \in [Topic -> SUBSET {"ongoing", "completed"}]
  BY DEF Nothing
<1>3. ground' \in Seq(Utterance) /\ SaidWasKnown'
  <2>1. CASE draft.claim = NoClaim
    BY <2>1 DEF DeliverReply, ReplyInv, ReplyTypeInv, SaidWasKnown
  <2>2. CASE draft.claim # NoClaim
    <3> DEFINE known == context[draft.claim.topic]
               u == [claim |-> draft.claim, known |-> known,
                     status |-> IF Supports(known) THEN "supported" ELSE "provisional"]
    <3>1. draft.claim \in Claim
      BY <2>2 DEF ReplyInv, ReplyTypeInv, Drafts
    <3>2. u \in Utterance
      BY <3>1 DEF ReplyInv, ReplyTypeInv, Utterance, Claim
    <3>3. u.claim.kind = "did" => Supports(u.known)
      BY <1>1 DEF ReplyInv, Blocking
    <3>4. ground' = Append(ground, u) /\ ground \in Seq(Utterance)
      BY <2>2 DEF DeliverReply, ReplyInv, ReplyTypeInv
    <3> HIDE DEF u
    <3>5. ground' \in Seq(Utterance)
      BY <3>2, <3>4
    <3>6. SaidWasKnown'
      BY <3>2, <3>3, <3>4 DEF ReplyInv, SaidWasKnown
    <3>7. QED
      BY <3>5, <3>6
  <2>3. QED
    BY <2>1, <2>2
<1>4. ReplyTypeInv'
  BY <1>1, <1>2, <1>3 DEF Forget, ReplyInv, ReplyTypeInv
<1>5. RetractionEndsOnNoQuestion'
  BY <1>1 DEF Forget, ReplyInv, RetractionEndsOnNoQuestion
<1>6. QED
  BY <1>1, <1>3, <1>4, <1>5 DEF ReplyInv

LEMMA SendFailsKeeps ==
  ASSUME ReplyInv, SendFails
  PROVE  ReplyInv'
<1>1. Nothing \in [Topic -> SUBSET {"ongoing", "completed"}] /\ NoDraft \in Drafts
  BY DEF Nothing, NoDraft, Drafts
<1>2. QED
  BY <1>1 DEF SendFails, Forget, ReplyInv, ReplyTypeInv, SaidWasKnown, RetractionEndsOnNoQuestion

\* Whatever was drafted and rewritten, and whatever she did meanwhile, a text
\* that is out passed both guards as the turn began.
THEOREM ReplyInvariance == ReplySpec => []ReplyInv
<1>1. ASSUME ReplyInv, [ReplyNext]_replyVars
      PROVE  ReplyInv'
  <2>1. CASE UNCHANGED replyVars
    BY <1>1, <2>1 DEF replyVars, turnVars, ReplyInv, ReplyTypeInv, Blocking, SaidWasKnown,
                      RetractionEndsOnNoQuestion
  <2>2. CASE ReplyNext
    BY <1>1, <2>2, ActivitiesKeep, HearKeeps, PlanKeeps, WriteKeeps, RewriteKeeps,
       DeliverReplyKeeps, SendFailsKeeps DEF ReplyNext
  <2>3. QED
    BY <1>1, <2>1, <2>2
<1>2. QED
  BY <1>1, ReplyInitially, PTL DEF ReplySpec

\* Nothing she was heard to have done is invented, for any activities, claims
\* and messages.
THEOREM NothingSheDidIsInvented == ReplySpec => []SaidWasKnown
<1>1. ReplyInv => SaidWasKnown
  BY DEF ReplyInv
<1>2. QED
  BY <1>1, ReplyInvariance, PTL

\* A turn that takes something back does not end in a question, whatever was
\* drafted or rewritten.
THEOREM TakingBackEndsOnNoQuestion == ReplySpec => []RetractionEndsOnNoQuestion
<1>1. ReplyInv => RetractionEndsOnNoQuestion
  BY DEF ReplyInv
<1>2. QED
  BY <1>1, ReplyInvariance, PTL
=============================================================================
