------------------------- MODULE FoundationsProofs -------------------------
(***************************************************************************)
(* Theorems about what the rest stands on: the first boot, the simulated   *)
(* past, the database files and their replacement, and the schema.  The    *)
(* parts share no state; each has an inductive invariant of its own.       *)
(***************************************************************************)
EXTENDS FirstBoot, PastSimulation, DatabaseFiles, Schema,
        FiniteSetTheorems, WellFoundedInduction, TLAPS

-----------------------------------------------------------------------------
(***************************************************************************)
(* The first boot.  What the rows are, and what a process holds while it   *)
(* works on them, whoever else is alive.                                   *)
(***************************************************************************)

\* Within a year, and after it: everything a year's stages have set up.
InYear == {"noting", "staging", "living", "marking", "year done"} \cup Stages

BootRowsInv ==
  /\ years \subseteq Year /\ months \subseteq Month /\ summaries \subseteq Year
  /\ seen \in [Person -> {"never", "long ago", "recently"}] /\ linked \subseteq Person
  /\ staged \subseteq Experience /\ replayed \subseteq staged
  /\ lived \in [Experience -> Nat]
  /\ npcs \in [Person -> Nat] /\ lifeDays \in {0, 1}
  /\ crashes \in Nat /\ takeovers \in Nat /\ unmarked \in Nat

BootLoopsInv ==
  /\ pc \in [Process -> Places]
  /\ year \in [Process -> Nat]
  /\ todo \in [Process -> SUBSET (Experience \cup Person)]
  /\ issues \in [Process -> SUBSET (RetryableBlocks \cup FatalBlocks)]

\* What p holds, by where it stands.
Holds(p) ==
  /\ pc[p] \in InYear => year[p] \in Year
  /\ pc[p] \in {"living", "marking"} => todo[p] \subseteq staged
  /\ pc[p] = "staging" => todo[p] \subseteq {e \in Experience : e[1] = year[p]}
  /\ pc[p] \in {"promote", "link"} => todo[p] \subseteq Person
  /\ pc[p] = "link" => todo[p] # {} /\ npcs[InTurn(todo[p])] > 0

BootTypeInv == BootRowsInv /\ BootLoopsInv /\ \A p \in Process : Holds(p)

\* What a step of p may do to the places of the processes.
Moves(p, places) == \E place \in places : pc' = [pc EXCEPT ![p] = place]

LEMMA SameOrOneMore ==
  \A n \in Nat : \A m : m \in {n, n + 1} => m \in Nat
OBVIOUS

LEMMA SameButAt ==
  ASSUME NEW S, NEW p \in Process, NEW f \in [Process -> S], NEW g, NEW x \in S,
         g = f \/ g = [f EXCEPT ![p] = x]
  PROVE  g \in [Process -> S]
OBVIOUS

LEMMA BootTypeInitially == Init => BootTypeInv
<1> SUFFICES ASSUME Init PROVE BootTypeInv
  OBVIOUS
<1>1. BootRowsInv
  BY DEF Init, GenesisInit, BootRowsInv
<1>2. BootLoopsInv
  <2>1. "off" \in Places
    BY DEF Places
  <2>2. pc \in [Process -> Places] /\ year \in [Process -> Nat]
    BY <2>1 DEF Init, GenesisInit
  <2>3. todo \in [Process -> SUBSET (Experience \cup Person)]
    BY DEF Init, GenesisInit
  <2>4. issues \in [Process -> SUBSET (RetryableBlocks \cup FatalBlocks)]
    BY DEF Init, GenesisInit
  <2>5. QED
    BY <2>2, <2>3, <2>4 DEF BootLoopsInv
<1>3. \A p \in Process : Holds(p)
  BY DEF Init, GenesisInit, Holds, InYear, Stages
<1>4. QED
  BY <1>1, <1>2, <1>3 DEF BootTypeInv

LEMMA OneIsInTurn ==
  \A people : people # {} => InTurn(people) \in people
BY DEF InTurn

\* The others hold what they held.
LEMMA OthersHold ==
  ASSUME BootTypeInv, NEW p \in Process, NEW q \in Process, q # p,
         pc'[q] = pc[q], year'[q] = year[q], todo'[q] = todo[q],
         staged \subseteq staged', \A r \in Person : npcs[r] > 0 => npcs'[r] > 0
  PROVE  Holds(q)'
<1>1. Holds(q)
  BY DEF BootTypeInv
<1>2. pc[q] = "link" => npcs'[InTurn(todo[q])] > 0
  BY <1>1, OneIsInTurn DEF Holds
<1>3. QED
  BY <1>1, <1>2 DEF Holds

LEMMA StageOrder ==
  /\ StageAfter["months"] = "critics" /\ StageAfter["critics"] = "synthesis"
  /\ StageAfter["synthesis"] = "extraction" /\ StageAfter["extraction"] = "replay"
  /\ StageAfter["replay"] = "memory" /\ StageAfter["memory"] = "year done"
BY DEF StageAfter

\* The stages of a year that write neither experiences nor what is to be done.
LEMMA SkipStageTypes ==
  ASSUME BootTypeInv, NEW p \in Process, SkipStage(p)
  PROVE  pc[p] \in Stages /\ Moves(p, Stages \cup {"year done"})
<1>1. pc[p] \in Stages /\ pc' = [pc EXCEPT ![p] = StageAfter[pc[p]]]
  BY DEF SkipStage, Go
<1>2. \A stage \in Stages : StageAfter[stage] \in Stages \cup {"year done"}
  BY StageOrder DEF Stages
<1>3. QED
  BY <1>1, <1>2 DEF Moves

LEMMA YearTypesKept ==
  ASSUME BootTypeInv, NEW p \in Process,
         \/ SkipStage(p) \/ Scaffold(p) \/ ScaffoldsDone(p) \/ EnterYear(p)
         \/ WriteMonth(p) \/ NoteAll(p) \/ MonthsDone(p) \/ ReviewYear(p)
         \/ Synthesise(p) \/ ExtractionDone(p) \/ ReplayDone(p) \/ MemoryDone(p)
         \/ LeaveYear(p),
         UNCHANGED <<linked, npcs, lifeDays, crashes, takeovers>>
  PROVE  BootTypeInv'
<1>1. UNCHANGED <<staged, replayed, lived, unmarked, todo>>
  BY DEF SkipStage, Scaffold, ScaffoldsDone, EnterYear, WriteMonth, NoteAll, MonthsDone,
         ReviewYear, Synthesise, ExtractionDone, ReplayDone, MemoryDone, LeaveYear, recordVars
<1>2. /\ Moves(p, {"scaffolds", "year", "judge", "months", "noting", "year done"} \cup Stages)
      /\ year' = year \/ pc'[p] \notin InYear
      /\ pc'[p] \in InYear => year[p] \in Year
  <2>1. pc[p] \in InYear => year[p] \in Year
    BY DEF BootTypeInv, Holds
  <2>2. pc \in [Process -> Places] /\ Stages \subseteq InYear
    BY DEF BootTypeInv, BootLoopsInv, InYear
  <2>3. CASE SkipStage(p)
    BY <2>1, <2>2, <2>3, SkipStageTypes DEF SkipStage, Moves
  <2>4. CASE Scaffold(p) \/ ScaffoldsDone(p)
    <3>1. \E place \in {"scaffolds", "year"} : pc' = [pc EXCEPT ![p] = place]
      BY <2>2, <2>4 DEF Scaffold, ScaffoldsDone, Go
    <3>2. QED
      BY <2>2, <3>1 DEF Moves, InYear, Stages
  <2>5. CASE EnterYear(p)
    <3>1. /\ \/ pc' = [pc EXCEPT ![p] = "months"] /\ year[p] \in years
             \/ pc' = [pc EXCEPT ![p] = "judge"]
          /\ year' = year
      BY <2>5 DEF EnterYear, Go, Stop
    <3>2. QED
      BY <2>2, <3>1 DEF Moves, InYear, Stages, BootTypeInv, BootRowsInv
  <2>6. CASE \/ WriteMonth(p) \/ NoteAll(p) \/ MonthsDone(p) \/ ReviewYear(p)
             \/ Synthesise(p) \/ ExtractionDone(p) \/ ReplayDone(p) \/ MemoryDone(p)
    <3>1. pc[p] \in InYear /\ year' = year
      BY <2>6 DEF WriteMonth, NoteAll, MonthsDone, ReviewYear, Synthesise, ExtractionDone,
             ReplayDone, MemoryDone, At, InYear, Stages
    <3>2. \E place \in {"judge", "noting", "year done"} \cup Stages :
            pc' = [pc EXCEPT ![p] = place]
      BY <2>2, <2>6, StageOrder
      DEF WriteMonth, NoteAll, MonthsDone, ReviewYear, Synthesise, ExtractionDone,
          ReplayDone, MemoryDone, At, Go, Stop, Checkpoint, Stages
    <3>3. QED
      BY <2>1, <3>1, <3>2 DEF Moves
  <2>7. CASE LeaveYear(p)
    <3>1. \E place \in {"year", "judge"} : pc' = [pc EXCEPT ![p] = place]
      BY <2>7 DEF LeaveYear, Go
    <3>2. QED
      BY <2>2, <3>1 DEF Moves, InYear, Stages
  <2>8. QED
    BY <2>3, <2>4, <2>5, <2>6, <2>7
<1>3. /\ \E n \in Nat : year' = [year EXCEPT ![p] = n]
      /\ \E S \in SUBSET (RetryableBlocks \cup FatalBlocks) : issues' = [issues EXCEPT ![p] = S]
  <2>1. year[p] \in Nat /\ year = [year EXCEPT ![p] = year[p]]
        /\ issues[p] \in SUBSET (RetryableBlocks \cup FatalBlocks)
        /\ issues = [issues EXCEPT ![p] = issues[p]]
    BY DEF BootTypeInv, BootLoopsInv
  <2>2. year' \in {year, [year EXCEPT ![p] = year[p] + 1], [year EXCEPT ![p] = 1]}
    BY DEF SkipStage, Scaffold, ScaffoldsDone, EnterYear, WriteMonth, NoteAll, MonthsDone,
           ReviewYear, Synthesise, ExtractionDone, ReplayDone, MemoryDone, LeaveYear, Turn
  <2>3. \/ issues' = issues
        \/ \E kinds \in {{"incomplete"}} \cup Findings :
             issues' = [issues EXCEPT ![p] = issues[p] \cup kinds]
    BY DEF SkipStage, Scaffold, ScaffoldsDone, EnterYear, WriteMonth, NoteAll, MonthsDone,
           ReviewYear, Synthesise, ExtractionDone, ReplayDone, MemoryDone, LeaveYear,
           Stop, Note
  <2>4. \A kinds \in {{"incomplete"}} \cup Findings :
          kinds \subseteq RetryableBlocks \cup FatalBlocks
    BY DEF Findings, RetryableBlocks, FatalBlocks
  <2>5. QED
    BY <2>1, <2>2, <2>3, <2>4
<1>4. BootRowsInv'
  <2>1. pc[p] \in InYear => year[p] \in Year
    BY DEF BootTypeInv, Holds
  <2>2. /\ years' \in {years, years \cup ({year[p]} \cap Year)}
        /\ months' \in {months, months \cup ({<<year[p], month[p]>>} \cap Month)}
        /\ summaries' \in {summaries, summaries \cup {year[p]}}
        /\ summaries' # summaries => pc[p] \in InYear
        /\ seen' = seen \/ \E S \in SUBSET Person : \E m : NoteAs(S, m)
    BY DEF SkipStage, Scaffold, ScaffoldsDone, EnterYear, WriteMonth, NoteAll, MonthsDone,
           ReviewYear, Synthesise, ExtractionDone, ReplayDone, MemoryDone, LeaveYear,
           recordVars, At, InYear, Stages
  <2>3. seen' \in [Person -> {"never", "long ago", "recently"}]
    BY <2>2 DEF NoteAs, BootTypeInv, BootRowsInv
  <2>4. QED
    BY <1>1, <2>1, <2>2, <2>3 DEF BootTypeInv, BootRowsInv
<1>5. BootLoopsInv'
  <2>1. {"scaffolds", "year", "judge", "months", "noting", "year done"} \cup Stages \subseteq Places
    BY DEF Places, Generating, Inside, Stages
  <2>2. pc' \in [Process -> Places]
    BY <1>2, <2>1 DEF BootTypeInv, BootLoopsInv, Moves
  <2>3. QED
    BY <1>1, <1>3, <2>2 DEF BootTypeInv, BootLoopsInv
<1>6. \A q \in Process : Holds(q)'
  <2>1. \A q \in Process \ {p} : pc'[q] = pc[q] /\ year'[q] = year[q] /\ todo'[q] = todo[q]
    BY <1>1, <1>2, <1>3 DEF BootTypeInv, BootLoopsInv, Moves
  <2>2. Holds(p)'
    BY <1>2 DEF BootTypeInv, BootLoopsInv, Holds, Moves, Stages
  <2>3. QED
    BY <1>1, <2>1, <2>2, OthersHold
<1>7. QED
  BY <1>4, <1>5, <1>6 DEF BootTypeInv

\* The stages that do.
LEMMA ExperienceTypesKept ==
  ASSUME BootTypeInv, NEW p \in Process,
         Extract(p) \/ Stage(p) \/ ReadPending(p) \/ Live(p) \/ MarkReplayed(p),
         UNCHANGED <<linked, npcs, lifeDays, crashes, takeovers>>
  PROVE  BootTypeInv'
<1>1. /\ pc[p] \in InYear /\ year[p] \in Year /\ year' = year
      /\ UNCHANGED <<years, months, seen, summaries>>
      /\ pc \in [Process -> Places] /\ todo \in [Process -> SUBSET (Experience \cup Person)]
      /\ issues \in [Process -> SUBSET (RetryableBlocks \cup FatalBlocks)]
      /\ staged \subseteq Experience /\ replayed \subseteq staged
      /\ lived \in [Experience -> Nat] /\ unmarked \in Nat
  <2>1. /\ pc[p] \in InYear /\ year' = year
        /\ UNCHANGED <<years, months, seen, summaries>>
    BY DEF Extract, Stage, ReadPending, Live, MarkReplayed, At, InYear, Stages, recordVars
  <2>2. QED
    BY <2>1 DEF BootTypeInv, BootRowsInv, BootLoopsInv, Holds
<1>2. ASSUME staged' \subseteq Experience, replayed' \subseteq staged', staged \subseteq staged',
             lived' \in [Experience -> Nat], unmarked' \in Nat,
             NEW place \in {"extraction", "staging", "living", "marking", "judge"},
             pc' = [pc EXCEPT ![p] = place],
             NEW S \in SUBSET Experience, todo' = [todo EXCEPT ![p] = S],
             place \in {"living", "marking"} => S \subseteq staged',
             place = "staging" => S \subseteq {e \in Experience : e[1] = year[p]},
             issues' \in [Process -> SUBSET (RetryableBlocks \cup FatalBlocks)]
      PROVE  BootTypeInv'
  <2>1. BootRowsInv'
    BY <1>1, <1>2 DEF BootTypeInv, BootRowsInv
  <2>2. BootLoopsInv'
    <3>1. place \in Places
      BY <1>2 DEF Places, Generating, Inside, Stages
    <3>2. QED
      BY <1>1, <1>2, <3>1 DEF BootTypeInv, BootLoopsInv
  <2>3. \A q \in Process \ {p} : Holds(q)'
    BY <1>1, <1>2, OthersHold
  <2>4. Holds(p)'
    BY <1>1, <1>2 DEF Holds
  <2>5. QED
    BY <2>1, <2>2, <2>3, <2>4 DEF BootTypeInv
<1>3. /\ pc[p] \in {"living", "marking"} => todo[p] \subseteq staged
      /\ pc[p] = "staging" => todo[p] \subseteq {e \in Experience : e[1] = year[p]}
  BY DEF BootTypeInv, Holds
<1>4. CASE Extract(p)
  <2>1. UNCHANGED <<staged, replayed, lived, unmarked>>
    BY <1>4 DEF Extract, recordVars
  <2>2. CASE pc' = pc /\ UNCHANGED <<todo, issues>>
    <3>1. pc[p] = "extraction" /\ pc' = [pc EXCEPT ![p] = "extraction"]
      BY <1>1, <1>4, <2>2 DEF Extract, At
    <3>2. BootRowsInv'
      BY <2>1, <1>1 DEF BootTypeInv, BootRowsInv
    <3>3. \A q \in Process : Holds(q)'
      BY <1>1, <2>1, <2>2 DEF BootTypeInv, Holds
    <3>4. QED
      BY <1>1, <2>2, <3>2, <3>3 DEF BootTypeInv, BootLoopsInv
  <2>3. CASE \E n \in 0..MaxPerMonth :
               /\ <<year[p], month[p]>> \in Month
               /\ todo' = [todo EXCEPT ![p] = {<<year[p], month[p], s>> : s \in 1..n}]
               /\ pc' = [pc EXCEPT ![p] = "staging"] /\ issues' = issues
    <3>1. PICK n \in 0..MaxPerMonth :
               /\ <<year[p], month[p]>> \in Month
               /\ todo' = [todo EXCEPT ![p] = {<<year[p], month[p], s>> : s \in 1..n}]
               /\ pc' = [pc EXCEPT ![p] = "staging"] /\ issues' = issues
      BY <2>3
    <3>2. \A s \in 1..n : s \in 1..MaxPerMonth
      BY <3>1, LifeAssumption
    <3>3. {<<year[p], month[p], s>> : s \in 1..n} \subseteq {e \in Experience : e[1] = year[p]}
      BY <3>1, <3>2 DEF Experience, Month
    <3>4. QED
      BY <1>1, <1>2, <2>1, <3>1, <3>3
  <2>4. CASE /\ pc' = [pc EXCEPT ![p] = "judge"] /\ todo' = todo
             /\ issues' = [issues EXCEPT ![p] = @ \cup {"incomplete"}]
    <3>1. BootRowsInv'
      BY <2>1, <1>1 DEF BootTypeInv, BootRowsInv
    <3>2. BootLoopsInv'
      BY <1>1, <2>4 DEF BootTypeInv, BootLoopsInv, RetryableBlocks, Places, Generating, Inside
    <3>3. \A q \in Process \ {p} : Holds(q)'
      BY <1>1, <2>1, <2>4, OthersHold
    <3>4. Holds(p)'
      BY <1>1, <2>4 DEF Holds, InYear, Stages
    <3>5. QED
      BY <3>1, <3>2, <3>3, <3>4 DEF BootTypeInv
  <2>5. QED
    BY <1>4, <2>2, <2>3, <2>4 DEF Extract, Go, Stop, Note
<1>5. CASE Stage(p)
  <2>1. pc[p] = "staging" /\ UNCHANGED <<replayed, lived, unmarked, issues>>
    BY <1>5 DEF Stage
  <2>2. todo[p] \subseteq Experience /\ todo = [todo EXCEPT ![p] = todo[p]]
    BY <1>1, <1>3, <2>1
  <2>3. CASE todo[p] = {} /\ UNCHANGED <<staged, todo>> /\ pc' = [pc EXCEPT ![p] = "extraction"]
    BY <1>1, <1>2, <2>1, <2>2, <2>3
  <2>4. CASE \E e \in Experience : /\ staged' = staged \cup {e}
                                   /\ todo' = [todo EXCEPT ![p] = todo[p] \ {e}] /\ pc' = pc
    <3>1. PICK e \in Experience : /\ staged' = staged \cup {e}
                                  /\ todo' = [todo EXCEPT ![p] = todo[p] \ {e}] /\ pc' = pc
      BY <2>4
    <3>2. pc' = [pc EXCEPT ![p] = "staging"]
      BY <1>1, <2>1, <3>1
    <3>3. QED
      BY <1>1, <1>2, <1>3, <2>1, <2>2, <3>1, <3>2
  <2>5. QED
    BY <1>5, <2>3, <2>4 DEF Stage, Go
<1>6. CASE ReadPending(p)
  <2>1. /\ UNCHANGED <<staged, replayed, lived, unmarked, issues>>
        /\ pc' = [pc EXCEPT ![p] = "living"]
        /\ todo' = [todo EXCEPT ![p] = Pending(year[p])]
    BY <1>6 DEF ReadPending, recordVars, Go
  <2>2. Pending(year[p]) \subseteq staged
    BY DEF Pending
  <2>3. QED
    BY <1>1, <1>2, <2>1, <2>2
<1>7. CASE Live(p)
  <2>1. /\ pc[p] = "living" /\ UNCHANGED <<staged, replayed, unmarked, todo>>
        /\ lived' = lived \/ \E e \in Experience : lived' = [lived EXCEPT ![e] = lived[e] + 1]
    BY <1>7 DEF Live
  <2>2. lived' \in [Experience -> Nat]
    BY <1>1, <2>1
  <2>3. todo[p] \subseteq staged /\ todo = [todo EXCEPT ![p] = todo[p]]
    BY <1>1, <1>3, <2>1
  <2>4. /\ \E place \in {"marking", "judge"} : pc' = [pc EXCEPT ![p] = place]
        /\ issues' \in [Process -> SUBSET (RetryableBlocks \cup FatalBlocks)]
    BY <1>1, <1>7 DEF Live, Go, Stop, Note, RetryableBlocks
  <2>5. QED
    BY <1>1, <1>2, <2>1, <2>2, <2>3, <2>4
<1>8. CASE MarkReplayed(p)
  <2>1. /\ pc[p] = "marking" /\ UNCHANGED <<staged, lived>>
        /\ \/ /\ \E e \in Experience :
                  /\ First(e, todo[p]) /\ replayed' = replayed \cup {e}
                  /\ todo' = [todo EXCEPT ![p] = todo[p] \ {e}]
             /\ pc' = [pc EXCEPT ![p] = "living"] /\ UNCHANGED <<issues, unmarked>>
           \/ /\ pc' = [pc EXCEPT ![p] = "judge"] /\ unmarked' = unmarked + 1
             /\ issues' = [issues EXCEPT ![p] = @ \cup {"model_unavailable"}]
             /\ UNCHANGED <<replayed, todo>>
    BY <1>8 DEF MarkReplayed, Go, Stop, Note
  <2>2. CASE issues' = issues /\ unmarked' = unmarked
             /\ pc' = [pc EXCEPT ![p] = "living"]
             /\ \E e \in Experience :
                  /\ First(e, todo[p]) /\ replayed' = replayed \cup {e}
                  /\ todo' = [todo EXCEPT ![p] = todo[p] \ {e}]
    <3>1. PICK e \in Experience : /\ First(e, todo[p]) /\ replayed' = replayed \cup {e}
                                  /\ todo' = [todo EXCEPT ![p] = todo[p] \ {e}]
      BY <2>2
    <3>2. e \in staged /\ todo[p] \ {e} \subseteq staged
      BY <1>3, <2>1, <3>1 DEF First
    <3>3. todo[p] \ {e} \in SUBSET Experience /\ replayed' \subseteq staged
      BY <1>1, <3>1, <3>2
    <3>4. QED
      BY <1>1, <1>2, <2>1, <2>2, <3>1, <3>2, <3>3
  <2>3. CASE /\ pc' = [pc EXCEPT ![p] = "judge"] /\ unmarked' = unmarked + 1
             /\ issues' = [issues EXCEPT ![p] = @ \cup {"model_unavailable"}]
             /\ UNCHANGED <<replayed, todo>>
    <3>1. todo[p] \subseteq staged /\ todo' = [todo EXCEPT ![p] = todo[p]]
      BY <1>1, <1>3, <2>1, <2>3
    <3>2. issues' \in [Process -> SUBSET (RetryableBlocks \cup FatalBlocks)]
      BY <1>1, <2>3 DEF RetryableBlocks
    <3>3. todo[p] \in SUBSET Experience /\ unmarked' \in Nat
      BY <1>1, <2>3, <3>1
    <3>4. /\ staged' \subseteq Experience /\ replayed' \subseteq staged'
          /\ staged \subseteq staged' /\ lived' \in [Experience -> Nat]
      BY <1>1, <2>1, <2>3
    <3>5. pc' = [pc EXCEPT ![p] = "judge"]
      BY <2>3
    <3>6. QED
      BY <1>2, <3>1, <3>2, <3>3, <3>4, <3>5
  <2>4. QED
    BY <2>1, <2>2, <2>3
<1>9. QED
  BY <1>4, <1>5, <1>6, <1>7, <1>8

\* What the orchestrator does around it.
LEMMA BootTypesKept ==
  ASSUME BootTypeInv, NEW p \in Process,
         \/ Start(p) \/ Resume(p) \/ Backup(p) \/ NewRun(p) \/ AttachRun(p) \/ MarkRunning(p)
         \/ BumpAttempt(p) \/ Judge(p) \/ ToAuditing(p) \/ Audit(p) \/ Introduce(p)
         \/ Link(p) \/ RetireJobs(p) \/ OpenDay(p) \/ LandingFails(p) \/ FinalConsistency(p)
         \/ SaveReport(p) \/ Complete(p) \/ FinishRun(p) \/ Release(p) \/ Crash(p)
  PROVE  BootTypeInv'
<1>1. UNCHANGED <<years, months, seen, summaries, staged, replayed, lived, unmarked>>
  BY DEF Start, Resume, Backup, NewRun, AttachRun, MarkRunning, BumpAttempt, Judge, ToAuditing,
         Audit, Introduce, Link, RetireJobs, OpenDay, LandingFails, FinalConsistency,
         SaveReport, Complete, FinishRun, Release, Crash, recordVars
<1>2. /\ pc \in [Process -> Places] /\ todo \in [Process -> SUBSET (Experience \cup Person)]
      /\ issues \in [Process -> SUBSET (RetryableBlocks \cup FatalBlocks)]
      /\ year \in [Process -> Nat]
      /\ linked \subseteq Person /\ npcs \in [Person -> Nat]
      /\ lifeDays \in {0, 1} /\ crashes \in Nat /\ takeovers \in Nat
  BY DEF BootTypeInv, BootRowsInv, BootLoopsInv
<1>3. CASE Audit(p) \/ Introduce(p) \/ Link(p)
  <2>1. UNCHANGED <<year, issues, lifeDays, crashes, takeovers>>
    BY <1>3 DEF Audit, Introduce, Link, boundVars, landVars
  <2>2. /\ pc[p] \in {"promote", "link"} => todo[p] \subseteq Person
        /\ pc[p] = "link" => todo[p] # {} /\ npcs[InTurn(todo[p])] > 0
        /\ todo[p] # {} => InTurn(todo[p]) \in todo[p]
    BY OneIsInTurn DEF BootTypeInv, Holds
  <2>3. ASSUME NEW place \in {"promote", "link", "release", "retire jobs"},
               pc' = [pc EXCEPT ![p] = place],
               NEW S \in SUBSET (Experience \cup Person), todo' = [todo EXCEPT ![p] = S],
               place \in {"promote", "link"} => S \subseteq Person,
               place = "link" => S # {} /\ npcs'[InTurn(S)] > 0,
               npcs' \in [Person -> Nat], \A r \in Person : npcs[r] > 0 => npcs'[r] > 0,
               linked' \subseteq Person
        PROVE  BootTypeInv'
    <3>1. BootRowsInv'
      BY <1>1, <2>1, <2>3 DEF BootTypeInv, BootRowsInv
    <3>2. BootLoopsInv'
      BY <1>2, <2>1, <2>3 DEF BootLoopsInv, Places, Finalising
    <3>3. \A q \in Process \ {p} : Holds(q)'
      BY <1>1, <1>2, <2>1, <2>3, OthersHold
    <3>4. pc'[p] = place /\ todo'[p] = S
      BY <1>2, <2>3
    <3>5. Holds(p)'
      BY <2>3, <3>4 DEF Holds, InYear, Stages
    <3>6. QED
      BY <3>1, <3>2, <3>3, <3>5 DEF BootTypeInv
  <2>4. CASE Audit(p)
    <3>1. /\ UNCHANGED <<npcs, linked>>
          /\ \/ /\ pc' = [pc EXCEPT ![p] = "promote"]
                /\ todo' = [todo EXCEPT ![p] = Survivors]
             \/ pc' = [pc EXCEPT ![p] = "release"] /\ todo' = todo
      BY <2>4 DEF Audit, Block, Go, landVars
    <3>2. Survivors \subseteq Person
      BY DEF Survivors
    <3>3. todo = [todo EXCEPT ![p] = todo[p]] /\ todo[p] \in SUBSET (Experience \cup Person)
      BY <1>2
    <3>4. QED
      BY <1>2, <2>3, <3>1, <3>2, <3>3
  <2>5. CASE Introduce(p)
    <3>1. /\ pc[p] = "promote" /\ linked' = linked
          /\ todo = [todo EXCEPT ![p] = todo[p]] /\ pc = [pc EXCEPT ![p] = "promote"]
      BY <1>2, <2>5 DEF Introduce
    <3>2. \/ /\ pc' = [pc EXCEPT ![p] = "retire jobs"] /\ UNCHANGED <<npcs, todo>>
          \/ /\ todo' = [todo EXCEPT ![p] = todo[p] \ {InTurn(todo[p])}]
             /\ UNCHANGED <<pc, npcs>>
          \/ /\ todo[p] # {} /\ pc' = [pc EXCEPT ![p] = "link"] /\ UNCHANGED todo
             /\ npcs' = [npcs EXCEPT ![InTurn(todo[p])] = @ + 1]
      BY <2>5 DEF Introduce, Go
    <3>3. CASE UNCHANGED npcs
      <4>1. todo[p] \subseteq Person /\ todo[p] \ {InTurn(todo[p])} \subseteq Person
        BY <2>2, <3>1
      <4>2. \/ pc' = [pc EXCEPT ![p] = "retire jobs"] /\ todo' = [todo EXCEPT ![p] = todo[p]]
            \/ /\ pc' = [pc EXCEPT ![p] = "promote"]
               /\ todo' = [todo EXCEPT ![p] = todo[p] \ {InTurn(todo[p])}]
            \/ /\ todo[p] # {} /\ InTurn(todo[p]) \in Person
               /\ npcs' = [npcs EXCEPT ![InTurn(todo[p])] = @ + 1]
        BY <2>2, <3>1, <3>2
      <4>3. ~\E r \in Person : npcs' = [npcs EXCEPT ![r] = @ + 1]
        BY <1>2, <3>3
      <4>4. QED
        BY <1>2, <2>3, <3>1, <3>3, <4>1, <4>2, <4>3
    <3>4. CASE /\ todo[p] # {} /\ pc' = [pc EXCEPT ![p] = "link"] /\ UNCHANGED todo
               /\ npcs' = [npcs EXCEPT ![InTurn(todo[p])] = @ + 1]
      <4>1. InTurn(todo[p]) \in Person /\ todo[p] \subseteq Person
        BY <2>2, <3>1, <3>4
      <4>2. /\ npcs' \in [Person -> Nat] /\ npcs'[InTurn(todo[p])] > 0
            /\ \A r \in Person : npcs[r] > 0 => npcs'[r] > 0
        BY <1>2, <3>4, <4>1
      <4>3. QED
        BY <1>2, <2>3, <3>1, <3>4, <4>1, <4>2
    <3>5. QED
      BY <3>2, <3>3, <3>4
  <2>6. CASE Link(p)
    <3>1. /\ pc[p] = "link" /\ pc' = [pc EXCEPT ![p] = "promote"] /\ npcs' = npcs
          /\ linked' = linked \cup {InTurn(todo[p])}
          /\ todo' = [todo EXCEPT ![p] = todo[p] \ {InTurn(todo[p])}]
      BY <2>6 DEF Link, Go
    <3>2. todo[p] \ {InTurn(todo[p])} \subseteq Person /\ InTurn(todo[p]) \in Person
      BY <2>2, <3>1
    <3>3. QED
      BY <1>2, <2>3, <3>1, <3>2
  <2>7. QED
    BY <1>3, <2>4, <2>5, <2>6
<1>4. CASE ~(Audit(p) \/ Introduce(p) \/ Link(p))
  <2>1. Moves(p, {"off", "backup", "new run", "attach", "mark running", "bump", "release",
                  "scaffolds", "judge"} \cup (Finalising \ {"promote", "link"}))
    BY <1>4 DEF Start, Resume, Backup, NewRun, AttachRun, MarkRunning, BumpAttempt, Judge,
           ToAuditing, Audit, Introduce, Link, RetireJobs, OpenDay, LandingFails,
           FinalConsistency, SaveReport, Complete, FinishRun, Release, Crash, Begin, Block, Go,
           Moves, Finalising
  <2>2. PICK place \in {"off", "backup", "new run", "attach", "mark running", "bump", "release",
                  "scaffolds", "judge"} \cup (Finalising \ {"promote", "link"}) :
          pc' = [pc EXCEPT ![p] = place]
    BY <2>1 DEF Moves
  <2>3. place \in Places /\ place \notin InYear /\ place \notin {"promote", "link"}
    BY DEF Places, Generating, Inside, InYear, Stages, Finalising
  <2>4. /\ todo' = todo \/ todo' = [todo EXCEPT ![p] = {}]
        /\ year' = year \/ year' = [year EXCEPT ![p] = 1]
        /\ issues' = issues \/ issues' = [issues EXCEPT ![p] = {}]
        /\ UNCHANGED npcs
    BY <1>4 DEF Start, Resume, Backup, NewRun, AttachRun, MarkRunning, BumpAttempt, Judge,
           ToAuditing, Audit, Introduce, Link, RetireJobs, OpenDay, LandingFails,
           FinalConsistency, SaveReport, Complete, FinishRun, Release, Crash, Begin, Forget,
           loopVars, landVars
  <2>5. /\ crashes' \in Nat /\ takeovers' \in Nat /\ lifeDays' \in {0, 1}
        /\ linked' \subseteq Person
    <3>1. crashes' \in {crashes, crashes + 1} /\ takeovers' \in {takeovers, takeovers + 1}
      BY DEF Start, Resume, Backup, NewRun, AttachRun, MarkRunning, BumpAttempt, Judge,
           ToAuditing, Audit, Introduce, Link, RetireJobs, OpenDay, LandingFails,
           FinalConsistency, SaveReport, Complete, FinishRun, Release, Crash, Command, Acquire,
           boundVars
    <3>2. lifeDays' \in {lifeDays, 1}
      BY DEF Start, Resume, Backup, NewRun, AttachRun, MarkRunning, BumpAttempt, Judge,
           ToAuditing, Audit, Introduce, Link, RetireJobs, OpenDay, LandingFails,
           FinalConsistency, SaveReport, Complete, FinishRun, Release, Crash, landVars
    <3>3. linked' = linked
      BY <1>4 DEF Start, Resume, Backup, NewRun, AttachRun, MarkRunning, BumpAttempt, Judge,
           ToAuditing, Audit, Introduce, Link, RetireJobs, OpenDay, LandingFails,
           FinalConsistency, SaveReport, Complete, FinishRun, Release, Crash, landVars
    <3>5. linked' \subseteq Person
      BY <1>2, <3>3
    <3>6. crashes' \in Nat /\ takeovers' \in Nat
      <4>1. crashes \in Nat /\ takeovers \in Nat
        BY DEF BootTypeInv, BootRowsInv
      <4>2. QED
        BY <3>1, <4>1, SameOrOneMore
    <3>7. lifeDays' \in {0, 1}
      BY <1>2, <3>2
    <3>8. QED
      BY <3>5, <3>6, <3>7
  <2>6. BootRowsInv'
    BY <1>1, <1>2, <2>4, <2>5 DEF BootTypeInv, BootRowsInv
  <2>7. BootLoopsInv'
    <3>1. pc' \in [Process -> Places]
      BY <1>2, <2>2, <2>3
    <3>2. year' \in [Process -> Nat]
      <4>1. year \in [Process -> Nat]
        BY DEF BootTypeInv, BootLoopsInv
      <4>2. 1 \in Nat /\ (year' = year \/ year' = [year EXCEPT ![p] = 1])
        BY <2>4
      <4>3. QED
        BY <4>1, <4>2, SameButAt
    <3>3. todo' \in [Process -> SUBSET (Experience \cup Person)]
      <4>1. {} \in SUBSET (Experience \cup Person)
        OBVIOUS
      <4>2. todo' = todo \/ todo' = [todo EXCEPT ![p] = {}]
        BY <2>4
      <4>3. todo \in [Process -> SUBSET (Experience \cup Person)]
        BY <1>2
      <4>4. QED
        BY <4>1, <4>2, <4>3, SameButAt
    <3>4. issues' \in [Process -> SUBSET (RetryableBlocks \cup FatalBlocks)]
      BY <1>2, <2>4
    <3>5. QED
      BY <3>1, <3>2, <3>3, <3>4 DEF BootLoopsInv
  <2>8. \A q \in Process \ {p} : Holds(q)'
    BY <1>1, <1>2, <2>2, <2>4, OthersHold
  <2>9. Holds(p)'
    BY <1>2, <2>2, <2>3 DEF Holds, InYear
  <2>10. QED
    BY <2>6, <2>7, <2>8, <2>9 DEF BootTypeInv
<1>5. QED
  BY <1>3, <1>4

LEMMA BootTypeKept ==
  ASSUME BootTypeInv, [Next]_vars
  PROVE  BootTypeInv'
<1>1. ASSUME NEW p \in Process, Generate(p)
      PROVE  BootTypeInv'
  <2>1. UNCHANGED <<linked, npcs, lifeDays, crashes, takeovers>>
    BY <1>1 DEF Generate, landVars, boundVars
  <2>2. QED
    BY <1>1, <2>1, YearTypesKept, ExperienceTypesKept DEF Generate, GenesisStep
<1>2. CASE Pause \/ LeaseLapses \/ UNCHANGED vars
  <2>1. UNCHANGED <<years, months, seen, summaries, staged, replayed, lived, unmarked, pc, year, todo,
                    issues, linked, npcs, lifeDays, crashes, takeovers>>
    BY <1>2 DEF Pause, LeaseLapses, vars, genesisVars, recordVars, loopVars, landVars, boundVars
  <2>2. QED
    BY <2>1 DEF BootTypeInv, BootRowsInv, BootLoopsInv, Holds
<1>3. QED
  BY <1>1, <1>2, BootTypesKept DEF Next, Step

-----------------------------------------------------------------------------
(* How often an experience is lived.                                       *)

AtWork == {p \in Process : ~Idle(p)}
\* Those that have lived e, or gone past it, and not marked it yet.
Marking(e) == {p \in Process : pc[p] = "marking" /\ First(e, todo[p])}
\* Those that have read e as pending and not come to it.
Awaiting(e) ==
  {p \in Process : pc[p] \in {"living", "marking"} /\ e \in todo[p]} \ Marking(e)

\* What keeps from being marked what was lived.
Cuts == crashes + unmarked

LEMMA CutsAreCounted ==
  BootTypeInv => crashes \in Nat /\ unmarked \in Nat /\ Cuts \in Nat
<1>1. BootTypeInv => crashes \in Nat /\ unmarked \in Nat
  BY DEF BootTypeInv, BootRowsInv
<1>2. crashes \in Nat /\ unmarked \in Nat => Cuts \in Nat
  BY DEF Cuts
<1>3. QED
  BY <1>1, <1>2

\* While e is pending, every life of it but those about to be marked ended in
\* a crash; once it is marked, those who still hold it may live it again.
LivedInv ==
  /\ Cardinality(AtWork) <= 1 + takeovers
  /\ \A e \in Experience \ replayed : lived[e] <= Cuts + Cardinality(Marking(e))
  /\ \A e \in Experience \cap replayed :
       lived[e] + Cardinality(Awaiting(e)) <= 1 + Cuts + takeovers

LEMMA FirstIsOne ==
  ASSUME NEW S \in SUBSET Experience, NEW e, NEW f, First(e, S), First(f, S)
  PROVE  e = f
<1>1. e \in Experience /\ f \in Experience
  BY DEF First
<1>2. e[2] \in Nat /\ f[2] \in Nat /\ e[3] \in Nat /\ f[3] \in Nat
  BY <1>1, LifeAssumption DEF Experience
<1>3. ASSUME e # f PROVE FALSE
  <2>1. (e[2] < f[2] \/ (e[2] = f[2] /\ e[3] < f[3]))
        /\ (f[2] < e[2] \/ (f[2] = e[2] /\ f[3] < e[3]))
    BY <1>3 DEF First
  <2>2. QED
    BY <1>2, <2>1
<1>4. QED
  BY <1>3

LEMMA SomeProcesses ==
  \A S \in SUBSET Process :
    /\ IsFiniteSet(S) /\ Cardinality(S) \in Nat
    /\ \A T \in SUBSET S : Cardinality(T) <= Cardinality(S)
    /\ \A p \in Process :
         /\ Cardinality(S \cup {p}) <= Cardinality(S) + 1
         /\ Cardinality(S \ {p}) \in Nat
         /\ Cardinality(S) <= Cardinality(S \ {p}) + 1
         /\ p \in S => Cardinality(S) = Cardinality(S \ {p}) + 1
         /\ p \notin S => Cardinality(S \cup {p}) = Cardinality(S) + 1
<1> SUFFICES ASSUME NEW S \in SUBSET Process
             PROVE
               /\ IsFiniteSet(S) /\ Cardinality(S) \in Nat
               /\ \A T \in SUBSET S : Cardinality(T) <= Cardinality(S)
               /\ \A p \in Process :
                    /\ Cardinality(S \cup {p}) <= Cardinality(S) + 1
                    /\ Cardinality(S \ {p}) \in Nat
                    /\ Cardinality(S) <= Cardinality(S \ {p}) + 1
                    /\ p \in S => Cardinality(S) = Cardinality(S \ {p}) + 1
                    /\ p \notin S => Cardinality(S \cup {p}) = Cardinality(S) + 1
  OBVIOUS
<1>1. IsFiniteSet(S)
  BY LifeAssumption, FS_Subset
<1>2. Cardinality(S) \in Nat
  BY <1>1, FS_CardinalityType
<1>3. \A T \in SUBSET S : Cardinality(T) <= Cardinality(S)
  BY <1>1, FS_Subset
<1>4. ASSUME NEW p \in Process
      PROVE  /\ Cardinality(S \cup {p}) <= Cardinality(S) + 1
             /\ Cardinality(S \ {p}) \in Nat
             /\ Cardinality(S) <= Cardinality(S \ {p}) + 1
             /\ (p \in S) => Cardinality(S) = Cardinality(S \ {p}) + 1
             /\ (p \notin S) => Cardinality(S \cup {p}) = Cardinality(S) + 1
  <2>1. Cardinality(S \cup {p}) = IF p \in S THEN Cardinality(S) ELSE Cardinality(S) + 1
    BY <1>1, FS_AddElement
  <2>2. Cardinality(S \ {p}) = IF p \in S THEN Cardinality(S) - 1 ELSE Cardinality(S)
    BY <1>1, FS_RemoveElement
  <2>3. IsFiniteSet(S \ {p}) /\ Cardinality(S \ {p}) \in Nat
    BY <1>1, FS_Subset, FS_CardinalityType
  <2>4. QED
    BY <1>2, <2>1, <2>2, <2>3
<1>5. QED
  BY <1>1, <1>2, <1>3, <1>4

\* Whoever lives, marks or waits for an experience is at work.
LEMMA MarkingOrAwaiting ==
  ASSUME NEW e
  PROVE  /\ Marking(e) \subseteq Process /\ Awaiting(e) \subseteq Process
         /\ AtWork \subseteq Process
         /\ Cardinality(Marking(e)) + Cardinality(Awaiting(e)) <= Cardinality(AtWork)
<1>1. /\ Marking(e) \subseteq Process /\ Awaiting(e) \subseteq Process
      /\ AtWork \subseteq Process
  BY DEF Marking, Awaiting, AtWork
<1>2. Marking(e) \cup Awaiting(e) \subseteq AtWork
  BY DEF Marking, Awaiting, AtWork, Idle
<1>3. Marking(e) \cap Awaiting(e) = {}
  BY DEF Awaiting
<1>4. /\ IsFiniteSet(Marking(e)) /\ IsFiniteSet(Awaiting(e)) /\ IsFiniteSet(AtWork)
      /\ Cardinality(Marking(e)) \in Nat /\ Cardinality(Awaiting(e)) \in Nat
  BY <1>1, SomeProcesses
<1>5. Cardinality(Marking(e) \cup Awaiting(e))
        = Cardinality(Marking(e)) + Cardinality(Awaiting(e))
  <2>1. Cardinality(Marking(e) \cup Awaiting(e))
          = Cardinality(Marking(e)) + Cardinality(Awaiting(e))
              - Cardinality(Marking(e) \cap Awaiting(e))
    BY <1>4, FS_Union
  <2>2. Cardinality(Marking(e) \cap Awaiting(e)) = 0
    BY <1>3, FS_EmptySet
  <2>3. QED
    BY <1>4, <2>1, <2>2
<1>6. Cardinality(Marking(e) \cup Awaiting(e)) <= Cardinality(AtWork)
  BY <1>1, <1>2, SomeProcesses
<1>7. QED
  BY <1>1, <1>5, <1>6

\* The steps that live and mark nothing.
LEMMA ElsewhereTheySay ==
  ASSUME BootTypeInv, NEW p \in Process,
         \/ Start(p) \/ Resume(p) \/ Backup(p) \/ NewRun(p) \/ AttachRun(p) \/ MarkRunning(p)
         \/ BumpAttempt(p) \/ Judge(p) \/ ToAuditing(p) \/ Audit(p) \/ Introduce(p)
         \/ Link(p) \/ RetireJobs(p) \/ OpenDay(p) \/ LandingFails(p) \/ FinalConsistency(p)
         \/ SaveReport(p) \/ Complete(p) \/ FinishRun(p) \/ Release(p)
  PROVE  /\ UNCHANGED <<lived, replayed, Cuts>> /\ pc[p] # "marking"
         /\ Moves(p, Places \ {"living", "marking"})
         /\ \A q \in Process \ {p} : todo'[q] = todo[q]
<1>1. UNCHANGED <<lived, replayed, Cuts>> /\ pc[p] # "marking"
  BY DEF Start, Resume, Backup, NewRun, AttachRun, MarkRunning, BumpAttempt, Judge, ToAuditing,
         Audit, Introduce, Link, RetireJobs, OpenDay, LandingFails, FinalConsistency,
         SaveReport, Complete, FinishRun, Release, Idle, recordVars, boundVars, Finalising, Cuts
<1>2. Moves(p, {"off", "backup", "new run", "attach", "mark running", "bump", "release",
                  "scaffolds", "judge"} \cup Finalising)
  <2>1. Introduce(p) => \E place \in {"promote", "link", "retire jobs"} :
                           pc' = [pc EXCEPT ![p] = place]
    <3>1. pc[p] = "promote" => pc = [pc EXCEPT ![p] = "promote"]
      BY DEF BootTypeInv, BootLoopsInv
    <3>2. QED
      BY <3>1 DEF Introduce, Go
  <2>2. QED
    BY <2>1
    DEF Start, Resume, Backup, NewRun, AttachRun, MarkRunning, BumpAttempt, Judge,
        ToAuditing, Audit, Link, RetireJobs, OpenDay, LandingFails,
        FinalConsistency, SaveReport, Complete, FinishRun, Release, Begin, Block, Go,
        Moves, Finalising
<1>3. {"off", "backup", "new run", "attach", "mark running", "bump", "release",
       "scaffolds", "judge"} \cup Finalising \subseteq Places \ {"living", "marking"}
  BY DEF Places, Generating, Inside, Finalising
<1>4. todo' = todo \/ \E S : todo' = [todo EXCEPT ![p] = S]
  BY DEF Start, Resume, Backup, NewRun, AttachRun, MarkRunning, BumpAttempt, Judge,
         ToAuditing, Audit, Introduce, Link, RetireJobs, OpenDay, LandingFails,
         FinalConsistency, SaveReport, Complete, FinishRun, Release, Begin, Forget, loopVars
<1>5. todo \in [Process -> SUBSET (Experience \cup Person)]
  BY DEF BootTypeInv, BootLoopsInv
<1>6. QED
  BY <1>1, <1>2, <1>3, <1>4, <1>5 DEF Moves

LEMMA ElsewhereInAYear ==
  ASSUME BootTypeInv, NEW p \in Process,
         \/ SkipStage(p) \/ Scaffold(p) \/ ScaffoldsDone(p) \/ EnterYear(p)
         \/ WriteMonth(p) \/ NoteAll(p) \/ MonthsDone(p) \/ ReviewYear(p)
         \/ Synthesise(p) \/ Extract(p) \/ Stage(p) \/ ExtractionDone(p)
         \/ ReplayDone(p) \/ MemoryDone(p) \/ LeaveYear(p)
  PROVE  /\ UNCHANGED <<lived, replayed, unmarked>> /\ pc[p] # "marking"
         /\ Moves(p, Places \ {"living", "marking"})
         /\ \A q \in Process \ {p} : todo'[q] = todo[q]
<1>0. pc \in [Process -> Places]
  BY DEF BootTypeInv, BootLoopsInv
<1>1. UNCHANGED <<lived, replayed, unmarked>> /\ pc[p] # "marking"
  BY DEF SkipStage, Scaffold, ScaffoldsDone, EnterYear, WriteMonth, NoteAll, MonthsDone,
         ReviewYear, Synthesise, Extract, Stage, ExtractionDone, ReplayDone, MemoryDone,
         LeaveYear, recordVars, At, Stages
<1>2. Moves(p, {"scaffolds", "year", "months", "noting", "year done", "judge", "staging"}
                 \cup Stages)
  <2>1. CASE SkipStage(p)
    BY <2>1, SkipStageTypes DEF Moves
  <2>2. CASE ~SkipStage(p)
    BY <2>2, <1>0, StageOrder
    DEF Scaffold, ScaffoldsDone, EnterYear, WriteMonth, NoteAll, MonthsDone,
        ReviewYear, Synthesise, Extract, Stage, ExtractionDone, ReplayDone, MemoryDone,
        LeaveYear, At, Go, Stop, Checkpoint, Stages, Moves
  <2>3. QED
    BY <2>1, <2>2
<1>3. {"scaffolds", "year", "months", "noting", "year done", "judge", "staging"} \cup Stages
        \subseteq Places \ {"living", "marking"}
  BY DEF Places, Generating, Inside, Stages
<1>4. todo' = todo \/ \E S : todo' = [todo EXCEPT ![p] = S]
  BY DEF SkipStage, Scaffold, ScaffoldsDone, EnterYear, WriteMonth, NoteAll, MonthsDone,
         ReviewYear, Synthesise, Extract, Stage, ExtractionDone, ReplayDone, MemoryDone,
         LeaveYear
<1>5. todo \in [Process -> SUBSET (Experience \cup Person)]
  BY DEF BootTypeInv, BootLoopsInv
<1>6. QED
  BY <1>1, <1>2, <1>3, <1>4, <1>5 DEF Moves

\* A step that lives and marks nothing may only end a wait.
LEMMA LivedOtherwise ==
  ASSUME BootTypeInv, LivedInv, NEW p \in Process,
         lived' = lived, replayed' = replayed, pc[p] # "marking",
         Moves(p, Places \ {"living", "marking"}),
         \A q \in Process \ {p} : todo'[q] = todo[q],
         Cuts' = Cuts, takeovers' = takeovers \/ takeovers' = takeovers + 1,
         Cardinality(AtWork') <= 1 + takeovers'
  PROVE  LivedInv'
<1>1. \A e \in Experience : Marking(e)' = Marking(e) /\ Awaiting(e)' \subseteq Awaiting(e)
  <2>1. PICK place \in Places \ {"living", "marking"} : pc' = [pc EXCEPT ![p] = place]
    BY DEF Moves
  <2>2. /\ pc'[p] \notin {"living", "marking"}
        /\ \A q \in Process \ {p} : pc'[q] = pc[q]
    BY <2>1 DEF BootTypeInv, BootLoopsInv
  <2>3. ASSUME NEW e \in Experience, NEW q \in Process
        PROVE  /\ q \in Marking(e)' <=> q \in Marking(e)
               /\ q \in Awaiting(e)' => q \in Awaiting(e)
    BY <2>2 DEF Marking, Awaiting, First
  <2>4. QED
    BY <2>3 DEF Marking, Awaiting
<1>2. \A e \in Experience : /\ Cardinality(Marking(e)') = Cardinality(Marking(e))
                            /\ Cardinality(Awaiting(e)') <= Cardinality(Awaiting(e))
                            /\ Cardinality(Awaiting(e)) \in Nat
                            /\ Cardinality(Awaiting(e)') \in Nat
  <2>1. ASSUME NEW e \in Experience
        PROVE  /\ Awaiting(e) \in SUBSET Process
               /\ Awaiting(e)' \in SUBSET Awaiting(e)
               /\ Awaiting(e)' \in SUBSET Process
    BY <1>1 DEF Awaiting
  <2>2. QED
    BY <1>1, <2>1, SomeProcesses
<1>3. Cuts \in Nat /\ takeovers \in Nat /\ lived \in [Experience -> Nat]
  BY CutsAreCounted DEF BootTypeInv, BootRowsInv
<1>4. \A e \in (Experience \ replayed)' : lived'[e] <= Cuts' + Cardinality(Marking(e)')
  BY <1>2 DEF LivedInv
<1>5. ASSUME NEW e \in (Experience \cap replayed)'
      PROVE  lived'[e] + Cardinality(Awaiting(e)') <= 1 + Cuts' + takeovers'
  <2>1. /\ lived[e] + Cardinality(Awaiting(e)) <= 1 + Cuts + takeovers
        /\ lived'[e] = lived[e] /\ lived[e] \in Nat
    BY <1>3, <1>5 DEF LivedInv
  <2>2. /\ Cardinality(Awaiting(e)') <= Cardinality(Awaiting(e))
        /\ Cardinality(Awaiting(e)) \in Nat /\ Cardinality(Awaiting(e)') \in Nat
    BY <1>2, <1>5
  <2>3. QED
    BY <1>3, <2>1, <2>2
<1>6. QED
  BY <1>4, <1>5 DEF LivedInv

\* Only a process at work takes a step, and it moves nobody else.
LEMMA StepsAreAtWork ==
  ASSUME NEW p \in Process, Step(p) \/ Crash(p)
  PROVE  /\ ~Idle(p)
         /\ pc' = pc \/ \E place : pc' = [pc EXCEPT ![p] = place]
<1>1. ~Idle(p)
  <2>1. Generate(p) => pc[p] # "off"
    BY DEF Generate, GenesisStep, SkipStage, Scaffold, ScaffoldsDone, EnterYear, WriteMonth,
           NoteAll, MonthsDone, ReviewYear, Synthesise, Extract, Stage, ExtractionDone,
           ReadPending, Live, MarkReplayed, ReplayDone, MemoryDone, LeaveYear, At, Stages
  <2>2. QED
    BY <2>1
    DEF Step, Backup, NewRun, AttachRun, MarkRunning, BumpAttempt, Judge, ToAuditing, Audit,
        Introduce, Link, RetireJobs, OpenDay, LandingFails, FinalConsistency, SaveReport,
        Complete, FinishRun, Release, Crash, Idle
<1>2. pc' = pc \/ \E place : pc' = [pc EXCEPT ![p] = place]
  <2>1. Generate(p) => (pc' = pc \/ \E place : pc' = [pc EXCEPT ![p] = place])
    BY DEF Generate, GenesisStep, SkipStage, Scaffold, ScaffoldsDone, EnterYear, WriteMonth,
           NoteAll, MonthsDone, ReviewYear, Synthesise, Extract, Stage, ExtractionDone,
           ReadPending, Live, MarkReplayed, ReplayDone, MemoryDone, LeaveYear, Go, Stop,
           Checkpoint
  <2>2. QED
    BY <2>1
    DEF Step, Backup, NewRun, AttachRun, MarkRunning, BumpAttempt, Judge, ToAuditing, Audit,
        Introduce, Link, RetireJobs, OpenDay, LandingFails, FinalConsistency, SaveReport,
        Complete, FinishRun, Release, Crash, Begin, Block, Go
<1>3. QED
  BY <1>1, <1>2

\* One who starts while another is at work takes over from it.
LEMMA AtWorkKept ==
  ASSUME BootTypeInv, LivedInv, [Next]_vars
  PROVE  /\ Cardinality(AtWork') <= 1 + takeovers'
         /\ takeovers' = takeovers \/ takeovers' = takeovers + 1
<1>1. pc \in [Process -> Places] /\ takeovers \in Nat /\ AtWork \in SUBSET Process
  BY DEF BootTypeInv, BootRowsInv, BootLoopsInv, AtWork
<1>2. Cardinality(AtWork) \in Nat /\ Cardinality(AtWork) <= 1 + takeovers
  BY <1>1, SomeProcesses DEF LivedInv
<1>3. ASSUME NEW p \in Process, Start(p) \/ Resume(p)
      PROVE  /\ Cardinality(AtWork') <= 1 + takeovers'
             /\ takeovers' = takeovers \/ takeovers' = takeovers + 1
  <2>1. /\ Idle(p) /\ \E place : pc' = [pc EXCEPT ![p] = place]
        /\ takeovers' = IF \E q \in Process : ~Idle(q) THEN takeovers + 1 ELSE takeovers
    BY <1>3 DEF Start, Resume, Acquire, Go
  <2>2. AtWork' \subseteq AtWork \cup {p}
    BY <1>1, <2>1 DEF AtWork, Idle
  <2>3. AtWork \cup {p} \in SUBSET Process
    BY <1>1
  <2>4. /\ Cardinality(AtWork') <= Cardinality(AtWork \cup {p})
        /\ Cardinality(AtWork \cup {p}) <= Cardinality(AtWork) + 1
        /\ Cardinality(AtWork \cup {p}) \in Nat
    BY <1>1, <2>2, <2>3, SomeProcesses
  <2>5. Cardinality(AtWork') \in Nat
    BY <2>2, <2>3, SomeProcesses
  <2>6. CASE \E q \in Process : ~Idle(q)
    BY <1>1, <1>2, <2>1, <2>4, <2>5, <2>6
  <2>7. CASE ~\E q \in Process : ~Idle(q)
    <3>1. AtWork = {}
      BY <2>7 DEF AtWork
    <3>2. Cardinality(AtWork) = 0
      BY <3>1, FS_EmptySet
    <3>3. QED
      BY <1>1, <2>1, <2>4, <2>5, <2>7, <3>2
  <2>8. QED
    BY <2>6, <2>7
<1>4. ASSUME takeovers' = takeovers, AtWork' \subseteq AtWork
      PROVE  /\ Cardinality(AtWork') <= 1 + takeovers'
             /\ takeovers' = takeovers \/ takeovers' = takeovers + 1
  <2>1. Cardinality(AtWork') <= Cardinality(AtWork) /\ Cardinality(AtWork') \in Nat
    BY <1>1, <1>4, SomeProcesses
  <2>2. QED
    BY <1>1, <1>2, <1>4, <2>1
<1>5. ASSUME NEW p \in Process, Step(p) \/ Crash(p)
      PROVE  takeovers' = takeovers /\ AtWork' \subseteq AtWork
  <2>1. takeovers' = takeovers
    BY <1>5 DEF Step, Generate, Backup, NewRun, AttachRun, MarkRunning, BumpAttempt, Judge,
           ToAuditing, Audit, Introduce, Link, RetireJobs, OpenDay, LandingFails,
           FinalConsistency, SaveReport, Complete, FinishRun, Release, Crash, boundVars
  <2>2. AtWork' \subseteq AtWork
    BY <1>1, <1>5, StepsAreAtWork DEF AtWork, Idle
  <2>3. QED
    BY <2>1, <2>2
<1>6. ASSUME Pause \/ LeaseLapses \/ UNCHANGED vars
      PROVE  takeovers' = takeovers /\ AtWork' \subseteq AtWork
  BY <1>6 DEF Pause, LeaseLapses, vars, boundVars, genesisVars, AtWork, Idle
<1>7. QED
  BY <1>3, <1>4, <1>5, <1>6 DEF Next

\* The steps of the replay, and the end of a process.
LEMMA LivedKept ==
  ASSUME BootTypeInv, LivedInv, NEW p \in Process,
         UNCHANGED takeovers, Cardinality(AtWork') <= 1 + takeovers',
         \/ (ReadPending(p) \/ Live(p) \/ MarkReplayed(p)) /\ UNCHANGED crashes
         \/ Crash(p)
  PROVE  LivedInv'
<1>1. /\ pc \in [Process -> Places] /\ todo \in [Process -> SUBSET (Experience \cup Person)]
      /\ lived \in [Experience -> Nat] /\ Cuts \in Nat /\ takeovers \in Nat
      /\ replayed \subseteq Experience /\ staged \subseteq Experience
      /\ pc[p] \in {"living", "marking"} => todo[p] \subseteq Experience
  BY CutsAreCounted DEF BootTypeInv, BootRowsInv, BootLoopsInv, Holds
<1>2. /\ \A q \in Process \ {p} : pc'[q] = pc[q] /\ todo'[q] = todo[q]
  BY <1>1 DEF ReadPending, Live, MarkReplayed, Crash, Forget, Go, Stop
<1>3. \A e \in Experience, q \in Process \ {p} :
        /\ q \in Marking(e)' <=> q \in Marking(e)
        /\ q \in Awaiting(e)' <=> q \in Awaiting(e)
  BY <1>2 DEF Marking, Awaiting, First
<1>4. \A e \in Experience :
        /\ Marking(e) \in SUBSET Process /\ Marking(e)' \in SUBSET Process
        /\ Awaiting(e) \in SUBSET Process /\ Awaiting(e)' \in SUBSET Process
  BY DEF Marking, Awaiting
<1>5. \A e \in Experience :
        /\ Cardinality(Marking(e)) \in Nat /\ Cardinality(Marking(e)') \in Nat
        /\ Cardinality(Awaiting(e)) \in Nat /\ Cardinality(Awaiting(e)') \in Nat
  BY <1>4, SomeProcesses
<1>6. ASSUME NEW e \in Experience
      PROVE  /\ (p \notin Awaiting(e)' \/ p \in Awaiting(e))
                  => Cardinality(Awaiting(e)') <= Cardinality(Awaiting(e))
             /\ (p \in Awaiting(e) /\ p \notin Awaiting(e)')
                  => Cardinality(Awaiting(e)') + 1 <= Cardinality(Awaiting(e))
             /\ (p \notin Marking(e) \/ p \in Marking(e)')
                  => Cardinality(Marking(e)) <= Cardinality(Marking(e)')
             /\ Cardinality(Marking(e)) <= Cardinality(Marking(e)') + 1
             /\ (p \notin Marking(e) /\ p \in Marking(e)')
                  => Cardinality(Marking(e)) + 1 <= Cardinality(Marking(e)')
  <2>1. ASSUME p \notin Awaiting(e)' \/ p \in Awaiting(e)
        PROVE  /\ Cardinality(Awaiting(e)') <= Cardinality(Awaiting(e))
               /\ (p \in Awaiting(e) /\ p \notin Awaiting(e)')
                    => Cardinality(Awaiting(e)') + 1 <= Cardinality(Awaiting(e))
    <3>1. Awaiting(e)' \in SUBSET Awaiting(e)
      BY <1>3, <1>4, <2>1
    <3>2. Cardinality(Awaiting(e)') <= Cardinality(Awaiting(e))
      BY <1>4, <3>1, SomeProcesses
    <3>3. (p \in Awaiting(e) /\ p \notin Awaiting(e)')
             => Cardinality(Awaiting(e)') + 1 <= Cardinality(Awaiting(e))
      <4>1. SUFFICES ASSUME p \in Awaiting(e), p \notin Awaiting(e)'
                     PROVE  Cardinality(Awaiting(e)') + 1 <= Cardinality(Awaiting(e))
        OBVIOUS
      <4>2. Awaiting(e)' = Awaiting(e) \ {p}
        BY <1>3, <1>4, <4>1
      <4>3. Cardinality(Awaiting(e)) = Cardinality(Awaiting(e) \ {p}) + 1
        BY <1>4, <4>1, SomeProcesses
      <4>4. Cardinality(Awaiting(e)) = Cardinality(Awaiting(e)') + 1
        BY <4>2, <4>3
      <4>5. Cardinality(Awaiting(e)') \in Nat
        BY <1>5
      <4>6. QED
        BY <4>4, <4>5
    <3>4. QED
      BY <3>2, <3>3
  <2>2. (p \notin Marking(e) \/ p \in Marking(e)')
           => Cardinality(Marking(e)) <= Cardinality(Marking(e)')
    <3>1. SUFFICES ASSUME p \notin Marking(e) \/ p \in Marking(e)'
                   PROVE  Cardinality(Marking(e)) <= Cardinality(Marking(e)')
      OBVIOUS
    <3>2. Marking(e) \in SUBSET (Marking(e)')
      BY <1>3, <1>4, <3>1
    <3>3. QED
      BY <1>4, <3>2, SomeProcesses
  <2>3. Cardinality(Marking(e)) <= Cardinality(Marking(e)') + 1
    <3>1. Marking(e) \in SUBSET (Marking(e)' \cup {p})
      BY <1>3, <1>4
    <3>2. Marking(e)' \cup {p} \in SUBSET Process
      BY <1>4
    <3>3. Cardinality(Marking(e)) <= Cardinality(Marking(e)' \cup {p})
      BY <3>1, <3>2, SomeProcesses
    <3>4. Cardinality(Marking(e)' \cup {p}) <= Cardinality(Marking(e)') + 1
      BY <1>4, SomeProcesses
    <3>5. Cardinality(Marking(e)' \cup {p}) \in Nat
      BY <3>2, SomeProcesses
    <3>6. QED
      BY <1>5, <3>3, <3>4, <3>5
  <2>4. (p \notin Marking(e) /\ p \in Marking(e)')
           => Cardinality(Marking(e)) + 1 <= Cardinality(Marking(e)')
    <3>1. SUFFICES ASSUME p \notin Marking(e), p \in Marking(e)'
                   PROVE  Cardinality(Marking(e)) + 1 <= Cardinality(Marking(e)')
      OBVIOUS
    <3>2. Marking(e)' = Marking(e) \cup {p}
      BY <1>3, <1>4, <3>1
    <3>3. Cardinality(Marking(e) \cup {p}) = Cardinality(Marking(e)) + 1
      BY <1>4, <3>1, SomeProcesses
    <3>4. Cardinality(Marking(e)') = Cardinality(Marking(e)) + 1
      BY <3>2, <3>3
    <3>5. QED
      BY <1>5, <3>4
  <2>5. QED
    BY <2>1, <2>2, <2>3, <2>4
<1>7. /\ \A e \in Experience \ replayed : lived[e] <= Cuts + Cardinality(Marking(e))
      /\ \A e \in Experience \cap replayed :
           lived[e] + Cardinality(Awaiting(e)) <= 1 + Cuts + takeovers
      /\ Cardinality(AtWork) <= 1 + takeovers
  BY DEF LivedInv
<1>8. CASE ReadPending(p) /\ UNCHANGED Cuts
  <2>1. /\ pc[p] = "replay" /\ pc'[p] = "living" /\ todo'[p] = Pending(year[p])
        /\ UNCHANGED <<lived, replayed>>
    BY <1>1, <1>8 DEF ReadPending, At, Go, recordVars
  <2>2. \A e \in Experience : p \notin Marking(e)
    BY <2>1 DEF Marking
  <2>3. \A e \in replayed : p \notin Awaiting(e)'
    BY <2>1 DEF Awaiting, Pending
  <2>4. \A e \in Experience \ replayed : lived[e] <= Cuts + Cardinality(Marking(e)')
    BY <1>1, <1>5, <1>6, <1>7, <2>2
  <2>5. \A e \in Experience \cap replayed :
          lived[e] + Cardinality(Awaiting(e)') <= 1 + Cuts + takeovers
    BY <1>1, <1>5, <1>6, <1>7, <2>3
  <2>6. QED
    BY <1>8, <2>1, <2>4, <2>5 DEF LivedInv
<1>9. CASE Crash(p) \/ (MarkReplayed(p) /\ UNCHANGED crashes /\ unmarked' = unmarked + 1)
  <2>0. crashes \in Nat /\ unmarked \in Nat
    BY CutsAreCounted
  <2>1. /\ pc'[p] \in {"off", "judge"} /\ Cuts' = Cuts + 1 /\ UNCHANGED <<lived, replayed>>
    <3>1. CASE Crash(p)
      BY <1>1, <2>0, <3>1 DEF Crash, recordVars, Cuts
    <3>2. CASE MarkReplayed(p) /\ UNCHANGED crashes /\ unmarked' = unmarked + 1
      BY <1>1, <2>0, <3>2 DEF MarkReplayed, Stop, Go, Cuts
    <3>3. QED
      BY <1>9, <3>1, <3>2
  <2>2. \A e \in Experience : p \notin Awaiting(e)'
    BY <2>1 DEF Awaiting
  <2>3. \A e \in Experience \ replayed : lived[e] <= Cuts' + Cardinality(Marking(e)')
    BY <1>1, <1>5, <1>6, <1>7, <2>1
  <2>4. \A e \in Experience \cap replayed :
          lived[e] + Cardinality(Awaiting(e)') <= 1 + Cuts' + takeovers
    BY <1>1, <1>5, <1>6, <1>7, <2>1, <2>2
  <2>5. QED
    BY <2>1, <2>3, <2>4 DEF LivedInv
<1>10. CASE MarkReplayed(p) /\ UNCHANGED <<crashes, unmarked>>
  <2>0. unmarked' # unmarked + 1 /\ Cuts' = Cuts
    BY <1>10, CutsAreCounted DEF Cuts
  <2>1. /\ pc[p] = "marking" /\ pc'[p] = "living" /\ UNCHANGED lived
    BY <1>1, <1>10, <2>0 DEF MarkReplayed, Go
  <2>2. PICK f \in Experience : /\ First(f, todo[p]) /\ replayed' = replayed \cup {f}
                                /\ todo'[p] = todo[p] \ {f}
    BY <1>1, <1>10, <2>0 DEF MarkReplayed
  <2>3. \A e \in Experience \ replayed' : p \notin Marking(e)
    <3>1. ASSUME NEW e \in Experience, p \in Marking(e) PROVE e = f
      BY <1>1, <2>1, <2>2, <3>1, FirstIsOne DEF Marking
    <3>2. QED
      BY <2>2, <3>1
  <2>4. \A e \in Experience \cap replayed' : p \notin Awaiting(e)' \/ p \in Awaiting(e)
    <3>1. ASSUME NEW e \in Experience, p \in Awaiting(e)' PROVE p \in Awaiting(e)
      <4>1. e \in todo[p] /\ e # f
        BY <2>2, <3>1 DEF Awaiting
      <4>2. ~First(e, todo[p])
        BY <1>1, <2>1, <2>2, <4>1, FirstIsOne
      <4>3. QED
        BY <2>1, <4>1, <4>2 DEF Awaiting, Marking
    <3>2. QED
      BY <3>1
  <2>5. \A e \in Experience \ replayed' : lived[e] <= Cuts + Cardinality(Marking(e)')
    <3>1. ASSUME NEW e \in Experience \ replayed'
          PROVE  lived[e] <= Cuts + Cardinality(Marking(e)')
      <4>1. /\ e \in Experience \ replayed /\ lived[e] \in Nat
            /\ Cardinality(Marking(e)) <= Cardinality(Marking(e)')
        BY <1>1, <1>6, <2>2, <2>3
      <4>2. QED
        BY <1>1, <1>5, <1>7, <4>1
    <3>2. QED
      BY <3>1
  <2>6. ASSUME NEW e \in Experience \cap replayed'
        PROVE  lived[e] + Cardinality(Awaiting(e)') <= 1 + Cuts + takeovers
    <3>1. /\ Cardinality(Awaiting(e)') <= Cardinality(Awaiting(e)) /\ lived[e] \in Nat
      BY <1>1, <1>6, <2>4
    <3>2. CASE e \in replayed
      BY <1>1, <1>5, <1>7, <3>1, <3>2
    <3>3. CASE e \notin replayed
      <4>1. lived[e] <= Cuts + Cardinality(Marking(e))
        BY <1>7, <3>3
      <4>2. /\ Cardinality(Marking(e)) + Cardinality(Awaiting(e)) <= Cardinality(AtWork)
            /\ AtWork \in SUBSET Process
        BY MarkingOrAwaiting
      <4>3. Cardinality(AtWork) \in Nat
        BY <4>2, SomeProcesses
      <4>4. QED
        BY <1>1, <1>5, <1>7, <3>1, <4>1, <4>2, <4>3
    <3>4. QED
      BY <3>2, <3>3
  <2>7. QED
    BY <1>10, <2>0, <2>1, <2>5, <2>6 DEF LivedInv
<1>11. CASE Live(p) /\ UNCHANGED Cuts
  <2>1. pc[p] = "living" /\ UNCHANGED <<replayed, todo>>
    BY <1>11 DEF Live
  <2>2. \A e \in Experience : p \notin Marking(e)
    BY <2>1 DEF Marking
  <2>3. \A e \in Experience : p \notin Awaiting(e)' \/ p \in Awaiting(e)
    BY <2>1, <2>2 DEF Awaiting
  <2>4. ASSUME NEW e \in Experience, lived'[e] # lived[e]
        PROVE  /\ lived'[e] = lived[e] + 1 /\ First(e, todo[p]) /\ pc'[p] = "marking"
    BY <1>1, <1>11, <2>4 DEF Live, Go
  <2>5. \A e \in Experience : lived'[e] # lived[e] =>
          /\ p \in Marking(e)' /\ p \in Awaiting(e) /\ p \notin Awaiting(e)'
    BY <2>1, <2>2, <2>4 DEF Marking, Awaiting, First
  <2>6. ASSUME NEW e \in Experience \ replayed'
        PROVE  lived'[e] <= Cuts + Cardinality(Marking(e)')
    <3>1. e \in Experience \ replayed /\ lived[e] \in Nat
      BY <1>1, <2>1, <2>6
    <3>2. lived[e] <= Cuts + Cardinality(Marking(e))
      BY <1>7, <3>1
    <3>3. CASE lived'[e] = lived[e]
      BY <1>1, <1>5, <1>6, <2>2, <3>1, <3>2, <3>3
    <3>4. CASE lived'[e] # lived[e]
      BY <1>1, <1>5, <1>6, <2>2, <2>4, <2>5, <3>1, <3>2, <3>4
    <3>5. QED
      BY <3>3, <3>4
  <2>7. ASSUME NEW e \in Experience \cap replayed'
        PROVE  lived'[e] + Cardinality(Awaiting(e)') <= 1 + Cuts + takeovers
    <3>1. e \in Experience \cap replayed /\ lived[e] \in Nat
      BY <1>1, <2>1, <2>7
    <3>2. lived[e] + Cardinality(Awaiting(e)) <= 1 + Cuts + takeovers
      BY <1>7, <3>1
    <3>3. CASE lived'[e] = lived[e]
      BY <1>1, <1>5, <1>6, <2>3, <3>1, <3>2, <3>3
    <3>4. CASE lived'[e] # lived[e]
      BY <1>1, <1>5, <1>6, <2>4, <2>5, <3>1, <3>2, <3>4
    <3>5. QED
      BY <3>3, <3>4
  <2>8. QED
    BY <1>11, <2>6, <2>7 DEF LivedInv
<1>12. (ReadPending(p) \/ Live(p)) /\ UNCHANGED crashes => UNCHANGED Cuts
  BY DEF ReadPending, Live, recordVars, Cuts
<1>13. MarkReplayed(p) => unmarked' = unmarked \/ unmarked' = unmarked + 1
  BY DEF MarkReplayed
<1>14. QED
  BY <1>8, <1>9, <1>10, <1>11, <1>12, <1>13

LEMMA LivedInitially == Init => LivedInv
<1> SUFFICES ASSUME Init PROVE LivedInv
  OBVIOUS
<1>1. AtWork = {}
  BY DEF Init, AtWork, Idle
<1>2. Cardinality(AtWork) = 0
  BY <1>1, FS_EmptySet
<1>3. \A e \in Experience : Cardinality(Marking(e)) \in Nat
  BY SomeProcesses DEF Marking
<1>4. /\ replayed = {} /\ Cuts = 0 /\ takeovers = 0
      /\ \A e \in Experience : lived[e] = 0
  <2>1. crashes = 0 /\ unmarked = 0
    BY DEF Init, GenesisInit
  <2>2. Cuts = 0
    BY <2>1 DEF Cuts
  <2>3. QED
    BY <2>2 DEF Init, GenesisInit
<1>5. \A e \in Experience \ replayed : lived[e] <= Cuts + Cardinality(Marking(e))
  BY <1>3, <1>4
<1>6. QED
  BY <1>2, <1>4, <1>5 DEF LivedInv

LEMMA LivedInvKept ==
  ASSUME BootTypeInv, LivedInv, [Next]_vars
  PROVE  LivedInv'
<1>1. /\ Cardinality(AtWork') <= 1 + takeovers'
      /\ takeovers' = takeovers \/ takeovers' = takeovers + 1
  BY AtWorkKept
<1>2. ASSUME NEW p \in Process, Generate(p)
      PROVE  LivedInv'
  <2>1. UNCHANGED <<crashes, takeovers>>
    BY <1>2 DEF Generate, boundVars
  <2>2. GenesisStep(p)
    BY <1>2 DEF Generate
  <2>3. CASE ReadPending(p) \/ Live(p) \/ MarkReplayed(p)
    BY <1>1, <2>1, <2>3, LivedKept
  <2>4. CASE ~(ReadPending(p) \/ Live(p) \/ MarkReplayed(p))
    <3>1. /\ UNCHANGED <<lived, replayed, unmarked>> /\ pc[p] # "marking"
          /\ Moves(p, Places \ {"living", "marking"})
          /\ \A q \in Process \ {p} : todo'[q] = todo[q]
      BY <2>2, <2>4, ElsewhereInAYear DEF GenesisStep
    <3>2. QED
      BY <1>1, <2>1, <3>1, LivedOtherwise DEF Cuts
  <2>5. QED
    BY <2>3, <2>4
<1>3. ASSUME NEW p \in Process, Crash(p)
      PROVE  LivedInv'
  <2>1. UNCHANGED takeovers
    BY <1>3 DEF Crash
  <2>2. QED
    BY <1>1, <1>3, <2>1, LivedKept
<1>4. ASSUME NEW p \in Process,
             \/ Start(p) \/ Resume(p) \/ Backup(p) \/ NewRun(p) \/ AttachRun(p)
             \/ MarkRunning(p) \/ BumpAttempt(p) \/ Judge(p) \/ ToAuditing(p) \/ Audit(p)
             \/ Introduce(p) \/ Link(p) \/ RetireJobs(p) \/ OpenDay(p) \/ LandingFails(p)
             \/ FinalConsistency(p) \/ SaveReport(p) \/ Complete(p) \/ FinishRun(p)
             \/ Release(p)
      PROVE  LivedInv'
  <2>1. /\ UNCHANGED <<lived, replayed, Cuts>> /\ pc[p] # "marking"
        /\ Moves(p, Places \ {"living", "marking"})
        /\ \A q \in Process \ {p} : todo'[q] = todo[q]
    BY <1>4, ElsewhereTheySay
  <2>2. QED
    BY <1>1, <2>1, LivedOtherwise
<1>5. CASE Pause \/ LeaseLapses \/ UNCHANGED vars
  <2>1. UNCHANGED <<lived, replayed, Cuts, takeovers, pc, todo>>
    BY <1>5 DEF Pause, LeaseLapses, vars, genesisVars, recordVars, loopVars, boundVars, Cuts
  <2>2. AtWork' = AtWork /\ \A e : Marking(e)' = Marking(e) /\ Awaiting(e)' = Awaiting(e)
    BY <2>1 DEF AtWork, Idle, Marking, Awaiting, First
  <2>3. QED
    BY <2>1, <2>2 DEF LivedInv
<1>6. QED
  BY <1>2, <1>3, <1>4, <1>5 DEF Next, Step

\* An experience is lived once, and once more only for a process that was cut
\* between living it and marking it as replayed, could not mark it, or lost its
\* lease there:
\* for any number of processes, pauses, take-overs and lengths of life.
THEOREM RelivedForAReason == Spec => []RelivingIsExplained
<1>1. BootTypeInv /\ LivedInv => RelivingIsExplained
  <2> SUFFICES ASSUME BootTypeInv, LivedInv, NEW e \in Experience
               PROVE  lived[e] <= 1 + crashes + takeovers + unmarked
    BY DEF RelivingIsExplained
  <2>1. /\ crashes \in Nat /\ unmarked \in Nat /\ Cuts = crashes + unmarked
        /\ takeovers \in Nat /\ lived[e] \in Nat
    BY DEF BootTypeInv, BootRowsInv, Cuts
  <2>2. /\ Cardinality(Marking(e)) + Cardinality(Awaiting(e)) <= Cardinality(AtWork)
        /\ Cardinality(AtWork) <= 1 + takeovers
    BY MarkingOrAwaiting DEF LivedInv
  <2>3. /\ Cardinality(Marking(e)) \in Nat /\ Cardinality(Awaiting(e)) \in Nat
        /\ Cardinality(AtWork) \in Nat
    BY MarkingOrAwaiting, SomeProcesses
  <2>4. \/ lived[e] <= Cuts + Cardinality(Marking(e))
        \/ lived[e] + Cardinality(Awaiting(e)) <= 1 + Cuts + takeovers
    BY DEF LivedInv
  <2>5. QED
    BY <2>1, <2>2, <2>3, <2>4
<1>2. Init => BootTypeInv /\ LivedInv
  BY BootTypeInitially, LivedInitially
<1>3. BootTypeInv /\ LivedInv /\ [Next]_vars => BootTypeInv' /\ LivedInv'
  BY BootTypeKept, LivedInvKept
<1>4. QED
  BY <1>1, <1>2, <1>3, PTL DEF Spec

-----------------------------------------------------------------------------
(* Nobody is complete before she is whole, as long as every process kept   *)
(* its lease while it was at work.                                         *)

Extracted == {"replay", "living", "marking", "memory", "year done"}
Summarised == {"extraction", "staging"} \cup Extracted
Written == {"critics", "synthesis"} \cup Summarised
Landed == {"report", "complete", "finish run"}
Present == {"open day", "consistency"} \cup Landed
Audited == {"promote", "link", "retire jobs"} \cup Present

YearDone(y) ==
  /\ MonthsOf(y) \subseteq months /\ y \in summaries
  /\ <<"extraction", y>> \in reached /\ Pending(y) = {}

Alone == \A p, q \in Process : ~Idle(p) /\ ~Idle(q) => p = q

\* What a checkpoint vouches for.
CheckpointsHold ==
  /\ \A y \in Year :
       /\ <<"months", y>> \in reached => MonthsOf(y) \subseteq months
       /\ <<"synthesis", y>> \notin reached
       /\ <<"memory", y>> \in reached =>
            <<"extraction", y>> \in reached /\ Pending(y) = {}

\* What has been seen to by the time p stands where it does.
SeenTo(p) ==
  /\ pc[p] \in {"year"} \cup InYear => \A y \in Year : y < year[p] => YearDone(y)
  /\ pc[p] \in Written => MonthsOf(year[p]) \subseteq months
  /\ pc[p] \in Summarised => year[p] \in summaries
  /\ pc[p] \in Extracted => <<"extraction", year[p]>> \in reached
  /\ pc[p] = "staging" => <<"extraction", year[p]>> \notin reached
  /\ pc[p] = "year done" => Pending(year[p]) = {}
  /\ (pc[p] = "judge" /\ issues[p] = {}) \/ pc[p] \in Finalising =>
       \A y \in Year : YearDone(y)
  /\ pc[p] \in Audited => remembers /\ known # {}
  /\ pc[p] \in {"promote", "link"} => Survivors \subseteq linked \cup todo[p]
  /\ pc[p] \in {"retire jobs"} \cup Present => Survivors \subseteq linked
  /\ pc[p] \in Landed => ~overdue
  /\ pc[p] \in {"consistency"} \cup Landed => lifeDays = 1
  /\ pc[p] \in {"complete", "finish run"} => report

OverWhenComplete ==
  status = "COMPLETE" => Whole /\ \A p \in Process : pc[p] \in {"off", "finish run", "release"}

WholeInv ==
  takeovers = 0 =>
    /\ Alone /\ CheckpointsHold
    /\ \A p \in Process : SeenTo(p)
    /\ \A q \in linked : npcs[q] > 0
    /\ OverWhenComplete

LEMMA WholeInitially == Init => WholeInv
<1> SUFFICES ASSUME Init PROVE WholeInv
  OBVIOUS
<1>1. /\ \A p \in Process : pc[p] = "off"
      /\ reached = {} /\ linked = {} /\ status = ""
  BY DEF Init, GenesisInit
<1>2. Alone
  BY <1>1 DEF Alone, Idle
<1>3. CheckpointsHold
  BY <1>1 DEF CheckpointsHold
<1>4. \A p \in Process : SeenTo(p)
  BY <1>1 DEF SeenTo, InYear, Stages, Written, Summarised, Extracted, Finalising, Audited,
              Present, Landed
<1>5. OverWhenComplete
  BY <1>1 DEF OverWhenComplete
<1>6. QED
  BY <1>1, <1>2, <1>3, <1>4, <1>5 DEF WholeInv

\* With no lease ever taken from a process at work, there is one at most.
LEMMA StaysAlone ==
  ASSUME BootTypeInv, WholeInv, takeovers' = 0, NEW p \in Process,
         Start(p) \/ Resume(p) \/ Step(p) \/ Crash(p)
  PROVE  /\ takeovers = 0 /\ Alone' /\ \A q \in Process \ {p} : pc'[q] = "off"
<1>1. pc \in [Process -> Places] /\ takeovers \in Nat
  BY DEF BootTypeInv, BootRowsInv, BootLoopsInv
<1>2. CASE Start(p) \/ Resume(p)
  <2>1. /\ \E place : pc' = [pc EXCEPT ![p] = place]
        /\ takeovers' = IF \E q \in Process : ~Idle(q) THEN takeovers + 1 ELSE takeovers
    BY <1>2 DEF Start, Resume, Acquire, Go
  <2>2. ~\E q \in Process : ~Idle(q)
    BY <1>1, <2>1
  <2>3. \A q \in Process \ {p} : pc'[q] = "off"
    BY <1>1, <2>1, <2>2 DEF Idle
  <2>4. QED
    BY <2>1, <2>2, <2>3 DEF Alone, Idle
<1>3. CASE Step(p) \/ Crash(p)
  <2>1. /\ ~Idle(p) /\ (pc' = pc \/ \E place : pc' = [pc EXCEPT ![p] = place])
    BY <1>3, StepsAreAtWork
  <2>2. takeovers' = takeovers
    BY <1>3 DEF Step, Generate, Backup, NewRun, AttachRun, MarkRunning, BumpAttempt, Judge,
           ToAuditing, Audit, Introduce, Link, RetireJobs, OpenDay, LandingFails,
           FinalConsistency, SaveReport, Complete, FinishRun, Release, Crash, boundVars
  <2>3. Alone
    BY <2>2 DEF WholeInv
  <2>4. \A q \in Process \ {p} : pc'[q] = "off"
    <3>1. ASSUME NEW q \in Process \ {p} PROVE pc'[q] = pc[q] /\ pc[q] = "off"
      <4>1. pc[q] = "off"
        BY <2>1, <2>3 DEF Alone, Idle
      <4>2. pc'[q] = pc[q]
        BY <1>1, <2>1
      <4>3. QED
        BY <4>1, <4>2
    <3>2. QED
      BY <3>1
  <2>5. QED
    BY <2>2, <2>4 DEF Alone, Idle
<1>4. QED
  BY <1>2, <1>3

\* A year that is done stays done.
LEMMA StaysDone ==
  ASSUME NEW y, months \subseteq months', summaries \subseteq summaries',
         reached \subseteq reached',
         <<"extraction", y>> \in reached => Pending(y)' \subseteq Pending(y)
  PROVE  YearDone(y) => YearDone(y)'
BY DEF YearDone, MonthsOf

\* The steps around the record leave it as it is, but for the audits' checkpoint.
LEMMA RecordKept ==
  ASSUME NEW p \in Process,
         \/ Start(p) \/ Resume(p) \/ Backup(p) \/ NewRun(p) \/ AttachRun(p) \/ MarkRunning(p)
         \/ BumpAttempt(p) \/ Judge(p) \/ ToAuditing(p) \/ Audit(p) \/ Introduce(p)
         \/ Link(p) \/ RetireJobs(p) \/ OpenDay(p) \/ LandingFails(p) \/ FinalConsistency(p)
         \/ SaveReport(p) \/ Complete(p) \/ FinishRun(p) \/ Release(p) \/ Crash(p)
  PROVE  /\ UNCHANGED <<months, summaries, seen, staged, replayed, remembers>>
         /\ reached' = reached \/ reached' = reached \cup {<<"audits", 0>>}
         /\ \A y : YearDone(y) => YearDone(y)'
         /\ CheckpointsHold => CheckpointsHold'
<1>1. /\ UNCHANGED <<months, summaries, seen, staged, replayed, remembers>>
      /\ reached' = reached \/ reached' = reached \cup {<<"audits", 0>>}
  BY DEF Start, Resume, Backup, NewRun, AttachRun, MarkRunning, BumpAttempt, Judge, ToAuditing,
         Audit, Introduce, Link, RetireJobs, OpenDay, LandingFails, FinalConsistency,
         SaveReport, Complete, FinishRun, Release, Crash, recordVars
<1>2. \A y : Pending(y)' = Pending(y) /\ MonthsOf(y)' = MonthsOf(y)
  BY <1>1 DEF Pending, MonthsOf
<1>3. \A y : YearDone(y) => YearDone(y)'
  BY <1>1, <1>2 DEF YearDone
<1>4. CheckpointsHold => CheckpointsHold'
  <2>1. \A y : /\ <<"months", y>> # <<"audits", 0>> /\ <<"synthesis", y>> # <<"audits", 0>>
               /\ <<"memory", y>> # <<"audits", 0>>
    OBVIOUS
  <2>2. QED
    BY <1>1, <1>2, <2>1 DEF CheckpointsHold
<1>5. QED
  BY <1>1, <1>3, <1>4

\* Each stage of the end finds what it needs, and leaves it to the next.
LEMMA TheEndIsSeenTo ==
  ASSUME BootTypeInv, NEW p \in Process, SeenTo(p),
         \/ Start(p) \/ Resume(p) \/ Backup(p) \/ NewRun(p) \/ AttachRun(p) \/ MarkRunning(p)
         \/ BumpAttempt(p) \/ Judge(p) \/ ToAuditing(p) \/ Audit(p) \/ Introduce(p)
         \/ Link(p) \/ RetireJobs(p) \/ OpenDay(p) \/ LandingFails(p) \/ FinalConsistency(p)
         \/ SaveReport(p) \/ Complete(p) \/ FinishRun(p) \/ Release(p) \/ Crash(p)
  PROVE  SeenTo(p)'
<1>1. /\ pc \in [Process -> Places] /\ lifeDays \in {0, 1}
  BY DEF BootTypeInv, BootRowsInv, BootLoopsInv
<1>2. /\ UNCHANGED <<known, Survivors, remembers>> /\ \A y : YearDone(y) => YearDone(y)'
  BY RecordKept DEF known, Survivors
<1>3. ASSUME pc[p] \in Finalising \/ (pc[p] = "judge" /\ issues[p] = {})
      PROVE  \A y \in Year : YearDone(y)'
  BY <1>2, <1>3 DEF SeenTo
<1>4. CASE pc'[p] \in {"off", "backup", "new run", "attach", "mark running", "bump",
                      "release", "scaffolds"}
  BY <1>4 DEF SeenTo, InYear, Stages, Written, Summarised, Extracted, Finalising, Audited,
              Present, Landed
<1>5. CASE Judge(p) /\ pc'[p] = "finalise"
  <2>1. pc[p] = "judge" /\ issues[p] = {}
    BY <1>1, <1>5 DEF Judge, Block, Go
  <2>2. QED
    BY <1>3, <1>5, <2>1
    DEF SeenTo, InYear, Stages, Written, Summarised, Extracted, Audited, Present, Landed
<1>6. CASE ToAuditing(p)
  <2>1. pc[p] \in Finalising /\ pc'[p] = "audit"
    BY <1>1, <1>6 DEF ToAuditing, Go, Finalising
  <2>2. QED
    BY <1>3, <2>1
    DEF SeenTo, InYear, Stages, Written, Summarised, Extracted, Audited, Present, Landed
<1>7. CASE Audit(p) /\ pc'[p] = "promote"
  <2>1. pc[p] \in Finalising /\ remembers /\ known # {} /\ todo'[p] = Survivors
    <3>1. todo \in [Process -> SUBSET (Experience \cup Person)]
      BY DEF BootTypeInv, BootLoopsInv
    <3>2. ~Block(p, "audit_failed")
      BY <1>1, <1>7 DEF Block, Go
    <3>3. QED
      BY <1>7, <3>1, <3>2 DEF Audit, RecordPassesAudit, Finalising
  <2>2. QED
    BY <1>2, <1>3, <1>7, <2>1
    DEF SeenTo, InYear, Stages, Written, Summarised, Extracted, Audited, Present, Landed
<1>8. CASE Introduce(p) \/ Link(p)
  <2>1. pc[p] \in {"promote", "link"}
    BY <1>8 DEF Introduce, Link
  <2>2. /\ pc[p] \in Finalising /\ remembers /\ known # {}
        /\ Survivors \subseteq linked \cup todo[p]
    BY <2>1 DEF SeenTo, Finalising, Audited
  <2>3. /\ pc'[p] \in {"promote", "link", "retire jobs"}
        /\ pc'[p] \in {"promote", "link"} => Survivors \subseteq linked' \cup todo'[p]
        /\ pc'[p] = "retire jobs" => Survivors \subseteq linked'
    <3>0. todo \in [Process -> SUBSET (Experience \cup Person)]
      BY DEF BootTypeInv, BootLoopsInv
    <3>1. CASE Introduce(p)
      <4>1. CASE todo[p] = {}
        BY <1>1, <2>2, <3>0, <3>1, <4>1 DEF Introduce, Go
      <4>2. CASE todo[p] # {} /\ InTurn(todo[p]) \in linked
        BY <1>1, <2>2, <3>0, <3>1, <4>2 DEF Introduce, Go
      <4>3. CASE todo[p] # {} /\ InTurn(todo[p]) \notin linked
        BY <1>1, <2>2, <3>0, <3>1, <4>3 DEF Introduce, Go
      <4>4. QED
        BY <4>1, <4>2, <4>3
    <3>2. CASE Link(p)
      BY <1>1, <2>2, <3>0, <3>2 DEF Link, Go
    <3>3. QED
      BY <1>8, <3>1, <3>2
  <2>4. QED
    BY <1>2, <1>3, <2>2, <2>3
    DEF SeenTo, InYear, Stages, Written, Summarised, Extracted, Audited, Present, Landed
<1>9. CASE RetireJobs(p)
  <2>1. pc[p] = "retire jobs" /\ pc'[p] = "open day" /\ linked' = linked
    BY <1>1, <1>9 DEF RetireJobs, Go
  <2>2. pc[p] \in Finalising /\ remembers /\ known # {} /\ Survivors \subseteq linked
    BY <2>1 DEF SeenTo, Finalising, Audited
  <2>3. QED
    BY <1>2, <1>3, <2>1, <2>2
    DEF SeenTo, InYear, Stages, Written, Summarised, Extracted, Audited, Present, Landed
<1>10. CASE OpenDay(p)
  <2>1. /\ pc[p] = "open day" /\ pc'[p] = "consistency" /\ UNCHANGED linked
        /\ lifeDays' = 1
    BY <1>1, <1>10 DEF OpenDay, Go
  <2>2. /\ pc[p] \in Finalising /\ remembers /\ known # {} /\ Survivors \subseteq linked
    BY <2>1 DEF SeenTo, Finalising, Audited, Present
  <2>3. QED
    BY <1>2, <1>3, <2>1, <2>2
    DEF SeenTo, InYear, Stages, Written, Summarised, Extracted, Audited, Present, Landed
<1>11. CASE \/ FinalConsistency(p) /\ pc'[p] = "report"
            \/ SaveReport(p) \/ (Complete(p) /\ pc'[p] = "finish run")
  <2>1. /\ UNCHANGED <<overdue, linked, lifeDays>>
        /\ \/ pc[p] = "consistency" /\ pc'[p] = "report" /\ ~overdue
           \/ pc[p] = "report" /\ pc'[p] = "complete" /\ report' = TRUE
           \/ pc[p] = "complete" /\ pc'[p] = "finish run" /\ report' = report
    BY <1>1, <1>11 DEF FinalConsistency, Arrived, SaveReport, Complete, Go, Block, landVars
  <2>2. pc[p] \in {"consistency", "report", "complete"}
    BY <2>1
  <2>3. /\ pc[p] \in Finalising /\ remembers /\ known # {} /\ Survivors \subseteq linked
        /\ lifeDays = 1 /\ (pc[p] # "consistency" => ~overdue)
        /\ (pc[p] = "complete" => report)
    BY <2>2 DEF SeenTo, Finalising, Audited, Present, Landed
  <2>4. QED
    BY <1>2, <1>3, <2>1, <2>3
    DEF SeenTo, InYear, Stages, Written, Summarised, Extracted, Audited, Present, Landed
<1>12. CASE \/ Start(p) \/ Resume(p) \/ Backup(p) \/ NewRun(p) \/ AttachRun(p)
            \/ MarkRunning(p) \/ BumpAttempt(p) \/ LandingFails(p) \/ FinishRun(p)
            \/ Release(p) \/ Crash(p)
  <2>1. Moves(p, {"off", "backup", "new run", "attach", "mark running", "bump", "release",
                  "scaffolds"})
    BY <1>12 DEF Start, Resume, Backup, NewRun, AttachRun, MarkRunning, BumpAttempt,
           LandingFails, FinishRun, Release, Crash, Begin, Block, Go, Moves
  <2>2. QED
    BY <1>1, <1>4, <2>1 DEF Moves
<1>13. CASE Judge(p) \/ Audit(p) \/ FinalConsistency(p) \/ Complete(p)
  <2>1. /\ Judge(p) => Moves(p, {"finalise", "release"})
        /\ Audit(p) => Moves(p, {"promote", "release"})
        /\ FinalConsistency(p) => Moves(p, {"report", "release"})
        /\ Complete(p) => Moves(p, {"finish run", "release"})
    BY DEF Judge, Audit, FinalConsistency, Complete, Block, Go, Moves
  <2>2. /\ Judge(p) => pc'[p] \in {"finalise", "release"}
        /\ Audit(p) => pc'[p] \in {"promote", "release"}
        /\ FinalConsistency(p) => pc'[p] \in {"report", "release"}
        /\ Complete(p) => pc'[p] \in {"finish run", "release"}
    BY <1>1, <2>1 DEF Moves
  <2>3. QED
    BY <1>4, <1>5, <1>7, <1>11, <1>13, <2>2
<1>14. QED
  BY <1>6, <1>8, <1>9, <1>10, <1>11, <1>12, <1>13

\* She is complete by one step only, and what is complete is left alone.
LEMMA CompleteByOneStep ==
  ASSUME BootTypeInv, WholeInv, takeovers = 0, NEW p \in Process,
         \A q \in Process \ {p} : pc'[q] = "off",
         \/ Start(p) \/ Resume(p) \/ Backup(p) \/ NewRun(p) \/ AttachRun(p) \/ MarkRunning(p)
         \/ BumpAttempt(p) \/ Judge(p) \/ ToAuditing(p) \/ Audit(p) \/ Introduce(p)
         \/ Link(p) \/ RetireJobs(p) \/ OpenDay(p) \/ LandingFails(p) \/ FinalConsistency(p)
         \/ SaveReport(p) \/ Complete(p) \/ FinishRun(p) \/ Release(p) \/ Crash(p)
  PROVE  OverWhenComplete'
<1>1. pc \in [Process -> Places] /\ OverWhenComplete /\ SeenTo(p)
  BY DEF BootTypeInv, BootLoopsInv, WholeInv
<1>2. UNCHANGED <<months, summaries, known, Survivors, staged, replayed, remembers>>
  BY RecordKept DEF known, Survivors
<1>3. CASE Complete(p) /\ status = "AUDITING"
  <2>1. /\ pc[p] = "complete" /\ pc'[p] = "finish run"
        /\ UNCHANGED <<linked, npcs, overdue, lifeDays, report>>
    BY <1>1, <1>3 DEF Complete, Go, landVars
  <2>2. /\ \A y \in Year : YearDone(y)
        /\ remembers /\ known # {} /\ Survivors \subseteq linked
        /\ ~overdue /\ lifeDays = 1 /\ report
    BY <1>1, <2>1 DEF SeenTo, Finalising, Audited, Present, Landed
  <2>3. \A q \in linked : npcs[q] > 0
    BY DEF WholeInv
  <2>4. /\ summaries \subseteq Year /\ months \subseteq Month
        /\ staged \subseteq Experience /\ replayed \subseteq staged
    BY DEF BootTypeInv, BootRowsInv
  <2>5. summaries = Year
    BY <2>2, <2>4 DEF YearDone
  <2>6. months = Month
    <3>1. ASSUME NEW m \in Month PROVE m \in months
      <4>1. m[1] \in Year /\ m \in MonthsOf(m[1])
        BY DEF Month, MonthsOf
      <4>2. QED
        BY <2>2, <4>1 DEF YearDone
    <3>2. QED
      BY <2>4, <3>1
  <2>7. staged = replayed
    <3>1. ASSUME NEW e \in staged, e \notin replayed PROVE FALSE
      <4>1. e[1] \in Year
        BY <2>4 DEF Experience
      <4>2. e \in Pending(e[1])
        BY <3>1 DEF Pending
      <4>3. QED
        BY <2>2, <4>1, <4>2 DEF YearDone
    <3>2. QED
      BY <2>4, <3>1
  <2>8. Whole
    BY <2>2, <2>3, <2>5, <2>6, <2>7 DEF Whole
  <2>9. Whole'
    BY <1>2, <2>1, <2>8 DEF Whole
  <2>10. QED
    BY <2>1, <2>9 DEF OverWhenComplete
<1>4. CASE ~(Complete(p) /\ status = "AUDITING")
  <2>1. SUFFICES ASSUME status' = "COMPLETE" PROVE OverWhenComplete'
    BY DEF OverWhenComplete
  <2>2. status = "COMPLETE"
    BY <1>4, <2>1
    DEF Start, Resume, Backup, NewRun, AttachRun, MarkRunning, BumpAttempt, Judge, ToAuditing,
        Audit, Introduce, Link, RetireJobs, OpenDay, LandingFails, FinalConsistency,
        SaveReport, Complete, FinishRun, Release, Crash, Block, Transition, BlockStatus,
        stateVars
  <2>3. Whole /\ pc[p] \in {"off", "finish run", "release"}
    BY <1>1, <2>2 DEF OverWhenComplete
  <2>4. FinishRun(p) \/ Release(p) \/ Crash(p)
    BY <2>2, <2>3
    DEF Start, Resume, Startable, Resumable, Backup, NewRun, AttachRun, MarkRunning,
        BumpAttempt, Judge, ToAuditing, Audit, Introduce, Link, RetireJobs, OpenDay,
        LandingFails, FinalConsistency, SaveReport, Complete
  <2>5. /\ pc'[p] \in {"off", "release"} /\ UNCHANGED <<linked, npcs, overdue, lifeDays, report>>
    BY <1>1, <2>4 DEF FinishRun, Release, Crash, Go, landVars, stateVars
  <2>6. Whole'
    BY <1>2, <2>3, <2>5 DEF Whole
  <2>7. QED
    BY <2>5, <2>6 DEF OverWhenComplete
<1>5. QED
  BY <1>3, <1>4

\* Whatever a run writes, it takes nothing out of the record, and it stages
\* nothing in a year whose extraction is over.
LEMMA RecordOnlyGrows ==
  ASSUME BootTypeInv, NEW p \in Process, SeenTo(p), GenesisStep(p)
  PROVE  /\ months \subseteq months' /\ summaries \subseteq summaries'
         /\ reached \subseteq reached'
         /\ \A y : <<"extraction", y>> \in reached => Pending(y)' \subseteq Pending(y)
         /\ \A y : YearDone(y) => YearDone(y)'
<1>1. /\ months \subseteq months' /\ summaries \subseteq summaries'
      /\ reached \subseteq reached' /\ replayed \subseteq replayed'
  BY DEF GenesisStep, SkipStage, Scaffold, ScaffoldsDone, EnterYear, WriteMonth, NoteAll,
         MonthsDone, ReviewYear, Synthesise, Extract, Stage, ExtractionDone, ReadPending, Live,
         MarkReplayed, ReplayDone, MemoryDone, LeaveYear, Checkpoint, recordVars
<1>2. \A y : <<"extraction", y>> \in reached => Pending(y)' \subseteq Pending(y)
  <2>1. CASE Stage(p) /\ staged' # staged
    <3>1. PICK e \in Experience : First(e, todo[p]) /\ staged' = staged \cup {e}
      BY <2>1 DEF Stage
    <3>2. pc[p] = "staging" /\ replayed' = replayed
      BY <2>1 DEF Stage
    <3>3. e[1] = year[p] /\ <<"extraction", year[p]>> \notin reached
      BY <3>1, <3>2 DEF BootTypeInv, Holds, First, SeenTo
    <3>4. QED
      BY <3>1, <3>2, <3>3 DEF Pending
  <2>2. CASE ~(Stage(p) /\ staged' # staged)
    <3>1. staged' = staged
      BY <2>2 DEF GenesisStep, SkipStage, Scaffold, ScaffoldsDone, EnterYear, WriteMonth,
             NoteAll, MonthsDone, ReviewYear, Synthesise, Extract, ExtractionDone,
             ReadPending, Live, MarkReplayed, ReplayDone, MemoryDone, LeaveYear, recordVars
    <3>2. QED
      BY <1>1, <3>1 DEF Pending
  <2>3. QED
    BY <2>1, <2>2
<1>3. \A y : YearDone(y) => YearDone(y)'
  BY <1>1, <1>2 DEF YearDone, MonthsOf
<1>4. QED
  BY <1>1, <1>2, <1>3

\* A checkpoint is written once what it stands for is there.
LEMMA CheckpointsKept ==
  ASSUME BootTypeInv, CheckpointsHold, NEW p \in Process, SeenTo(p), GenesisStep(p)
  PROVE  CheckpointsHold'
<1>1. /\ months \subseteq months' /\ reached \subseteq reached'
      /\ \A y : <<"extraction", y>> \in reached => Pending(y)' \subseteq Pending(y)
  BY RecordOnlyGrows
<1>2. \/ reached' = reached
      \/ \E stage \in {"scaffolds"} : reached' = reached \cup {<<stage, 0>>}
      \/ \E stage \in {"critics", "extraction", "replay"} :
           reached' = reached \cup {<<stage, year[p]>>}
      \/ /\ reached' = reached \cup {<<"months", year[p]>>}
         /\ MonthsOf(year[p]) \subseteq months
      \/ /\ reached' = reached \cup {<<"memory", year[p]>>}
         /\ pc[p] = "memory" /\ Pending(year[p]) = {}
  BY DEF GenesisStep, SkipStage, Scaffold, ScaffoldsDone, EnterYear, WriteMonth, NoteAll,
         MonthsDone, ReviewYear, Synthesise, Extract, Stage, ExtractionDone, ReadPending, Live,
         MarkReplayed, ReplayDone, MemoryDone, LeaveYear, Checkpoint, At, recordVars
<1>3. \A y \in Year :
        /\ <<"months", y>> \in reached' =>
             (<<"months", y>> \in reached \/ MonthsOf(y) \subseteq months)
        /\ <<"synthesis", y>> \in reached' => <<"synthesis", y>> \in reached
        /\ <<"memory", y>> \in reached' =>
             (<<"memory", y>> \in reached
                \/ (<<"extraction", y>> \in reached /\ Pending(y) = {}))
  <2>1. pc[p] = "memory" => <<"extraction", year[p]>> \in reached
    BY DEF SeenTo, Extracted
  <2>2. QED
    BY <1>2, <2>1
<1>4. QED
  BY <1>1, <1>3 DEF CheckpointsHold, MonthsOf

\* Each stage of a year leaves behind it what the next one counts on.
LEMMA TheYearIsSeenTo ==
  ASSUME BootTypeInv, CheckpointsHold, NEW p \in Process, SeenTo(p), GenesisStep(p)
  PROVE  SeenTo(p)'
<1>1. /\ pc \in [Process -> Places] /\ year \in [Process -> Nat]
      /\ issues \in [Process -> SUBSET (RetryableBlocks \cup FatalBlocks)]
      /\ pc[p] \in InYear => year[p] \in Year
  BY DEF BootTypeInv, BootLoopsInv, Holds
<1>2. /\ months \subseteq months' /\ summaries \subseteq summaries'
      /\ reached \subseteq reached' /\ \A y : YearDone(y) => YearDone(y)'
      /\ \A y : <<"extraction", y>> \in reached => Pending(y)' \subseteq Pending(y)
  BY RecordOnlyGrows
<1>3. /\ pc[p] \in {"year"} \cup InYear => \A y \in Year : y < year[p] => YearDone(y)'
      /\ pc[p] \in Written => MonthsOf(year[p]) \subseteq months'
      /\ pc[p] \in Summarised => year[p] \in summaries'
      /\ pc[p] \in Extracted => <<"extraction", year[p]>> \in reached'
  BY <1>2 DEF SeenTo
<1>4. CASE Scaffold(p) \/ ScaffoldsDone(p)
  <2>1. \/ pc'[p] = "scaffolds"
        \/ pc'[p] = "year" /\ year'[p] = 1
    BY <1>1, <1>4 DEF Scaffold, ScaffoldsDone, Go
  <2>2. \A y \in Year : ~(y < 1)
    BY LifeAssumption DEF Year
  <2>3. QED
    BY <2>1, <2>2
    DEF SeenTo, InYear, Stages, Written, Summarised, Extracted, Finalising, Audited, Present,
        Landed
<1>5. CASE EnterYear(p)
  <2>1. /\ pc[p] = "year" /\ year' = year
        /\ \/ pc'[p] = "months"
           \/ pc'[p] = "judge" /\ "incomplete" \in issues'[p]
    BY <1>1, <1>5 DEF EnterYear, Go, Stop, Note
  <2>2. QED
    BY <1>3, <2>1
    DEF SeenTo, InYear, Stages, Written, Summarised, Extracted, Finalising, Audited, Present,
        Landed
<1>6. CASE WriteMonth(p) \/ NoteAll(p)
  <2>1. /\ pc[p] \in {"months", "noting"} /\ year' = year
        /\ pc'[p] \in {"months", "noting"}
    BY <1>1, <1>6 DEF WriteMonth, NoteAll, Go, At
  <2>2. QED
    BY <1>3, <2>1
    DEF SeenTo, InYear, Stages, Written, Summarised, Extracted, Finalising, Audited, Present,
        Landed
<1>7. CASE LeaveYear(p)
  <2>1. pc[p] = "year done"
    BY <1>7 DEF LeaveYear
  <2>2. year[p] \in Year /\ YearDone(year[p])
    BY <1>1, <2>1 DEF SeenTo, InYear, Written, Summarised, Extracted, YearDone
  <2>3. \A y \in Year : y <= year[p] => YearDone(y)'
    <3>1. \A y \in Year : y < year[p] => YearDone(y)'
      BY <1>3, <2>1 DEF InYear
    <3>2. \A y \in Year : (y <= year[p]) => (y < year[p] \/ y = year[p])
      BY <2>2, LifeAssumption DEF Year
    <3>3. QED
      BY <1>2, <2>2, <3>1, <3>2
  <2>4. CASE year[p] < NYears
    <3>1. pc'[p] = "year" /\ year'[p] = year[p] + 1
      BY <1>1, <1>7, <2>4 DEF LeaveYear, Go, Turn
    <3>2. \A y \in Year : (y < year[p] + 1) => (y <= year[p])
      BY <2>2, LifeAssumption DEF Year
    <3>3. QED
      BY <2>3, <3>1, <3>2
      DEF SeenTo, InYear, Stages, Written, Summarised, Extracted, Finalising, Audited, Present,
        Landed
  <2>5. CASE ~(year[p] < NYears)
    <3>1. pc'[p] = "judge"
      BY <1>1, <1>7, <2>5 DEF LeaveYear, Go
    <3>2. \A y \in Year : y <= year[p]
      BY <2>2, <2>5, LifeAssumption DEF Year
    <3>3. QED
      BY <2>3, <3>1, <3>2
      DEF SeenTo, InYear, Stages, Written, Summarised, Extracted, Finalising, Audited, Present,
        Landed
  <2>6. QED
    BY <2>4, <2>5
<1>8. CASE SkipStage(p)
  <2>1. /\ pc[p] \in Stages /\ <<pc[p], year[p]>> \in reached /\ year[p] \in Year
        /\ pc'[p] = StageAfter[pc[p]]
        /\ UNCHANGED <<year, months, summaries, reached, staged, replayed>>
    BY <1>1, <1>8 DEF SkipStage, Go, InYear, recordVars
  <2>2. \A y : Pending(y)' = Pending(y)
    BY <2>1 DEF Pending
  <2>3. /\ pc[p] = "months" => MonthsOf(year[p]) \subseteq months
        /\ pc[p] # "synthesis"
        /\ pc[p] = "memory" => Pending(year[p]) = {}
    BY <2>1 DEF CheckpointsHold
  <2>4. MonthsOf(year[p])' = MonthsOf(year[p])
    BY <2>1 DEF MonthsOf
  <2>5. \/ pc[p] = "months" /\ pc'[p] = "critics"
        \/ pc[p] = "critics" /\ pc'[p] = "synthesis"
        \/ pc[p] = "extraction" /\ pc'[p] = "replay"
        \/ pc[p] = "replay" /\ pc'[p] = "memory"
        \/ pc[p] = "memory" /\ pc'[p] = "year done"
    BY <2>1, <2>3, StageOrder DEF Stages
  <2>6. QED
    BY <1>3, <2>1, <2>2, <2>3, <2>4, <2>5
    DEF SeenTo, InYear, Stages, Written, Summarised, Extracted, Finalising, Audited, Present,
        Landed
<1>9. CASE MonthsDone(p)
  <2>1. /\ pc[p] = "months" /\ UNCHANGED <<year, months>>
        /\ \/ pc'[p] = "critics" /\ MonthsOf(year[p]) \subseteq months
           \/ pc'[p] = "judge" /\ "incomplete" \in issues'[p]
    BY <1>1, <1>9, StageOrder DEF MonthsDone, At, Checkpoint, Go, Stop, Note
  <2>2. MonthsOf(year[p])' = MonthsOf(year[p])
    BY <2>1 DEF MonthsOf
  <2>3. QED
    BY <1>3, <2>1, <2>2
    DEF SeenTo, InYear, Stages, Written, Summarised, Extracted, Finalising, Audited, Present,
        Landed
<1>10. CASE ReviewYear(p)
  <2>1. /\ pc[p] = "critics" /\ year' = year
        /\ \/ pc'[p] = "synthesis"
           \/ pc'[p] = "judge" /\ issues'[p] # {}
    BY <1>1, <1>10, StageOrder DEF ReviewYear, At, Checkpoint, Go, Stop, Note
  <2>2. QED
    BY <1>3, <2>1
    DEF SeenTo, InYear, Stages, Written, Summarised, Extracted, Finalising, Audited, Present,
        Landed
<1>11. CASE Synthesise(p)
  <2>1. /\ pc[p] = "synthesis" /\ year' = year
        /\ \/ pc'[p] = "extraction" /\ year[p] \in summaries'
           \/ pc'[p] = "judge" /\ issues'[p] # {}
    BY <1>1, <1>11 DEF Synthesise, Go, Stop, Note
  <2>2. QED
    BY <1>3, <2>1
    DEF SeenTo, InYear, Stages, Written, Summarised, Extracted, Finalising, Audited, Present,
        Landed
<1>12. CASE Extract(p) \/ Stage(p)
  <2>1. /\ pc[p] \in {"extraction", "staging"} /\ UNCHANGED <<year, reached>>
        /\ \/ pc'[p] = "extraction"
           \/ pc'[p] = "staging" /\ <<"extraction", year[p]>> \notin reached
           \/ pc'[p] = "judge" /\ issues'[p] # {}
    <3>1. CASE Extract(p)
      BY <1>1, <3>1 DEF Extract, At, Go, Stop, Note, recordVars
    <3>2. CASE Stage(p)
      BY <1>1, <3>2 DEF Stage, Go, SeenTo
    <3>3. QED
      BY <1>12, <3>1, <3>2
  <2>2. QED
    BY <1>3, <2>1
    DEF SeenTo, InYear, Stages, Written, Summarised, Extracted, Finalising, Audited, Present,
        Landed
<1>13. CASE ExtractionDone(p)
  <2>1. /\ pc[p] = "extraction" /\ year' = year /\ pc'[p] = "replay"
        /\ <<"extraction", year[p]>> \in reached'
    BY <1>1, <1>13, StageOrder DEF ExtractionDone, At, Checkpoint, Go
  <2>2. QED
    BY <1>3, <2>1
    DEF SeenTo, InYear, Stages, Written, Summarised, Extracted, Finalising, Audited, Present,
        Landed
<1>14. CASE ReadPending(p) \/ Live(p) \/ MarkReplayed(p) \/ ReplayDone(p)
  <2>1. /\ pc[p] \in {"replay", "living", "marking"} /\ year' = year
        /\ \/ pc'[p] \in {"living", "marking", "memory"}
           \/ pc'[p] = "judge" /\ issues'[p] # {}
    BY <1>1, <1>14, StageOrder
    DEF ReadPending, Live, MarkReplayed, ReplayDone, At, Checkpoint, Go, Stop, Note
  <2>2. QED
    BY <1>3, <2>1
    DEF SeenTo, InYear, Stages, Written, Summarised, Extracted, Finalising, Audited, Present,
        Landed
<1>15. CASE MemoryDone(p)
  <2>1. /\ pc[p] = "memory" /\ UNCHANGED <<year, staged, replayed>>
        /\ \/ pc'[p] = "year done" /\ Pending(year[p]) = {}
           \/ pc'[p] = "judge" /\ issues'[p] # {}
    BY <1>1, <1>15, StageOrder DEF MemoryDone, At, Checkpoint, Go, Stop, Note
  <2>2. Pending(year[p])' = Pending(year[p])
    BY <2>1 DEF Pending
  <2>3. QED
    BY <1>3, <2>1, <2>2
    DEF SeenTo, InYear, Stages, Written, Summarised, Extracted, Finalising, Audited, Present,
        Landed
<1>16. QED
  BY <1>4, <1>5, <1>6, <1>7, <1>8, <1>9, <1>10, <1>11, <1>12, <1>13, <1>14, <1>15
  DEF GenesisStep

LEMMA WholeInvKept ==
  ASSUME BootTypeInv, WholeInv, [Next]_vars, takeovers \in Nat
  PROVE  WholeInv'
<1>1. SUFFICES ASSUME takeovers' = 0 PROVE WholeInv'
  BY DEF WholeInv
<1>2. ASSUME NEW p \in Process, Start(p) \/ Resume(p) \/ Step(p) \/ Crash(p)
      PROVE  WholeInv'
  <2>1. /\ takeovers = 0 /\ Alone' /\ \A q \in Process \ {p} : pc'[q] = "off"
    BY <1>1, <1>2, StaysAlone
  <2>2. /\ CheckpointsHold /\ SeenTo(p) /\ OverWhenComplete
        /\ \A q \in linked : npcs[q] > 0
    BY <2>1 DEF WholeInv
  <2>3. \A q \in Process \ {p} : SeenTo(q)'
    BY <2>1 DEF SeenTo, InYear, Stages, Written, Summarised, Extracted, Finalising, Audited,
                Present, Landed
  <2>4. CASE Generate(p)
    <3>1. GenesisStep(p) /\ UNCHANGED <<status, linked, npcs>>
      BY <2>4 DEF Generate, stateVars, landVars
    <3>2. CheckpointsHold' /\ SeenTo(p)'
      BY <2>2, <3>1, CheckpointsKept, TheYearIsSeenTo
    <3>3. pc[p] \notin {"off", "finish run", "release"}
      BY <3>1 DEF GenesisStep, SkipStage, Scaffold, ScaffoldsDone, EnterYear, WriteMonth,
             NoteAll, MonthsDone, ReviewYear, Synthesise, Extract, Stage, ExtractionDone,
             ReadPending, Live, MarkReplayed, ReplayDone, MemoryDone, LeaveYear, At, Stages
    <3>4. OverWhenComplete'
      BY <2>2, <3>1, <3>3 DEF OverWhenComplete
    <3>5. QED
      BY <2>1, <2>2, <2>3, <3>1, <3>2, <3>4 DEF WholeInv
  <2>5. CASE ~Generate(p)
    <3>1. /\ CheckpointsHold' /\ SeenTo(p)' /\ OverWhenComplete'
      BY <1>2, <2>1, <2>2, <2>5, RecordKept, TheEndIsSeenTo, CompleteByOneStep DEF Step
    <3>2. \A q \in linked' : npcs'[q] > 0
      <4>1. CASE Link(p)
        BY <2>2, <4>1 DEF Link, BootTypeInv, Holds
      <4>2. CASE Introduce(p)
        BY <2>2, <4>2 DEF Introduce, BootTypeInv, BootRowsInv
      <4>3. CASE ~(Link(p) \/ Introduce(p))
        <5>1. UNCHANGED <<linked, npcs>>
          BY <1>2, <2>5, <4>3 DEF Start, Resume, Step, Backup, NewRun, AttachRun, MarkRunning,
             BumpAttempt, Judge, ToAuditing, Audit, RetireJobs, OpenDay, LandingFails,
             FinalConsistency, SaveReport, Complete, FinishRun, Release, Crash, landVars
        <5>2. QED
          BY <2>2, <5>1
      <4>4. QED
        BY <4>1, <4>2, <4>3
    <3>3. QED
      BY <2>1, <2>3, <3>1, <3>2 DEF WholeInv
  <2>6. QED
    BY <2>4, <2>5
<1>3. CASE Pause \/ LeaseLapses \/ UNCHANGED vars
  <2>1. /\ UNCHANGED <<recordVars, pc, loopVars, report, landVars, takeovers>>
        /\ status' = "COMPLETE" => status = "COMPLETE"
    BY <1>3 DEF Pause, LeaseLapses, vars, genesisVars, stateVars, boundVars
  <2>2. /\ UNCHANGED <<years, months, seen, summaries, staged, replayed, reached, remembers,
                       pc, year, todo, issues, report, linked, npcs, overdue, lifeDays,
                       takeovers>>
    BY <2>1 DEF recordVars, loopVars, landVars
  <2>3. \A y : /\ Pending(y)' = Pending(y) /\ MonthsOf(y)' = MonthsOf(y)
               /\ YearDone(y)' = YearDone(y)
    BY <2>2 DEF Pending, MonthsOf, YearDone
  <2>4. /\ Alone /\ CheckpointsHold /\ OverWhenComplete /\ \A q \in linked : npcs[q] > 0
        /\ known' = known /\ Survivors' = Survivors
    BY <1>1, <2>2 DEF WholeInv, known, Survivors
  <2>5. Alone' /\ CheckpointsHold'
    BY <2>2, <2>3, <2>4 DEF Alone, Idle, CheckpointsHold
  <2>6. \A p \in Process : SeenTo(p)'
    <3>1. ASSUME NEW p \in Process PROVE SeenTo(p)'
      <4>1. SeenTo(p)
        BY <1>1, <2>2 DEF WholeInv
      <4>2. /\ MonthsOf(year[p])' = MonthsOf(year[p]) /\ Pending(year[p])' = Pending(year[p])
            /\ pc'[p] = pc[p] /\ year'[p] = year[p] /\ issues'[p] = issues[p]
            /\ todo'[p] = todo[p]
        BY <2>2 DEF MonthsOf, Pending
      <4>3. /\ pc'[p] \in Audited => remembers' /\ known' # {}
            /\ pc'[p] \in {"promote", "link"} => Survivors' \subseteq linked' \cup todo'[p]
            /\ pc'[p] \in {"retire jobs"} \cup Present => Survivors' \subseteq linked'
            /\ pc'[p] \in Landed => ~overdue'
            /\ pc'[p] \in {"consistency"} \cup Landed => lifeDays' = 1
            /\ pc'[p] \in {"complete", "finish run"} => report'
        BY <2>2, <2>4, <4>1, <4>2 DEF SeenTo
      <4>4. QED
        BY <2>2, <2>3, <4>1, <4>2, <4>3 DEF SeenTo
    <3>2. QED
      BY <3>1
  <2>7. OverWhenComplete'
    <3>1. Whole' = Whole
      BY <2>2, <2>4 DEF Whole
    <3>2. \A p \in Process : pc'[p] = pc[p]
      BY <2>2
    <3>3. QED
      BY <2>1, <2>4, <3>1, <3>2 DEF OverWhenComplete
  <2>8. QED
    BY <2>2, <2>4, <2>5, <2>6, <2>7 DEF WholeInv
<1>4. QED
  BY <1>2, <1>3 DEF Next

\* A first boot that calls itself complete has every year and month written,
\* every experience lived and everybody whom the ledger counts as still in her
\* life linked to a runtime person, wherever its processes were cut short,
\* paused or resumed, unless one lost its lease to another while it was at
\* work: for any number of processes, people and length of life.
THEOREM NobodyIsBornHalf == Spec => []BornWhole
<1>1. BootTypeInv /\ WholeInv => BornWhole
  BY DEF WholeInv, OverWhenComplete, BornWhole
<1>2. Init => BootTypeInv /\ WholeInv
  BY BootTypeInitially, WholeInitially
<1>3. BootTypeInv /\ WholeInv /\ [Next]_vars => BootTypeInv' /\ WholeInv'
  <2>1. BootTypeInv => takeovers \in Nat
    BY DEF BootTypeInv, BootRowsInv
  <2>2. QED
    BY <2>1, BootTypeKept, WholeInvKept
<1>4. QED
  BY <1>1, <1>2, <1>3, PTL DEF Spec

-----------------------------------------------------------------------------
(***************************************************************************)
(* The past.  The budget counts the blocks of each class, and the sampler  *)
(* never hands out a class whose ceiling is reached.                       *)
(***************************************************************************)

DrawnBlock == [from : Int, to : Int, class : Class, events : {0, 2}]
OfClass(c) == {i \in 1..Len(blocks) : blocks[i].class = c}

SimulationInv ==
  /\ day \in Int
  /\ blocks \in Seq(DrawnBlock)
  /\ step.at \in {"narrate", "experience"} => blocks # <<>>
  /\ budget \in [major : 0..MajorAllowance, turning : 0..MaxTurningPoints, negative : Int]
  /\ \A c \in Significant : IsFiniteSet(OfClass(c))
  /\ Cardinality(OfClass("turning_point")) = budget.turning
  /\ Cardinality(OfClass("major")) = budget.major

LEMMA SimulationInitially == SimulationInit => SimulationInv
<1>1. SUFFICES ASSUME SimulationInit PROVE SimulationInv
  OBVIOUS
<1>2. \A c \in Significant : OfClass(c) = {}
  BY <1>1 DEF SimulationInit, OfClass
<1>3. \A c \in Significant : IsFiniteSet(OfClass(c)) /\ Cardinality(OfClass(c)) = 0
  BY <1>2, FS_EmptySet
<1>4. blocks \in Seq(DrawnBlock)
  BY <1>1 DEF SimulationInit
<1>5. QED
  BY <1>1, <1>3, <1>4, SimulationAssumption DEF SimulationInit, SimulationInv, Significant

\* Whatever was drawn and demoted, there was room for what came of it.
LEMMA SampledIsPermitted ==
  ASSUME NEW e \in Sampled
  PROVE  /\ e.class \in Class
         /\ e.class = "turning_point" => budget.turning < MaxTurningPoints
         /\ e.class = "major" => budget.major < MajorAllowance
<1>1. PICK drawn \in Class, negative \in BOOLEAN : e.class = EnforceCeilings(drawn, negative)
  BY DEF Sampled
<1>2. EnforceCeilings(drawn, negative) \in {drawn, Demote(drawn), Demote(Demote(drawn))}
  BY DEF EnforceCeilings
<1>3. Permitted(EnforceCeilings(drawn, negative), negative)
  <2>1. Permitted("ordinary", negative) /\ Permitted("meaningful", negative)
    BY DEF Permitted
  <2>2. Demote("turning_point") = "major" /\ Demote("major") = "meaningful"
        /\ Demote("meaningful") = "meaningful" /\ Demote("ordinary") = "meaningful"
    BY DEF Demote
  <2>3. QED
    BY <2>1, <2>2 DEF EnforceCeilings, Class
<1>4. QED
  BY <1>1, <1>2, <1>3 DEF Permitted, Class, Demote

LEMMA SampledIsARecord ==
  ASSUME NEW e \in Sampled
  PROVE  e.class \in Class /\ e.negative \in BOOLEAN
  BY DEF Sampled

\* A block appended is counted, if it is of the class.
LEMMA OneMoreOfClass ==
  ASSUME blocks \in Seq(DrawnBlock), NEW b \in DrawnBlock, blocks' = Append(blocks, b),
         NEW c \in Significant, IsFiniteSet(OfClass(c))
  PROVE  /\ IsFiniteSet(OfClass(c)')
         /\ Cardinality(OfClass(c)') = Cardinality(OfClass(c)) + (IF b.class = c THEN 1 ELSE 0)
<1> DEFINE n == Len(blocks) + 1
<1>1. Len(blocks) \in Nat /\ Len(blocks') = n /\ blocks'[n] = b
  OBVIOUS
<1>2. \A i \in 1..Len(blocks) : blocks'[i] = blocks[i]
  OBVIOUS
<1>3. n \notin OfClass(c)
  BY <1>1 DEF OfClass
<1>4. CASE b.class = c
  <2>1. OfClass(c)' = OfClass(c) \cup {n}
    BY <1>1, <1>2, <1>4 DEF OfClass
  <2>2. QED
    BY <1>3, <1>4, <2>1, FS_AddElement
<1>5. CASE b.class # c
  <2>1. OfClass(c)' = OfClass(c)
    BY <1>1, <1>2, <1>5 DEF OfClass
  <2>2. Cardinality(OfClass(c)) \in Nat
    BY FS_CardinalityType
  <2>3. QED
    BY <1>5, <2>1, <2>2
<1>6. QED
  BY <1>4, <1>5

LEMMA BeginBlockKeeps ==
  ASSUME SimulationInv, BeginBlock
  PROVE  SimulationInv'
<1>1. PICK e \in Sampled, strong \in BOOLEAN :
        LET expanded == e.class \in Significant \/ (strong /\ e.class # "ordinary")
            end == EndOf(IF expanded THEN 1 ELSE CompressedDays)
        IN /\ Spend(e)
           /\ blocks' = Append(blocks, [from |-> day, to |-> end, class |-> e.class,
                                        events |-> 0])
           /\ step' = [at |-> "narrate", costs |-> e.class # "ordinary"]
  BY DEF BeginBlock
<1> DEFINE expanded == e.class \in Significant \/ (strong /\ e.class # "ordinary")
           length == IF expanded THEN 1 ELSE CompressedDays
           b == [from |-> day, to |-> EndOf(length), class |-> e.class, events |-> 0]
<1>2. e.class \in Class
  BY SampledIsPermitted
<1>3. EndOf(length) \in Int
  BY SimulationAssumption DEF EndOf, SimulationInv
<1>4. b \in DrawnBlock /\ b.class = e.class /\ blocks' = Append(blocks, b) /\ Spend(e)
  BY <1>1, <1>2, <1>3 DEF DrawnBlock, SimulationInv
<1> HIDE DEF b
<1>5. \A c \in Significant :
        /\ IsFiniteSet(OfClass(c)')
        /\ Cardinality(OfClass(c)') = Cardinality(OfClass(c)) + (IF b.class = c THEN 1 ELSE 0)
  BY <1>4, OneMoreOfClass DEF SimulationInv
<1>6. /\ budget'.turning = budget.turning + (IF b.class = "turning_point" THEN 1 ELSE 0)
      /\ budget'.major = budget.major + (IF b.class = "major" THEN 1 ELSE 0)
      /\ budget' \in [major : 0..MajorAllowance, turning : 0..MaxTurningPoints, negative : Int]
  BY <1>4, SampledIsPermitted, SimulationAssumption DEF Spend, SimulationInv
<1>7. blocks' \in Seq(DrawnBlock) /\ blocks' # <<>>
  BY <1>4 DEF SimulationInv
<1>8. UNCHANGED day
  BY DEF BeginBlock
<1>9. QED
  BY <1>5, <1>6, <1>7, <1>8 DEF SimulationInv, Significant

\* A block that has been lived is of the class it was begun with.
LEMMA LiveBlockKeeps ==
  ASSUME SimulationInv, LiveBlock
  PROVE  SimulationInv'
<1> DEFINE n == Len(blocks)
<1>1. /\ blocks \in Seq(DrawnBlock) /\ n \in 1..Len(blocks)
      /\ blocks' = [blocks EXCEPT ![n].events = 2]
      /\ day' = blocks[n].to /\ UNCHANGED budget /\ step' = [at |-> "trigger"]
  BY DEF LiveBlock, SimulationInv
<1>2. blocks[n] \in DrawnBlock
  BY <1>1
<1>3. /\ [blocks[n] EXCEPT !.events = 2] \in DrawnBlock
      /\ [blocks[n] EXCEPT !.events = 2].class = blocks[n].class
  BY <1>2 DEF DrawnBlock
<1>4. blocks' = [blocks EXCEPT ![n] = [blocks[n] EXCEPT !.events = 2]]
  BY <1>1
<1>5. /\ blocks' \in Seq(DrawnBlock) /\ Len(blocks') = Len(blocks)
      /\ \A i \in 1..Len(blocks) : blocks'[i].class = blocks[i].class
  BY <1>1, <1>3, <1>4
<1>6. \A c \in Significant : OfClass(c)' = OfClass(c)
  BY <1>5 DEF OfClass
<1>7. day' \in Int
  BY <1>1, <1>2 DEF DrawnBlock
<1>8. QED
  BY <1>1, <1>5, <1>6, <1>7 DEF SimulationInv, Significant

\* However the experiences fall and whatever each was demoted from, for any
\* ceilings, lengths of blocks and of lives.
THEOREM NoLifeExceedsItsCeilings == SimulationSpec => []CeilingsHold
<1>1. ASSUME SimulationInv, SimulationNext
      PROVE  SimulationInv'
  <2>1. CASE BeginBlock
    BY <1>1, <2>1, BeginBlockKeeps
  <2>2. CASE LiveBlock
    BY <1>1, <2>2, LiveBlockKeeps
  <2>3. CASE \/ Narrate \/ PullTrigger \/ EndOfLife \/ Encode \/ Consolidate \/ CompleteRun
             \/ GenesisConsolidation \/ RunAudits \/ RecordFirstBoot \/ SimulationStops
    <3>1. /\ UNCHANGED <<day, blocks, budget>>
          /\ step'.at \in {"narrate", "experience"} => step.at \in {"narrate", "experience"}
      <4>1. CASE Narrate
        BY <4>1 DEF Narrate
      <4>2. CASE PullTrigger \/ EndOfLife \/ Encode
        BY <4>2 DEF PullTrigger, EndOfLife, Encode
      <4>3. CASE Consolidate
        BY <4>3, Zenon DEF Consolidate
      <4>4. CASE CompleteRun
        BY <4>4 DEF CompleteRun
      <4>5. CASE GenesisConsolidation
        BY <4>5 DEF GenesisConsolidation
      <4>6. CASE RunAudits \/ RecordFirstBoot \/ SimulationStops
        BY <4>6 DEF RunAudits, RecordFirstBoot, SimulationStops
      <4>7. QED
        BY <2>3, <4>1, <4>2, <4>3, <4>4, <4>5, <4>6
    <3>2. QED
      BY <1>1, <3>1 DEF SimulationInv, OfClass
  <2>4. QED
    BY <1>1, <2>1, <2>2, <2>3 DEF SimulationNext
<1>2. ASSUME SimulationInv, UNCHANGED simulationVars
      PROVE  SimulationInv'
  BY <1>2 DEF SimulationInv, OfClass, simulationVars
<1>3. SimulationInv => CeilingsHold
  BY SimulationAssumption DEF SimulationInv, CeilingsHold, OfClass
<1>4. QED
  BY <1>1, <1>2, <1>3, SimulationInitially, PTL DEF SimulationSpec

-----------------------------------------------------------------------------
(***************************************************************************)
(* The files.  A shadow is rebuilt only where none stood, and between the  *)
(* two moves of a switch there is no production file to lose.              *)
(***************************************************************************)

File == [life : {"missing", "none", "broken", "repaired"}, real : SUBSET Event]

FilesTypeInv ==
  /\ production \in File /\ shadow \in File /\ repaired \in File
  /\ kept \subseteq File /\ rollback \in File
  /\ happened \subseteq Event
  /\ vacant \in Nat /\ replaced \in Nat

FilesInv ==
  /\ FilesTypeInv
  /\ command \in {"backup", "rebuild"} => shadow = Missing
  /\ command \in {"move in", "move back"} /\ vacant = 0 => production = Missing /\ bot = "down"
  /\ NothingIsDeleted

LEMMA Files == Missing \in File /\ Fresh \in File /\ Missing.real = {}
  BY DEF File, Missing, Fresh

LEMMA FilesInitially == FilesInit => FilesInv
  BY Files DEF FilesInit, FilesInv, FilesTypeInv, NothingIsDeleted, File, Fresh, Missing

\* What each file held, a file holds: then what was recorded is still somewhere.
LEMMA FilesGoOn ==
  ASSUME FilesInv, FilesTypeInv', UNCHANGED happened,
         replaced' = 0 /\ vacant' = 0 =>
           /\ replaced = 0 /\ vacant = 0
           /\ \A f \in AllFiles : f # Missing => \E g \in AllFiles' : f.real \subseteq g.real
  PROVE  NothingIsDeleted'
<1>1. SUFFICES ASSUME replaced' = 0, vacant' = 0, NEW e \in happened
      PROVE  \E g \in AllFiles' : e \in g.real
  BY DEF NothingIsDeleted
<1>2. PICK f \in AllFiles : e \in f.real
  BY <1>1 DEF FilesInv, NothingIsDeleted
<1>3. f # Missing
  BY <1>2, Files
<1>4. QED
  BY <1>1, <1>2, <1>3

LEMMA BotStartsKeeps ==
  ASSUME FilesInv, BotStarts
  PROVE  FilesInv'
<1>1. \/ production = Missing /\ production' = Fresh /\ vacant' = vacant + 1
      \/ production # Missing /\ UNCHANGED <<production, vacant>>
  BY DEF BotStarts
<1>2. FilesTypeInv' /\ (vacant' = 0 => UNCHANGED production /\ production # Missing /\ vacant = 0)
  <2>1. UNCHANGED <<shadow, repaired, kept, happened, rollback, replaced>>
    BY DEF BotStarts, commandVars
  <2>2. vacant \in Nat /\ production \in File
    BY DEF FilesInv, FilesTypeInv
  <2>3. vacant' \in Nat /\ production' \in File
    BY <1>1, <2>2, Files
  <2>4. FilesTypeInv'
    BY <2>1, <2>3 DEF FilesInv, FilesTypeInv
  <2>5. vacant' = 0 => vacant' # vacant + 1
    BY <2>2
  <2>6. QED
    BY <1>1, <2>4, <2>5
<1>3. UNCHANGED <<shadow, repaired, kept, happened, command, replaced>>
  BY DEF BotStarts, commandVars
<1>4. NothingIsDeleted'
  <2>1. ASSUME vacant' = 0 PROVE \A f \in AllFiles : f \in AllFiles'
    BY <1>2, <1>3, <2>1 DEF AllFiles
  <2>2. QED
    BY <1>2, <1>3, <2>1, FilesGoOn
<1>5. QED
  BY <1>2, <1>3, <1>4 DEF FilesInv

LEMMA BotRecordsKeeps ==
  ASSUME FilesInv, NEW e \in Event, BotRecords(e)
  PROVE  FilesInv'
<1>1. /\ production' = [production EXCEPT !.real = @ \cup {e}]
      /\ happened' = happened \cup {e} /\ bot = "up"
      /\ UNCHANGED <<shadow, repaired, kept, bot, command, rollback, vacant, replaced>>
  BY DEF BotRecords, commandVars, ghostVars
<1>2. /\ production' \in File /\ production'.real = production.real \cup {e}
  BY <1>1 DEF FilesInv, FilesTypeInv, File
<1>3. FilesTypeInv'
  BY <1>1, <1>2 DEF FilesInv, FilesTypeInv
<1>4. NothingIsDeleted'
  BY <1>1, <1>2 DEF FilesInv, NothingIsDeleted, AllFiles
<1>5. QED
  BY <1>1, <1>3, <1>4 DEF FilesInv

\* A command that moves no file.
LEMMA CommandKeeps ==
  ASSUME FilesInv, UNCHANGED <<production, repaired, happened, bot, rollback, vacant, replaced>>,
         kept \subseteq kept', kept' \subseteq kept \cup {production},
         shadow' \in File, shadow # Missing => shadow.real \subseteq shadow'.real,
         command' \in {"backup", "rebuild"} => shadow' = Missing,
         command' \in {"move in", "move back"} => command' = command
  PROVE  FilesInv'
<1>1. FilesTypeInv'
  BY DEF FilesInv, FilesTypeInv
<1>2. NothingIsDeleted'
  BY <1>1, FilesGoOn DEF AllFiles
<1>3. QED
  BY <1>1, <1>2 DEF FilesInv

LEMMA RepairKeeps ==
  ASSUME FilesInv, \/ DryRun \/ BackupForRepair \/ RebuildGenesis \/ Verify
                   \/ \E e \in Event : ReplayRealHistory(e)
  PROVE  FilesInv'
<1>1. CASE DryRun
  BY <1>1, CommandKeeps DEF DryRun, BeginCommand, Goes, fileVars, FilesInv, FilesTypeInv
<1>2. CASE BackupForRepair
  BY <1>2, CommandKeeps DEF BackupForRepair, BackupTo, Goes, FilesInv, FilesTypeInv
<1>3. CASE RebuildGenesis
  <2>1. [life |-> "repaired", real |-> {}] \in File
    BY DEF File
  <2>2. QED
    BY <1>3, <2>1, Files, CommandKeeps DEF RebuildGenesis, Goes, FilesInv, FilesTypeInv
<1>4. CASE Verify
  BY <1>4, CommandKeeps DEF Verify, Goes, fileVars, ghostVars, FilesInv, FilesTypeInv
<1>5. ASSUME NEW e \in Event, ReplayRealHistory(e) PROVE FilesInv'
  <2>1. /\ [shadow EXCEPT !.real = @ \cup {e}] \in File
        /\ shadow.real \subseteq [shadow EXCEPT !.real = @ \cup {e}].real
    BY DEF FilesInv, FilesTypeInv, File
  <2>2. QED
    BY <1>5, <2>1, CommandKeeps DEF ReplayRealHistory, FilesInv, FilesTypeInv
<1>6. QED
  BY <1>1, <1>2, <1>3, <1>4, <1>5

LEMMA SwitchKeeps ==
  ASSUME FilesInv, MoveAside \/ MoveIn
  PROVE  FilesInv'
<1>1. CASE MoveAside
  <2>1. FilesTypeInv'
    BY <1>1, Files DEF MoveAside, FilesInv, FilesTypeInv, ghostVars
  <2>2. NothingIsDeleted'
    BY <1>1, <2>1, FilesGoOn DEF MoveAside, AllFiles, ghostVars
  <2>3. QED
    BY <1>1, <2>1, <2>2 DEF MoveAside, Goes, FilesInv
<1>2. CASE MoveIn
  <2>1. FilesTypeInv'
    BY <1>2, Files DEF MoveIn, FilesInv, FilesTypeInv
  <2>2. vacant = 0 => production = Missing
    BY <1>2 DEF MoveIn, FilesInv
  <2>3. NothingIsDeleted'
    BY <1>2, <2>1, <2>2, FilesGoOn DEF MoveIn, AllFiles
  <2>4. QED
    BY <1>2, <2>1, <2>3 DEF MoveIn, Goes, FilesInv
<1>3. QED
  BY <1>1, <1>2

\* The repaired copy takes the place of an earlier one, if there is one, and
\* nothing is in the place the old file comes back to.
LEMMA RollbackKeeps ==
  ASSUME FilesInv, RollAside \/ RollBack
  PROVE  FilesInv'
<1>1. CASE RollAside
  <2>1. /\ production' = Missing /\ command' = "move back" /\ bot' = "down"
        /\ UNCHANGED <<shadow, kept, happened, rollback, vacant>>
    BY <1>1 DEF RollAside, Goes
  <2>2. /\ production = Missing => UNCHANGED repaired
        /\ production # Missing => repaired' = production
    BY <1>1 DEF RollAside
  <2>3. \/ repaired = Missing /\ UNCHANGED replaced
        \/ replaced' = replaced + 1
    BY <1>1 DEF RollAside
  <2>4. replaced \in Nat /\ production \in File /\ repaired \in File
    BY DEF FilesInv, FilesTypeInv
  <2>5. replaced' \in Nat /\ (replaced' = 0 => replaced = 0 /\ repaired = Missing)
    BY <2>3, <2>4
  <2>6. FilesTypeInv'
    BY <2>1, <2>2, <2>4, <2>5, Files DEF FilesInv, FilesTypeInv
  <2>7. NothingIsDeleted'
    BY <2>1, <2>2, <2>5, <2>6, FilesGoOn DEF AllFiles
  <2>8. QED
    BY <2>1, <2>6, <2>7 DEF FilesInv
<1>2. CASE RollBack
  <2>1. FilesTypeInv'
    BY <1>2, Files DEF RollBack, FilesInv, FilesTypeInv
  <2>2. vacant = 0 => production = Missing
    BY <1>2 DEF RollBack, FilesInv
  <2>3. NothingIsDeleted'
    BY <1>2, <2>1, <2>2, FilesGoOn DEF RollBack, AllFiles
  <2>4. QED
    BY <1>2, <2>1, <2>3 DEF RollBack, Goes, FilesInv
<1>3. QED
  BY <1>1, <1>2

LEMMA ResetKeeps ==
  ASSUME FilesInv, Reset \/ BackupForReset \/ Archive \/ FreshSchema \/ CommandEnds
  PROVE  FilesInv'
<1>1. CASE Reset
  BY <1>1, CommandKeeps DEF Reset, BeginCommand, Goes, fileVars, FilesInv, FilesTypeInv
<1>2. CASE BackupForReset
  BY <1>2, CommandKeeps DEF BackupForReset, BackupTo, Goes, FilesInv, FilesTypeInv
<1>3. CASE Archive
  <2>1. FilesTypeInv'
    BY <1>3, Files DEF Archive, FilesInv, FilesTypeInv, ghostVars
  <2>2. NothingIsDeleted'
    BY <1>3, <2>1, FilesGoOn DEF Archive, AllFiles, ghostVars
  <2>3. QED
    BY <1>3, <2>1, <2>2 DEF Archive, Goes, FilesInv
<1>4. CASE FreshSchema
  <2>1. FilesTypeInv'
    BY <1>4, Files DEF FreshSchema, FilesInv, FilesTypeInv, ghostVars
  <2>2. NothingIsDeleted'
    BY <1>4, <2>1, FilesGoOn DEF FreshSchema, AllFiles, ghostVars
  <2>3. QED
    BY <1>4, <2>1, <2>2 DEF FreshSchema, Goes, FilesInv
<1>5. CASE CommandEnds
  BY <1>5, CommandKeeps DEF CommandEnds, Goes, fileVars, ghostVars, FilesInv, FilesTypeInv
<1>6. QED
  BY <1>1, <1>2, <1>3, <1>4, <1>5

\* Whatever repairs, switches, rollbacks and resets there were beside the bot
\* and wherever they were cut, what was recorded is in a file still.
THEOREM NothingRecordedIsLost == FilesSpec => []NothingIsDeleted
<1>1. ASSUME FilesInv, FilesNext
      PROVE  FilesInv'
  <2>1. CASE BotStops
    BY <1>1, <2>1 DEF BotStops, FilesInv, FilesTypeInv, NothingIsDeleted, AllFiles, fileVars,
                      commandVars, ghostVars
  <2>2. CASE ~BotStops
    BY <1>1, <2>2, BotStartsKeeps, BotRecordsKeeps, RepairKeeps, SwitchKeeps, RollbackKeeps,
       ResetKeeps DEF FilesNext
  <2>3. QED
    BY <2>1, <2>2
<1>2. ASSUME FilesInv, UNCHANGED filesVars
      PROVE  FilesInv'
  BY <1>2 DEF FilesInv, FilesTypeInv, NothingIsDeleted, AllFiles, filesVars, fileVars,
              commandVars, ghostVars
<1>3. FilesInv => NothingIsDeleted
  BY DEF FilesInv
<1>4. QED
  BY <1>1, <1>2, <1>3, FilesInitially, PTL DEF FilesSpec

-----------------------------------------------------------------------------
(***************************************************************************)
(* The schema.  What is recorded is an initial stretch of the migrations;  *)
(* a process that migrates knows each of its own applied as it knows it,   *)
(* or has it before it.                                                    *)
(***************************************************************************)

Record == {Unapplied, "original", "edited"}

SchemaInv ==
  /\ recorded \in [Version -> Record]
  /\ opener \in [Opener -> {"closed", "migrating", "serving", "refused"}]
  /\ release \in [Opener -> Releases]
  /\ unapplied \in [Opener -> SUBSET Nat]
  /\ \A v \in Applied(recorded), u \in Version : u <= v => u \in Applied(recorded)
  /\ \A p \in Opener : opener[p] = "migrating" =>
       /\ unapplied[p] \subseteq Knows(release[p])
       /\ \A v \in Knows(release[p]) \ unapplied[p] :
            recorded[v] = Checksum(release[p], v)

LEMMA NumberOfMigrations == Len(MIGRATIONS) = 31
  BY DEF MIGRATIONS

LEMMA KnowsIsOfVersions ==
  ASSUME NEW r \in Releases
  PROVE  Knows(r) \subseteq Version /\ Knows(r) \subseteq Nat /\ r.latest \in Nat
  BY NumberOfMigrations, ReleaseAssumption DEF Knows, Version

LEMMA ChecksumIsNot ==
  ASSUME NEW r, NEW v
  PROVE  Checksum(r, v) \in Record \ {Unapplied}
  BY DEF Checksum, Record, Unapplied

LEMMA LeastOf ==
  ASSUME NEW S \in SUBSET Nat, S # {}
  PROVE  Min(S) \in S /\ \A n \in S : Min(S) <= n
<1>1. PICK m \in S : \A n \in S : ~(<<n, m>> \in OpToRel(<, Nat))
  BY NatLessThanWellFounded, WFMin
<1>2. \A n \in S : ~(n < m)
  BY <1>1 DEF OpToRel
<1>3. \E x \in S : \A y \in S : x <= y
  BY <1>2
<1>4. QED
  BY <1>3 DEF Min

LEMMA GreatestOf ==
  ASSUME NEW S \in SUBSET Int, NEW m \in S, \A n \in S : n <= m
  PROVE  Max(S) = m
<1>1. \E x \in S : \A y \in S : x >= y
  OBVIOUS
<1>2. Max(S) \in S /\ \A y \in S : Max(S) >= y
  BY <1>1 DEF Max
<1>3. Max(S) \in Int /\ m \in Int /\ Max(S) <= m /\ Max(S) >= m
  BY <1>2
<1>4. QED
  BY <1>3

LEMMA SchemaInitially == SchemaInit => SchemaInv
<1>1. SUFFICES ASSUME SchemaInit PROVE SchemaInv
  OBVIOUS
<1>2. Applied(recorded) = {}
  BY <1>1 DEF SchemaInit, Applied
<1>3. recorded \in [Version -> Record]
  BY <1>1 DEF SchemaInit, Record
<1>4. QED
  BY <1>1, <1>2, <1>3 DEF SchemaInit, SchemaInv

LEMMA ReadAppliedKeeps ==
  ASSUME SchemaInv, NEW p \in Opener, ReadApplied(p)
  PROVE  SchemaInv'
<1>1. Knows(release[p]) \subseteq Version /\ Knows(release[p]) \subseteq Nat
  BY KnowsIsOfVersions DEF SchemaInv
<1>2. CASE \A v \in Knows(release[p]) : recorded[v] \in {Unapplied, Checksum(release[p], v)}
  <2>1. /\ opener' = [opener EXCEPT ![p] = "migrating"]
        /\ unapplied' = [unapplied EXCEPT ![p] = Knows(release[p]) \ Applied(recorded)]
        /\ UNCHANGED <<recorded, release>>
    BY <1>2 DEF ReadApplied, Enter
  <2>2. \A v \in Knows(release[p]) \ unapplied'[p] : recorded[v] = Checksum(release[p], v)
    BY <1>1, <1>2, <2>1 DEF SchemaInv, Applied
  <2>3. QED
    BY <1>1, <2>1, <2>2 DEF SchemaInv
<1>3. CASE ~\A v \in Knows(release[p]) : recorded[v] \in {Unapplied, Checksum(release[p], v)}
  BY <1>3 DEF ReadApplied, Enter, SchemaInv
<1>4. QED
  BY <1>2, <1>3

\* The least that is missing comes after all that is there.
LEMMA ApplyMigrationKeeps ==
  ASSUME SchemaInv, NEW p \in Opener, ApplyMigration(p)
  PROVE  SchemaInv'
<1> DEFINE v == Min(unapplied[p])
<1>1. /\ opener[p] = "migrating" /\ unapplied[p] # {} /\ UNCHANGED release
      /\ unapplied[p] \subseteq Knows(release[p])
      /\ Knows(release[p]) \subseteq Version /\ Knows(release[p]) \subseteq Nat
  BY KnowsIsOfVersions DEF ApplyMigration, SchemaInv
<1>2. v \in unapplied[p] /\ \A u \in unapplied[p] : v <= u
  BY <1>1, LeastOf
<1>3. CASE /\ recorded[v] = Unapplied
           /\ recorded' = [recorded EXCEPT ![v] = Checksum(release[p], v)]
           /\ unapplied' = [unapplied EXCEPT ![p] = @ \ {v}]
           /\ UNCHANGED opener
  <2> HIDE DEF v
  <2>1. Checksum(release[p], v) \in Record /\ Checksum(release[p], v) # Unapplied /\ v \in Version
    BY <1>1, <1>2, ChecksumIsNot
  <2>2. /\ recorded' \in [Version -> Record] /\ unapplied' \in [Opener -> SUBSET Nat]
        /\ Applied(recorded') = Applied(recorded) \cup {v}
    BY <1>3, <2>1 DEF SchemaInv, Applied
  <2>3. \A u \in Version : u <= v => u \in Applied(recorded')
    <3>1. SUFFICES ASSUME NEW u \in Version, u <= v, u # v
          PROVE  u \in Applied(recorded)
      BY <2>2
    <3>2. u \in Knows(release[p])
      BY <1>1, <1>2, <3>1, NumberOfMigrations, ReleaseAssumption DEF Knows, Version, SchemaInv
    <3>3. u \notin unapplied[p]
      BY <1>1, <1>2, <3>1, <3>2
    <3>4. recorded[u] = Checksum(release[p], u)
      BY <1>1, <3>2, <3>3 DEF SchemaInv
    <3>5. QED
      BY <3>1, <3>4, ChecksumIsNot DEF Applied
  <2>4. \A w \in Applied(recorded'), u \in Version : u <= w => u \in Applied(recorded')
    BY <2>2, <2>3 DEF SchemaInv
  <2>5. ASSUME NEW q \in Opener, opener'[q] = "migrating"
        PROVE  /\ unapplied'[q] \subseteq Knows(release[q])
               /\ \A u \in Knows(release[q]) \ unapplied'[q] :
                    recorded'[u] = Checksum(release[q], u)
    <3>1. /\ unapplied[q] \subseteq Knows(release[q])
          /\ \A u \in Knows(release[q]) \ unapplied[q] : recorded[u] = Checksum(release[q], u)
      BY <1>3, <2>5 DEF SchemaInv
    <3>2. unapplied'[q] = IF q = p THEN unapplied[p] \ {v} ELSE unapplied[q]
      BY <1>3 DEF SchemaInv
    <3>3. ASSUME NEW u \in Knows(release[q]) \ unapplied'[q]
          PROVE  recorded'[u] = Checksum(release[q], u)
      <4>1. u \in Version
        BY KnowsIsOfVersions DEF SchemaInv
      <4>2. CASE u = v
        <5>1. q = p
          BY <1>3, <3>1, <3>2, <4>2, ChecksumIsNot
        <5>2. QED
          BY <1>3, <2>1, <4>2, <5>1 DEF SchemaInv
      <4>3. CASE u # v
        BY <1>3, <3>1, <3>2, <4>1, <4>3 DEF SchemaInv
      <4>4. QED
        BY <4>2, <4>3
    <3>4. QED
      BY <3>1, <3>2, <3>3
  <2>6. QED
    BY <1>1, <1>3, <2>2, <2>4, <2>5 DEF SchemaInv
<1>4. CASE /\ Enter(p, "refused")
           /\ unapplied' = [unapplied EXCEPT ![p] = {}]
           /\ UNCHANGED recorded
  BY <1>1, <1>4 DEF Enter, SchemaInv
<1>5. QED
  BY <1>3, <1>4 DEF ApplyMigration

LEMMA VerifySchemaKeeps ==
  ASSUME SchemaInv, NEW p \in Opener, VerifySchema(p) \/ Close(p)
  PROVE  SchemaInv'
<1>1. /\ \E place \in {"serving", "refused", "closed"} : opener' = [opener EXCEPT ![p] = place]
      /\ unapplied' \in {unapplied, [unapplied EXCEPT ![p] = {}]}
      /\ UNCHANGED <<recorded, release>>
  BY DEF VerifySchema, Close, Enter
<1>2. QED
  BY <1>1 DEF SchemaInv

\* Whatever processes of whatever releases migrate side by side and wherever
\* they end, the invariant holds.
THEOREM SchemaInvariance == SchemaSpec => []SchemaInv
<1>1. ASSUME SchemaInv, SchemaNext
      PROVE  SchemaInv'
  <2>1. PICK p \in Opener : \/ ReadApplied(p) \/ ApplyMigration(p) \/ VerifySchema(p) \/ Close(p)
                            \/ \E t \in Watched : WriteRow(p, t)
    BY <1>1 DEF SchemaNext
  <2>2. CASE \E t \in Watched : WriteRow(p, t)
    BY <1>1, <2>2 DEF WriteRow, SchemaInv
  <2>3. QED
    BY <1>1, <2>1, <2>2, ReadAppliedKeeps, ApplyMigrationKeeps, VerifySchemaKeeps
<1>2. ASSUME SchemaInv, UNCHANGED schemaVars
      PROVE  SchemaInv'
  BY <1>2 DEF SchemaInv, schemaVars
<1>3. QED
  BY <1>1, <1>2, SchemaInitially, PTL DEF SchemaSpec

\* The highest version applied is the greatest number among them.
LEMMA HighestOf ==
  ASSUME NEW record \in [Version -> Record], Applied(record) # {}
  PROVE  /\ SchemaVersion(record) \in Applied(record)
         /\ \A v \in Applied(record) : v <= SchemaVersion(record)
<1>1. Applied(record) \subseteq 1..31
  BY NumberOfMigrations DEF Applied, Version
<1>2. PICK m \in Applied(record) : \A n \in Applied(record) : n <= m
  <2> DEFINE above == {31 - n : n \in Applied(record)}
  <2>1. above \in SUBSET Nat /\ above # {}
    BY <1>1
  <2>2. Min(above) \in above /\ \A k \in above : Min(above) <= k
    BY <2>1, LeastOf
  <2>3. PICK m \in Applied(record) : Min(above) = 31 - m
    BY <2>2
  <2>4. \A n \in Applied(record) : 31 - m <= 31 - n
    BY <2>2, <2>3
  <2>5. QED
    BY <1>1, <2>4
<1>3. Max(Applied(record)) = m
  BY <1>1, <1>2, GreatestOf
<1>4. QED
  BY <1>2, <1>3 DEF SchemaVersion

\* A stretch of the migrations from the first is the one its highest version names.
LEMMA StretchOf ==
  ASSUME NEW record \in [Version -> Record],
         \A v \in Applied(record), u \in Version : u <= v => u \in Applied(record)
  PROVE  SchemaVersion(record) \in 0..31 /\ Applied(record) = 1..SchemaVersion(record)
<1>1. CASE Applied(record) = {}
  BY <1>1 DEF SchemaVersion
<1>2. CASE Applied(record) # {}
  <2>1. Applied(record) \subseteq 1..31
    BY NumberOfMigrations DEF Applied, Version
  <2>2. /\ SchemaVersion(record) \in Applied(record)
        /\ \A v \in Applied(record) : v <= SchemaVersion(record)
    BY <1>2, HighestOf
  <2>3. \A u \in 1..31 : u <= SchemaVersion(record) => u \in Applied(record)
    BY <2>2, NumberOfMigrations DEF Version
  <2> DEFINE n == SchemaVersion(record)
  <2>4. n \in 1..31 /\ n \in Int
    BY <2>1, <2>2
  <2> HIDE DEF n
  <2>5. \A u \in 1..n : u \in 1..31 /\ u <= n
    BY <2>4
  <2>6. \A u \in 1..31 : u <= n => u \in 1..n
    BY <2>4
  <2>7. 1..n \subseteq Applied(record)
    BY <2>3, <2>5 DEF n
  <2>8. Applied(record) \subseteq 1..n
    BY <2>1, <2>2, <2>6 DEF n
  <2>9. n \in 0..31
    BY <2>4
  <2>10. QED
    BY <2>7, <2>8, <2>9 DEF n
<1>3. QED
  BY <1>1, <1>2

\* What is applied is an initial stretch of the migrations, the one that the
\* schema version names: none is left out, however many applied them at once.
THEOREM AppliedInOrder == SchemaSpec => [](Applied(recorded) = 1..SchemaVersion(recorded))
<1>1. SchemaInv => Applied(recorded) = 1..SchemaVersion(recorded)
  BY StretchOf DEF SchemaInv
<1>2. QED
  BY <1>1, SchemaInvariance, PTL

\* Who passes the check by the highest version has every migration it knows,
\* as it knows it, and the file has no other.
LEMMA WhoServes ==
  ASSUME SchemaInv, [SchemaNext]_schemaVars,
         NEW p \in Opener, opener[p] # "serving", opener'[p] = "serving"
  PROVE  /\ Applied(recorded) = Knows(release[p])
         /\ \A v \in Knows(release[p]) : recorded[v] = Checksum(release[p], v)
<1>1. /\ opener[p] = "migrating" /\ unapplied[p] = {}
      /\ SchemaVersion(recorded) = release[p].latest
  BY DEF SchemaNext, schemaVars, SchemaInv, ReadApplied, ApplyMigration, VerifySchema, Close,
         WriteRow, Enter
<1>2. \A v \in Knows(release[p]) : recorded[v] = Checksum(release[p], v)
  BY <1>1 DEF SchemaInv
<1>3. /\ Knows(release[p]) \subseteq Version /\ release[p].latest \in Nat
      /\ Knows(release[p]) = 1..release[p].latest
  BY KnowsIsOfVersions DEF SchemaInv, Knows
<1>4. Knows(release[p]) \subseteq Applied(recorded)
  BY <1>2, <1>3, ChecksumIsNot DEF Applied
<1>5. Applied(recorded) \subseteq Version
  BY DEF Applied
<1>6. ASSUME NEW v \in Applied(recorded), v \notin Knows(release[p])
      PROVE  FALSE
  <2>1. v \in 1..31 /\ v \notin 1..release[p].latest
    BY <1>3, <1>5, <1>6, NumberOfMigrations DEF Version
  <2> DEFINE latest == release[p].latest
  <2>2. v <= latest /\ latest \in Nat /\ v \in 1..31 /\ v \notin 1..latest
    <3>1. v <= SchemaVersion(recorded)
      BY <1>6, HighestOf DEF SchemaInv
    <3>2. QED
      BY <1>1, <1>3, <2>1, <3>1
  <2> HIDE DEF latest
  <2>3. QED
    BY <2>2
<1>7. QED
  BY <1>2, <1>4, <1>6

\* A process serves on the schema of its own program, in the definitions of its
\* own program, whoever migrated in between: for any releases side by side.
THEOREM ServedAsKnown == SchemaSpec => ServesItsOwnSchema
<1>1. SchemaInv /\ [SchemaNext]_schemaVars =>
        [\A p \in Opener : opener[p] # "serving" /\ opener'[p] = "serving" =>
           /\ Applied(recorded) = Knows(release[p])
           /\ \A v \in Knows(release[p]) : recorded[v] = Checksum(release[p], v)]_schemaVars
  BY WhoServes
<1>2. QED
  BY <1>1, SchemaInvariance, PTL DEF SchemaSpec, ServesItsOwnSchema

-----------------------------------------------------------------------------
(***************************************************************************)
(* What the migrations make of the file.  The property compares the file   *)
(* with a fold over the migrations of folds over their statements, so the  *)
(* first lemmas say what the recursive function inside a fold computes,    *)
(* statement by statement and version by version.                          *)
(***************************************************************************)

\* Executing statements one by one: what the fold over a list computes on the
\* way, for each set of the places that are done.
Executing(db, L, s, g) ==
  IF s = {} THEN db ELSE Execute(g[s \ {Max(s)}], L[Max(s)])
Executions(db, L) == CHOOSE g : g = [s \in SUBSET DOMAIN L |-> Executing(db, L, s, g)]
After(db, L, k) == Executions(db, L)[1..k]

LEMMA LastOfStretch ==
  ASSUME NEW k \in Nat, NEW s \in SUBSET (1..(k + 1)), k + 1 \in s
  PROVE  Max(s) = k + 1 /\ s \ {Max(s)} \in SUBSET (1..k)
<1>1. s \in SUBSET Int /\ \A i \in s : i <= k + 1
  OBVIOUS
<1>2. Max(s) = k + 1
  BY <1>1, GreatestOf
<1>3. QED
  BY <1>2

LEMMA MaxWithin ==
  ASSUME NEW k \in Nat, NEW s \in SUBSET (1..k), s # {}
  PROVE  Max(s) \in s /\ s \ {Max(s)} \in SUBSET (1..k)
<1> DEFINE above == {k - i : i \in s}
<1>1. above \in SUBSET Nat /\ above # {}
  <2>1. \A i \in s : k - i \in Nat
    OBVIOUS
  <2>2. above \in SUBSET Nat
    BY <2>1
  <2>3. PICK i \in s : TRUE
    OBVIOUS
  <2>4. k - i \in above
    OBVIOUS
  <2>5. QED
    BY <2>2, <2>4
<1>2. Min(above) \in above /\ \A i \in above : Min(above) <= i
  BY <1>1, LeastOf
<1>3. PICK m \in s : Min(above) = k - m
  BY <1>2
<1>4. \A i \in s : k - m <= k - i
  BY <1>2, <1>3
<1>5. \A i \in s : i <= m
  BY <1>4
<1>6. s \in SUBSET Int
  OBVIOUS
<1>7. Max(s) = m
  BY <1>5, <1>6, GreatestOf
<1>8. QED
  BY <1>7

\* The recursion of the fold has a solution for lists of any length.
LEMMA ExecutionsExist ==
  ASSUME NEW db, NEW L, NEW n \in Nat
  PROVE  \E g : g = [s \in SUBSET (1..n) |-> Executing(db, L, s, g)]
<1> DEFINE Solved(k) == \E g : g = [s \in SUBSET (1..k) |-> Executing(db, L, s, g)]
           open == {k \in Nat : ~Solved(k)}
<1>1. Solved(0)
  <2> DEFINE g == [s \in SUBSET (1..0) |-> db]
  <2>1. \A s \in SUBSET (1..0) : s = {}
    OBVIOUS
  <2>2. g = [s \in SUBSET (1..0) |-> Executing(db, L, s, g)]
    BY <2>1 DEF Executing
  <2>3. QED
    BY <2>2
<1>2. ASSUME NEW k \in Nat, Solved(k) PROVE Solved(k + 1)
  <2>1. PICK g : g = [s \in SUBSET (1..k) |-> Executing(db, L, s, g)]
    BY <1>2
  <2> DEFINE h == [s \in SUBSET (1..(k + 1)) |->
                     IF k + 1 \in s THEN Execute(g[s \ {k + 1}], L[k + 1]) ELSE g[s]]
  <2>2. ASSUME NEW s \in SUBSET (1..(k + 1)) PROVE h[s] = Executing(db, L, s, h)
    <3>1. CASE k + 1 \in s
      <4>1. Max(s) = k + 1 /\ s \ {k + 1} \in SUBSET (1..k)
        BY <3>1, LastOfStretch
      <4>2. h[s \ {k + 1}] = g[s \ {k + 1}]
        BY <4>1
      <4>3. QED
        BY <3>1, <4>1, <4>2 DEF Executing
    <3>2. CASE k + 1 \notin s
      <4>1. s \in SUBSET (1..k)
        BY <3>2
      <4>2. g[s] = Executing(db, L, s, g)
        BY <2>1, <4>1
      <4>3. s # {} => Max(s) \in s /\ s \ {Max(s)} \in SUBSET (1..k)
        BY <4>1, MaxWithin
      <4>4. s # {} => h[s \ {Max(s)}] = g[s \ {Max(s)}]
        BY <4>3
      <4>5. QED
        BY <3>2, <4>2, <4>4 DEF Executing
    <3>3. QED
      BY <3>1, <3>2
  <2>3. h = [s \in SUBSET (1..(k + 1)) |-> Executing(db, L, s, h)]
    BY <2>2
  <2>4. QED
    BY <2>3
<1> HIDE DEF Solved
<1>3. ASSUME open # {} PROVE FALSE
  <2>1. open \in SUBSET Nat
    OBVIOUS
  <2>2. Min(open) \in open /\ \A k \in open : Min(open) <= k
    BY <1>3, <2>1, LeastOf
  <2> DEFINE m == Min(open)
  <2>3. m \in Nat /\ ~Solved(m) /\ \A k \in open : m <= k
    BY <2>2
  <2> HIDE DEF m
  <2>4. m # 0
    BY <1>1, <2>3
  <2>5. m - 1 \in Nat /\ (m - 1) + 1 = m /\ ~(m <= m - 1)
    BY <2>3, <2>4
  <2>6. Solved(m - 1)
    BY <2>3, <2>5
  <2>7. QED
    BY <1>2, <2>3, <2>5, <2>6
<1>4. QED
  BY <1>3 DEF Solved

LEMMA ExecutedOneByOne ==
  ASSUME NEW db, NEW L, NEW n \in Nat, DOMAIN L = 1..n
  PROVE  /\ FoldLeft(Execute, db, L) = After(db, L, n)
         /\ After(db, L, 0) = db
         /\ \A k \in 1..n : After(db, L, k) = Execute(After(db, L, k - 1), L[k])
<1> DEFINE g == Executions(db, L)
<1>1. g = [s \in SUBSET DOMAIN L |-> Executing(db, L, s, g)]
  BY ExecutionsExist DEF Executions
<1>2. \A s \in SUBSET (1..n) : g[s] = Executing(db, L, s, g)
  BY <1>1
<1>3. FoldLeft(Execute, db, L) = g[DOMAIN L]
  BY DEF FoldLeft, MapThenFoldSet, Executions, Executing
<1>4. After(db, L, 0) = db
  <2>1. 1..0 = {} /\ {} \in SUBSET (1..n)
    OBVIOUS
  <2>2. g[{}] = db
    BY <1>2, <2>1 DEF Executing
  <2>3. QED
    BY <2>1, <2>2 DEF After
<1>5. ASSUME NEW k \in 1..n PROVE After(db, L, k) = Execute(After(db, L, k - 1), L[k])
  <2>0. k \in Nat /\ 1 <= k /\ k <= n
    OBVIOUS
  <2> HIDE DEF g
  <2>1. k - 1 \in Nat /\ (k - 1) + 1 = k /\ k \in 1..k /\ 1..k \in SUBSET (1..n) /\ 1..k # {}
    BY <2>0
  <2>2. Max(1..k) = k
    BY <2>1, LastOfStretch
  <2>3. (1..k) \ {k} = 1..(k - 1)
    OBVIOUS
  <2>4. g[1..k] = Execute(g[1..(k - 1)], L[k])
    BY <1>2, <2>1, <2>2, <2>3 DEF Executing
  <2>5. QED
    BY <2>4 DEF After, g
<1>6. QED
  BY <1>3, <1>4, <1>5 DEF After

\* A migration as a whole, and the fold over the migrations up to a version.
Upgraded(db, v) == FoldLeft(Execute, db, MIGRATIONS[v])
Upgrading(order, s, g) ==
  IF s = {} THEN Empty ELSE Upgraded(g[s \ {Max(s)}], order[Max(s)])
Upgrades(order) == CHOOSE g : g = [s \in SUBSET DOMAIN order |-> Upgrading(order, s, g)]
InOrder(n) == [v \in 1..n |-> v]
AtVersion(n) ==
  FoldLeft(LAMBDA db, v : FoldLeft(Execute, db, MIGRATIONS[v]), Empty, [v \in 1..n |-> v])

\* The same of the fold over the migrations.
LEMMA UpgradesExist ==
  ASSUME NEW order, NEW n \in Nat
  PROVE  \E g : g = [s \in SUBSET (1..n) |-> Upgrading(order, s, g)]
<1> DEFINE Solved(k) == \E g : g = [s \in SUBSET (1..k) |-> Upgrading(order, s, g)]
           open == {k \in Nat : ~Solved(k)}
<1>1. Solved(0)
  <2> DEFINE g == [s \in SUBSET (1..0) |-> Empty]
  <2>1. \A s \in SUBSET (1..0) : s = {}
    OBVIOUS
  <2>2. g = [s \in SUBSET (1..0) |-> Upgrading(order, s, g)]
    BY <2>1 DEF Upgrading
  <2>3. QED
    BY <2>2
<1>2. ASSUME NEW k \in Nat, Solved(k) PROVE Solved(k + 1)
  <2>1. PICK g : g = [s \in SUBSET (1..k) |-> Upgrading(order, s, g)]
    BY <1>2
  <2> DEFINE h == [s \in SUBSET (1..(k + 1)) |->
                     IF k + 1 \in s THEN Upgraded(g[s \ {k + 1}], order[k + 1]) ELSE g[s]]
  <2>2. ASSUME NEW s \in SUBSET (1..(k + 1)) PROVE h[s] = Upgrading(order, s, h)
    <3>1. CASE k + 1 \in s
      <4>1. Max(s) = k + 1 /\ s \ {k + 1} \in SUBSET (1..k)
        BY <3>1, LastOfStretch
      <4>2. h[s \ {k + 1}] = g[s \ {k + 1}]
        BY <4>1
      <4>3. QED
        BY <3>1, <4>1, <4>2 DEF Upgrading
    <3>2. CASE k + 1 \notin s
      <4>1. s \in SUBSET (1..k)
        BY <3>2
      <4>2. g[s] = Upgrading(order, s, g)
        BY <2>1, <4>1
      <4>3. s # {} => Max(s) \in s /\ s \ {Max(s)} \in SUBSET (1..k)
        BY <4>1, MaxWithin
      <4>4. s # {} => h[s \ {Max(s)}] = g[s \ {Max(s)}]
        BY <4>3
      <4>5. QED
        BY <3>2, <4>2, <4>4 DEF Upgrading
    <3>3. QED
      BY <3>1, <3>2
  <2>3. h = [s \in SUBSET (1..(k + 1)) |-> Upgrading(order, s, h)]
    BY <2>2
  <2>4. QED
    BY <2>3
<1> HIDE DEF Solved
<1>3. ASSUME open # {} PROVE FALSE
  <2>1. open \in SUBSET Nat
    OBVIOUS
  <2>2. Min(open) \in open /\ \A k \in open : Min(open) <= k
    BY <1>3, <2>1, LeastOf
  <2> DEFINE m == Min(open)
  <2>3. m \in Nat /\ ~Solved(m) /\ \A k \in open : m <= k
    BY <2>2
  <2> HIDE DEF m
  <2>4. m # 0
    BY <1>1, <2>3
  <2>5. m - 1 \in Nat /\ (m - 1) + 1 = m /\ ~(m <= m - 1)
    BY <2>3, <2>4
  <2>6. Solved(m - 1)
    BY <2>3, <2>5
  <2>7. QED
    BY <1>2, <2>3, <2>5, <2>6
<1>4. QED
  BY <1>3 DEF Solved


LEMMA UpgradedOneByOne ==
  ASSUME NEW n \in Nat
  PROVE  LET g == Upgrades(InOrder(n)) IN
         /\ AtVersion(n) = g[1..n]
         /\ g[1..0] = Empty
         /\ \A k \in 1..n : g[1..k] = Upgraded(g[1..(k - 1)], k)
<1> DEFINE g == Upgrades(InOrder(n))
<1>0. DOMAIN InOrder(n) = 1..n /\ \A k \in 1..n : InOrder(n)[k] = k
  BY DEF InOrder
<1>1. g = [s \in SUBSET DOMAIN InOrder(n) |-> Upgrading(InOrder(n), s, g)]
  BY <1>0, UpgradesExist DEF Upgrades
<1>2. \A s \in SUBSET (1..n) : g[s] = Upgrading(InOrder(n), s, g)
  BY <1>0, <1>1
<1>3. AtVersion(n) = g[DOMAIN InOrder(n)]
  BY DEF AtVersion, FoldLeft, MapThenFoldSet, Upgrades, Upgrading, Upgraded, InOrder
<1>4. g[1..0] = Empty
  <2>1. 1..0 = {} /\ {} \in SUBSET (1..n)
    OBVIOUS
  <2>2. g[{}] = Empty
    BY <1>2, <2>1 DEF Upgrading
  <2>3. QED
    BY <2>1, <2>2
<1>5. ASSUME NEW k \in 1..n PROVE g[1..k] = Upgraded(g[1..(k - 1)], k)
  <2>0. k \in Nat /\ 1 <= k /\ k <= n
    OBVIOUS
  <2> HIDE DEF g
  <2>1. k - 1 \in Nat /\ (k - 1) + 1 = k /\ k \in 1..k /\ 1..k \in SUBSET (1..n) /\ 1..k # {}
    BY <2>0
  <2>2. Max(1..k) = k
    BY <2>1, LastOfStretch
  <2>3. (1..k) \ {k} = 1..(k - 1)
    BY <2>0
  <2>4. QED
    BY <1>0, <1>2, <2>1, <2>2, <2>3 DEF Upgrading
<1>6. QED
  BY <1>0, <1>3, <1>4, <1>5

\* A version is the one before with one migration more.
LEMMA NextVersion ==
  ASSUME NEW n \in Nat
  PROVE  AtVersion(0) = Empty /\ AtVersion(n + 1) = Upgraded(AtVersion(n), n + 1)
<1> DEFINE g == Upgrades(InOrder(n))
           h == Upgrades(InOrder(n + 1))
           apart == {k \in 0..n : g[1..k] # h[1..k]}
<1>1. AtVersion(0) = Empty
  BY UpgradedOneByOne
<1>2. /\ AtVersion(n) = g[1..n]
      /\ g[1..0] = Empty
      /\ \A k \in 1..n : g[1..k] = Upgraded(g[1..(k - 1)], k)
  BY UpgradedOneByOne
<1>3. /\ AtVersion(n + 1) = h[1..(n + 1)]
      /\ h[1..0] = Empty
      /\ \A k \in 1..(n + 1) : h[1..k] = Upgraded(h[1..(k - 1)], k)
  <2>1. n + 1 \in Nat
    OBVIOUS
  <2>2. QED
    BY <2>1, UpgradedOneByOne
<1> HIDE DEF g, h
<1>4. ASSUME apart # {} PROVE FALSE
  <2>1. apart \in SUBSET Nat
    OBVIOUS
  <2>2. Min(apart) \in apart /\ \A k \in apart : Min(apart) <= k
    BY <1>4, <2>1, LeastOf
  <2> DEFINE m == Min(apart)
  <2>3. m \in 0..n /\ g[1..m] # h[1..m] /\ \A k \in apart : m <= k
    BY <2>2
  <2> HIDE DEF m
  <2>4. m # 0
    BY <1>2, <1>3, <2>3
  <2>5. m \in 1..n /\ m \in 1..(n + 1) /\ m - 1 \in 0..n /\ ~(m <= m - 1)
    BY <2>3, <2>4
  <2>6. g[1..(m - 1)] = h[1..(m - 1)]
    BY <2>3, <2>5
  <2>7. QED
    BY <1>2, <1>3, <2>3, <2>5, <2>6
<1>5. g[1..n] = h[1..n]
  <2>1. n \in 0..n
    OBVIOUS
  <2>2. QED
    BY <1>4, <2>1
<1>6. n + 1 \in 1..(n + 1) /\ (n + 1) - 1 = n
  OBVIOUS
<1>7. QED
  BY <1>1, <1>2, <1>3, <1>5, <1>6

\* Induction, with a set for what is true of a number.
LEMMA UpToN ==
  ASSUME NEW S, NEW n \in Nat, 0 \in S, \A k \in 1..n : k - 1 \in S => k \in S
  PROVE  0..n \subseteq S
<1> DEFINE rest == {k \in 0..n : k \notin S}
<1>1. ASSUME rest # {} PROVE FALSE
  <2>1. rest \in SUBSET Nat
    OBVIOUS
  <2>2. Min(rest) \in rest /\ \A k \in rest : Min(rest) <= k
    BY <1>1, <2>1, LeastOf
  <2> DEFINE m == Min(rest)
  <2>3. m \in 0..n /\ m \notin S /\ \A k \in rest : m <= k
    BY <2>2
  <2> HIDE DEF m
  <2>4. m \in 1..n /\ m - 1 \in 0..n /\ ~(m <= m - 1)
    BY <2>3
  <2>5. m - 1 \in S
    BY <2>3, <2>4
  <2>6. QED
    BY <2>3, <2>4, <2>5
<1>2. QED
  BY <1>1

IsDatabase(db) ==
  db = [tables |-> db.tables, keys |-> db.keys, columns |-> db.columns, rows |-> db.rows]
Bare(db) == [db EXCEPT !.rows = {}]
Kinds == {"create", "alter", "copy", "drop", "rename"}

LEMMA RaisedStays == \A s : Execute(Raised, s) = Raised
  BY DEF Execute

LEMMA DatabaseIsNotRaised ==
  ASSUME NEW db, IsDatabase(db) PROVE db # Raised
<1>1. DOMAIN Raised = {"raised"}
  BY DEF Raised
<1>2. "tables" \in DOMAIN db
  BY DEF IsDatabase
<1>3. QED
  BY <1>1, <1>2

LEMMA BareIs ==
  ASSUME NEW db, IsDatabase(db)
  PROVE  /\ Bare(db) = [tables |-> db.tables, keys |-> db.keys, columns |-> db.columns, rows |-> {}]
         /\ IsDatabase(Bare(db))
  BY DEF IsDatabase, Bare

LEMMA LiteralIs ==
  ASSUME NEW T, NEW K, NEW C, NEW R
  PROVE  /\ IsDatabase([tables |-> T, keys |-> K, columns |-> C, rows |-> R])
         /\ Bare([tables |-> T, keys |-> K, columns |-> C, rows |-> R])
              = [tables |-> T, keys |-> K, columns |-> C, rows |-> {}]
  BY DEF IsDatabase, Bare

\* What a statement does to tables, keys and columns it does whatever rows there are.
LEMMA ExecutedBare ==
  ASSUME NEW db, IsDatabase(db), NEW s, s.does \in Kinds, Execute(db, s) # Raised
  PROVE  IsDatabase(Execute(db, s)) /\ Execute(Bare(db), s) = Bare(Execute(db, s))
<1> DEFINE bare == Bare(db)
<1>1. /\ db # Raised /\ bare # Raised /\ IsDatabase(bare)
      /\ bare.tables = db.tables /\ bare.keys = db.keys /\ bare.columns = db.columns /\ bare.rows = {}
  BY BareIs, DatabaseIsNotRaised
<1>2. CASE s.does = "create"
  <2>1. s.names \cap db.tables = {} /\ Execute(db, s) = [db EXCEPT !.tables = @ \cup s.names, !.keys = @ \cup s.keys]
    BY <1>1, <1>2 DEF Execute
  <2>2. Execute(bare, s) = [bare EXCEPT !.tables = @ \cup s.names, !.keys = @ \cup s.keys]
    BY <1>1, <1>2, <2>1 DEF Execute
  <2>3. Execute(db, s) = [tables |-> db.tables \cup s.names, keys |-> db.keys \cup s.keys,
                          columns |-> db.columns, rows |-> db.rows]
    BY <2>1 DEF IsDatabase
  <2>4. Execute(bare, s) = [tables |-> db.tables \cup s.names, keys |-> db.keys \cup s.keys,
                            columns |-> db.columns, rows |-> {}]
    BY <1>1, <2>2 DEF IsDatabase
  <2> DEFINE full == [tables |-> db.tables \cup s.names, keys |-> db.keys \cup s.keys,
                      columns |-> db.columns, rows |-> db.rows]
             empty == [tables |-> db.tables \cup s.names, keys |-> db.keys \cup s.keys,
                       columns |-> db.columns, rows |-> {}]
  <2>5. IsDatabase(full) /\ Bare(full) = empty
    BY LiteralIs
  <2>6. Execute(db, s) = full /\ Execute(bare, s) = empty
    BY <2>3, <2>4
  <2> HIDE DEF full, empty, bare
  <2>7. IsDatabase(Execute(db, s)) /\ Execute(bare, s) = Bare(Execute(db, s))
    BY <2>5, <2>6
  <2>8. QED
    BY <2>7 DEF bare
<1>3. CASE s.does = "alter"
  <2>1. s.columns \cap db.columns = {} /\ Execute(db, s) = [db EXCEPT !.columns = @ \cup s.columns]
    BY <1>1, <1>3 DEF Execute
  <2>2. Execute(bare, s) = [bare EXCEPT !.columns = @ \cup s.columns]
    BY <1>1, <1>3, <2>1 DEF Execute
  <2>3. Execute(db, s) = [tables |-> db.tables, keys |-> db.keys,
                          columns |-> db.columns \cup s.columns, rows |-> db.rows]
    BY <2>1 DEF IsDatabase
  <2>4. Execute(bare, s) = [tables |-> db.tables, keys |-> db.keys,
                            columns |-> db.columns \cup s.columns, rows |-> {}]
    BY <1>1, <2>2 DEF IsDatabase
  <2> DEFINE full == [tables |-> db.tables, keys |-> db.keys,
                      columns |-> db.columns \cup s.columns, rows |-> db.rows]
             empty == [tables |-> db.tables, keys |-> db.keys,
                       columns |-> db.columns \cup s.columns, rows |-> {}]
  <2>5. IsDatabase(full) /\ Bare(full) = empty
    BY LiteralIs
  <2>6. Execute(db, s) = full /\ Execute(bare, s) = empty
    BY <2>3, <2>4
  <2> HIDE DEF full, empty, bare
  <2>7. IsDatabase(Execute(db, s)) /\ Execute(bare, s) = Bare(Execute(db, s))
    BY <2>5, <2>6
  <2>8. QED
    BY <2>7 DEF bare
<1>4. CASE s.does = "copy"
  <2>1. Execute(db, s) = [db EXCEPT !.rows = IF s.from \in @ THEN @ \cup {s.to} ELSE @]
    BY <1>1, <1>4 DEF Execute
  <2>2. Execute(bare, s) = [bare EXCEPT !.rows = IF s.from \in @ THEN @ \cup {s.to} ELSE @]
    BY <1>1, <1>4 DEF Execute
  <2>3. Execute(db, s) = [tables |-> db.tables, keys |-> db.keys, columns |-> db.columns,
                          rows |-> IF s.from \in db.rows THEN db.rows \cup {s.to} ELSE db.rows]
    BY <2>1 DEF IsDatabase
  <2>4. Execute(bare, s) = [tables |-> db.tables, keys |-> db.keys, columns |-> db.columns,
                            rows |-> {}]
    BY <1>1, <2>2 DEF IsDatabase
  <2> DEFINE full == [tables |-> db.tables, keys |-> db.keys,
                      columns |-> db.columns, rows |-> IF s.from \in db.rows THEN db.rows \cup {s.to} ELSE db.rows]
             empty == [tables |-> db.tables, keys |-> db.keys,
                       columns |-> db.columns, rows |-> {}]
  <2>5. IsDatabase(full) /\ Bare(full) = empty
    BY LiteralIs
  <2>6. Execute(db, s) = full /\ Execute(bare, s) = empty
    BY <2>3, <2>4
  <2> HIDE DEF full, empty, bare
  <2>7. IsDatabase(Execute(db, s)) /\ Execute(bare, s) = Bare(Execute(db, s))
    BY <2>5, <2>6
  <2>8. QED
    BY <2>7 DEF bare
<1>5. CASE s.does = "drop"
  <2>1. s.name \in db.tables /\ Execute(db, s) = Without(db, s.name)
    BY <1>1, <1>5 DEF Execute
  <2>2. Execute(bare, s) = Without(bare, s.name)
    BY <1>1, <1>5, <2>1 DEF Execute
  <2> DEFINE K == {k \in db.keys : k[1] # s.name}
             C == {c \in db.columns : c[1] # s.name}
  <2>3. Execute(db, s) = [tables |-> db.tables \ {s.name}, keys |-> K, columns |-> C,
                          rows |-> db.rows \ {s.name}]
    BY <2>1 DEF Without
  <2>4. Execute(bare, s) = [tables |-> db.tables \ {s.name}, keys |-> K, columns |-> C,
                            rows |-> {}]
    BY <1>1, <2>2 DEF Without
  <2> HIDE DEF K, C
  <2> DEFINE full == [tables |-> db.tables \ {s.name}, keys |-> K,
                      columns |-> C, rows |-> db.rows \ {s.name}]
             empty == [tables |-> db.tables \ {s.name}, keys |-> K,
                       columns |-> C, rows |-> {}]
  <2>5. IsDatabase(full) /\ Bare(full) = empty
    BY LiteralIs
  <2>6. Execute(db, s) = full /\ Execute(bare, s) = empty
    BY <2>3, <2>4
  <2> HIDE DEF full, empty, bare
  <2>7. IsDatabase(Execute(db, s)) /\ Execute(bare, s) = Bare(Execute(db, s))
    BY <2>5, <2>6
  <2>8. QED
    BY <2>7 DEF bare
<1>6. CASE s.does = "rename"
  <2>1. Execute(db, s) = [Without(db, s.from) EXCEPT
            !.tables = @ \cup {s.to},
            !.rows = IF s.from \in db.rows THEN @ \cup {s.to} ELSE @]
    BY <1>1, <1>6 DEF Execute
  <2>2. Execute(bare, s) = [Without(bare, s.from) EXCEPT
            !.tables = @ \cup {s.to},
            !.rows = IF s.from \in bare.rows THEN @ \cup {s.to} ELSE @]
    BY <1>1, <1>6 DEF Execute
  <2> DEFINE w == Without(db, s.from)
             b == Without(bare, s.from)
             R == IF s.from \in db.rows THEN w.rows \cup {s.to} ELSE w.rows
  <2>3. /\ w = [tables |-> w.tables, keys |-> w.keys, columns |-> w.columns, rows |-> w.rows]
        /\ b = [tables |-> w.tables, keys |-> w.keys, columns |-> w.columns, rows |-> {}]
    BY <1>1 DEF Without
  <2> HIDE DEF w, b
  <2>4. Execute(db, s) = [tables |-> w.tables \cup {s.to}, keys |-> w.keys,
                          columns |-> w.columns, rows |-> R]
    BY <2>1, <2>3 DEF w
  <2>5. Execute(bare, s) = [b EXCEPT !.tables = @ \cup {s.to},
                                     !.rows = IF s.from \in bare.rows THEN @ \cup {s.to} ELSE @]
    BY <2>2 DEF b
  <2>6. Execute(bare, s) = [tables |-> w.tables \cup {s.to}, keys |-> w.keys,
                            columns |-> w.columns, rows |-> {}]
    BY <1>1, <2>3, <2>5
  <2> DEFINE full == [tables |-> w.tables \cup {s.to}, keys |-> w.keys,
                      columns |-> w.columns, rows |-> R]
             empty == [tables |-> w.tables \cup {s.to}, keys |-> w.keys,
                       columns |-> w.columns, rows |-> {}]
  <2>7. IsDatabase(full) /\ Bare(full) = empty
    BY LiteralIs
  <2>8. Execute(db, s) = full /\ Execute(bare, s) = empty
    BY <2>4, <2>6
  <2> HIDE DEF full, empty, bare
  <2>9. IsDatabase(Execute(db, s)) /\ Execute(bare, s) = Bare(Execute(db, s))
    BY <2>7, <2>8
  <2>10. QED
    BY <2>9 DEF bare
<1>7. QED
  BY <1>2, <1>3, <1>4, <1>5, <1>6 DEF Kinds

\* So does a list of statements that comes to its end.
LEMMA FoldedBare ==
  ASSUME NEW db, IsDatabase(db), NEW L, NEW n \in Nat, DOMAIN L = 1..n,
         \A i \in 1..n : L[i].does \in Kinds,
         FoldLeft(Execute, db, L) # Raised
  PROVE  /\ \A k \in 0..n : IsDatabase(After(db, L, k))
         /\ IsDatabase(FoldLeft(Execute, db, L))
         /\ FoldLeft(Execute, Bare(db), L) = Bare(FoldLeft(Execute, db, L))
<1> DEFINE D(k) == After(db, L, k)
           B(k) == After(Bare(db), L, k)
           good == {k \in 0..n : D(k) = Raised \/ (IsDatabase(D(k)) /\ B(k) = Bare(D(k)))}
           raised == {k \in 0..n : D(n - k) # Raised}
<1>1. /\ FoldLeft(Execute, db, L) = D(n) /\ D(0) = db
      /\ \A k \in 1..n : D(k) = Execute(D(k - 1), L[k])
      /\ FoldLeft(Execute, Bare(db), L) = B(n) /\ B(0) = Bare(db)
      /\ \A k \in 1..n : B(k) = Execute(B(k - 1), L[k])
  BY ExecutedOneByOne
<1> HIDE DEF D, B
<1>2. 0..n \subseteq good
  <2>1. 0 \in good
    BY <1>1
  <2>2. ASSUME NEW k \in 1..n, k - 1 \in good PROVE k \in good
    <3>1. k \in 0..n /\ k - 1 \in 0..n
      OBVIOUS
    <3>2. CASE D(k - 1) = Raised
      BY <1>1, <3>1, <3>2, RaisedStays
    <3>3. CASE D(k) # Raised /\ D(k - 1) # Raised
      BY <1>1, <2>2, <3>1, <3>3, ExecutedBare
    <3>4. QED
      BY <3>1, <3>2, <3>3
  <2> HIDE DEF good
  <2>3. QED
    BY <2>1, <2>2, UpToN
<1>3. 0..n \subseteq raised
  <2>1. 0 \in raised
    BY <1>1
  <2>2. ASSUME NEW k \in 1..n, k - 1 \in raised PROVE k \in raised
    <3>1. k \in 0..n /\ n - (k - 1) \in 1..n /\ (n - (k - 1)) - 1 = n - k
      OBVIOUS
    <3>2. D(n - (k - 1)) = Execute(D(n - k), L[n - (k - 1)])
      BY <1>1, <3>1
    <3>3. QED
      BY <2>2, <3>1, <3>2, RaisedStays
  <2> HIDE DEF raised
  <2>3. QED
    BY <2>1, <2>2, UpToN
<1>4. ASSUME NEW k \in 0..n PROVE IsDatabase(D(k)) /\ B(k) = Bare(D(k))
  <2>1. n - k \in 0..n /\ n - (n - k) = k
    OBVIOUS
  <2>2. D(k) # Raised
    BY <1>3, <2>1
  <2>3. QED
    BY <1>2, <2>2
<1>5. n \in 0..n
  OBVIOUS
<1>6. QED
  BY <1>1, <1>4, <1>5 DEF D

(***************************************************************************)
(* The lists of statements.  All migrations but the sixteenth only create  *)
(* tables and add columns, and refer to tables of their own or to the few  *)
(* of earlier ones that stay.                                              *)
(***************************************************************************)
Moved == {"deep_update_candidates", "deep_update_candidates_new"}
Makes(s, T) == s.does = "create" => s.names \subseteq T
Fits(s, T) ==
  /\ s.does \in {"create", "alter"}
  /\ s.does = "create" => \A k \in s.keys : {k[1], k[2]} \subseteq T /\ k[2] \notin Moved

LEMMA TableFits ==
  \A T, name, references :
  /\ Makes(Table(name, references), T) => name \in T
  /\ name \in T /\ references \subseteq T \ Moved => Fits(Table(name, references), T)
  BY DEF Table, Makes, Fits
LEMMA TablesFit ==
  \A T, names : (Makes(Tables(names), T) => names \subseteq T) /\ Fits(Tables(names), T)
  BY DEF Tables, Makes, Fits
LEMMA ColumnsFit == \A T, name, added : Fits(Columns(name, added), T)
  BY DEF Columns, Fits


\* The tables of earlier migrations that later ones refer to.
Standing(n, T) ==
  /\ n >= 1 => {"events", "runtime_manifests"} \subseteq T
  /\ n >= 3 => "conversations" \in T
  /\ n >= 28 => "genesis_runs" \in T

\* Every migration but the sixteenth only creates and adds, refers to what is
\* there or what it makes, and leaves what later ones need.
LEMMA MigrationsFit ==
  ASSUME NEW T, NEW v \in 1..31, v # 16, Standing(v - 1, T),
         \A i \in DOMAIN MIGRATIONS[v] : Makes(MIGRATIONS[v][i], T)
  PROVE  /\ \A i \in DOMAIN MIGRATIONS[v] : Fits(MIGRATIONS[v][i], T)
         /\ Standing(v, T)
<1>1. CASE v = 1
  <2>1. MIGRATIONS[v] = CoreEventState
    BY <1>1 DEF MIGRATIONS
  <2>2. QED
    BY <1>1, <2>1, TableFits, TablesFit, ColumnsFit DEF CoreEventState, Moved, Standing
<1>2. CASE v = 2
  <2>1. MIGRATIONS[v] = LlmCallTraces
    BY <1>2 DEF MIGRATIONS
  <2>2. QED
    BY <1>2, <2>1, TableFits, TablesFit, ColumnsFit DEF LlmCallTraces, Moved, Standing
<1>3. CASE v = 3
  <2>1. MIGRATIONS[v] = ConversationProjection
    BY <1>3 DEF MIGRATIONS
  <2>2. QED
    BY <1>3, <2>1, TableFits, TablesFit, ColumnsFit DEF ConversationProjection, Moved, Standing
<1>4. CASE v = 4
  <2>1. MIGRATIONS[v] = SubjectiveMemory
    BY <1>4 DEF MIGRATIONS
  <2>2. QED
    BY <1>4, <2>1, TableFits, TablesFit, ColumnsFit DEF SubjectiveMemory, Moved, Standing
<1>5. CASE v = 5
  <2>1. MIGRATIONS[v] = BeliefsAndSelf
    BY <1>5 DEF MIGRATIONS
  <2>2. QED
    BY <1>5, <2>1, TableFits, TablesFit, ColumnsFit DEF BeliefsAndSelf, Moved, Standing
<1>6. CASE v = 6
  <2>1. MIGRATIONS[v] = ToolCalls
    BY <1>6 DEF MIGRATIONS
  <2>2. QED
    BY <1>6, <2>1, TableFits, TablesFit, ColumnsFit DEF ToolCalls, Moved, Standing
<1>7. CASE v = 7
  <2>1. MIGRATIONS[v] = GoalsAndHabits
    BY <1>7 DEF MIGRATIONS
  <2>2. QED
    BY <1>7, <2>1, TableFits, TablesFit, ColumnsFit DEF GoalsAndHabits, Moved, Standing
<1>8. CASE v = 8
  <2>1. MIGRATIONS[v] = WorldSleepScheduler
    BY <1>8 DEF MIGRATIONS
  <2>2. QED
    BY <1>8, <2>1, TableFits, TablesFit, ColumnsFit DEF WorldSleepScheduler, Moved, Standing
<1>9. CASE v = 9
  <2>1. MIGRATIONS[v] = GrowthConsolidation
    BY <1>9 DEF MIGRATIONS
  <2>2. QED
    BY <1>9, <2>1, TableFits, TablesFit, ColumnsFit DEF GrowthConsolidation, Moved, Standing
<1>10. CASE v = 10
  <2>1. MIGRATIONS[v] = NpcSociety
    BY <1>10 DEF MIGRATIONS
  <2>2. QED
    BY <1>10, <2>1, TableFits, TablesFit, ColumnsFit DEF NpcSociety, Moved, Standing
<1>11. CASE v = 11
  <2>1. MIGRATIONS[v] = HistoricalKnowledge
    BY <1>11 DEF MIGRATIONS
  <2>2. QED
    BY <1>11, <2>1, TableFits, TablesFit, ColumnsFit DEF HistoricalKnowledge, Moved, Standing
<1>12. CASE v = 12
  <2>1. MIGRATIONS[v] = PastSimulation
    BY <1>12 DEF MIGRATIONS
  <2>2. QED
    BY <1>12, <2>1, TableFits, TablesFit, ColumnsFit DEF PastSimulation, Moved, Standing
<1>13. CASE v = 13
  <2>1. MIGRATIONS[v] = AdminAndBackup
    BY <1>13 DEF MIGRATIONS
  <2>2. QED
    BY <1>13, <2>1, TableFits, TablesFit, ColumnsFit DEF AdminAndBackup, Moved, Standing
<1>14. CASE v = 14
  <2>1. MIGRATIONS[v] = LlmCallTelemetry
    BY <1>14 DEF MIGRATIONS
  <2>2. QED
    BY <1>14, <2>1, TableFits, TablesFit, ColumnsFit DEF LlmCallTelemetry, Moved, Standing
<1>15. CASE v = 15
  <2>1. MIGRATIONS[v] = ProcessingRunConflicts
    BY <1>15 DEF MIGRATIONS
  <2>2. QED
    BY <1>15, <2>1, TableFits, TablesFit, ColumnsFit DEF ProcessingRunConflicts, Moved, Standing
<1>17. CASE v = 17
  <2>1. MIGRATIONS[v] = ConversationTraces
    BY <1>17 DEF MIGRATIONS
  <2>2. QED
    BY <1>17, <2>1, TableFits, TablesFit, ColumnsFit DEF ConversationTraces, Moved, Standing
<1>18. CASE v = 18
  <2>1. MIGRATIONS[v] = RebuildEpochs
    BY <1>18 DEF MIGRATIONS
  <2>2. QED
    BY <1>18, <2>1, TableFits, TablesFit, ColumnsFit DEF RebuildEpochs, Moved, Standing
<1>19. CASE v = 19
  <2>1. MIGRATIONS[v] = CommonGround
    BY <1>19 DEF MIGRATIONS
  <2>2. QED
    BY <1>19, <2>1, TableFits, TablesFit, ColumnsFit DEF CommonGround, Moved, Standing
<1>20. CASE v = 20
  <2>1. MIGRATIONS[v] = RetrievalStages
    BY <1>20 DEF MIGRATIONS
  <2>2. QED
    BY <1>20, <2>1, TableFits, TablesFit, ColumnsFit DEF RetrievalStages, Moved, Standing
<1>21. CASE v = 21
  <2>1. MIGRATIONS[v] = RealizationTrace
    BY <1>21 DEF MIGRATIONS
  <2>2. QED
    BY <1>21, <2>1, TableFits, TablesFit, ColumnsFit DEF RealizationTrace, Moved, Standing
<1>22. CASE v = 22
  <2>1. MIGRATIONS[v] = ResponseIntentTrace
    BY <1>22 DEF MIGRATIONS
  <2>2. QED
    BY <1>22, <2>1, TableFits, TablesFit, ColumnsFit DEF ResponseIntentTrace, Moved, Standing
<1>23. CASE v = 23
  <2>1. MIGRATIONS[v] = RuntimeTicks
    BY <1>23 DEF MIGRATIONS
  <2>2. QED
    BY <1>23, <2>1, TableFits, TablesFit, ColumnsFit DEF RuntimeTicks, Moved, Standing
<1>24. CASE v = 24
  <2>1. MIGRATIONS[v] = LifeDrivenByTheRuntime
    BY <1>24 DEF MIGRATIONS
  <2>2. QED
    BY <1>24, <2>1, TableFits, TablesFit, ColumnsFit DEF LifeDrivenByTheRuntime, Moved, Standing
<1>25. CASE v = 25
  <2>1. MIGRATIONS[v] = ProactiveDeliberations
    BY <1>25 DEF MIGRATIONS
  <2>2. QED
    BY <1>25, <2>1, TableFits, TablesFit, ColumnsFit DEF ProactiveDeliberations, Moved, Standing
<1>26. CASE v = 26
  <2>1. MIGRATIONS[v] = Diary
    BY <1>26 DEF MIGRATIONS
  <2>2. QED
    BY <1>26, <2>1, TableFits, TablesFit, ColumnsFit DEF Diary, Moved, Standing
<1>27. CASE v = 27
  <2>1. MIGRATIONS[v] = SearchAndProvenance
    BY <1>27 DEF MIGRATIONS
  <2>2. QED
    BY <1>27, <2>1, TableFits, TablesFit, ColumnsFit DEF SearchAndProvenance, Moved, Standing
<1>28. CASE v = 28
  <2>1. MIGRATIONS[v] = GenesisV2
    BY <1>28 DEF MIGRATIONS
  <2>2. QED
    BY <1>28, <2>1, TableFits, TablesFit, ColumnsFit DEF GenesisV2, Moved, Standing
<1>29. CASE v = 29
  <2>1. MIGRATIONS[v] = GenesisExperiences
    BY <1>29 DEF MIGRATIONS
  <2>2. QED
    BY <1>29, <2>1, TableFits, TablesFit, ColumnsFit DEF GenesisExperiences, Moved, Standing
<1>30. CASE v = 30
  <2>1. MIGRATIONS[v] = FirstBootState
    BY <1>30 DEF MIGRATIONS
  <2>2. QED
    BY <1>30, <2>1, TableFits, TablesFit, ColumnsFit DEF FirstBootState, Moved, Standing
<1>31. CASE v = 31
  <2>1. MIGRATIONS[v] = ShadowDecisions
    BY <1>31 DEF MIGRATIONS
  <2>2. QED
    BY <1>31, <2>1, TableFits, TablesFit, ColumnsFit DEF ShadowDecisions, Moved, Standing
<1>32. QED
  BY <1>1, <1>2, <1>3, <1>4, <1>5, <1>6, <1>7, <1>8, <1>9, <1>10, <1>11, <1>12, <1>13, <1>14, <1>15, <1>17, <1>18, <1>19, <1>20, <1>21, <1>22, <1>23, <1>24, <1>25, <1>26, <1>27, <1>28, <1>29, <1>30, <1>31

LEMMA MigrationsAreLists ==
  ASSUME NEW v \in 1..31
  PROVE  DOMAIN MIGRATIONS[v] = 1..Len(MIGRATIONS[v]) /\ Len(MIGRATIONS[v]) \in Nat
<1>1. MIGRATIONS[v] \in {CoreEventState, LlmCallTraces, ConversationProjection, SubjectiveMemory, BeliefsAndSelf, ToolCalls, GoalsAndHabits, WorldSleepScheduler, GrowthConsolidation, NpcSociety, HistoricalKnowledge, PastSimulation, AdminAndBackup, LlmCallTelemetry, ProcessingRunConflicts, DeepUpdateCandidateHistory, ConversationTraces, RebuildEpochs, CommonGround, RetrievalStages, RealizationTrace, ResponseIntentTrace, RuntimeTicks, LifeDrivenByTheRuntime, ProactiveDeliberations, Diary, SearchAndProvenance, GenesisV2, GenesisExperiences, FirstBootState, ShadowDecisions}
  BY DEF MIGRATIONS
<1>2. QED
  BY <1>1 DEF CoreEventState, LlmCallTraces, ConversationProjection, SubjectiveMemory, BeliefsAndSelf, ToolCalls, GoalsAndHabits, WorldSleepScheduler, GrowthConsolidation, NpcSociety, HistoricalKnowledge, PastSimulation, AdminAndBackup, LlmCallTelemetry, ProcessingRunConflicts, DeepUpdateCandidateHistory, ConversationTraces, RebuildEpochs, CommonGround, RetrievalStages, RealizationTrace, ResponseIntentTrace, RuntimeTicks, LifeDrivenByTheRuntime, ProactiveDeliberations, Diary, SearchAndProvenance, GenesisV2, GenesisExperiences, FirstBootState, ShadowDecisions

\* A list that only creates and adds: no row is touched, no table goes, every
\* key is an old one or of one of its statements.
LEMMA PlainListDoes ==
  ASSUME NEW db, IsDatabase(db), NEW L, NEW n \in Nat, DOMAIN L = 1..n,
         \A i \in 1..n : L[i].does \in {"create", "alter"},
         NEW d, d = FoldLeft(Execute, db, L), d # Raised
  PROVE  /\ d.rows = db.rows /\ db.tables \subseteq d.tables
         /\ \A i \in 1..n : Makes(L[i], d.tables)
         /\ \A k \in d.keys : k \in db.keys \/ \E i \in 1..n : L[i].does = "create" /\ k \in L[i].keys
<1> DEFINE D(k) == After(db, L, k)
           good == {k \in 0..n :
             /\ D(k).rows = db.rows /\ db.tables \subseteq D(k).tables
             /\ \A i \in 1..k : Makes(L[i], D(k).tables)
             /\ \A key \in D(k).keys :
                  key \in db.keys \/ \E i \in 1..k : L[i].does = "create" /\ key \in L[i].keys}
<1>1. /\ d = D(n) /\ D(0) = db
      /\ \A k \in 1..n : D(k) = Execute(D(k - 1), L[k])
      /\ \A k \in 0..n : IsDatabase(D(k))
  BY ExecutedOneByOne, FoldedBare DEF Kinds
<1> HIDE DEF D
<1>2. 0 \in good
  BY <1>1
<1>3. ASSUME NEW k \in 1..n, k - 1 \in good PROVE k \in good
  <2> DEFINE b == D(k - 1)
             s == L[k]
  <2>1. k \in 0..n /\ k - 1 \in 0..n
    OBVIOUS
  <2>2. b # Raised /\ D(k) # Raised /\ D(k) = Execute(b, s) /\ IsDatabase(b)
    BY <1>1, <2>1, DatabaseIsNotRaised
  <2>3. /\ b.rows = db.rows /\ db.tables \subseteq b.tables
        /\ \A i \in 1..(k - 1) : Makes(L[i], b.tables)
        /\ \A key \in b.keys :
             key \in db.keys \/ \E i \in 1..(k - 1) : L[i].does = "create" /\ key \in L[i].keys
    BY <1>3
  <2> HIDE DEF b
  <2>4. /\ D(k).rows = b.rows /\ b.tables \subseteq D(k).tables /\ Makes(s, D(k).tables)
        /\ \A key \in D(k).keys : key \in b.keys \/ (s.does = "create" /\ key \in s.keys)
    <3>1. CASE s.does = "create"
      <4>1. D(k) = [b EXCEPT !.tables = @ \cup s.names, !.keys = @ \cup s.keys]
        BY <2>2, <3>1 DEF Execute
      <4>2. D(k) = [tables |-> b.tables \cup s.names, keys |-> b.keys \cup s.keys,
                    columns |-> b.columns, rows |-> b.rows]
        BY <2>2, <4>1 DEF IsDatabase
      <4>3. QED
        BY <3>1, <4>2 DEF Makes
    <3>2. CASE s.does = "alter"
      <4>1. D(k) = [b EXCEPT !.columns = @ \cup s.columns]
        BY <2>2, <3>2 DEF Execute
      <4>2. D(k) = [tables |-> b.tables, keys |-> b.keys,
                    columns |-> b.columns \cup s.columns, rows |-> b.rows]
        BY <2>2, <4>1 DEF IsDatabase
      <4>3. QED
        BY <3>2, <4>2 DEF Makes
    <3>3. QED
      BY <3>1, <3>2
  <2>5. \A i \in 1..k : i = k \/ i \in 1..(k - 1)
    OBVIOUS
  <2>6. \A i \in 1..k : Makes(L[i], D(k).tables)
    BY <2>3, <2>4, <2>5 DEF Makes
  <2>7. ASSUME NEW key \in D(k).keys
        PROVE  key \in db.keys \/ \E i \in 1..k : L[i].does = "create" /\ key \in L[i].keys
    <3>1. k \in 1..k /\ 1..(k - 1) \subseteq 1..k
      OBVIOUS
    <3>2. QED
      BY <2>3, <2>4, <3>1
  <2>8. QED
    BY <2>1, <2>3, <2>4, <2>6, <2>7
<1>4. 0..n \subseteq good
  <2> HIDE DEF good
  <2>1. QED
    BY <1>2, <1>3, UpToN
<1>5. n \in good
  <2>1. n \in 0..n
    OBVIOUS
  <2>2. QED
    BY <1>4, <2>1
<1>6. QED
  BY <1>1, <1>5

\* Every key is of a table that is there to one that is there and stays.
Closed(db) == \A k \in db.keys : {k[1], k[2]} \subseteq db.tables /\ k[2] \notin Moved

\* The sixteenth migration makes a table anew and carries its rows across.
LEMMA MadeAnew ==
  ASSUME NEW db, IsDatabase(db), Closed(db),
         NEW d, d = FoldLeft(Execute, db, DeepUpdateCandidateHistory), d # Raised
  PROVE  /\ \A i \in 1..4 : DeepUpdateCandidateHistory[i].does \in Kinds
         /\ DOMAIN DeepUpdateCandidateHistory = 1..4
         /\ Closed(d) /\ db.tables \ Moved \subseteq d.tables
         /\ db.rows \ {"deep_update_candidates_new"} \subseteq d.rows
<1> DEFINE L == DeepUpdateCandidateHistory
           old == "deep_update_candidates"
           new == "deep_update_candidates_new"
           D(k) == After(db, L, k)
<1>1. /\ DOMAIN L = 1..4
      /\ L[1] = Tables({new}) /\ L[2] = Copy(old, new) /\ L[3] = Drop(old) /\ L[4] = Rename(new, old)
  BY DEF DeepUpdateCandidateHistory
<1>2. /\ L[1].does = "create" /\ L[1].names = {new} /\ L[1].keys = {}
      /\ L[2].does = "copy" /\ L[2].from = old /\ L[2].to = new
      /\ L[3].does = "drop" /\ L[3].name = old
      /\ L[4].does = "rename" /\ L[4].from = new /\ L[4].to = old
  BY <1>1 DEF Tables, Copy, Drop, Rename
<1>3. d = FoldLeft(Execute, db, L) /\ \A i \in 1..4 : L[i].does \in Kinds
  BY <1>2 DEF Kinds
<1> HIDE DEF L
<1>4. /\ D(0) = db /\ d = D(4)
      /\ D(1) = Execute(db, L[1]) /\ D(2) = Execute(D(1), L[2])
      /\ D(3) = Execute(D(2), L[3]) /\ d = Execute(D(3), L[4])
  <2>1. /\ d = After(db, L, 4) /\ After(db, L, 0) = db
        /\ \A k \in 1..4 : After(db, L, k) = Execute(After(db, L, k - 1), L[k])
    <3> DEFINE n == 4
    <3>1. n \in Nat /\ DOMAIN L = 1..n
      BY <1>1
    <3> HIDE DEF n
    <3>2. /\ FoldLeft(Execute, db, L) = After(db, L, n) /\ After(db, L, 0) = db
          /\ \A k \in 1..n : After(db, L, k) = Execute(After(db, L, k - 1), L[k])
      BY <3>1, ExecutedOneByOne
    <3>3. QED
      BY <1>3, <3>2 DEF n
  <2>2. QED
    BY <2>1
<1>5. \A k \in 0..4 : IsDatabase(D(k)) /\ D(k) # Raised
  <2>1. \A k \in 0..4 : IsDatabase(D(k))
    BY <1>1, <1>3, FoldedBare
  <2>2. QED
    BY <2>1, DatabaseIsNotRaised
<1> HIDE DEF D
<1>6. D(1) = [tables |-> db.tables \cup {new}, keys |-> db.keys, columns |-> db.columns,
              rows |-> db.rows]
  <2>1. D(1) = [db EXCEPT !.tables = @ \cup {new}, !.keys = @ \cup {}]
    BY <1>2, <1>4, <1>5, DatabaseIsNotRaised DEF Execute
  <2>2. QED
    BY <2>1 DEF IsDatabase
<1>7. D(2) = [tables |-> db.tables \cup {new}, keys |-> db.keys, columns |-> db.columns,
              rows |-> IF old \in db.rows THEN db.rows \cup {new} ELSE db.rows]
  <2>1. D(1) # Raised
    BY <1>5
  <2>2. D(2) = [D(1) EXCEPT !.rows = IF old \in @ THEN @ \cup {new} ELSE @]
    BY <1>2, <1>4, <2>1 DEF Execute
  <2>3. QED
    BY <1>6, <2>2
<1>8. /\ D(3).tables = (db.tables \cup {new}) \ {old}
      /\ D(3).keys = {k \in db.keys : k[1] # old}
      /\ D(3).rows = D(2).rows \ {old}
  <2>1. D(2) # Raised /\ D(3) # Raised
    BY <1>5
  <2>2. D(3) = Without(D(2), old)
    BY <1>2, <1>4, <2>1 DEF Execute
  <2>3. QED
    BY <1>7, <2>2 DEF Without
<1>9. /\ d.tables = (D(3).tables \ {new}) \cup {old}
      /\ d.keys = {k \in D(3).keys : k[1] # new}
      /\ d.rows = IF new \in D(3).rows THEN (D(3).rows \ {new}) \cup {old} ELSE D(3).rows \ {new}
  <2>1. D(3) # Raised
    BY <1>5
  <2> DEFINE w == Without(D(3), new)
  <2>2. d = [w EXCEPT !.tables = @ \cup {old},
                      !.rows = IF new \in D(3).rows THEN @ \cup {old} ELSE @]
    BY <1>2, <1>4, <2>1 DEF Execute
  <2>3. w = [tables |-> D(3).tables \ {new}, rows |-> D(3).rows \ {new},
             keys |-> {k \in D(3).keys : k[1] # new}, columns |-> {c \in D(3).columns : c[1] # new}]
    BY DEF Without
  <2> HIDE DEF w
  <2>4. /\ d.tables = w.tables \cup {old} /\ d.keys = w.keys
        /\ d.rows = IF new \in D(3).rows THEN w.rows \cup {old} ELSE w.rows
    BY <2>2, <2>3
  <2>5. QED
    BY <2>3, <2>4
<1>10. Closed(d)
  BY <1>8, <1>9 DEF Closed, Moved
<1>11. db.tables \ Moved \subseteq d.tables
  BY <1>8, <1>9 DEF Moved
<1>12. db.rows \ {new} \subseteq d.rows
  BY <1>7, <1>8, <1>9
<1>13. QED
  BY <1>1, <1>3, <1>10, <1>11, <1>12 DEF L

(***************************************************************************)
(* The file, wherever processes of whatever releases stand.                *)
(***************************************************************************)
FileInv ==
  /\ IsDatabase(database)
  /\ Bare(database) = AtVersion(SchemaVersion(recorded))
  /\ Closed(database)
  /\ Standing(SchemaVersion(recorded), database.tables)
  /\ filled \subseteq database.rows \cap Watched

LEMMA FileInitially == SchemaInit => FileInv
<1>1. SUFFICES ASSUME SchemaInit PROVE FileInv
  OBVIOUS
<1>2. Applied(recorded) = {} /\ SchemaVersion(recorded) = 0
  BY <1>1 DEF SchemaInit, Applied, SchemaVersion
<1>3. database = [tables |-> {}, keys |-> {}, columns |-> {}, rows |-> {}] /\ filled = {}
  BY <1>1 DEF SchemaInit, Empty
<1>4. AtVersion(0) = Empty
  BY NextVersion
<1>5. IsDatabase(database) /\ Bare(database) = Empty
  BY <1>3, LiteralIs DEF Empty
<1>6. Closed(database)
  BY <1>3 DEF Closed
<1>7. QED
  BY <1>2, <1>3, <1>4, <1>5, <1>6 DEF FileInv, Standing

\* What a migration that does not raise makes of a file at the version before.
LEMMA MigrationKeeps ==
  ASSUME NEW db, IsDatabase(db), Closed(db),
         NEW n \in 0..30, Bare(db) = AtVersion(n), Standing(n, db.tables),
         NEW d, d = FoldLeft(Execute, db, MIGRATIONS[n + 1]), d # Raised
  PROVE  /\ IsDatabase(d) /\ Closed(d) /\ Bare(d) = AtVersion(n + 1)
         /\ Standing(n + 1, d.tables)
         /\ db.rows \cap Watched \subseteq d.rows
<1> DEFINE L == MIGRATIONS[n + 1]
           m == Len(L)
<1>1. n + 1 \in 1..31 /\ n \in Nat
  OBVIOUS
<1>2. DOMAIN L = 1..m /\ m \in Nat
  BY <1>1, MigrationsAreLists
<1> HIDE DEF m
<1>3. /\ \A i \in 1..m : L[i].does \in Kinds
      /\ Closed(d) /\ Standing(n + 1, d.tables) /\ db.rows \cap Watched \subseteq d.rows
  <2>1. CASE n + 1 = 16
    <3>1. L = DeepUpdateCandidateHistory
      BY <2>1 DEF MIGRATIONS
    <3>2. /\ \A i \in 1..4 : L[i].does \in Kinds
          /\ DOMAIN L = 1..4
          /\ Closed(d) /\ db.tables \ Moved \subseteq d.tables
          /\ db.rows \ {"deep_update_candidates_new"} \subseteq d.rows
      BY <3>1, MadeAnew
    <3>3. n = 15
      BY <2>1
    <3> HIDE DEF L
    <3>4. Standing(n + 1, d.tables)
      BY <3>2, <3>3 DEF Standing, Moved
    <3>5. db.rows \cap Watched \subseteq d.rows
      BY <3>2 DEF Watched
    <3>6. QED
      BY <1>2, <3>2, <3>4, <3>5
  <2>2. CASE n + 1 # 16
    <3> DEFINE v == n + 1
    <3>1. v \in 1..31 /\ v # 16 /\ v - 1 = n
      BY <1>1, <2>2
    <3>2. \A T : Standing(n, T) /\ (\A i \in 1..m : Makes(L[i], T)) =>
            (\A i \in 1..m : Fits(L[i], T)) /\ Standing(v, T)
      <4> SUFFICES ASSUME NEW T, Standing(n, T), \A i \in 1..m : Makes(L[i], T)
                   PROVE  (\A i \in 1..m : Fits(L[i], T)) /\ Standing(v, T)
        OBVIOUS
      <4>1. Standing(v - 1, T) /\ \A i \in DOMAIN MIGRATIONS[v] : Makes(MIGRATIONS[v][i], T)
        BY <1>2, <3>1
      <4> HIDE DEF v
      <4>2. (\A i \in DOMAIN MIGRATIONS[v] : Fits(MIGRATIONS[v][i], T)) /\ Standing(v, T)
        BY <3>1, <4>1, MigrationsFit
      <4>3. QED
        BY <1>2, <4>2 DEF v
    <3>3. \A i \in 1..m : L[i].does \in {"create", "alter"}
      <4> DEFINE All == UNION {db.tables, {"events", "runtime_manifests", "conversations", "genesis_runs"},
                               UNION {L[i].names : i \in 1..m}}
      <4>1. Standing(n, All) /\ \A i \in 1..m : Makes(L[i], All)
        BY DEF Standing, Makes
      <4>2. QED
        BY <3>2, <4>1 DEF Fits
    <3>4. /\ d.rows = db.rows /\ db.tables \subseteq d.tables
          /\ \A i \in 1..m : Makes(L[i], d.tables)
          /\ \A k \in d.keys : k \in db.keys \/ \E i \in 1..m : L[i].does = "create" /\ k \in L[i].keys
      <4> HIDE DEF L
      <4>1. d = FoldLeft(Execute, db, L)
        BY DEF L
      <4>2. QED
        BY <1>2, <3>3, <4>1, PlainListDoes
    <3>5. Standing(n, d.tables)
      BY <3>4 DEF Standing
    <3>6. (\A i \in 1..m : Fits(L[i], d.tables)) /\ Standing(v, d.tables)
      BY <3>2, <3>4, <3>5
    <3> HIDE DEF L
    <3>7. Closed(d)
      BY <3>4, <3>6 DEF Closed, Fits
    <3>8. QED
      BY <3>3, <3>4, <3>6, <3>7 DEF Kinds
  <2>3. QED
    BY <2>1, <2>2
<1>4. IsDatabase(d) /\ FoldLeft(Execute, Bare(db), L) = Bare(d)
  <2> HIDE DEF L
  <2>1. d = FoldLeft(Execute, db, L)
    BY DEF L
  <2>2. QED
    BY <1>2, <1>3, <2>1, FoldedBare
<1>5. AtVersion(n + 1) = FoldLeft(Execute, AtVersion(n), L)
  BY <1>1, NextVersion DEF Upgraded
<1>6. QED
  BY <1>3, <1>4, <1>5

\* The migration that is applied is the one after the version the file is at.
LEMMA NextIsApplied ==
  ASSUME SchemaInv, SchemaInv', NEW p \in Opener, ApplyMigration(p),
         ~UNCHANGED <<database, recorded>>
  PROVE  LET n == SchemaVersion(recorded) IN
         /\ n \in 0..30 /\ SchemaVersion(recorded') = n + 1
         /\ database' = FoldLeft(Execute, database, MIGRATIONS[n + 1]) /\ database' # Raised
<1> DEFINE v == Min(unapplied[p])
           n == SchemaVersion(recorded)
           m == SchemaVersion(recorded')
<1>1. /\ Migrated(v) # Raised /\ recorded[v] = Unapplied /\ database' = Migrated(v)
      /\ recorded' = [recorded EXCEPT ![v] = Checksum(release[p], v)]
  BY DEF ApplyMigration
<1>2. unapplied[p] \subseteq Version /\ unapplied[p] \in SUBSET Nat /\ unapplied[p] # {}
  BY KnowsIsOfVersions DEF ApplyMigration, SchemaInv
<1>3. v \in Version
  BY <1>2, LeastOf
<1>4. n \in 0..31 /\ Applied(recorded) = 1..n
  BY StretchOf DEF SchemaInv
<1>5. m \in 0..31 /\ Applied(recorded') = 1..m
  BY StretchOf DEF SchemaInv
<1> HIDE DEF v
<1>6. Applied(recorded') = Applied(recorded) \cup {v} /\ v \notin Applied(recorded)
  BY <1>1, <1>3, ChecksumIsNot DEF Applied, SchemaInv
<1> HIDE DEF n, m
<1>7. v \in Nat /\ v \in 1..m /\ v \notin 1..n /\ 1..m = (1..n) \cup {v}
  BY <1>3, <1>4, <1>5, <1>6
<1>8. m = n + 1 /\ v = n + 1
  <2>1. v > n
    BY <1>4, <1>7
  <2>2. n + 1 \in 1..m
    BY <1>4, <1>5, <1>7, <2>1
  <2>3. n + 1 = v
    BY <1>4, <1>7, <2>2
  <2>4. m \in Nat /\ m >= n + 1
    BY <1>5, <2>2
  <2>5. m \in 1..m
    BY <1>4, <2>4
  <2>6. m \in 1..n \/ m = v
    BY <1>7, <2>5
  <2>7. QED
    BY <1>4, <2>3, <2>4, <2>6
<1>9. n \in 0..30
  BY <1>3, <1>4, <1>8, NumberOfMigrations DEF Version
<1>10. QED
  BY <1>1, <1>8, <1>9 DEF Migrated, n, m, v

LEMMA FileKept ==
  ASSUME SchemaInv, SchemaInv', FileInv, [SchemaNext]_schemaVars PROVE FileInv'
<1>1. CASE UNCHANGED <<database, recorded, filled>>
  BY <1>1 DEF FileInv
<1>2. CASE \E p \in Opener : ApplyMigration(p) /\ ~UNCHANGED <<database, recorded>>
  <2>1. PICK p \in Opener : ApplyMigration(p) /\ ~UNCHANGED <<database, recorded>>
    BY <1>2
  <2> DEFINE n == SchemaVersion(recorded)
  <2>2. /\ n \in 0..30 /\ SchemaVersion(recorded') = n + 1
        /\ database' = FoldLeft(Execute, database, MIGRATIONS[n + 1]) /\ database' # Raised
    BY <2>1, NextIsApplied
  <2>3. filled' = filled
    BY <2>1 DEF ApplyMigration
  <2>4. /\ IsDatabase(database) /\ Closed(database) /\ Bare(database) = AtVersion(n)
        /\ Standing(n, database.tables) /\ filled \subseteq database.rows \cap Watched
    BY DEF FileInv
  <2> HIDE DEF n
  <2>5. /\ IsDatabase(database') /\ Closed(database') /\ Bare(database') = AtVersion(n + 1)
        /\ Standing(n + 1, database'.tables)
        /\ database.rows \cap Watched \subseteq database'.rows
    BY <2>2, <2>4, MigrationKeeps
  <2>6. QED
    BY <2>2, <2>3, <2>4, <2>5 DEF FileInv
<1>3. CASE \E p \in Opener, t \in Watched : WriteRow(p, t)
  <2>1. PICK p \in Opener, t \in Watched : WriteRow(p, t)
    BY <1>3
  <2>2. /\ database' = [database EXCEPT !.rows = @ \cup {t}] /\ filled' = filled \cup {t}
        /\ recorded' = recorded
    BY <2>1 DEF WriteRow
  <2> DEFINE T == database.tables
             K == database.keys
             C == database.columns
             R == database.rows
  <2>3. database = [tables |-> T, keys |-> K, columns |-> C, rows |-> R]
    BY DEF FileInv, IsDatabase
  <2> HIDE DEF T, K, C, R
  <2>4. database' = [tables |-> T, keys |-> K, columns |-> C, rows |-> R \cup {t}]
    BY <2>2, <2>3
  <2>5. IsDatabase(database') /\ Bare(database') = Bare(database)
    <3>1. Bare(database) = [tables |-> T, keys |-> K, columns |-> C, rows |-> {}]
      BY <2>3, LiteralIs
    <3>2. /\ IsDatabase(database')
          /\ Bare(database') = [tables |-> T, keys |-> K, columns |-> C, rows |-> {}]
      BY <2>4, LiteralIs
    <3>3. QED
      BY <3>1, <3>2
  <2>6. database'.tables = database.tables /\ database'.keys = database.keys
        /\ database'.rows = database.rows \cup {t}
    BY <2>3, <2>4
  <2>7. QED
    BY <2>2, <2>5, <2>6 DEF FileInv, Closed
<1>4. QED
  <2>1. CASE UNCHANGED schemaVars
    BY <1>1, <2>1 DEF schemaVars
  <2>2. CASE SchemaNext
    <3>1. PICK p \in Opener : \/ ReadApplied(p) \/ ApplyMigration(p) \/ VerifySchema(p) \/ Close(p)
                              \/ \E t \in Watched : WriteRow(p, t)
      BY <2>2 DEF SchemaNext
    <3>2. CASE ReadApplied(p) \/ VerifySchema(p) \/ Close(p)
      BY <1>1, <3>2 DEF ReadApplied, VerifySchema, Close
    <3>3. CASE ApplyMigration(p) /\ UNCHANGED <<database, recorded>>
      BY <1>1, <3>3 DEF ApplyMigration
    <3>4. QED
      BY <1>2, <1>3, <3>1, <3>2, <3>3
  <2>3. QED
    BY <2>1, <2>2

\* The file is at the version its records say, closed under its foreign keys and
\* with every row that was written, after any step of any process.
LEMMA FileInvariance == SchemaSpec => []FileInv
<1>1. SchemaInv /\ SchemaInv' /\ FileInv /\ [SchemaNext]_schemaVars => FileInv'
  BY FileKept
<1>2. QED
  BY <1>1, FileInitially, SchemaInvariance, PTL DEF SchemaSpec

\* Whatever processes migrate side by side and wherever they end: the tables,
\* keys and columns are what the first n migrations make, each once and in
\* order; every foreign key refers to a table that is there, and no row is lost.
THEOREM FileIsAtAVersion == SchemaSpec => []AlwaysAtAVersion
<1>1. ASSUME SchemaInv, FileInv PROVE AlwaysAtAVersion
  <2> DEFINE n == SchemaVersion(recorded)
  <2>1. Applied(recorded) = 1..n
    BY <1>1, StretchOf DEF SchemaInv
  <2>2. [database EXCEPT !.rows = {}]
          = FoldLeft(LAMBDA db, v : FoldLeft(Execute, db, MIGRATIONS[v]), Empty, [v \in 1..n |-> v])
    BY <1>1 DEF FileInv, Bare, AtVersion
  <2>3. \A k \in database.keys : {k[1], k[2]} \subseteq database.tables
    BY <1>1 DEF FileInv, Closed
  <2>4. filled \subseteq database.rows
    BY <1>1 DEF FileInv
  <2>5. QED
    BY <2>1, <2>2, <2>3, <2>4 DEF AlwaysAtAVersion
<1>2. QED
  BY <1>1, SchemaInvariance, FileInvariance, PTL
=============================================================================
