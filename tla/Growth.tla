------------------------------- MODULE Growth -------------------------------
(***************************************************************************)
(* Consolidation: how what was committed becomes who she is                *)
(* (src/app/consolidation/, src/app/storage/repositories/growth.py).       *)
(*                                                                         *)
(* A job reads the committed changes since the last completed run, counts  *)
(* them as evidence, and sends one review event through the pipeline.  The *)
(* growth and value engines propose from the candidates whose evidence     *)
(* passes the gate; their ledgers follow what the transaction accepted.    *)
(* Every step is a row of its own, and the job may be cut between any two. *)
(* Values are integers: priorities in shares, themes in hundredths.        *)
(***************************************************************************)
EXTENDS Integers, Sequences, FiniteSets, FiniteSetsExt

CONSTANTS
  Adaptation,      \* characteristic adaptations that changes are evidence for
  ValueName,       \* the values, kept as one distribution
  Trait,           \* the traits of the temperament
  Leads,           \* which adaptation is evidence for which deep target, and its sign
  Share,           \* each value's first priority
  ValueStep, ThemeStep, ThemeLimit,
  MinPattern, MinEvidence,  \* the gate's conditions
  MinArbitrated,   \* min_evidence_count of the arbitration policy
  EvidenceBeforeChange,
  MaxRead,         \* max_changes_per_run
  MaxLifeChanges, MaxRuns, MaxRetold   \* bounds

VARIABLES
  changes,     \* committed changes an adaptation listens to, in commit order
  retold,      \* active memories of the one topic
  adaptations, \* characteristic_adaptations
  candidates,  \* deep_update_candidates
  priorities, baselines, theme,   \* the ledgers
  history,     \* personality_history and value_history
  deepState,   \* state_values of the deep domains, and state_changes of them
  deepChanges,
  consolidations,
  job          \* the run in flight

growthVars == <<changes, retold, adaptations, candidates, priorities, baselines,
                theme, history, deepState, deepChanges, consolidations, job>>

Unset == -1
NoJob == [at |-> "idle"]
Target == [domain : {"values"}, key : ValueName]
            \cup [domain : {"personality"}, key : Trait]
            \cup [domain : {"narrative"}, key : {"theme"}]

ASSUME GrowthAssumption ==
  /\ IsFiniteSet(ValueName) /\ IsFiniteSet(Leads)
  /\ Leads \subseteq [adaptation : Adaptation, target : Target, sign : {-1, 1}]
  /\ Share \in Nat /\ ValueStep \in Nat \ {0} /\ ThemeStep \in Nat

GrowthInit ==
  /\ changes = <<>> /\ retold = 0
  /\ adaptations = [a \in Adaptation |-> [value |-> 5, pending |-> 0]]
  /\ candidates = <<>>
  /\ priorities = [v \in ValueName |-> Share]
  /\ baselines = [t \in Trait |-> 50]
  /\ theme = 0
  /\ history = {}
  /\ deepState = [t \in Target |-> Unset] /\ deepChanges = {}
  /\ consolidations = <<>> /\ job = NoJob

---------------------------------------------------------------------------
(* The life goes on beside the job: runs commit changes, memories gather.  *)

LifeChanges ==
  /\ Len(changes) < MaxLifeChanges
  /\ \E a \in Adaptation, d \in {-1, 1} :
       changes' = Append(changes, [adaptation |-> a, direction |-> d])
  /\ UNCHANGED <<retold, adaptations, candidates, priorities, baselines, theme,
                 history, deepState, deepChanges, consolidations, job>>

Retell ==
  /\ retold < MaxRetold
  /\ retold' = retold + 1
  /\ UNCHANGED <<changes, adaptations, candidates, priorities, baselines, theme,
                 history, deepState, deepChanges, consolidations, job>>

---------------------------------------------------------------------------
(* The job: read, observe, raise, expire, retell.                          *)

\* Changes up to the start of the last completed run have been read, whether
\* or not the limit let that run see them.
ReadUpTo ==
  LET completed == {r \in DOMAIN consolidations : consolidations[r].completed}
  IN Max({consolidations[r].since : r \in completed} \cup {0})

StartJob ==
  /\ job = NoJob /\ Len(consolidations) < MaxRuns
  /\ consolidations' =
       Append(consolidations, [since |-> Len(changes), completed |-> FALSE])
  /\ job' = [at |-> "observing",
             evidence |-> {i \in DOMAIN changes :
                             ReadUpTo < i /\ i <= ReadUpTo + MaxRead}]
  /\ UNCHANGED <<changes, retold, adaptations, candidates, priorities, baselines,
                 theme, history, deepState, deepChanges>>

Run == Len(consolidations)
Clamped(x, low, high) == IF x < low THEN low ELSE IF x > high THEN high ELSE x
Sign(x) == IF x = 0 THEN 0 ELSE IF x > 0 THEN 1 ELSE -1

\* One piece of evidence: the pending sum, and a step once it is enough.
Observe(a, d) ==
  LET pending == a.pending + d
      enough == pending >= EvidenceBeforeChange \/ -pending >= EvidenceBeforeChange
  IN IF enough
     THEN [value |-> Clamped(a.value + Sign(pending), 0, 10),
           pending |-> pending - EvidenceBeforeChange * Sign(pending)]
     ELSE [a EXCEPT !.pending = pending]

ObserveEvidence ==
  /\ job.at = "observing"
  /\ adaptations' =
       [a \in Adaptation |->
          FoldSet(LAMBDA i, row : Observe(row, changes[i].direction),
                  adaptations[a],
                  {i \in job.evidence : changes[i].adaptation = a})]
  /\ job' = [job EXCEPT !.at = "raising"]
  /\ UNCHANGED <<changes, retold, candidates, priorities, baselines, theme,
                 history, deepState, deepChanges, consolidations>>

Accumulating == {c \in DOMAIN candidates : candidates[c].status = "accumulating"}
Tally(a) == {i \in job.evidence : changes[i].adaptation = a}
Direction(a) ==
  Sign(Cardinality({i \in Tally(a) : changes[i].direction = 1})
         - Cardinality({i \in Tally(a) : changes[i].direction = -1}))

\* One candidate per target and direction is open at a time: the tally of a
\* run counts once towards its pattern, and every change in it is evidence.
RaiseCandidate(rows, lead) ==
  LET direction == lead.sign * Direction(lead.adaptation)
      evidence == Tally(lead.adaptation)
      open == {c \in DOMAIN rows : /\ rows[c].status = "accumulating"
                                   /\ rows[c].target = lead.target
                                   /\ rows[c].direction = direction}
  IN IF open = {}
     THEN Append(rows, [target |-> lead.target, direction |-> direction, pattern |-> 1,
                        evidence |-> evidence, status |-> "accumulating", by |-> 0])
     ELSE [c \in DOMAIN rows |->
             IF c \in open
             THEN [rows[c] EXCEPT !.pattern = @ + 1, !.evidence = @ \cup evidence]
             ELSE rows[c]]

RaiseCandidates ==
  /\ job.at = "raising"
  /\ candidates' =
       FoldSet(LAMBDA lead, rows : RaiseCandidate(rows, lead), candidates,
               {lead \in Leads : Direction(lead.adaptation) # 0})
  /\ job' = [job EXCEPT !.at = "expiring"]
  /\ UNCHANGED <<changes, retold, adaptations, priorities, baselines, theme,
                 history, deepState, deepChanges, consolidations>>

\* Candidates that this run did not see again may have been idle too long.
ExpireCandidates ==
  /\ job.at = "expiring"
  /\ \E idle \in SUBSET {c \in Accumulating : candidates[c].evidence \cap job.evidence = {}} :
       candidates' = [c \in DOMAIN candidates |->
         IF c \in idle THEN [candidates[c] EXCEPT !.status = "expired"]
         ELSE candidates[c]]
  /\ job' = [job EXCEPT !.at = "retelling"]
  /\ UNCHANGED <<changes, retold, adaptations, priorities, baselines, theme,
                 history, deepState, deepChanges, consolidations>>

\* What is remembered three times is a theme, saturating towards 95.
ThemeStrength(n) == IF n < 3 THEN 0 ELSE (100 * n) \div (n + 6)

UpdateThemes ==
  /\ job.at = "retelling"
  /\ theme' = ThemeStrength(retold)
  /\ job' = [job EXCEPT !.at = "reviewing"]
  /\ UNCHANGED <<changes, retold, adaptations, candidates, priorities, baselines,
                 history, deepState, deepChanges, consolidations>>

---------------------------------------------------------------------------
(* The review: the gate, the proposals, arbitration and the commit.        *)

\* Persistence, contexts, outcomes and ordinary mood all come with evidence.
Passes(c) == /\ candidates[c].pattern >= MinPattern
             /\ Cardinality(candidates[c].evidence) >= MinEvidence

Ripe(domain) == {c \in Accumulating : candidates[c].target.domain = domain /\ Passes(c)}

\* A committed value of exactly zero reads as none (`or fallback`).
Current(t) ==
  IF deepState[t] \notin {Unset, 0} THEN deepState[t]
  ELSE CASE t.domain = "values" -> priorities[t.key]
         [] t.domain = "personality" -> baselines[t.key]
         [] OTHER -> 0

CurrentPriorities == [v \in ValueName |-> Current([domain |-> "values", key |-> v])]

Total(f, names) == MapThenSumSet(LAMBDA v : f[v], names)
Largest(f) == CHOOSE v \in ValueName : \A w \in ValueName : f[w] <= f[v]

\* What one value gains the others give in proportion; the rounding stays
\* with the largest, so the distribution keeps its total.
Redistribute(p, raised, step) ==
  LET others == ValueName \ {raised}
      pool == Total(p, others)
      moved == IF step > 0 THEN Clamped(step, 0, pool) ELSE Clamped(step, -p[raised], 0)
      rough == [v \in ValueName |->
                  IF v = raised THEN p[v] + moved
                  ELSE IF pool = 0 THEN (-moved) \div Cardinality(others)
                  ELSE p[v] - (moved * p[v]) \div pool]
  IN [rough EXCEPT ![Largest(rough)] = @ + Total(p, ValueName) - Total(rough, ValueName)]

\* What the evidence of a value's candidate makes of all the priorities.
Reordered(c) ==
  Redistribute(CurrentPriorities, candidates[c].target.key,
               candidates[c].direction * ValueStep)

\* A proposal names the candidates whose evidence it rests on: one, or none
\* when it is a theme that asks.
ValueProposals ==
  UNION {{[target |-> [domain |-> "values", key |-> v], value |-> Reordered(c)[v],
           from |-> {c}] :
            v \in {w \in ValueName : Reordered(c)[w] # CurrentPriorities[w]}} :
         c \in Ripe("values")}

TraitProposals ==
  {p \in {[target |-> candidates[c].target,
           value |-> Clamped(Current(candidates[c].target) + candidates[c].direction, 0, 100),
           from |-> {c}] : c \in Ripe("personality")} :
     p.value # Current(p.target)}

ThemeProposals ==
  LET t == [domain |-> "narrative", key |-> "theme"]
      strength == Clamped(theme, 0, 95)
  IN IF strength <= Current(t) THEN {}
     ELSE {[target |-> t, value |-> Clamped(Current(t) + ThemeStep, 0, strength),
            from |-> {}]}

\* Arbitration (module Arbitration): proposals on too little evidence are
\* screened out, then values that disagree, that leave the scale or that move
\* more than the limit of their domain are rejected, each for its own key.
Limit(t) == CASE t.domain = "values" -> ValueStep
              [] t.domain = "personality" -> 1
              [] OTHER -> ThemeLimit
Scale(t) == IF t.domain = "values" THEN 0 .. Share * Cardinality(ValueName) ELSE 0 .. 100

Evidenced(c) == Cardinality(candidates[c].evidence) >= MinArbitrated
Screened(proposals) == {p \in proposals : \A c \in p.from : Evidenced(c)}
Admitted(proposals) ==
  {p \in Screened(proposals) :
     /\ \A q \in Screened(proposals) : q.target = p.target => q.value = p.value
     /\ p.value \in Scale(p.target)
     /\ deepState[p.target] # Unset =>
          p.value - deepState[p.target] \in -Limit(p.target) .. Limit(p.target)}

\* One change a key, resting on all the evidence that asked for it.
Merged(proposals) ==
  {[target |-> p.target, value |-> p.value,
    from |-> UNION {q.from : q \in {r \in proposals : r.target = p.target}}] :
     p \in proposals}

\* The run commits what is accepted at once, or none of it when the commit
\* fails, and reports it to the job.
Review ==
  /\ job.at = "reviewing"
  /\ LET proposals == ValueProposals \cup TraitProposals \cup ThemeProposals
     IN \E accepted \in {Merged(Admitted(proposals)), {}} :
          /\ deepState' = [t \in Target |->
               IF \E p \in accepted : p.target = t
               THEN (CHOOSE p \in accepted : p.target = t).value ELSE deepState[t]]
          /\ deepChanges' = deepChanges \cup
               {[run |-> Run, target |-> p.target, seen |-> Current(p.target),
                 new |-> p.value, from |-> p.from] : p \in accepted}
          /\ job' = [at |-> "growing", evidence |-> job.evidence,
                     proposed |-> proposals, committed |-> accepted]
  /\ UNCHANGED <<changes, retold, adaptations, candidates, priorities, baselines,
                 theme, history, consolidations>>

---------------------------------------------------------------------------
(* What the commit accepted becomes the ledgers', candidate by candidate.  *)

\* Mutant: the ledger follows the proposals.
ProposedTo(t) == {p \in job.proposed : p.target = t}

CommittedTo(t) == {p \in job.committed : p.target = t}

\* The targets that the transaction moved, whichever candidate moved them, and
\* the gate once more.
Promotable(domain) ==
  {c \in Ripe(domain) : CommittedTo(candidates[c].target) # {}}

Promote(c) == candidates' = [candidates EXCEPT ![c].status = "promoted", ![c].by = Run]

\* The baseline follows the expressed value by a fifth of the distance.
PromoteTrait ==
  /\ job.at = "growing"
  /\ IF Promotable("personality") = {}
     THEN /\ job' = [job EXCEPT !.at = "shifting"]
          /\ UNCHANGED <<candidates, baselines, history>>
     ELSE \E c \in Promotable("personality") :
            LET t == candidates[c].target
                value == (CHOOSE p \in CommittedTo(t) : TRUE).value
            IN /\ baselines' = [baselines EXCEPT ![t.key] = @ + (value - @) \div 5]
               /\ history' = history \cup {[run |-> Run, target |-> t, new |-> value]}
               /\ Promote(c)
               /\ UNCHANGED job
  /\ UNCHANGED <<changes, retold, adaptations, priorities, theme, deepState,
                 deepChanges, consolidations>>

\* A value's promotion takes over every priority of the commit.
PromoteValue ==
  /\ job.at = "shifting"
  /\ IF Promotable("values") = {}
     THEN /\ job' = [job EXCEPT !.at = "finishing"]
          /\ UNCHANGED <<candidates, priorities, history>>
     ELSE \E c \in Promotable("values") :
            LET moved == {p \in job.committed : p.target.domain = "values"} IN
            /\ priorities' = [v \in ValueName |->
                 IF \E p \in moved : p.target.key = v
                 THEN (CHOOSE p \in moved : p.target.key = v).value
                 ELSE priorities[v]]
            /\ history' = history \cup
                 {[run |-> Run, target |-> p.target, new |-> p.value] : p \in moved}
            /\ Promote(c)
            /\ UNCHANGED job
  /\ UNCHANGED <<changes, retold, adaptations, baselines, theme, deepState,
                 deepChanges, consolidations>>

FinishJob ==
  /\ job.at = "finishing"
  /\ consolidations' = [consolidations EXCEPT ![Run].completed = TRUE]
  /\ job' = NoJob
  /\ UNCHANGED <<changes, retold, adaptations, candidates, priorities, baselines,
                 theme, history, deepState, deepChanges>>

\* The job raises, or the process stops: the run stays open, its rows stay.
CutJob ==
  /\ job # NoJob
  /\ job' = NoJob
  /\ UNCHANGED <<changes, retold, adaptations, candidates, priorities, baselines,
                 theme, history, deepState, deepChanges, consolidations>>

GrowthNext ==
  \/ LifeChanges \/ Retell
  \/ StartJob \/ ObserveEvidence \/ RaiseCandidates \/ ExpireCandidates
  \/ UpdateThemes \/ Review \/ PromoteTrait \/ PromoteValue \/ FinishJob
  \/ CutJob

GrowthSpec == GrowthInit /\ [][GrowthNext]_growthVars
---------------------------------------------------------------------------
\* The change of a promoted candidate's target: it rests on the candidate and
\* moved the way its evidence pointed, or the candidate had no say in it.  Of a
\* trait that is so at the end of its scale, where the candidate asks for
\* nothing, and on evidence that the gate lets pass and the arbiter does not.
FollowsEvidence(x, c) ==
  IF c \in x.from
  THEN Sign(x.new - x.seen) = candidates[c].direction
  ELSE x.target.domain = "personality" => x.seen \in {0, 100} \/ ~Evidenced(c)

\* What the ledgers say was deep change is what transactions accepted: every
\* line of the histories is a change its run committed, and every promoted
\* candidate had run its course, and its target was moved by its run as its
\* evidence allows, wherever the job was cut.
PromotionsAreEarned ==
  /\ \A h \in history : \E x \in deepChanges :
       x.run = h.run /\ x.target = h.target /\ x.new = h.new
  /\ \A c \in DOMAIN candidates : candidates[c].status = "promoted" =>
       LET moves == {x \in deepChanges : /\ x.run = candidates[c].by
                                         /\ x.target = candidates[c].target}
       IN Passes(c) /\ moves # {} /\ \A x \in moves : FollowsEvidence(x, c)

=============================================================================
