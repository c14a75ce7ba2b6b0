---------------------------- MODULE MCDailyLife ----------------------------
(* The arbiter of her state and the components of her days, for TLC: what  *)
(* she does, whom she meets, what she learns of the world and what years   *)
(* of it make of her.  They share no state, so a behaviour moves only one  *)
(* of them, its part: the run reaches what a run of each alone would.      *)
EXTENDS Arbitration, Life, Knowledge, Growth, Society, TLC

CONSTANTS narrative, mood, story, valence, growth_engine, mood_engine, admin

OwnersOf     == (narrative :> growth_engine) @@ (mood :> mood_engine)
DomainOfKeys == (story :> narrative) @@ (valence :> mood)

(* Bounds and limits as in config/policies/state_arbitration.yaml, scaled  *)
(* down: one step a run, and deep state needs evidence.  The policy entry  *)
(* of the deep domain forgets to ask for consolidation.                    *)
PolicyOf ==
  (narrative :> [allowed |-> 0..1, limits |-> {1}, consolidation |-> FALSE, evidence |-> 1])
    @@ (mood :> [allowed |-> 0..2, limits |-> {1}, consolidation |-> FALSE, evidence |-> 0])

VARIABLE part

\* Curiosity leads to a value and a trait, openness to another value and
\* against the trait.
Lead(adaptation, domain, key, sign) ==
  [adaptation |-> adaptation, target |-> [domain |-> domain, key |-> key], sign |-> sign]
LeadsOf == {Lead("curiosity", "values", "direction", 1),
            Lead("curiosity", "personality", "openness", 1),
            Lead("openness", "values", "benevolence", 1),
            Lead("openness", "personality", "openness", -1)}

\* k1 is public for the first moment, k2 from the second on, k3 at once and never
\* again, k4 not in her time.  One gap she would search for, one she lets be.
PublicFrom  == ("k1" :> 0) @@ ("k2" :> 1) @@ ("k3" :> 0) @@ ("k4" :> 9)
PublicUntil == ("k1" :> 1) @@ ("k2" :> 99) @@ ("k3" :> 0) @@ ("k4" :> 99)
LeaningOf   == ("g1" :> <<"web_search", "infer">>) @@ ("g2" :> <<"ignore">>)

DailyInit ==
  /\ part \in {"arbitration", "life", "growth", "society", "knowledge"}
  /\ Init /\ LifeInit /\ GrowthInit /\ SocietyInit /\ KnowledgeInit
  /\ part = "society" \/ npcs = [n \in Npc |-> 0]

DailyNext ==
  /\ UNCHANGED part
  /\ IF part = "arbitration" THEN Next ELSE UNCHANGED vars
  /\ IF part = "life" THEN LifeNext ELSE UNCHANGED lifeVars
  /\ IF part = "growth" THEN GrowthNext ELSE UNCHANGED growthVars
  /\ IF part = "society" THEN SocietyNext ELSE UNCHANGED societyVars
  /\ IF part = "knowledge" THEN KnowledgeNext ELSE UNCHANGED knowledgeVars

DailySpec ==
  /\ DailyInit
  /\ [][DailyNext]_<<part, vars, lifeVars, growthVars, societyVars, knowledgeVars>>
=============================================================================
