------------------------------ MODULE Recall ------------------------------
(***************************************************************************)
(* Remembering, practising and forgetting (src/app/memory/: candidates,    *)
(* relevance, selection, accessibility and the recall half of engine.py).  *)
(*                                                                         *)
(* A recall reads the memories, asks the model which are about the query,  *)
(* selects the reachable ones and hands out a report.  Practice comes      *)
(* later, from the copies in the report: at once for a deliberate recall,  *)
(* after the reply is delivered for the others.  Meanwhile other recalls   *)
(* practise, the maintenance forgets and an administrator suppresses.      *)
(* Accessibility is counted in tenths.                                     *)
(***************************************************************************)
EXTENDS Integers, FiniteSets

CONSTANTS
  Recollection,          \* memories already encoded
  Call,            \* recalls, one retrieval group each
  Salience,        \* memory -> its importance, feeling and recency, in thousandths
  MaxForgettings   \* bound: passes of apply_forgetting

ASSUME CallAssumption == IsFiniteSet(Call)

VARIABLES
  accessibility, recallCount, reachable,  \* columns of episodic_memories
  retrievals,   \* (call, memory) -> its row of memory_retrievals
  reports,      \* call -> the report it works on
  forgetting,   \* the pass in flight: memory -> the level it will write
  forgettings

recallVars == <<accessibility, recallCount, reachable, retrievals, reports,
                forgetting, forgettings>>

Initial == 8          \* encoding.initial_accessibility
Ceiling == 9          \* practice.max_accessibility
Floor == 1            \* forgetting.min_accessibility
Boost == 2            \* practice.boost, halved by each recent practice
MinAvailability == 350
StrongBonus == 150
MaxRecalled == 1      \* the smallest report in which selection has to choose

RecallModes == {"CONVERSATIONAL", "ASSOCIATIVE", "CORRECTION_CHECK",
          "AUTOBIOGRAPHICAL_FACT", "REFLECTIVE", "DIARY_READING"}
\* The shapes of message that classify() and the associative entry tell apart.
Classify == {"CONVERSATIONAL", "REFLECTIVE"}
IsDeliberate(mode) ==
  mode \in {"AUTOBIOGRAPHICAL_FACT", "REFLECTIVE", "DIARY_READING"}
AcceptsWeak(mode) == mode = "AUTOBIOGRAPHICAL_FACT"

NoRow == [state |-> "none", practised |-> FALSE]
NoReport == [at |-> "none", mode |-> "CONVERSATIONAL",
             copies |-> <<>>, selected |-> {}, practised |-> {}]

RecallInit ==
  /\ accessibility = [m \in Recollection |-> Initial]
  /\ recallCount = [m \in Recollection |-> 0]
  /\ reachable = [m \in Recollection |-> TRUE]
  /\ retrievals = [k \in Call \X Recollection |-> NoRow]
  /\ reports = [c \in Call |-> NoReport]
  /\ forgetting = <<>> /\ forgettings = 0

---------------------------------------------------------------------------
(* Stage 1.  Any way in may find a memory; only an active one is kept, and *)
(* its accessibility plays no part.                                        *)
Candidates == SUBSET {m \in Recollection : reachable[m]}

\* Stage 2.  The model's labels; an unmentioned candidate is irrelevant, an
\* invented one is dropped.  When the call fails, the lexical fallback never
\* says more than "relevant".
Judgements(found) ==
  [found -> {"strong", "relevant", "weak", "irrelevant"}]
FallbackJudgements(found) == [found -> {"relevant", "irrelevant"}]

PassesRelevance(label, mode) ==
  \/ label \in {"strong", "relevant"}
  \/ AcceptsWeak(mode) /\ label = "weak"

Availability(m, level, label) ==
  45 * level + Salience[m] + (IF label = "strong" THEN StrongBonus ELSE 0)

\* Stage 3.  The hard gate first, then reach, then the best few.
Selections(copies, labels, mode) ==
  LET score == [m \in DOMAIN labels |-> Availability(m, copies[m], labels[m])]
      passed == {m \in DOMAIN labels :
                   PassesRelevance(labels[m], mode) /\ score[m] >= MinAvailability}
  IN {s \in SUBSET passed :
        /\ Cardinality(s) =
             IF Cardinality(passed) < MaxRecalled THEN Cardinality(passed)
             ELSE MaxRecalled
        /\ \A m \in s, n \in passed \ s : score[m] >= score[n]}

\* What its row says became of a candidate.
StageReached(m, labels, chosen) ==
  IF m \in chosen THEN "selected"
  ELSE IF labels[m] \in {"strong", "relevant"} THEN "relevance_passed" ELSE "candidate"

\* The call waits for the model between the two: the copies are stage 1's.
Retrieve(c) ==
  /\ reports[c].at = "none"
  /\ \E found \in Candidates, mode \in Classify :
       reports' = [reports EXCEPT ![c] =
         [at |-> "judging", mode |-> mode, copies |-> [m \in found |-> accessibility[m]],
          selected |-> {}, practised |-> {}]]
  /\ UNCHANGED <<accessibility, recallCount, reachable, retrievals, forgetting,
                 forgettings>>

\* Every candidate gets its row, whatever became of it.
Select(c) ==
  /\ reports[c].at = "judging"
  /\ LET r == reports[c]
         found == DOMAIN r.copies
     IN \E labels \in Judgements(found) \cup FallbackJudgements(found) :
        \E chosen \in Selections(r.copies, labels, r.mode) :
          /\ retrievals' = [k \in Call \X Recollection |->
               IF k[1] = c /\ k[2] \in found
               THEN [state |-> StageReached(k[2], labels, chosen), practised |-> FALSE]
               ELSE retrievals[k]]
          /\ reports' = [reports EXCEPT ![c].selected = chosen,
               ![c].at = IF IsDeliberate(r.mode) THEN "recalling" ELSE "replying"]
  /\ UNCHANGED <<accessibility, recallCount, reachable, forgetting, forgettings>>

---------------------------------------------------------------------------
(* Stage 4.                                                                *)

\* Prior practice in the window; the row being practised is already marked.
RecentPractice(m) ==
  Cardinality({c \in Call : retrievals[<<c, m>>].practised}) - 1

PractisedAccessibility(level, recent) ==
  LET raised == level + (Boost \div (2 ^ (IF recent < 0 THEN 0 ELSE recent)))
  IN IF raised < Ceiling THEN raised ELSE Ceiling

\* The level written comes from the report's copy.
Practise(c, m) ==
  /\ accessibility' = [accessibility EXCEPT ![m] =
       PractisedAccessibility(reports[c].copies[m], RecentPractice(m))]
  /\ recallCount' = [recallCount EXCEPT ![m] = @ + 1]

\* promote_retrieval: marks accumulate.
PromoteRetrieval(c, m, state) ==
  retrievals' = [retrievals EXCEPT ![<<c, m>>] =
    [state |-> state, practised |-> TRUE]]

\* A deliberate recall: the row is promoted, then the memory is practised.
ConsciouslyRecall(c) ==
  /\ reports[c].at = "recalling"
  /\ \/ \E m \in reports[c].selected \ reports[c].practised :
          \/ /\ ~retrievals[<<c, m>>].practised
             /\ PromoteRetrieval(c, m, "consciously_recalled")
             /\ UNCHANGED <<accessibility, recallCount, reports>>
          \/ /\ retrievals[<<c, m>>].practised
             /\ Practise(c, m)
             /\ reports' = [reports EXCEPT ![c].practised = @ \cup {m}]
             /\ UNCHANGED retrievals
     \/ /\ reports[c].selected = reports[c].practised
        /\ reports' = [reports EXCEPT ![c].at = "replying"]
        /\ UNCHANGED <<accessibility, recallCount, retrievals>>
  /\ UNCHANGED <<reachable, forgetting, forgettings>>

\* The reply is out: which memories left a mark on it.  A reply that was not
\* delivered, or said nothing of them, practises nothing.
ReplyIsOut(c) ==
  /\ reports[c].at = "replying"
  /\ \E used \in SUBSET reports[c].selected :
       reports' = [reports EXCEPT ![c].at = "marking", ![c].selected = used]
  /\ UNCHANGED <<accessibility, recallCount, reachable, retrievals, forgetting,
                 forgettings>>

\* Mutant: what the recall already practised is practised again.
MarkEveryUse(c) ==
  /\ reports[c].at = "marking"
  /\ \E m \in reports[c].selected :
       \/ /\ retrievals[<<c, m>>].state # "used_in_reply"
          /\ PromoteRetrieval(c, m, "used_in_reply")
          /\ UNCHANGED <<accessibility, recallCount, reports>>
       \/ /\ retrievals[<<c, m>>].state = "used_in_reply"
          /\ Practise(c, m)
          /\ reports' = [reports EXCEPT ![c].selected = @ \ {m}]
          /\ UNCHANGED retrievals
  /\ UNCHANGED <<reachable, forgetting, forgettings>>

MarkUsedInReply(c) ==
  /\ reports[c].at = "marking"
  /\ \E m \in reports[c].selected :
       \/ /\ retrievals[<<c, m>>].state # "used_in_reply"
          /\ PromoteRetrieval(c, m, "used_in_reply")
          /\ UNCHANGED <<accessibility, recallCount, reports>>
       \/ /\ retrievals[<<c, m>>].state = "used_in_reply"
          /\ IF m \in reports[c].practised
             THEN UNCHANGED <<accessibility, recallCount>>
             ELSE Practise(c, m)
          /\ reports' = [reports EXCEPT ![c].selected = @ \ {m}]
          /\ UNCHANGED retrievals
  /\ UNCHANGED <<reachable, forgetting, forgettings>>

---------------------------------------------------------------------------
(* apply_forgetting(): one read of every memory, then one write each.      *)

DecayedAccessibility(level, lost) ==
  IF level - lost > Floor THEN level - lost ELSE Floor

ApplyForgetting ==
  /\ forgetting = <<>> /\ forgettings < MaxForgettings
  /\ forgettings' = forgettings + 1
  /\ \E lost \in [{m \in Recollection : reachable[m]} -> {0, 2, 10}] :
       forgetting' = [m \in {n \in DOMAIN lost : lost[n] > 0} |->
                        DecayedAccessibility(accessibility[m], lost[m])]
  /\ UNCHANGED <<accessibility, recallCount, reachable, retrievals, reports>>

ForgetOne ==
  /\ \E m \in DOMAIN forgetting :
       /\ accessibility' = [accessibility EXCEPT ![m] = forgetting[m]]
       /\ forgetting' = [n \in DOMAIN forgetting \ {m} |-> forgetting[n]]
  /\ UNCHANGED <<recallCount, reachable, retrievals, reports, forgettings>>

\* The owner suppresses or restores a memory at any time.
SetStatus(m) ==
  /\ reachable' = [reachable EXCEPT ![m] = ~@]
  /\ UNCHANGED <<accessibility, recallCount, retrievals, reports, forgetting,
                 forgettings>>

RecallNext ==
  \/ \E c \in Call : \/ Retrieve(c) \/ Select(c) \/ ConsciouslyRecall(c)
                     \/ ReplyIsOut(c) \/ MarkUsedInReply(c)
  \/ ApplyForgetting \/ ForgetOne
  \/ \E m \in Recollection : SetStatus(m)

RecallSpec == RecallInit /\ [][RecallNext]_recallVars
---------------------------------------------------------------------------
\* Retrieving is not remembering: a memory has been practised at most once
\* for each group in which it was consciously recalled or used, however the
\* two stages and other recalls interleave.
PractisedOncePerUse ==
  \A m \in Recollection :
    recallCount[m] <= Cardinality({c \in Call :
      retrievals[<<c, m>>].state \in {"consciously_recalled", "used_in_reply"}})

=============================================================================
