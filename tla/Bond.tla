-------------------------------- MODULE Bond --------------------------------
(***************************************************************************)
(* What one event does to the bond with the USER: RelationshipEngine,      *)
(* AttachmentEngine and SocialCognitionEngine propose from the same        *)
(* snapshot S0, the arbiter admits or refuses each key, and what it admits *)
(* is committed at once.                                                   *)
(*                                                                         *)
(* Values are hundredths.  The dimensions of the relationship that no      *)
(* other rule reads (closeness, security, respect, expectation) and the    *)
(* estimates of the USER's passing state are left out: their steps stay    *)
(* under the arbiter's limit.  Unresolved hurt stays at zero, as no caller *)
(* declares a transgression or a betrayal.                                 *)
(***************************************************************************)
EXTENDS Integers, FiniteSets

CONSTANTS
  Silences,          \* days that may pass before an event
  MaxSilence,        \* bound: a silence is not counted beyond this
  MaxBondEvents,         \* bound: events
  RequiredEvents,    \* repair.consistent_behaviour.required_events
  TraitEvidence,     \* user_model.trait_evidence_required
  RelationshipLimit, \* max_delta_per_event of the two domains in
  AttachmentLimit    \* config/policies/state_arbitration.yaml

\* What the policies say: several messages to a repair, and a share of it for
\* each that is more than the arbiter lets a key move.
RepairStep == 100 \div RequiredEvents
ASSUME RepairAssumption ==
  /\ RequiredEvents \in Nat /\ RequiredEvents >= 3
  /\ RelationshipLimit \in Nat /\ RelationshipLimit < RepairStep

VARIABLES
  met,         \* familiarity has been written
  silence,     \* days since familiarity was last written, 0 before
  settled,     \* days since activation was last written, 0 before
  trust, residue, progress, activation,  \* keys of state_values
  evidence,    \* evidence_warmth: messages that leaned either way
  trait,       \* trait_warmth
  kept,        \* history: hundredths of trust that promises said to be kept
               \* were worth, whoever said so
  quiet,       \* history: consistent messages since the last conflict
  bondEvents

bondVars == <<met, silence, settled, trust, residue, progress, activation, evidence, trait,
              kept, quiet, bondEvents>>

Start == [trust |-> 50, conflict_residue |-> 0, repair_progress |-> 0,
          current_activation |-> 20]
Unwritten(key) == [written |-> FALSE, value |-> Start[key]]
NeutralTrait == 50

BondInit ==
  /\ met = FALSE /\ silence = 0 /\ settled = 0
  /\ trust = Unwritten("trust")
  /\ residue = Unwritten("conflict_residue")
  /\ progress = Unwritten("repair_progress")
  /\ activation = Unwritten("current_activation")
  /\ evidence = 0 /\ trait = NeutralTrait
  /\ kept = 0 /\ quiet = 0 /\ bondEvents = 0

-----------------------------------------------------------------------------
(* What an event says (social/signals.py).  A reading is at most a         *)
(* conflict; the markers in the text are independent of it.  What she says *)
(* herself is not appraised, but its text is looked through for the same   *)
(* markers as the USER's.                                                  *)

Message == [by : {"user"}, conflict : {"none", "disagreement", "conflict"},
            apology : BOOLEAN, promise : BOOLEAN, tone : {-1, 0, 1}]
HerOwn == [by : {"yui"}, conflict : {"none"}, apology : BOOLEAN,
           promise : BOOLEAN, tone : {0}]
\* A reading that makes a conflict is a cold one, and not a cold one only.
Experience == HerOwn \cup {m \in Message : m.conflict # "none" => m.tone = -1}
IsContact(m) == m.by = "user"
HasConflict(m) == m.conflict # "none"

Clamp(v) == IF v < 0 THEN 0 ELSE IF v > 100 THEN 100 ELSE v
Within(old, new, limit) ==
  IF new > old + limit THEN old + limit
  ELSE IF new < old - limit THEN old - limit ELSE new

-----------------------------------------------------------------------------
(* RelationshipEngine._targets, and _bounded with the limits of the        *)
(* relationship policy.                                                    *)

\* New damage restarts the repair; a quiet message advances it while
\* something is left to repair.
IsConsistent(m) ==
  /\ IsContact(m) /\ ~HasConflict(m) /\ ~m.promise /\ ~m.apology
  /\ residue.value > 0
NextProgress(m) ==
  IF HasConflict(m) THEN 0
  ELSE IF IsConsistent(m) THEN Clamp(progress.value + RepairStep)
  ELSE progress.value

TrustGain == 1
RestorationGain == 1
TrustLoss == [none |-> 0, disagreement |-> 0, conflict |-> 2]
NextTrust(m) ==
  Clamp(trust.value
        + IF HasConflict(m) THEN - TrustLoss[m.conflict]
          ELSE IF m.promise THEN TrustGain
          ELSE IF IsConsistent(m) /\ NextProgress(m) = 100 THEN RestorationGain
          ELSE 0)

ResidueGain == [disagreement |-> 3, conflict |-> 12]
DecayPerDay == 2
NextResidue(m, days) ==
  LET aged == residue.value + IF HasConflict(m) THEN ResidueGain[m.conflict]
                              ELSE - DecayPerDay * days
      relief == IF m.apology THEN residue.value \div 4 ELSE 0
  IN Clamp(Within(residue.value, aged - relief, 50))

-----------------------------------------------------------------------------
(* AttachmentEngine: activation decays by the hour and rises with conflict *)
(* and with absence, at the tolerance a baseline felt security gives; both *)
(* are measured from when activation itself was last written.              *)

ActivationStep == 15

NextActivation(m, apart) ==
  LET rested == Clamp(activation.value - 8 * 24 * apart)
      target == rested + (IF HasConflict(m) THEN 30 ELSE 0) + 3 * apart
  IN Clamp(Within(activation.value, target, ActivationStep))

-----------------------------------------------------------------------------
(* SocialCognitionEngine: a trait moves by a fixed step, once enough       *)
(* messages leaned away from the middle, whichever way each of them did.   *)

NextEvidence(m) == IF IsContact(m) /\ m.tone # 0 THEN evidence + 1 ELSE evidence
NextTrait(m) ==
  IF NextEvidence(m) > evidence /\ NextEvidence(m) >= TraitEvidence
  THEN Clamp(trait + 2 * m.tone) ELSE trait

-----------------------------------------------------------------------------
(* The arbiter: a key that is known moves by no more than the limit of its *)
(* domain in one event; a proposal beyond it is refused, never clamped.    *)

\* Mutant: whatever is proposed is admitted.
AdmitsAnything(entry, new, limit) == TRUE

Admits(entry, new, limit) ==
  entry.written => new - entry.value \in -limit..limit
Written(entry, new, limit) ==
  IF new = entry.value \/ ~Admits(entry, new, limit) THEN entry
  ELSE [written |-> TRUE, value |-> new]

Passed(since, gap) == IF since + gap > MaxSilence THEN MaxSilence ELSE since + gap
Proposed(m, days, apart) ==
  [trust |-> NextTrust(m), conflict_residue |-> NextResidue(m, days),
   repair_progress |-> NextProgress(m), current_activation |-> NextActivation(m, apart)]
Entry == [trust |-> trust, conflict_residue |-> residue, repair_progress |-> progress,
          current_activation |-> activation]
Limit(key) == IF key = "current_activation" THEN AttachmentLimit ELSE RelationshipLimit

\* One event through the pipeline.  Familiarity grows with every contact and
\* carries the time of the last one.
Process ==
  \E m \in Experience, gap \in Silences :
    LET days == IF met THEN Passed(silence, gap) ELSE 0
        apart == IF activation.written THEN Passed(settled, gap) ELSE 0
        p == Proposed(m, days, apart)
        After(key) == Written(Entry[key], p[key], Limit(key))
    IN /\ bondEvents < MaxBondEvents
       /\ bondEvents' = bondEvents + 1
       /\ trust' = After("trust")
       /\ residue' = After("conflict_residue")
       /\ progress' = After("repair_progress")
       /\ activation' = After("current_activation")
       /\ evidence' = NextEvidence(m)
       /\ trait' = NextTrait(m)
       /\ met' = (met \/ IsContact(m))
       /\ silence' = IF IsContact(m) THEN 0 ELSE days
       /\ settled' = IF activation' # activation THEN 0 ELSE apart
       /\ kept' = IF m.promise /\ ~HasConflict(m) THEN kept + TrustGain ELSE kept
       /\ quiet' = IF HasConflict(m) THEN 0
                   ELSE IF IsConsistent(m) THEN quiet + 1 ELSE quiet

BondNext == Process
BondSpec == BondInit /\ [][BondNext]_bondVars

-----------------------------------------------------------------------------
\* Trust is raised by words about a promise kept and by nothing else: neither
\* a long conversation nor an apology nor a quarrel got over leaves her
\* trusting the USER more than those words are worth.  They are the words of
\* either: signals.py:31 means what the other side did, but
\* signals.py:88 finds the marker in her own message as well and
\* relationship.py:185 does not ask whose it is.  A disagreement costs no
\* trust, so it is the repair that never completes that keeps this true.
TrustIsOnlyEarned == trust.value <= Start.trust + kept

\* relationship.py:9: "Trust comes back only through repeated consistent
\* behaviour afterwards", and it does: after as many quiet messages as the
\* policy asks for, the repair is complete.
TrustComesBack == quiet >= RequiredEvents => progress.value = 100
=============================================================================
