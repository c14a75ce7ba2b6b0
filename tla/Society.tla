------------------------------ MODULE Society ------------------------------
(***************************************************************************)
(* The people of her world and one group of hers                           *)
(* (src/app/society/, src/app/runtime/social.py and                        *)
(* src/app/storage/repositories/society.py).                               *)
(*                                                                         *)
(* A contact is three writes with a whole run between them: the row of     *)
(* the interaction, the run of its event - in which the relationship       *)
(* engine writes its ledger at once, and proposes state that is committed  *)
(* or not - and the promotion.  Dimensions are in hundredths.              *)
(***************************************************************************)
EXTENDS Integers, Sequences, FiniteSets, FiniteSetsExt

CONSTANTS
  Npc,
  Cooldown,         \* CONTACT_COOLDOWN_HOURS, in moments
  PromoteAt,        \* interactions that make somebody tier 2
  DistantAfter, DormantAfter, ReconnectedWithin,
  Valence,          \* how a meeting may go: among "good", "indifferent" and "bad"
  MaxMoments, MaxInteractions, MaxRepeats, MaxSocietyStops   \* bounds

ASSUME PromotionAssumption == PromoteAt \in Nat \ {0}

VARIABLES
  moment,        \* the clock
  npcs,          \* npcs: the tier of each (0 before it is introduced)
  interactions,  \* npc_interactions, in the order of their time
  relations,     \* npc_relationships
  models,        \* npc_models: observations of each person
  npcState,      \* the committed npc_relationships domain: familiarity
  memberships,   \* her rows in the group, and each person's
  belonging,     \* the committed group_belonging of it
  contact,       \* the handler in flight
  promoted,      \* rows each person had when a contact with them last ended
  repeats, societyStops

societyVars == <<moment, npcs, interactions, relations, models, npcState,
                 memberships, belonging, contact, promoted, repeats, societyStops>>

NoContact == [at |-> "idle"]
Stranger == [stage |-> "unmet", familiarity |-> 0, closeness |-> 0, conflict |-> 0,
             count |-> 0, last |-> -1]
Unstored == -1

SocietyInit ==
  /\ moment = 0
  /\ npcs \in [Npc -> {0, 1}]
  /\ interactions = <<>>
  /\ relations = [n \in Npc |-> Stranger]
  /\ models = [n \in Npc |-> 0]
  /\ npcState = [n \in Npc |-> Unstored]
  /\ memberships = [yui |-> <<>>, npcs |-> [n \in Npc |-> "none"]]
  /\ belonging = Unstored
  /\ contact = NoContact
  /\ promoted = [n \in Npc |-> 0]
  /\ repeats = 0 /\ societyStops = 0

TimePasses ==
  /\ moment < MaxMoments
  /\ moment' = moment + 1
  /\ UNCHANGED <<npcs, interactions, relations, models, npcState, memberships,
                 belonging, contact, promoted, repeats, societyStops>>

\* introduce() finds the name or creates the person; only Genesis calls it.
Introduce ==
  /\ \E n \in Npc : npcs[n] = 0 /\ npcs' = [npcs EXCEPT ![n] = 1]
  /\ UNCHANGED <<moment, interactions, relations, models, npcState, memberships,
                 belonging, contact, promoted, repeats, societyStops>>

---------------------------------------------------------------------------
(* The stage of a relationship (lifecycle.py), in order.                   *)

StageFor(r, days) ==
  IF r.stage = "ended" THEN "ended"
  ELSE IF r.count = 0 THEN "unmet"
  ELSE IF r.conflict >= 20 THEN "strained"
  ELSE IF days >= DormantAfter THEN "dormant"
  ELSE IF days >= DistantAfter THEN "distant"
  ELSE IF r.stage \in {"distant", "dormant"} /\ days <= ReconnectedWithin
  THEN "reconnected"
  ELSE IF r.closeness >= 10 THEN "close"
  ELSE IF r.familiarity >= 12 THEN "familiar"
  ELSE "acquaintance"

Shifted(x, by) == IF x + by < 0 THEN 0 ELSE IF x + by > 100 THEN 100 ELSE x + by

\* record_interaction(): a tier 0 presence is not tracked.
AfterMeeting(r, valence) ==
  LET met == [r EXCEPT
        !.familiarity = Shifted(@, 6),
        !.closeness = IF valence = "good" THEN Shifted(@, 5) ELSE @,
        !.conflict = IF valence = "good" THEN Shifted(@, -4)
                     ELSE IF valence = "bad" THEN Shifted(@, 10) ELSE @,
        !.count = @ + 1, !.last = moment]
  IN [met EXCEPT !.stage = StageFor(met, 0)]

---------------------------------------------------------------------------
(* contact_npc().                                                          *)

With(n) == {i \in DOMAIN interactions : interactions[i].npc = n}

\* The rows come newest first, and a later one takes an earlier one's place
\* in the dictionary: what is left for each person is the oldest.
RecentContact(n) == interactions[Min(With(n))].at

Contactable ==
  {n \in Npc : npcs[n] >= 1
     /\ (With(n) # {} => moment - RecentContact(n) >= Cooldown)}

ChooseContact ==
  /\ contact = NoContact
  /\ \E n \in Contactable : contact' = [at |-> "chosen", npc |-> n]
  /\ UNCHANGED <<moment, npcs, interactions, relations, models, npcState,
                 memberships, belonging, promoted, repeats, societyStops>>

\* In SHADOW she stops there; otherwise the interaction has its row.
Interact ==
  /\ contact.at = "chosen"
  /\ \/ contact' = NoContact /\ UNCHANGED interactions
     \/ /\ Len(interactions) < MaxInteractions
        /\ interactions' = Append(interactions, [npc |-> contact.npc, at |-> moment])
        /\ \E v \in Valence :
             contact' = [at |-> "dispatched", npc |-> contact.npc, valence |-> v]
  /\ UNCHANGED <<moment, npcs, relations, models, npcState, memberships,
                 belonging, promoted, repeats, societyStops>>

\* The subscriber's own rows are written at once.
HandleInteraction ==
  /\ contact.at = "dispatched"
  /\ relations' = [relations EXCEPT ![contact.npc] = AfterMeeting(@, contact.valence)]
  /\ models' = [models EXCEPT ![contact.npc] = IF npcs[contact.npc] >= 2 THEN @ + 1 ELSE @]
  /\ contact' = [contact EXCEPT !.at = "proposed"]
  /\ UNCHANGED <<moment, npcs, interactions, npcState, memberships, belonging,
                 promoted, repeats, societyStops>>

\* Familiarity is set to the ledger's; arbitration refuses a change over 0.10.
FamiliarityWithinLimit(n) ==
  npcState[n] = Unstored \/ relations[n].familiarity - npcState[n] <= 10

\* The run commits, or ends without effect, or loses its snapshot and
\* dispatches again.
RunEnds ==
  /\ contact.at = "proposed"
  /\ \/ /\ npcState' = IF FamiliarityWithinLimit(contact.npc)
                       THEN [npcState EXCEPT ![contact.npc] =
                               relations[contact.npc].familiarity]
                       ELSE npcState
        /\ contact' = [contact EXCEPT !.at = "promoting"]
        /\ UNCHANGED repeats
     \/ /\ repeats < MaxRepeats /\ repeats' = repeats + 1
        /\ \/ contact' = [contact EXCEPT !.at = "promoting"]
           \/ contact' = [contact EXCEPT !.at = "dispatched"]
        /\ UNCHANGED npcState
  /\ UNCHANGED <<moment, npcs, interactions, relations, models, memberships,
                 belonging, promoted, societyStops>>

\* Mutant: the contact that reaches the number promotes.
PromoteAtExactly ==
  /\ contact.at = "promoting"
  /\ LET n == contact.npc IN
     /\ npcs' = IF npcs[n] < 2 /\ Cardinality(With(n)) = PromoteAt
                THEN [npcs EXCEPT ![n] = 2] ELSE npcs
     /\ promoted' = [promoted EXCEPT ![n] = Cardinality(With(n))]
  /\ contact' = NoContact
  /\ UNCHANGED <<moment, interactions, relations, models, npcState, memberships,
                 belonging, repeats, societyStops>>

\* Counted from the rows, once the event has been processed.
MaybePromote ==
  /\ contact.at = "promoting"
  /\ LET n == contact.npc IN
     /\ npcs' = IF npcs[n] < 2 /\ Cardinality(With(n)) >= PromoteAt
                THEN [npcs EXCEPT ![n] = 2] ELSE npcs
     /\ promoted' = [promoted EXCEPT ![n] = Cardinality(With(n))]
  /\ contact' = NoContact
  /\ UNCHANGED <<moment, interactions, relations, models, npcState, memberships,
                 belonging, repeats, societyStops>>

SocietyStop ==
  /\ societyStops < MaxSocietyStops
  /\ societyStops' = societyStops + 1
  /\ contact' = NoContact
  /\ UNCHANGED <<moment, npcs, interactions, relations, models, npcState,
                 memberships, belonging, promoted, repeats>>

---------------------------------------------------------------------------
(* The calendar, and what somebody decides.                                *)

ReviewStages ==
  /\ contact = NoContact
  /\ relations' = [n \in Npc |->
       LET r == relations[n] IN
       [r EXCEPT !.stage = StageFor(r, IF r.last < 0 THEN 0 ELSE moment - r.last)]]
  /\ UNCHANGED <<moment, npcs, interactions, models, npcState, memberships,
                 belonging, contact, promoted, repeats, societyStops>>

EndRelationship ==
  /\ contact = NoContact
  /\ \E n \in Npc : relations[n].count > 0
                    /\ relations' = [relations EXCEPT ![n].stage = "ended"]
  /\ UNCHANGED <<moment, npcs, interactions, models, npcState, memberships,
                 belonging, contact, promoted, repeats, societyStops>>

Reconnect ==
  /\ contact = NoContact
  /\ \E n \in Npc : relations[n].stage = "ended"
                    /\ relations' = [relations EXCEPT ![n].stage = "reconnected"]
  /\ UNCHANGED <<moment, npcs, interactions, models, npcState, memberships,
                 belonging, contact, promoted, repeats, societyStops>>

---------------------------------------------------------------------------
(* The group.  Her own rows have no npc_id, so the table's UNIQUE does not *)
(* hold them apart; a person has one row, and an INSERT OR IGNORE does not *)
(* bring back whoever left.                                                *)

JoinGroup ==
  /\ contact = NoContact
  /\ \/ /\ Len(memberships.yui) < 2
        /\ memberships' = [memberships EXCEPT !.yui = Append(@, "active")]
        /\ belonging' = 20
     \/ /\ \E n \in Npc : memberships.npcs[n] = "none"
                          /\ memberships' = [memberships EXCEPT !.npcs[n] = "active"]
        /\ UNCHANGED belonging
  /\ UNCHANGED <<moment, npcs, interactions, relations, models, npcState, contact,
                 promoted, repeats, societyStops>>

LeaveGroup ==
  /\ contact = NoContact
  /\ \/ /\ memberships.yui # <<>>
        /\ memberships' = [memberships EXCEPT !.yui = [i \in DOMAIN @ |-> "left"]]
        /\ belonging' = 0
     \/ /\ \E n \in Npc : memberships.npcs[n] = "active"
                          /\ memberships' = [memberships EXCEPT !.npcs[n] = "left"]
        /\ UNCHANGED belonging
  /\ UNCHANGED <<moment, npcs, interactions, relations, models, npcState, contact,
                 promoted, repeats, societyStops>>

\* attend_group(): somebody else must be there; no row is written, so the
\* interval that is read from the interactions never begins.
AttendGroup ==
  /\ contact = NoContact
  /\ \E i \in DOMAIN memberships.yui : memberships.yui[i] = "active"
  /\ \E n \in Npc : memberships.npcs[n] = "active"
  /\ belonging' = LET b == IF belonging = Unstored THEN 20 ELSE belonging
                  IN IF b + 5 > 30 THEN 30 ELSE b + 5
  /\ UNCHANGED <<moment, npcs, interactions, relations, models, npcState,
                 memberships, contact, promoted, repeats, societyStops>>

SocietyNext ==
  \/ TimePasses \/ Introduce
  \/ ChooseContact \/ Interact \/ HandleInteraction \/ RunEnds \/ MaybePromote
  \/ SocietyStop
  \/ ReviewStages \/ EndRelationship \/ Reconnect
  \/ JoinGroup \/ LeaveGroup \/ AttendGroup

SocietySpec == SocietyInit /\ [][SocietyNext]_societyVars
---------------------------------------------------------------------------
\* Who she keeps returning to becomes a full person: once a contact has ended
\* with enough rows behind it, the person is tier 2, whatever was cut before.
PromotionSurvivesAStop ==
  \A n \in Npc : promoted[n] >= PromoteAt => npcs[n] = 2

=============================================================================
