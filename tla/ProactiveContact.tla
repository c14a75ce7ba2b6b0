-------------------------- MODULE ProactiveContact --------------------------
(***************************************************************************)
(* Reaching out first: the chain of ProactiveDeliberation.deliberate, with *)
(* the gate of ProactiveEngine.assess, the mode of the ShadowController    *)
(* and the rows of ProactiveRepository.                                    *)
(*                                                                         *)
(* deliberate is a handler of the autonomous runtime, which awaits one     *)
(* handler at a time, so there is at most one deliberation; the clock, the *)
(* USER and the end of the process interleave with its awaits.             *)
(*                                                                         *)
(* Abstractions: time is counted in hours; quiet hours, desire, the        *)
(* model's judgment and the guard's verdict are choices.  The sender is    *)
(* the protocol OutboundSender: it delivers and returns an id, delivers    *)
(* and fails, fails, or returns nothing (as NullSender, the only one the   *)
(* application wires so far, always does).                                 *)
(***************************************************************************)
EXTENDS Integers, Sequences

CONSTANTS
  MinHours,         \* policy: min_hours_between_contacts
  Multiplier,       \* policy: unanswered_backoff_multiplier
  MaxUnanswered,    \* policy
  Horizon,          \* bound: hours
  MaxDeliberations, \* bound
  MaxFaults,        \* bound: exceptions
  MaxCrashes        \* bound: ends of the process

RequiredWait(unanswered) == MinHours * Multiplier ^ unanswered

ASSUME BoundsAssumption ==
  /\ MaxUnanswered \in Nat /\ Horizon \in Nat /\ MaxDeliberations \in Nat
  /\ MaxFaults \in Nat /\ MaxCrashes \in Nat
ASSUME WaitAssumption == \A n \in 0..MaxUnanswered : RequiredWait(n) \in Nat

VARIABLES
  now,
  mode,       \* of proactive contact, read from the configuration at start
  pc,         \* where the deliberation stands
  considered, \* deliberations begun; the last one is the current one
  moment,     \* the time of the tick that began it
  wire,       \* messages that reached the USER: which deliberation's, when
  events,     \* deliberations with a YUI_MESSAGE_SENT event
  contacts,   \* rows of proactive_contacts, oldest first; none is answered
  rows,       \* rows of proactive_deliberations
  spoken,     \* messages on the wire when the USER last spoke
  faults,
  crashes

recordVars == <<events, contacts, rows>>
faultVars == <<faults, crashes>>
vars == <<now, mode, pc, considered, moment, wire, recordVars, spoken, faultVars>>

Modes == {"OFF", "SHADOW", "LIVE"}
Wanting == {"judging", "drafting", "sending"}
Having == {"delivered", "processing", "contact"}
Places == {"idle", "row"} \cup Wanting \cup Having

Init ==
  /\ now = 0 /\ mode \in Modes
  /\ pc = "idle" /\ considered = 0 /\ moment = 0
  /\ wire = <<>> /\ events = {} /\ contacts = <<>> /\ rows = {}
  /\ spoken = 0 /\ faults = 0 /\ crashes = 0

(* _record: telemetry, whose failure is swallowed.                         *)
WriteRow(deliberation, sent) ==
  rows' \in {rows, rows \cup {[by |-> deliberation, sent |-> sent]}}

Goto(place) == pc' = place

-----------------------------------------------------------------------------
(* The gate.                                                               *)

(* unanswered_count: mark_answered, which would lower it, is called by     *)
(* note_user_replied, which nothing in the application calls.              *)
Unanswered == Len(contacts)

TooManyUnanswered == Unanswered >= MaxUnanswered

(* Mutant: the wait does not grow.                                         *)
TooSoonWithoutBackoff ==
  contacts # <<>> /\ now - contacts[Len(contacts)].at < RequiredWait(0)
TooSoon ==
  contacts # <<>> /\ now - contacts[Len(contacts)].at < RequiredWait(Unanswered)

(* A deliberation begins and is stopped at the first stage: switched off,  *)
(* or one of the refusals of assess, the last two of which are choices.    *)
Blocked ==
  /\ pc = "idle" /\ considered < MaxDeliberations
  /\ considered' = considered + 1 /\ moment' = now
  /\ WriteRow(considered + 1, FALSE)
  /\ UNCHANGED <<now, mode, pc, wire, events, contacts, spoken, faultVars>>

Deliberate ==
  /\ pc = "idle" /\ considered < MaxDeliberations
  /\ mode # "OFF"
  /\ ~TooManyUnanswered /\ ~TooSoon
  /\ considered' = considered + 1 /\ moment' = now
  /\ Goto("judging")
  /\ UNCHANGED <<now, mode, wire, recordVars, spoken, faultVars>>

(* No, not really, or no answer: silence is the conservative outcome.      *)
DecideAgainst ==
  /\ pc \in {"judging", "drafting"}
  /\ WriteRow(considered, FALSE)
  /\ Goto("idle")
  /\ UNCHANGED <<now, mode, considered, moment, wire, events, contacts, spoken,
                 faultVars>>

Judge ==
  /\ pc = "judging"
  /\ Goto("drafting")
  /\ UNCHANGED <<now, mode, considered, moment, wire, recordVars, spoken, faultVars>>

(* The draft is clean and the ShadowController, asked last, lets it go.    *)
Draft ==
  /\ pc = "drafting" /\ mode = "LIVE"
  /\ Goto("sending")
  /\ UNCHANGED <<now, mode, considered, moment, wire, recordVars, spoken, faultVars>>

-----------------------------------------------------------------------------
(* Sending.                                                                *)

(* Mutant: a send that timed out is tried again, delivered or not.         *)
DeliverAgain ==
  /\ pc = "sending"
  /\ wire' = Append(wire, [by |-> considered, at |-> now])
  /\ \E next \in {"sending", "delivered"} : Goto(next)
  /\ UNCHANGED <<now, mode, considered, moment, recordVars, spoken, faultVars>>

Deliver ==
  /\ pc = "sending"
  /\ wire' = Append(wire, [by |-> considered, at |-> now])
  /\ Goto("delivered")
  /\ UNCHANGED <<now, mode, considered, moment, recordVars, spoken, faultVars>>

SendReturns ==
  /\ pc = "delivered"
  /\ Goto("processing")
  /\ UNCHANGED <<now, mode, considered, moment, wire, recordVars, spoken, faultVars>>

(* The sender has sent nothing and says so.                                *)
SendEmpty ==
  /\ pc = "sending"
  /\ WriteRow(considered, FALSE)
  /\ Goto("idle")
  /\ UNCHANGED <<now, mode, considered, moment, wire, events, contacts, spoken,
                 faultVars>>

(* The sender raises, whether or not the message arrived.                  *)
SendRaises ==
  /\ pc \in {"sending", "delivered"}
  /\ faults < MaxFaults /\ faults' = faults + 1
  /\ WriteRow(considered, FALSE)
  /\ Goto("idle")
  /\ UNCHANGED <<now, mode, considered, moment, wire, events, contacts, spoken, crashes>>

(* The root event pipeline.                                                *)
ProcessEvent ==
  /\ pc = "processing"
  /\ events' = events \cup {considered}
  /\ Goto("contact")
  /\ UNCHANGED <<now, mode, considered, moment, wire, contacts, rows, spoken, faultVars>>

(* record_sent: dated by the clock when the row is written.                *)
RecordContact ==
  /\ pc = "contact"
  /\ contacts' = Append(contacts, [by |-> considered, at |-> now])
  /\ Goto("row")
  /\ UNCHANGED <<now, mode, considered, moment, wire, events, rows, spoken, faultVars>>

RecordDeliberation ==
  /\ pc = "row"
  /\ WriteRow(considered, TRUE)
  /\ Goto("idle")
  /\ UNCHANGED <<now, mode, considered, moment, wire, events, contacts, spoken,
                 faultVars>>

-----------------------------------------------------------------------------
(* What else happens.                                                      *)

(* An exception nobody catches before the runtime: asking for the mode     *)
(* (which writes a row of its own), the pipeline, the contact's row.       *)
Raises ==
  /\ pc \in {"drafting", "processing", "contact"}
  /\ faults < MaxFaults /\ faults' = faults + 1
  /\ events' \in IF pc = "processing" THEN {events, events \cup {considered}}
                 ELSE {events}
  /\ Goto("idle")
  /\ UNCHANGED <<now, mode, considered, moment, wire, contacts, rows, spoken, crashes>>

(* The process stops or dies, and is started with whatever mode the        *)
(* configuration then has.                                                 *)
Crash ==
  /\ crashes < MaxCrashes /\ crashes' = crashes + 1
  /\ mode' \in Modes
  /\ Goto("idle")
  /\ UNCHANGED <<now, considered, moment, wire, recordVars, spoken, faults>>

Tick ==
  /\ now < Horizon /\ now' = now + 1
  /\ UNCHANGED <<mode, pc, considered, moment, wire, recordVars, spoken, faultVars>>

(* A message of the USER goes through the gateway and the conversation     *)
(* service; neither touches the contact rows.                              *)
UserSpeaks ==
  /\ spoken' = Len(wire)
  /\ UNCHANGED <<now, mode, pc, considered, moment, wire, recordVars, faultVars>>

Next ==
  \/ Blocked \/ Deliberate \/ DecideAgainst \/ Judge \/ Draft
  \/ Deliver \/ SendReturns \/ SendEmpty \/ SendRaises
  \/ ProcessEvent \/ RecordContact \/ RecordDeliberation
  \/ Raises \/ Crash \/ Tick \/ UserSpeaks

Spec == Init /\ [][Next]_vars

-----------------------------------------------------------------------------
Ids == 1..MaxDeliberations
Hours == 0..Horizon

TypeOK ==
  /\ now \in Hours /\ mode \in Modes /\ pc \in Places
  /\ considered \in 0..MaxDeliberations /\ moment \in Hours
  /\ wire \in Seq([by : Ids, at : Hours])
  /\ events \subseteq Ids
  /\ contacts \in Seq([by : Ids, at : Hours])
  /\ rows \subseteq [by : Ids, sent : BOOLEAN]
  /\ spoken \in Nat
  /\ faults \in 0..MaxFaults /\ crashes \in 0..MaxCrashes

(* "Past a small number of unanswered contacts nothing is sent at all"     *)
(* (jobs/proactive.py:13): the messages the USER got unasked are at most   *)
(* the limit and those whose record an error or the end of the process     *)
(* took away, one each; no sequence of retries makes her talk more.        *)
SilenceIsBounded == Len(wire) <= MaxUnanswered + faults + crashes

(* "Silence widens the interval": between a recorded contact and the next  *)
(* message to reach the USER, recorded or not, lies the wait of as many    *)
(* unanswered messages as there were, however long the judgment, the send  *)
(* and the record took.                                                    *)
LastBefore(n, m) ==
  /\ contacts[n].by < wire[m].by
  /\ n + 1 \in DOMAIN contacts => contacts[n + 1].by >= wire[m].by

SilenceWidens ==
  \A k, m \in DOMAIN wire, n \in DOMAIN contacts :
    wire[k].by = contacts[n].by /\ LastBefore(n, m)
      => wire[m].at - wire[k].at >= RequiredWait(n)

(* "Nothing is recorded as contact until Discord has confirmed it": a      *)
(* contact is of a message that arrived and was processed, a row that says *)
(* sent is of a contact, a row that says not sent is of none.              *)
OnlyDeliveredIsContact ==
  /\ \A n \in DOMAIN contacts :
       contacts[n].by \in events /\ \E k \in DOMAIN wire : wire[k].by = contacts[n].by
  /\ \A r \in rows : r.sent <=> \E n \in DOMAIN contacts : contacts[n].by = r.by

(* "A reply clears the backlog; the interval returns to normal"            *)
(* (jobs/proactive.py:147): once the USER has spoken after everything she  *)
(* sent, nothing counts as unanswered.                                     *)
ReplyClearsTheBacklog == pc = "idle" /\ spoken = Len(wire) => Unanswered = 0

(* What makes these inductive.                                             *)
Ordered(seq) == \A i, j \in DOMAIN seq : i < j => seq[i].by < seq[j].by

ContactsFollowWire ==
  \A n \in DOMAIN contacts, k \in DOMAIN wire :
    contacts[n].by = wire[k].by => wire[k].at <= contacts[n].at

NothingFromTheFuture ==
  /\ \A k \in DOMAIN wire : wire[k].by <= considered /\ wire[k].at <= now
  /\ \A n \in DOMAIN contacts : contacts[n].by <= considered /\ contacts[n].at <= now
  /\ \A r \in rows : r.by <= considered
  /\ moment <= now

(* A deliberation past the gate: it still is what the gate let through.    *)
PastTheGate ==
  pc \in Wanting \cup Having =>
    /\ considered \in Ids
    /\ Len(contacts) < MaxUnanswered
    /\ \A n \in DOMAIN contacts : contacts[n].by < considered
    /\ \A r \in rows : r.by < considered
    /\ contacts # <<>> =>
         moment - contacts[Len(contacts)].at >= RequiredWait(Len(contacts))

PlaceAgrees ==
  /\ pc \in Wanting => \A k \in DOMAIN wire : wire[k].by < considered
  /\ pc \in Having => \E k \in DOMAIN wire : wire[k].by = considered
  /\ pc = "contact" => considered \in events
  /\ pc = "row" => /\ contacts # <<>> /\ contacts[Len(contacts)].by = considered
                   /\ \A r \in rows : r.by < considered

InFlight == IF pc \in Having THEN 1 ELSE 0
LossesAreFaults == Len(wire) <= Len(contacts) + faults + crashes + InFlight

IInv ==
  /\ TypeOK
  /\ Len(contacts) <= MaxUnanswered
  /\ SilenceWidens
  /\ OnlyDeliveredIsContact
  /\ Ordered(wire) /\ Ordered(contacts)
  /\ ContactsFollowWire
  /\ NothingFromTheFuture
  /\ PastTheGate
  /\ PlaceAgrees
  /\ LossesAreFaults
=============================================================================
