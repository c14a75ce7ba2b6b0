---------------------------- MODULE Conversation ----------------------------
(***************************************************************************)
(* One conversation with the USER: a Discord message is received, read,    *)
(* answered or left alone, the answer is sent, and only what was sent is   *)
(* recorded as said (DiscordGateway, ConversationService,                  *)
(* CommonGroundTracker).  Discord starts a task for every message, so the  *)
(* turns of one conversation overlap at every await.                       *)
(*                                                                         *)
(* A step is one unit of work on the database, a model call, a Discord     *)
(* call, or what the event loop does between two awaits.  processor.process*)
(* is one step here; EventPipeline is what it does inside.  Messages the   *)
(* gateway or the adapter turns away (admin commands, strangers) change    *)
(* nothing here and are left out, and so is what prompts are made of.      *)
(*                                                                         *)
(* Abstractions: a turn t stands for one message and what comes of it; a   *)
(* reply makes at most one claim, identified with its turn.  Whether a     *)
(* message pushes back, whether evidence is found, whether she speaks and  *)
(* whether the draft is accepted are choices.                              *)
(***************************************************************************)
EXTENDS Integers, FiniteSets, Sequences

CONSTANTS
  Turns,       \* messages the adapter accepts
  MaxFaults,   \* exceptions
  MaxCrashes

ASSUME TurnsAssumption == IsFiniteSet(Turns)
ASSUME BoundsAssumption == MaxFaults \in Nat /\ MaxCrashes \in Nat

VARIABLES
  events,     \* rows of events
  rows,       \* rows of conversation_turns
  claims,     \* turn -> status of the claim its reply made
  suppressed, \* turns with a failure row for a refused draft
  unsent,     \* turns with a failure row for a send that failed
  wire,       \* replies sent, in the order confirm_sent is entered
  shown,      \* replies the USER can see: a send may arrive and then fail
  trace,      \* outcome of a turn's trace
  pc,         \* where the task of a turn is
  recent,     \* turn -> what it read as the recent conversation
  target,     \* turn -> the claim it re-verifies and the verdict on it
  typing,     \* turns whose typing indicator is on
  background, \* post-send work scheduled and not finished
  faults,
  crashes

recordVars == <<events, rows, claims, suppressed, unsent>>
wireVars == <<wire, shown>>
loopVars == <<recent, target, typing>>
faultVars == <<faults, crashes>>
vars == <<recordVars, wireVars, trace, pc, loopVars, background, faultVars>>

NoTurn == "nobody"
NoTarget == [claim |-> NoTurn, verdict |-> "none"]

Message(t) == [turn |-> t, kind |-> "message"]
Reply(t) == [turn |-> t, kind |-> "reply"]
Silence(t) == [turn |-> t, kind |-> "silence"]
Suppression(t) == [turn |-> t, kind |-> "suppression"]
Utterances == [turn : Turns, kind : {"message", "reply"}]
Facts == [turn : Turns, kind : {"message", "reply", "silence", "suppression"}]

Inbound == {"recent", "append", "project", "process", "recall",
            "review", "resolve", "plan", "silent", "draft", "refused", "suppress"}
Sending == {"send", "failing"}
Confirming == {"append_sent", "project_sent", "claim", "process_sent"}
Ended == {"done", "lost"}
Places == {"away"} \cup Inbound \cup Sending \cup Confirming \cup Ended

ClaimStatuses == {"none", "supported", "provisional", "contested", "retracted"}
LiveStatuses == {"supported", "provisional", "contested"}
Outcomes == {"none", "open", "sent", "send_failed", "intentional_silence",
             "suppressed", "failed"}

Init ==
  /\ events = {} /\ rows = {} /\ suppressed = {} /\ unsent = {}
  /\ claims = [t \in Turns |-> "none"]
  /\ wire = <<>> /\ shown = {}
  /\ trace = [t \in Turns |-> "none"]
  /\ pc = [t \in Turns |-> "away"]
  /\ recent = [t \in Turns |-> {}]
  /\ target = [t \in Turns |-> NoTarget]
  /\ typing = {} /\ background = {}
  /\ faults = 0 /\ crashes = 0

Goto(t, place) == pc' = [pc EXCEPT ![t] = place]
Finish(t, outcome) == trace' = [trace EXCEPT ![t] = outcome]

-----------------------------------------------------------------------------
(* Reading the message.                                                    *)

(* The gateway starts the trace; the event is made and the conversation's  *)
(* row ensured.                                                            *)
Receive(t) ==
  /\ pc[t] = "away"
  /\ Goto(t, "recent")
  /\ Finish(t, "open")
  /\ UNCHANGED <<recordVars, wireVars, loopVars, background, faultVars>>

ReadRecent(t) ==
  /\ pc[t] = "recent"
  /\ recent' = [recent EXCEPT ![t] = rows]
  /\ Goto(t, "append")
  /\ UNCHANGED <<recordVars, wireVars, trace, target, typing,
                 background, faultVars>>

AppendMessage(t) ==
  /\ pc[t] = "append"
  /\ events' = events \cup {Message(t)}
  /\ Goto(t, "project")
  /\ UNCHANGED <<rows, claims, suppressed, unsent, wireVars, trace, loopVars,
                 background, faultVars>>

ProjectMessage(t) ==
  /\ pc[t] = "project"
  /\ rows' = rows \cup {Message(t)}
  /\ Goto(t, "process")
  /\ UNCHANGED <<events, claims, suppressed, unsent, wireVars, trace, loopVars,
                 background, faultVars>>

ProcessMessage(t) ==
  /\ pc[t] = "process"
  /\ Goto(t, "recall")
  /\ UNCHANGED <<recordVars, wireVars, trace, loopVars, background, faultVars>>

(* Observe, recall, tool results and grounding: nothing kept here.         *)
Recall(t) ==
  /\ pc[t] = "recall"
  /\ Goto(t, "review")
  /\ UNCHANGED <<recordVars, wireVars, trace, loopVars, background, faultVars>>

-----------------------------------------------------------------------------
(* Common ground: what she has claimed, and the USER pushing back.         *)

LiveClaims == {c \in Turns : claims[c] \in LiveStatuses}

(* live() is newest first, by the time of the reply.                       *)
SaidAfter(d, c) == \E i, j \in DOMAIN wire : i < j /\ wire[i] = c /\ wire[j] = d
Newest(c) == c \in LiveClaims /\ \A d \in LiveClaims : ~SaidAfter(d, c)

(* Mutant: a review that finds no claim does not come back.                *)
ReviewLiveClaims(t) ==
  /\ pc[t] = "review"
  /\ \E c \in Turns, verdict \in {"contested", "retracted"} :
       /\ Newest(c)
       /\ target' = [target EXCEPT ![t] = [claim |-> c, verdict |-> verdict]]
  /\ Goto(t, "resolve")
  /\ UNCHANGED <<recordVars, wireVars, trace, recent, typing, background, faultVars>>

(* review_correction reads the newest live claim and re-resolves it on the *)
(* evidence of this turn ...                                               *)
ReviewClaim(t) ==
  /\ pc[t] = "review"
  /\ \/ /\ \E c \in Turns, verdict \in {"contested", "retracted"} :
             /\ Newest(c)
             /\ target' = [target EXCEPT ![t] = [claim |-> c, verdict |-> verdict]]
        /\ Goto(t, "resolve")
     \/ /\ Goto(t, "plan")
        /\ UNCHANGED target
  /\ UNCHANGED <<recordVars, wireVars, trace, recent, typing,
                 background, faultVars>>

(* ... and set_status writes the verdict in a unit of work of its own.     *)
ResolveClaim(t) ==
  /\ pc[t] = "resolve"
  /\ claims' = [claims EXCEPT ![target[t].claim] = target[t].verdict]
  /\ Goto(t, "plan")
  /\ UNCHANGED <<events, rows, suppressed, unsent, wireVars, trace, loopVars,
                 background, faultVars>>

-----------------------------------------------------------------------------
(* To speak or not.                                                        *)

(* plan_turn; on_speaking puts the indicator up once silence is ruled out. *)
Plan(t) ==
  /\ pc[t] = "plan"
  /\ \/ Goto(t, "silent") /\ UNCHANGED typing
     \/ Goto(t, "draft") /\ typing' = typing \cup {t}
  /\ UNCHANGED <<recordVars, wireVars, trace, recent, target,
                 background, faultVars>>

StaySilent(t) ==
  /\ pc[t] = "silent"
  /\ events' = events \cup {Silence(t)}
  /\ Finish(t, "intentional_silence")
  /\ Goto(t, "done")
  /\ UNCHANGED <<rows, claims, suppressed, unsent, wireVars, loopVars,
                 background, faultVars>>

DraftReply(t) ==
  /\ pc[t] = "draft"
  /\ \E place \in {"send", "refused"} : Goto(t, place)
  /\ UNCHANGED <<recordVars, wireVars, trace, loopVars, background, faultVars>>

(* _suppress: the failure row, then the event; the exit stack takes the    *)
(* indicator down.                                                         *)
RecordRefusal(t) ==
  /\ pc[t] = "refused"
  /\ suppressed' = suppressed \cup {t}
  /\ Goto(t, "suppress")
  /\ UNCHANGED <<events, rows, claims, unsent, wireVars, trace, loopVars,
                 background, faultVars>>

(* Mutant: having suppressed the draft, it goes on to send it.             *)
SuppressAndSend(t) ==
  /\ pc[t] = "suppress"
  /\ events' = events \cup {Suppression(t)}
  /\ Goto(t, "send")
  /\ UNCHANGED <<rows, claims, suppressed, unsent, wireVars, trace, loopVars,
                 background, faultVars>>

Suppress(t) ==
  /\ pc[t] = "suppress"
  /\ events' = events \cup {Suppression(t)}
  /\ Finish(t, "suppressed")
  /\ typing' = typing \ {t}
  /\ Goto(t, "done")
  /\ UNCHANGED <<rows, claims, suppressed, unsent, wireVars, recent, target, background, faultVars>>

-----------------------------------------------------------------------------
(* Saying it, and having said it.                                          *)

Send(t) ==
  /\ pc[t] = "send"
  /\ shown' = shown \cup {t}
  /\ wire' = Append(wire, t)
  /\ typing' = typing \ {t}
  /\ Goto(t, "append_sent")
  /\ UNCHANGED <<recordVars, trace, recent, target, background, faultVars>>

(* Mutant: what could not be sent is confirmed all the same.               *)
SendFailsUnnoticed(t) ==
  /\ pc[t] = "send"
  /\ shown' \in {shown, shown \cup {t}}
  /\ wire' = Append(wire, t)
  /\ typing' = typing \ {t}
  /\ Goto(t, "append_sent")
  /\ UNCHANGED <<recordVars, trace, recent, target, background, faultVars>>

(* The call fails, whether or not Discord took the message.                *)
SendFails(t) ==
  /\ pc[t] = "send"
  /\ shown' \in {shown, shown \cup {t}}
  /\ Finish(t, "send_failed")
  /\ Goto(t, "failing")
  /\ UNCHANGED <<recordVars, wire, loopVars, background, faultVars>>

RecordSendFailure(t) ==
  /\ pc[t] = "failing"
  /\ unsent' = unsent \cup {t}
  /\ typing' = typing \ {t}
  /\ Goto(t, "done")
  /\ UNCHANGED <<events, rows, claims, suppressed, wireVars, trace, recent,
                 target, background, faultVars>>

(* _project_sent: two units of work in one thread.                         *)
AppendSent(t) ==
  /\ pc[t] = "append_sent"
  /\ events' = events \cup {Reply(t)}
  /\ Goto(t, "project_sent")
  /\ UNCHANGED <<rows, claims, suppressed, unsent, wireVars, trace, loopVars,
                 background, faultVars>>

(* Mutant: the run of having spoken comes before the projection.           *)
DigestFirst(t) ==
  /\ pc[t] = "project_sent"
  /\ Goto(t, "process_sent")
  /\ UNCHANGED <<recordVars, wireVars, trace, loopVars, background, faultVars>>

ProjectSent(t) ==
  /\ pc[t] = "project_sent"
  /\ rows' = rows \cup {Reply(t)}
  /\ Goto(t, "claim")
  /\ UNCHANGED <<events, claims, suppressed, unsent, wireVars, trace, loopVars,
                 background, faultVars>>

(* record_reply, then the trace of the turn is closed.                     *)
RecordClaims(t) ==
  /\ pc[t] = "claim"
  /\ \E status \in {"none", "supported", "provisional"} :
       claims' = [claims EXCEPT ![t] = status]
  /\ Finish(t, "sent")
  /\ Goto(t, "process_sent")
  /\ UNCHANGED <<events, rows, suppressed, unsent, wireVars, loopVars,
                 background, faultVars>>

(* mark_used_in_reply and the run of the sent event; what is left goes to  *)
(* a background task.                                                      *)
ProcessSent(t) ==
  /\ pc[t] = "process_sent"
  /\ background' = background \cup {t}
  /\ Goto(t, "done")
  /\ UNCHANGED <<recordVars, wireVars, trace, loopVars, faultVars>>

BackgroundEnds(t) ==
  /\ t \in background
  /\ background' = background \ {t}
  /\ UNCHANGED <<recordVars, wireVars, trace, pc, loopVars, faultVars>>

-----------------------------------------------------------------------------
(* An exception at any await.  Inside the gateway's try the trace is       *)
(* closed as failed and the indicator taken down; confirm_sent is outside. *)
Raises(t) ==
  /\ faults < MaxFaults /\ faults' = faults + 1
  /\ \/ pc[t] \in Inbound \cup {"failing"} /\ Finish(t, "failed")
     \/ pc[t] \in Confirming /\ UNCHANGED trace
  /\ typing' = typing \ {t}
  /\ Goto(t, "done")
  /\ UNCHANGED <<recordVars, wireVars, recent, target, background, crashes>>

(* The process ends and is started again: tasks and memory are gone.       *)
Crash ==
  /\ crashes < MaxCrashes /\ crashes' = crashes + 1
  /\ pc' = [t \in Turns |-> IF pc[t] \in {"away", "done"} THEN pc[t] ELSE "lost"]
  /\ typing' = {} /\ background' = {}
  /\ UNCHANGED <<recordVars, wireVars, trace, recent, target, faults>>

TurnStep(t) ==
  \/ ReadRecent(t) \/ AppendMessage(t) \/ ProjectMessage(t)
  \/ ProcessMessage(t) \/ Recall(t) \/ ReviewClaim(t) \/ ResolveClaim(t)
  \/ Plan(t) \/ StaySilent(t) \/ DraftReply(t) \/ RecordRefusal(t) \/ Suppress(t)
  \/ Send(t) \/ SendFails(t) \/ RecordSendFailure(t)
  \/ AppendSent(t) \/ ProjectSent(t) \/ RecordClaims(t) \/ ProcessSent(t)

Next ==
  \/ \E t \in Turns : Receive(t) \/ TurnStep(t) \/ BackgroundEnds(t) \/ Raises(t)
  \/ Crash

Spec == Init /\ [][Next]_vars

(* A task that can run is run, and its awaits end: units of work, model    *)
(* calls (which time out) and Discord calls.  Messages, exceptions and     *)
(* crashes are not fair.                                                   *)
FairSpec ==
  /\ Spec
  /\ \A t \in Turns : WF_vars(TurnStep(t)) /\ WF_vars(BackgroundEnds(t))

-----------------------------------------------------------------------------
TypeOK ==
  /\ events \subseteq Facts
  /\ rows \subseteq Utterances
  /\ claims \in [Turns -> ClaimStatuses]
  /\ suppressed \subseteq Turns /\ unsent \subseteq Turns
  /\ wire \in Seq(Turns) /\ shown \subseteq Turns
  /\ trace \in [Turns -> Outcomes]
  /\ pc \in [Turns -> Places]
  /\ recent \in [Turns -> SUBSET Utterances]
  /\ target \in [Turns -> [claim : Turns \cup {NoTurn},
                           verdict : {"none", "contested", "retracted"}]]
  /\ typing \subseteq Turns /\ background \subseteq Turns
  /\ faults \in 0..MaxFaults /\ crashes \in 0..MaxCrashes

(* She is recorded to have said exactly what she said: a reply's event,    *)
(* row and claim exist only if the USER can see the reply, each only with  *)
(* the one before it and with the message it answers (confirm_sent records *)
(* "what was actually delivered").                                         *)
SaidAsRecorded(t) ==
  /\ Reply(t) \in events => t \in shown /\ Message(t) \in rows
  /\ claims[t] # "none" => Reply(t) \in rows

OnlyTheSaidIsRecorded ==
  rows \subseteq events /\ \A t \in Turns : SaidAsRecorded(t)

(* Silence, a refused draft, a failed send and a reply are four different  *)
(* facts about a turn and never two of them, and a closed trace names the  *)
(* one the database shows ("she is quiet" and "she is broken" are not the  *)
(* same observation).                                                      *)
Ends(t) == {e \in events : e.turn = t /\ e.kind # "message"}

EndsOnce(t) ==
  /\ \A e, f \in Ends(t) : e = f
  /\ t \in unsent => Ends(t) = {}
  /\ trace[t] = "sent" => Reply(t) \in rows
  /\ trace[t] = "intentional_silence" => Silence(t) \in events /\ t \notin shown
  /\ trace[t] = "suppressed" =>
       Suppression(t) \in events /\ t \in suppressed /\ t \notin shown
  /\ trace[t] \in {"send_failed", "failed"} => Reply(t) \notin events

OneEndPerTurn == \A t \in Turns : EndsOnce(t)

(* The indicator is a promise the system keeps: it is on only for a turn   *)
(* that is going to speak, never for one that ends in silence, and it is   *)
(* never left on, however the turn ends.                                   *)
WillSpeak(t) == pc[t] \in {"draft", "refused", "suppress", "send", "failing"}
TypingIsAPromise == \A t \in Turns : t \in typing => WillSpeak(t)

(* A message read while the run of another utterance is going on is read   *)
(* in a conversation that already holds that utterance: a message is       *)
(* projected before it is processed, a reply before the run of having      *)
(* spoken (the defect of 2026-08-02).                                      *)
Digesting == (Inbound \ {"recent", "append", "project"}) \cup Sending
SaidBeforeItIsDigested ==
  [][\A t, u \in Turns : pc[u] = "recent" /\ pc'[u] = "append" =>
        /\ pc[t] \in Digesting \cup Confirming => Message(t) \in recent'[u]
        /\ pc[t] \in {"claim", "process_sent"} => Reply(t) \in recent'[u]]_vars

(* What the place of a task says of the rows, which makes the above        *)
(* inductive.                                                              *)
Open == Inbound \cup {"send"}
PlaceAgrees(t) ==
  /\ pc[t] \in {"away", "failing", "append_sent"} \cup Open => Ends(t) = {}
  /\ pc[t] \in {"away"} \cup Open => t \notin shown
  /\ pc[t] \in {"away", "failing"} \cup Open \cup Confirming => t \notin unsent
  /\ pc[t] \in Open \cup {"append_sent", "project_sent", "claim"} => trace[t] = "open"
  /\ pc[t] = "project" => Message(t) \in events
  /\ pc[t] \in Digesting \cup Confirming => Message(t) \in rows
  /\ pc[t] \in Confirming => t \in shown
  /\ pc[t] \in {"project_sent", "claim", "process_sent"} => Reply(t) \in events
  /\ pc[t] \in {"claim", "process_sent"} => Reply(t) \in rows
  /\ pc[t] = "suppress" => t \in suppressed
  /\ pc[t] = "away" => trace[t] = "none"

TargetWasSaid(t) ==
  pc[t] = "resolve" =>
    target[t].claim \in Turns /\ Reply(target[t].claim) \in rows

PlacesAgree == \A t \in Turns : PlaceAgrees(t) /\ TargetWasSaid(t)

IInv ==
  /\ TypeOK
  /\ OnlyTheSaidIsRecorded
  /\ OneEndPerTurn
  /\ TypingIsAPromise
  /\ PlacesAgree

(* Every message comes to an end, one way or another.                      *)
TurnsEnd ==
  <>[](\A t \in Turns : pc[t] \in Ended \cup {"away"} /\ t \notin background)
=============================================================================
