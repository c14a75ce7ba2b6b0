-------------------------------- MODULE Reply --------------------------------
(***************************************************************************)
(* What a turn decides and says: the evidence read before a word is        *)
(* written (GroundingContextBuilder), the pushback against what she said   *)
(* before (CommonGroundTracker), the social reading and the plan           *)
(* (ConversationEngine.plan_turn), the gate that may overrule a silence    *)
(* (ResponseIntentGate), the draft, its review by the output, quality and  *)
(* grounding guards and the one rewrite (draft_reply).                     *)
(*                                                                         *)
(* Turns come one after the other; Conversation is about turns that        *)
(* overlap and what is recorded of them.  Her activities go on between     *)
(* the steps of a turn.  A statement is about a topic, and evidence is     *)
(* matched to it by topic; what else a text may be refused for is a        *)
(* choice.                                                                 *)
(***************************************************************************)
EXTENDS Integers, FiniteSets, Sequences

CONSTANTS
  Topic,        \* what activities and statements are about
  Question,     \* what a reply may ask
  Window,       \* quality.recent_question_window
  MaxTurns      \* bound: messages

VARIABLES
  activity,     \* topic -> {} or of "ongoing", "completed" within a day
  phase,        \* where the turn is
  message,      \* the message being answered
  context,      \* activity as the grounding context of the turn has it
  retraction,   \* what this message made of an earlier claim
  mayAsk,       \* the plan leaves room for a question
  ground,       \* live claims of the conversation, oldest first
  draft,        \* the text under review or about to be sent
  asked,        \* what her latest replies asked, oldest first
  outcome,      \* how the latest turn ended
  turns

turnVars == <<message, context, retraction, mayAsk>>
replyVars == <<activity, phase, turnVars, ground, draft, asked, outcome, turns>>

NoQuestion == "nothing"
MessageKind == {"statement", "question", "challenge", "denial", "urgent", "backchannel"}
PushesBack(m) == m \in {"challenge", "denial"}
IsQuestion(m) == m \in {"question", "challenge"}

\* "did": she completed an action, a hard claim; "saw": she perceived
\* something, a soft one.
Claim == [topic : Topic, kind : {"did", "saw"}]
NoClaim == [topic |-> "none", kind |-> "none"]
\* A text may ask on the way to something else, at its end, or both.
Drafts == [claim : Claim \cup {NoClaim}, within : Question \cup {NoQuestion},
           last : Question \cup {NoQuestion}]
NoDraft == [claim |-> NoClaim, within |-> NoQuestion, last |-> NoQuestion]
Asks(d) == {d.within, d.last} \ {NoQuestion}
Nothing == [t \in Topic |-> {}]

ReplyInit ==
  /\ activity = Nothing
  /\ phase = "idle" /\ message = "none"
  /\ context = Nothing
  /\ retraction = "none" /\ mayAsk = FALSE
  /\ ground = <<>> /\ draft = NoDraft /\ asked = <<>>
  /\ outcome = "none" /\ turns = 0

-----------------------------------------------------------------------------
(* Her day: one activity at a time, the one before it abandoned; what has  *)
(* been completed for a day is no longer looked at.                        *)

WorldMoves(next) ==
  /\ activity' = next
  /\ activity' # activity
  /\ UNCHANGED <<phase, turnVars, ground, draft, asked, outcome, turns>>

StartActivity(t) ==
  WorldMoves([u \in Topic |-> IF u = t THEN activity[u] \cup {"ongoing"}
                              ELSE activity[u] \ {"ongoing"}])
CompleteActivity(t) ==
  /\ "ongoing" \in activity[t]
  /\ WorldMoves([activity EXCEPT ![t] = {"completed"}])
DayPasses == WorldMoves([t \in Topic |-> activity[t] \ {"completed"}])

-----------------------------------------------------------------------------
(* Evidence.                                                               *)

Known == activity
Supports(known) == known # {}
Blocking(claim) == claim.kind = "did" /\ ~Supports(context[claim.topic])

-----------------------------------------------------------------------------
(* The message arrives: the context is built, and if the USER pushes back  *)
(* the newest live claim is resolved again, against what is known now.     *)

Newest == Len(ground)

Hear(m) ==
  /\ phase = "idle" /\ turns < MaxTurns
  /\ turns' = turns + 1
  /\ message' = m
  /\ context' = Known
  /\ IF ~PushesBack(m) \/ ground = <<>>
     THEN retraction' = "none" /\ UNCHANGED ground
     ELSE IF Supports(context'[ground[Newest].claim.topic])
     THEN retraction' = "stands" /\ ground' = [ground EXCEPT ![Newest].status = "contested"]
     ELSE retraction' = "retracted" /\ ground' = SubSeq(ground, 1, Newest - 1)
  /\ phase' = "planning" /\ outcome' = "open" /\ draft' = NoDraft
  /\ UNCHANGED <<activity, mayAsk, asked>>

-----------------------------------------------------------------------------
(* The plan.  The model reads the turn, or does not: then she answers a    *)
(* question and acknowledges anything else, and does not ask.  A note on   *)
(* an earlier claim, retracted or not, makes the turn a repair.            *)

Wish == {"speak", "brief", "leave_space", "silence"}
SocialReading == [move : {"answer", "acknowledge", "close_softly"},
            question : {"none", "optional", "useful"}, leads : BOOLEAN, wish : Wish]
Minimal(m) == [move |-> IF IsQuestion(m) THEN "answer" ELSE "acknowledge",
               question |-> "none", leads |-> FALSE, wish |-> "speak"]
QuestionBudget(r) ==
  r.question = "useful" \/ (r.question = "optional" /\ r.leads)

\* Mutant: the correction changes the move and nothing else.
MoveCorrected(r) == IF retraction = "none" THEN r ELSE [r EXCEPT !.move = "repair"]

WithCorrection(r) ==
  IF retraction = "none" THEN r
  ELSE [r EXCEPT !.move = "repair", !.question = "none", !.wish = "speak"]

Vetoed(r) ==
  \/ retraction # "none"
  \/ message \in {"urgent", "question", "challenge"}
  \/ r.move \in {"answer", "repair"}
IsNatural(r) == message = "backchannel" \/ r.move = "close_softly"

\* What speaks is never overruled; a silence needs no veto and a reason.
IsSilent(r) == r.wish = "silence" /\ ~Vetoed(r) /\ IsNatural(r)

\* What is not read again once the turn has ended.
Forget == context' = Nothing /\ mayAsk' = FALSE /\ UNCHANGED <<message, retraction>>

Plan ==
  /\ phase = "planning"
  /\ \E r \in SocialReading \cup {Minimal(message)} :
       LET plan == WithCorrection(r) IN
       \/ /\ IsSilent(plan)          \* unless silence is only shadowed
          /\ phase' = "idle" /\ outcome' = "silent" /\ Forget
       \/ /\ phase' = "drafting"
          /\ mayAsk' = QuestionBudget(plan)
          /\ UNCHANGED <<message, context, retraction, outcome>>
  /\ UNCHANGED <<activity, ground, draft, asked, turns>>

-----------------------------------------------------------------------------
(* The draft and its one rewrite.  The guards against a question look only *)
(* at a text that ends in one: what is asked on the way passes.            *)

Recent == UNION {asked[i] : i \in {j \in DOMAIN asked : j > Len(asked) - Window}}
AsksWell(d) == d.last # NoQuestion => mayAsk /\ Asks(d) \cap Recent = {}
Passes(d) == AsksWell(d) /\ ~Blocking(d.claim)

\* Mutant: what is written again is sent as it is.
AnyRewrite(d) == TRUE
RewritePasses(d) == Passes(d)

Suppressed ==
  /\ phase' = "idle" /\ outcome' = "suppressed" /\ draft' = NoDraft /\ Forget
  /\ UNCHANGED <<activity, ground, asked, turns>>

\* No draft is refused for good; an accepted one is reviewed.
Write ==
  /\ phase = "drafting"
  /\ \/ Suppressed
     \/ \E d \in Drafts :
          /\ draft' = d
          /\ \/ Passes(d) /\ phase' = "sending"
             \/ phase' = "rewriting"    \* clumsy, or it does not pass
          /\ UNCHANGED <<activity, turnVars, ground, asked, outcome, turns>>

Rewrite ==
  /\ phase = "rewriting"
  /\ \/ Suppressed
     \/ \E d \in Drafts :
          /\ RewritePasses(d)
          /\ draft' = d /\ phase' = "sending"
          /\ UNCHANGED <<activity, turnVars, ground, asked, outcome, turns>>

-----------------------------------------------------------------------------
(* What was delivered enters the common ground, with the evidence the turn *)
(* had read.                                                               *)

\* Her replies kept are those a later turn looks back on.
LastOnes(s) == IF Len(s) > Window THEN Tail(s) ELSE s

DeliverReply ==
  /\ phase = "sending"
  /\ ground' = IF draft.claim = NoClaim THEN ground
               ELSE LET known == context[draft.claim.topic] IN
                    Append(ground, [claim |-> draft.claim, known |-> known,
                      status |-> IF Supports(known) THEN "supported" ELSE "provisional"])
  /\ asked' = LastOnes(Append(asked, Asks(draft)))
  /\ outcome' = "sent" /\ phase' = "idle" /\ Forget
  /\ UNCHANGED <<activity, draft, turns>>

SendFails ==
  /\ phase = "sending"
  /\ outcome' = "failed" /\ phase' = "idle" /\ draft' = NoDraft /\ Forget
  /\ UNCHANGED <<activity, ground, asked, turns>>

ReplyNext ==
  \/ \E t \in Topic : StartActivity(t) \/ CompleteActivity(t)
  \/ DayPasses
  \/ \E m \in MessageKind : Hear(m)
  \/ Plan \/ Write \/ Rewrite \/ DeliverReply \/ SendFails
ReplySpec == ReplyInit /\ [][ReplyNext]_replyVars

-----------------------------------------------------------------------------
\* Nothing she was heard to have done is invented: when the turn began, an
\* activity about it was going on or had been completed within the day.
SaidWasKnown ==
  \A i \in DOMAIN ground : ground[i].claim.kind = "did" => Supports(ground[i].known)

\* A turn that takes something back does not end in a question: the
\* retraction is not turned into a new subject, not by the rewrite either.
\* What it asks on the way is not looked at (text.py:21).
RetractionEndsOnNoQuestion ==
  outcome = "sent" /\ retraction = "retracted" => draft.last = NoQuestion

=============================================================================
