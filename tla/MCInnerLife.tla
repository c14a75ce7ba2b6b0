---------------------------- MODULE MCInnerLife ----------------------------
(* Reaching out, and the components a turn runs through, for TLC: what she *)
(* remembers and recalls, how she feels, what the bond is worth to her,    *)
(* and what she may say.  They share no state, so a behaviour moves only   *)
(* one of them, its part: the run reaches what a run of each alone would.  *)
EXTENDS ProactiveContact, Memory, Recall, Bond, Feelings, Reply

VARIABLE part

\* One memory of great importance.
SalienceOf == [m \in Recollection |-> 200]

InnerInit ==
  /\ part \in {"contact", "memory", "recall", "bond", "feelings", "reply"}
  /\ Init /\ MemoryInit /\ RecallInit /\ BondInit /\ FeelingsInit /\ ReplyInit
  /\ part = "contact" \/ mode = "LIVE"

InnerNext ==
  /\ UNCHANGED part
  /\ IF part = "contact" THEN Next ELSE UNCHANGED vars
  /\ IF part = "memory" THEN MemoryNext ELSE UNCHANGED memoryVars
  /\ IF part = "recall" THEN RecallNext ELSE UNCHANGED recallVars
  /\ IF part = "bond" THEN BondNext ELSE UNCHANGED bondVars
  /\ IF part = "feelings" THEN FeelingsNext ELSE UNCHANGED feelingVars
  /\ IF part = "reply" THEN ReplyNext ELSE UNCHANGED replyVars

InnerSpec ==
  /\ InnerInit
  /\ [][InnerNext]_<<part, vars, memoryVars, recallVars, bondVars, feelingVars, replyVars>>
=============================================================================
