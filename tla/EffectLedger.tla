---------------------------- MODULE EffectLedger ----------------------------
(***************************************************************************)
(* What the event pipeline promises, without saying how.                   *)
(*                                                                         *)
(* A subscriber consumes an event at most once.  When it does, everything  *)
(* the consuming run changes is applied in one step to the values as they  *)
(* are at that moment: nothing is applied to a stale value, nothing is     *)
(* applied twice, nothing is applied in part (events/dispatcher.py,        *)
(* state/committer.py).                                                    *)
(***************************************************************************)
EXTENDS Naturals

CONSTANTS
  Events,           \* events offered to the pipeline
  Subscribers,      \* engines on the bus
  Keys,             \* state keys (domain.key)
  RunIds            \* identities of processing runs

VARIABLES
  consumed,         \* <<event, subscriber>> pairs that have been consumed
  state,            \* key -> version and the runs its value accounts for
  changes           \* the audit log: one record per applied change

vars == <<consumed, state, changes>>

Init ==
  /\ consumed = {}
  /\ state = [k \in Keys |-> [version |-> 0, value |-> {}]]
  /\ changes = {}

(* Run r applies the changes W (subscriber, key pairs) of event e, made by *)
(* subscribers S, none of which had consumed e before.                     *)
Apply(r, e, S, W) ==
  /\ \A s \in S : <<e, s>> \notin consumed
  /\ \A w \in W : w[1] \in S
  /\ \A ch \in changes : ch.run # r
  /\ consumed' = consumed \cup {<<e, s>> : s \in S}
  /\ state' = [k \in Keys |->
                 IF \E s \in S : <<s, k>> \in W
                   THEN [version |-> state[k].version + 1,
                         value   |-> state[k].value \cup {r}]
                   ELSE state[k]]
  /\ changes' = changes \cup
       {[run |-> r, event |-> e, subscriber |-> w[1], key |-> w[2],
         version |-> state[w[2]].version + 1] : w \in W}

Next ==
  \E r \in RunIds, e \in Events, S \in SUBSET Subscribers :
    \E W \in SUBSET (S \X Keys) : Apply(r, e, S, W)

Spec == Init /\ [][Next]_vars
=============================================================================
