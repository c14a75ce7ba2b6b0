-------------------------- MODULE MCEventPipeline --------------------------
(* Instances of EventPipeline for TLC.                                     *)
EXTENDS EventPipelineInvariant, TLC

CONSTANTS e1, e2, e3, npc, world, closeness, pressure, c1, c2, c3

(* Two engines with a key each, of which the relationship engine for the   *)
(* people she knows also writes rows of its own outside the commit: e1     *)
(* goes to both, e2 to one of them and e3 to nobody.                       *)
TwoEngines    == (e1 :> <<world, npc>>) @@ (e2 :> <<world>>) @@ (e3 :> << >>)
TwoWrites     == (npc :> {closeness}) @@ (world :> {pressure})

(* One engine every event goes to, as the world engine's pressure key.     *)
OneEngine     == [e \in Events |-> <<world>>]
OneWrites     == world :> {pressure}

(* Distinct events processed concurrently.                                 *)
ThreeEvents   == (c1 :> e1) @@ (c2 :> e2) @@ (c3 :> e3)

(* The same event offered again, beside another one.                       *)
Redelivery    == (c1 :> e1) @@ (c2 :> e1) @@ (c3 :> e2)
=============================================================================
