---------------------------- MODULE MCModelCalls ----------------------------
(* Instances of ModelCalls for TLC.                                        *)
EXTENDS ModelCalls, TLC

CONSTANTS reply, appraisal, memory, diary

(* The priorities the callers pass; the diary passes none and gets P3.     *)
PriorityRank ==
  (reply :> 0) @@ (appraisal :> 1) @@ (memory :> 3) @@ (diary :> 3)
PriorityOf == [j \in Jobs |-> PriorityRank[j]]
=============================================================================
