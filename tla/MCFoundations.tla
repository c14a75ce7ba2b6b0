--------------------------- MODULE MCFoundations ---------------------------
(* What her life stands on, for TLC: her first boot with the Genesis that  *)
(* generates it, the simulation of a past, the schema of the database and  *)
(* the files that hold it.  They share no state, so a behaviour moves only *)
(* one of them, its part: the run reaches what a run of each alone would.  *)
EXTENDS FirstBoot, PastSimulation, Schema, DatabaseFiles, TLC

VARIABLE part

\* The program as it is, the one before versions 16 and later, and one in which
\* the text of version 16 was changed after it was applied.
Programs == {[latest |-> 31, edited |-> {}], [latest |-> 15, edited |-> {}],
             [latest |-> 31, edited |-> {16}]}

\* Of her two years the second is the one before her present.
LastYear == {<<2, 1>>}

FoundationsInit ==
  /\ part \in {"boot", "simulation", "schema", "files"}
  /\ Init /\ SimulationInit /\ SchemaInit /\ FilesInit
  /\ part = "schema" \/ \A p \in Opener : release[p] = [latest |-> 31, edited |-> {}]

FoundationsNext ==
  /\ UNCHANGED part
  /\ IF part = "boot" THEN Next ELSE UNCHANGED vars
  /\ IF part = "simulation" THEN SimulationNext ELSE UNCHANGED simulationVars
  /\ IF part = "schema" THEN SchemaNext ELSE UNCHANGED schemaVars
  /\ IF part = "files" THEN FilesNext ELSE UNCHANGED filesVars

FoundationsSpec ==
  /\ FoundationsInit
  /\ [][FoundationsNext]_<<part, vars, simulationVars, schemaVars, filesVars>>

Alike == Permutations(Process)
=============================================================================
