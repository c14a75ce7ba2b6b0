------------------------- MODULE MCProactiveContact -------------------------
(* Instances of ProactiveContact for TLC.                                  *)
EXTENDS ProactiveContact, TLC
=============================================================================
