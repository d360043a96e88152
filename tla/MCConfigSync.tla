---------------------------- MODULE MCConfigSync ----------------------------
(***************************************************************************)
(* ConfigSync with the constants TLC checks it on.                         *)
(***************************************************************************)
EXTENDS ConfigSync, TLC

Interchangeable == Permutations(Syncs) \cup Permutations(Keys) \cup Permutations(Values)
=============================================================================
