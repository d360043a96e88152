------------------------------ MODULE MCPrepare ------------------------------
(***************************************************************************)
(* Prepare with the constants TLC checks it on.                            *)
(***************************************************************************)
EXTENDS Prepare, TLC

Interchangeable == Permutations(Keys) \cup Permutations(Arns) \cup Permutations(Images)
=============================================================================
