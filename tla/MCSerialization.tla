--------------------------- MODULE MCSerialization ---------------------------
(***************************************************************************)
(* Serialization with the constants TLC checks it on.                      *)
(***************************************************************************)
EXTENDS Serialization, TLC

\* The safety invariants treat invocations alike, and revisions alike.
Interchangeable == Permutations(Invocations) \cup Permutations(Revisions)
==============================================================================
