------------------------------- MODULE MCDeploy -------------------------------
(***************************************************************************)
(* Deploy with the constants TLC checks it on: two versions of the         *)
(* contract, each of which binds a key the other does not.                 *)
(***************************************************************************)
EXTENDS Deploy

Contracts == [v \in Versions |-> IF v = "v1" THEN {"a"} ELSE {"b"}]
===============================================================================
