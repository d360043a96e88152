------------------------------- MODULE MCSmoke ---------------------------------
(***************************************************************************)
(* Smoke for TLC: Scope, its only constant, is in the configurations.      *)
(***************************************************************************)
EXTENDS Smoke
===============================================================================
