---------------------------- MODULE MCReadiness ----------------------------
(***************************************************************************)
(* Readiness for TLC.                                                      *)
(***************************************************************************)
EXTENDS Readiness
============================================================================
