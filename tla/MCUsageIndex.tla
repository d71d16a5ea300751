---------------------------- MODULE MCUsageIndex ----------------------------
(***************************************************************************)
(* UsageIndex for TLC.  File ids are interchangeable.                      *)
(***************************************************************************)
EXTENDS UsageIndex, TLC

FileSymmetry == Permutations(FileIds)
=============================================================================
