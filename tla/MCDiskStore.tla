---------------------------- MODULE MCDiskStore ----------------------------
(***************************************************************************)
(* DiskStore for TLC.  File ids are interchangeable.                       *)
(***************************************************************************)
EXTENDS DiskStore, TLC

FileSymmetry == Permutations(FileIds)
=============================================================================
