--------------------------- MODULE MCReplication ----------------------------
(* Replication for TLC: handlers are interchangeable, and so are files. *)
EXTENDS Replication, TLC

Interchangeable == Permutations(FileIds) \cup Permutations(Requests)

=============================================================================
