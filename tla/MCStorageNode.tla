--------------------------- MODULE MCStorageNode ---------------------------
(***************************************************************************)
(* StorageNode for TLC.                                                    *)
(***************************************************************************)
EXTENDS StorageNode
============================================================================
