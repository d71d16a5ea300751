----------------------------- MODULE MCGateway ------------------------------
(* Gateway for TLC: client connections are interchangeable. *)
EXTENDS Gateway, TLC

ClientSymmetry == Permutations(Clients)

=============================================================================
