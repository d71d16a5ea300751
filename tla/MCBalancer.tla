----------------------------- MODULE MCBalancer -----------------------------
(***************************************************************************)
(* Balancer for TLC.  The first node has every other point, the other two  *)
(* lie between them, on one of them or on both, on each other, or have     *)
(* their two points in the same place.                                     *)
(***************************************************************************)
EXTENDS Balancer

CONSTANTS n1, n2, n3

Checksums(p, q, r) ==
  [v \in {n1, n2, n3} \X {1, 2} |->
     CASE v[1] = n1 -> p[v[2]] [] v[1] = n2 -> q[v[2]] [] v[1] = n3 -> r[v[2]]]

MCHashes == {Checksums(<<0, 2>>, q, r) :
               q \in {<<1, 3>>, <<1, 1>>, <<0, 1>>, <<0, 2>>}, r \in {<<3, 3>>, <<1, 3>>, <<2, 3>>}}
=============================================================================
