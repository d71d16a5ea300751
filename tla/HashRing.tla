------------------------------ MODULE HashRing ------------------------------
(***************************************************************************)
(* The ring of pkg/balance.ConsistentHashBalancer: which node a key        *)
(* belongs to, while nodes come and go.  Every operation holds b.mutex, so *)
(* it is one step.                                                         *)
(*                                                                         *)
(* CRC-32 is any function from virtual nodes to points: two of them may    *)
(* have the same point, and AddNode and RemoveNode do not look.  sortedKeys*)
(* is a set here; a point that is in it twice is found where it is found   *)
(* once.                                                                   *)
(***************************************************************************)
EXTENDS Naturals, FiniteSets

CONSTANTS Nodes, NoNode,
          Replicas,  \* virtual nodes per node
          Size,      \* the points are 0 .. Size - 1; 2^32 of them in the code
          Hashes     \* the checksums that the virtual nodes may have

ASSUME RingAssumption ==
  /\ Replicas \in Nat \ {0} /\ Size \in Nat \ {0}
  /\ NoNode \notin Nodes
  /\ Hashes \subseteq [Nodes \X (1 .. Replicas) -> 0 .. Size - 1]

VARIABLES
  hash,   \* the checksum of each virtual node, the same for ever
  nodes,  \* the ids in b.nodes
  ring,   \* b.ring
  keys    \* b.sortedKeys

ringVars == <<hash, nodes, ring, keys>>

Points == 0 .. Size - 1

PointsOf(n) == {hash[<<n, i>>] : i \in 1 .. Replicas}

-----------------------------------------------------------------------------
RingInit ==
  /\ hash \in Hashes
  /\ nodes = {}
  /\ ring = [p \in {} |-> NoNode]
  /\ keys = {}

\* A point that is taken is taken over.
AddNode(n) ==
  /\ n \notin nodes
  /\ nodes' = nodes \cup {n}
  /\ ring' = [p \in DOMAIN ring \cup PointsOf(n) |-> IF p \in PointsOf(n) THEN n ELSE ring[p]]
  /\ keys' = keys \cup PointsOf(n)
  /\ UNCHANGED hash

\* Mutant: sortedKeys is not rebuilt.
RemoveNodeStale(n) ==
  /\ n \in nodes
  /\ nodes' = nodes \ {n}
  /\ ring' = [p \in DOMAIN ring \ PointsOf(n) |-> ring[p]]
  /\ UNCHANGED <<hash, keys>>

\* Every point of n goes, also one that another node took over.
RemoveNode(n) ==
  /\ n \in nodes
  /\ nodes' = nodes \ {n}
  /\ ring' = [p \in DOMAIN ring \ PointsOf(n) |-> ring[p]]
  /\ keys' = DOMAIN ring'
  /\ UNCHANGED hash

First(S) == CHOOSE p \in S : \A q \in S : p <= q

\* Mutant: the first point after h.
SearchAfter(S, h) == LET above == {p \in S : p > h} IN First(IF above = {} THEN S ELSE above)

\* Mutant: the point at index h modulo their number.
SearchModulo(S, h) == CHOOSE p \in S : Cardinality({q \in S : q < p}) = h % Cardinality(S)

\* sort.Search, from the first point again after the last.
Search(S, h) == LET above == {p \in S : p >= h} IN First(IF above = {} THEN S ELSE above)

\* A missing entry of the map is the empty string, which is no node.
At(p) == IF p \in DOMAIN ring THEN ring[p] ELSE NoNode

\* The node of a key with checksum h; NoNode stands for the error of an empty ring too.
GetNode(h) == IF DOMAIN ring = {} THEN NoNode ELSE At(Search(keys, h))

-----------------------------------------------------------------------------
(* Properties. *)

RingTypeOK ==
  /\ hash \in Hashes
  /\ nodes \subseteq Nodes
  /\ DOMAIN ring \subseteq Points
  /\ \A p \in DOMAIN ring : ring[p] \in Nodes
  /\ keys \subseteq Points

\* Whatever collided: while the ring has a point, each key is sent to a node that is
\* registered now, never to a removed one and never to the empty id (GetNode reads ring
\* with what it found in sortedKeys).
LookupsFindNodes == DOMAIN ring # {} => \A h \in Points : GetNode(h) \in nodes

Shares(n) == \E m \in Nodes \ {n} : PointsOf(n) \cap PointsOf(m) # {}

\* Steps from h to the nearest point of n, going round.
Distance(h, n) == First({(p + Size - h) % Size : p \in PointsOf(n)})

\* Where no two nodes share a point, a key belongs to the registered node that follows it
\* most closely, in whatever order nodes were added and removed.
NearestNodeServes ==
  (nodes # {} /\ \A n \in Nodes : ~Shares(n)) =>
    \A h \in Points : \A n \in nodes : Distance(h, GetNode(h)) <= Distance(h, n)

\* Adding a node moves keys to it only, removing one moves the keys it had only: what
\* a consistent hash is chosen for.
\* A removed node that shares a point is the exception.
OnlyOwnKeysMove ==
  [][\A h \in Points : GetNode(h)' # GetNode(h) =>
       \/ GetNode(h)' \in nodes' \ nodes
       \/ GetNode(h) \in nodes \ nodes'
       \/ \E n \in nodes \ nodes' : Shares(n)]_ringVars
=============================================================================
