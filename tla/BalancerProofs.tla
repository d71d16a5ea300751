--------------------------- MODULE BalancerProofs ---------------------------
(***************************************************************************)
(* The ring and the routine of Balancer, for every number of nodes,        *)
(* virtual nodes and points, every checksum function and every number of   *)
(* starts.                                                                 *)
(***************************************************************************)
EXTENDS Balancer, WellFoundedInduction, TLAPS

\* What is in the ring: a point of sortedKeys, with a registered node it is a point of.
RingInv ==
  /\ keys = DOMAIN ring
  /\ \A p \in keys : ring[p] \in nodes /\ p \in PointsOf(ring[p])

\* The routine of the current context is there until that context is done; the older
\* routines see contexts up to the current one.
RoutineInv ==
  /\ current > 0 /\ current \notin cancelled =>
       pc[current] \notin {"none", "ended"} /\ seen[current] = current
  /\ running => current > 0

BalancerInv == TypeOK /\ RingInv /\ RoutineInv

-----------------------------------------------------------------------------
(* The search. *)

\* A set of points that is not empty has a first one.
LEMMA FirstOfPoints ==
  ASSUME NEW S \in SUBSET Nat, S # {}
  PROVE  First(S) \in S /\ \A q \in S : First(S) <= q
<1>1. PICK x \in S : \A y \in S : ~(<<y, x>> \in OpToRel(<, Nat))
  BY NatLessThanWellFounded, WFMin
<1>2. ASSUME NEW y \in S PROVE x <= y
  <2>1. x \in Nat /\ y \in Nat
    OBVIOUS
  <2>2. ~(<<y, x>> \in {e \in Nat \X Nat : e[1] < e[2]})
    BY <1>1 DEF OpToRel
  <2> QED BY <2>1, <2>2
<1> QED BY <1>2 DEF First

\* The first of a set is the first of each part it belongs to.
LEMMA FirstOfPart ==
  ASSUME NEW S \in SUBSET Nat, NEW T \in SUBSET S, First(S) \in T
  PROVE  First(T) = First(S)
<1>1. S # {} /\ T # {} /\ T \in SUBSET Nat
  OBVIOUS
<1>2. First(S) \in S /\ \A q \in S : First(S) <= q
  BY <1>1, FirstOfPoints
<1>3. First(T) \in T /\ \A q \in T : First(T) <= q
  BY <1>1, FirstOfPoints
<1>4. First(T) <= First(S) /\ First(S) <= First(T) /\ First(T) \in Nat /\ First(S) \in Nat
  BY <1>1, <1>2, <1>3
<1> QED BY <1>4

\* The search finds one of the points.
LEMMA SearchFinds ==
  ASSUME NEW S \in SUBSET Nat, S # {}, NEW h
  PROVE  Search(S, h) \in S
<1> DEFINE above == {p \in S : p >= h}
<1>1. CASE above = {}
  BY <1>1, FirstOfPoints DEF Search
<1>2. CASE above # {}
  <2>1. First(above) \in above
    BY <1>2, FirstOfPoints
  <2> QED BY <1>2, <2>1 DEF Search
<1> QED BY <1>1, <1>2

\* Fewer points do not change what is found, as long as that is among them.
LEMMA SearchOfPart ==
  ASSUME NEW S \in SUBSET Nat, NEW T \in SUBSET S, NEW h, Search(S, h) \in T
  PROVE  Search(T, h) = Search(S, h)
<1> DEFINE aboveS == {p \in S : p >= h}
           aboveT == {p \in T : p >= h}
<1>1. CASE aboveS = {}
  <2>1. aboveT = {}
    BY <1>1
  <2>2. Search(S, h) = First(S) /\ Search(T, h) = First(T)
    BY <1>1, <2>1 DEF Search
  <2> QED BY <2>2, FirstOfPart
<1>2. CASE aboveS # {}
  <2>1. Search(S, h) = First(aboveS)
    BY <1>2 DEF Search
  <2>2. First(aboveS) \in aboveS
    BY <1>2, FirstOfPoints
  <2>3. First(aboveS) \in aboveT /\ aboveT \in SUBSET aboveS /\ aboveS \in SUBSET Nat
    BY <2>1, <2>2
  <2>4. First(aboveT) = First(aboveS)
    BY <2>3, FirstOfPart
  <2>5. Search(T, h) = First(aboveT)
    BY <2>3 DEF Search
  <2> QED BY <2>1, <2>4, <2>5
<1> QED BY <1>1, <1>2

LEMMA PointsAreNaturals == Points \subseteq Nat
BY RingAssumption DEF Points

\* A node's points are points, and there is one.
LEMMA PointsOfNode ==
  ASSUME RingTypeOK, NEW n \in Nodes
  PROVE  PointsOf(n) \subseteq Points /\ PointsOf(n) # {}
<1>1. hash \in [Nodes \X (1 .. Replicas) -> Points] /\ 1 \in 1 .. Replicas
  BY RingAssumption DEF RingTypeOK, Points
<1> QED BY <1>1 DEF PointsOf

-----------------------------------------------------------------------------
(* The invariant. *)

LEMMA InitInv == Init => BalancerInv
<1> SUFFICES ASSUME Init PROVE BalancerInv
  OBVIOUS
<1>1. DOMAIN ring = {} /\ keys = {} /\ nodes = {}
  BY DEF Init, RingInit
<1>2. RingTypeOK /\ RingInv
  BY <1>1 DEF Init, RingInit, RingTypeOK, RingInv
<1>3. current = 0 /\ cancelled = {} /\ running = FALSE
  BY DEF Init
<1>4. seen \in [Starts -> 0 .. current] /\ cancelled \subseteq 1 .. current
  BY <1>3 DEF Init
<1>5. pc \in [Starts -> {"none", "loop", "select", "check", "rebalance", "ended"}]
  BY DEF Init
<1>6. over = {} /\ holder = 0 /\ current \in 0 .. MaxStarts /\ holder \in 0 .. MaxStarts
  BY <1>3, BalancerAssumption DEF Init
<1>7. TypeOK
  BY <1>2, <1>3, <1>4, <1>5, <1>6 DEF TypeOK
<1> QED BY <1>2, <1>3, <1>7 DEF BalancerInv, RoutineInv

\* Every step keeps the types, and every step but Add and Remove leaves the ring alone.
LEMMA RoutineSteps ==
  ASSUME BalancerInv, Start \/ Stop \/ ParentDone \/ (\E r \in Starts : Routine(r))
  PROVE  BalancerInv'
<1> USE BalancerAssumption DEF Starts
<1>1. TypeOK /\ RingInv /\ RoutineInv
  BY DEF BalancerInv
<1>2. UNCHANGED <<ringVars, over>>
  BY DEF Start, Stop, ParentDone, Routine, Turn, Tick, End, CheckAndBalance
<1>3. RingTypeOK' /\ over' \subseteq nodes' /\ RingInv'
  <2>1. hash' = hash /\ nodes' = nodes /\ ring' = ring /\ keys' = keys /\ over' = over
    BY <1>2 DEF ringVars
  <2>2. \A n : PointsOf(n)' = PointsOf(n)
    BY <2>1 DEF PointsOf
  <2>3. RingTypeOK /\ over \subseteq nodes /\ RingInv
    BY <1>1 DEF TypeOK
  <2>4. RingTypeOK'
    BY <2>1, <2>3 DEF RingTypeOK
  <2> QED BY <2>1, <2>2, <2>3, <2>4 DEF RingInv
<1>4. CASE Start
  <2>1. current \in Nat /\ current + 1 \in Starts /\ 0 .. current \subseteq 0 .. current + 1
    BY <1>1, <1>4 DEF Start, TypeOK
  <2>2. TypeOK'
    BY <1>1, <1>3, <1>4, <2>1 DEF Start, TypeOK
  <2>3. RoutineInv'
    BY <1>1, <1>4, <2>1 DEF Start, TypeOK, RoutineInv
  <2> QED BY <1>3, <2>2, <2>3 DEF BalancerInv
<1>5. CASE Stop \/ ParentDone
  <2>1. current \in 1 .. current /\ cancelled' = cancelled \cup {current}
    BY <1>1, <1>5 DEF Stop, ParentDone, TypeOK, RoutineInv
  <2>2. UNCHANGED <<current, pc, seen, holder>> /\ (running' => running) /\ running' \in BOOLEAN
    BY <1>1, <1>5 DEF Stop, ParentDone, TypeOK
  <2>3. TypeOK'
    BY <1>1, <1>3, <2>1, <2>2 DEF TypeOK
  <2>4. RoutineInv'
    BY <1>1, <2>1, <2>2 DEF RoutineInv
  <2> QED BY <1>3, <2>3, <2>4 DEF BalancerInv
<1>6. CASE \E r \in Starts : Routine(r)
  <2> PICK r \in Starts : Routine(r)
    BY <1>6
  <2>1. CASE Turn(r)
    <3>1. TypeOK'
      BY <1>1, <1>3, <2>1 DEF Turn, TypeOK
    <3>2. RoutineInv'
      BY <1>1, <2>1 DEF Turn, TypeOK, RoutineInv
    <3> QED BY <1>3, <3>1, <3>2 DEF BalancerInv
  <2>2. CASE Tick(r)
    <3>1. TypeOK'
      BY <1>1, <1>3, <2>2 DEF Tick, TypeOK
    <3>2. RoutineInv'
      BY <1>1, <2>2 DEF Tick, TypeOK, RoutineInv
    <3> QED BY <1>3, <3>1, <3>2 DEF BalancerInv
  <2>3. CASE End(r)
    <3>1. TypeOK'
      BY <1>1, <1>3, <2>3 DEF End, TypeOK
    <3>2. RoutineInv'
      BY <1>1, <2>3 DEF End, TypeOK, RoutineInv
    <3> QED BY <1>3, <3>1, <3>2 DEF BalancerInv
  <2>4. CASE CheckAndBalance(r)
    <3>1. TypeOK'
      BY <1>1, <1>3, <2>4 DEF CheckAndBalance, TypeOK
    <3>2. RoutineInv'
      BY <1>1, <2>4 DEF CheckAndBalance, TypeOK, RoutineInv
    <3> QED BY <1>3, <3>1, <3>2 DEF BalancerInv
  <2> QED BY <2>1, <2>2, <2>3, <2>4 DEF Routine
<1> QED BY <1>4, <1>5, <1>6

LEMMA NodeSteps ==
  ASSUME BalancerInv, NEW n \in Nodes, Add(n) \/ Remove(n) \/ UpdateNodeStatus(n)
  PROVE  BalancerInv'
<1>1. TypeOK /\ RingTypeOK /\ RingInv /\ RoutineInv
  BY DEF BalancerInv, TypeOK
<1>2. UNCHANGED routineVars /\ hash' = hash
  BY DEF Add, AddNode, Remove, RemoveNode, UpdateNodeStatus, ringVars
<1>3. PointsOf(n) \subseteq Points
  BY <1>1, PointsOfNode
<1>4. \A m : PointsOf(m)' = PointsOf(m)
  BY <1>2 DEF PointsOf
<1>5. RingTypeOK' /\ over' \subseteq nodes' /\ RingInv'
  <2>1. CASE Add(n)
    BY <1>1, <1>3, <1>4, <2>1 DEF Add, AddNode, TypeOK, RingTypeOK, RingInv
  <2>2. CASE Remove(n)
    BY <1>1, <1>3, <1>4, <2>2 DEF Remove, RemoveNode, TypeOK, RingTypeOK, RingInv
  <2>3. CASE UpdateNodeStatus(n)
    BY <1>1, <1>4, <2>3 DEF UpdateNodeStatus, ringVars, TypeOK, RingTypeOK, RingInv
  <2> QED BY <2>1, <2>2, <2>3
<1> QED BY <1>1, <1>2, <1>5 DEF BalancerInv, TypeOK, RoutineInv, routineVars

LEMMA NextInv == BalancerInv /\ [BalancerNext]_balancerVars => BalancerInv'
<1> SUFFICES ASSUME BalancerInv, [BalancerNext]_balancerVars PROVE BalancerInv'
  OBVIOUS
<1>1. CASE UNCHANGED balancerVars
  BY <1>1 DEF balancerVars, ringVars, routineVars, BalancerInv, TypeOK, RingTypeOK, RingInv,
     RoutineInv, PointsOf
<1> QED BY <1>1, RoutineSteps, NodeSteps DEF BalancerNext

LEMMA BalancerCorrect == Spec => []BalancerInv
BY InitInv, NextInv, PTL DEF Spec

-----------------------------------------------------------------------------
\* Types, and no load is kept of a node that was removed.
THEOREM BalancerTypeCorrect == Spec => []TypeOK
<1>1. BalancerInv => TypeOK
  BY DEF BalancerInv
<1> QED BY <1>1, BalancerCorrect, PTL

\* Whatever the checksums, a lookup in a ring that has a point gives a registered node
\* (GetNode, AddNode, RemoveNode).
THEOREM LookupsAlwaysFindNodes == Spec => []LookupsFindNodes
<1>1. BalancerInv => LookupsFindNodes
  <2> SUFFICES ASSUME BalancerInv, DOMAIN ring # {}, NEW h \in Points PROVE GetNode(h) \in nodes
    BY DEF LookupsFindNodes
  <2>1. keys = DOMAIN ring /\ keys \in SUBSET Nat
    BY PointsAreNaturals DEF BalancerInv, TypeOK, RingTypeOK, RingInv
  <2>2. Search(keys, h) \in keys
    BY <2>1, SearchFinds
  <2> QED BY <2>1, <2>2 DEF GetNode, At, BalancerInv, RingInv
<1> QED BY <1>1, BalancerCorrect, PTL

\* However often the balancer was stopped and started, it has a routine while it runs.
THEOREM RunningBalancerHasRoutine == Spec => []RunningHasRoutine
<1>1. BalancerInv => RunningHasRoutine
  BY DEF BalancerInv, RoutineInv, RunningHasRoutine
<1> QED BY <1>1, BalancerCorrect, PTL

\* A key that a new node does not get stays where it is.
LEMMA AddMovesToNew ==
  ASSUME BalancerInv, NEW n \in Nodes, AddNode(n), NEW h \in Points, GetNode(h)' # GetNode(h)
  PROVE  GetNode(h)' \in nodes' \ nodes
<1> DEFINE x == Search(keys', h)
<1>1. /\ RingTypeOK /\ keys = DOMAIN ring /\ keys \in SUBSET Nat
      /\ PointsOf(n) \subseteq Nat /\ PointsOf(n) # {}
  BY PointsOfNode, PointsAreNaturals DEF BalancerInv, TypeOK, RingTypeOK, RingInv
<1>2. /\ keys' = keys \cup PointsOf(n) /\ keys' = DOMAIN ring' /\ nodes' = nodes \cup {n}
      /\ n \notin nodes
      /\ \A p \in keys' : ring'[p] = IF p \in PointsOf(n) THEN n ELSE ring[p]
  BY <1>1 DEF AddNode
<1>3. x \in keys'
  BY <1>1, <1>2, SearchFinds
<1>4. GetNode(h)' = ring'[x]
  BY <1>2, <1>3 DEF GetNode, At
<1>5. CASE x \in PointsOf(n)
  BY <1>2, <1>3, <1>4, <1>5
<1>6. CASE x \notin PointsOf(n)
  <2>1. x \in keys /\ keys' \in SUBSET Nat /\ keys \in SUBSET keys'
    BY <1>1, <1>2, <1>3, <1>6
  <2>2. Search(keys, h) = x
    BY <2>1, SearchOfPart
  <2>3. GetNode(h) = ring[x]
    BY <1>1, <2>1, <2>2 DEF GetNode, At
  <2> QED BY <1>2, <1>3, <1>4, <1>6, <2>3
<1> QED BY <1>5, <1>6

\* A key that a removed node did not have stays where it is, if that node shares no point.
LEMMA RemoveMovesItsOwn ==
  ASSUME BalancerInv, NEW n \in Nodes, RemoveNode(n), ~Shares(n),
         NEW h \in Points, GetNode(h)' # GetNode(h)
  PROVE  GetNode(h) \in nodes \ nodes'
<1> DEFINE x == Search(keys, h)
<1>1. /\ nodes \subseteq Nodes /\ keys = DOMAIN ring /\ keys \in SUBSET Nat
      /\ \A p \in keys : ring[p] \in nodes /\ p \in PointsOf(ring[p])
  BY PointsAreNaturals DEF BalancerInv, TypeOK, RingTypeOK, RingInv
<1>2. /\ keys' = keys \ PointsOf(n) /\ keys' = DOMAIN ring' /\ nodes' = nodes \ {n} /\ n \in nodes
      /\ \A p \in keys' : ring'[p] = ring[p]
  BY <1>1 DEF RemoveNode
<1>3. keys # {}
  BY <1>1, <1>2 DEF GetNode
<1>4. x \in keys
  BY <1>1, <1>3, SearchFinds
<1>5. GetNode(h) = ring[x]
  BY <1>1, <1>4 DEF GetNode, At
<1>6. CASE ring[x] = n
  BY <1>2, <1>5, <1>6
<1>7. CASE ring[x] # n
  <2>1. x \notin PointsOf(n)
    BY <1>1, <1>4, <1>7 DEF Shares
  <2>2. x \in keys' /\ keys' \in SUBSET keys
    BY <1>2, <1>4, <2>1
  <2>3. Search(keys', h) = x
    BY <1>1, <2>2, SearchOfPart
  <2>4. GetNode(h)' = ring'[x]
    BY <1>2, <2>2, <2>3 DEF GetNode, At
  <2> QED BY <1>2, <1>5, <2>2, <2>4
<1> QED BY <1>6, <1>7

\* Consistent hashing, for every checksum function and every history: a node that comes
\* takes keys for itself only, one that goes gives up its own only, unless it shares a
\* point with another (AddNode, RemoveNode, GetNode).
THEOREM OnlyOwnKeysEverMove == Spec => OnlyOwnKeysMove
<1> DEFINE Moved == \A h \in Points : GetNode(h)' # GetNode(h) =>
                      \/ GetNode(h)' \in nodes' \ nodes
                      \/ GetNode(h) \in nodes \ nodes'
                      \/ \E n \in nodes \ nodes' : Shares(n)
<1>1. BalancerInv /\ [BalancerNext]_balancerVars => [Moved]_ringVars
  <2> SUFFICES ASSUME BalancerInv, BalancerNext, ringVars' # ringVars PROVE Moved
    BY DEF balancerVars
  <2>1. PICK n \in Nodes : AddNode(n) \/ RemoveNode(n)
    BY DEF BalancerNext, Start, Stop, ParentDone, Routine, Turn, Tick, End, CheckAndBalance,
         Add, Remove, UpdateNodeStatus
  <2>2. CASE AddNode(n)
    BY <2>2, AddMovesToNew
  <2>3. CASE RemoveNode(n)
    <3>1. n \in nodes \ nodes'
      BY <2>3 DEF RemoveNode
    <3> QED BY <2>3, <3>1, RemoveMovesItsOwn
  <2> QED BY <2>1, <2>2, <2>3
<1> QED BY <1>1, BalancerCorrect, PTL DEF Spec, OnlyOwnKeysMove

-----------------------------------------------------------------------------
(* Where no two nodes share a point, each registered node has all of its own, and the *)
(* search goes to the nearest one.                                                    *)

Apart == \A n \in Nodes : ~Shares(n)

OwnPoints == Apart => \A n \in nodes : \A p \in PointsOf(n) : p \in keys /\ ring[p] = n

\* The remainder of what is less than the divisor, and of what is less than twice it.
LEMMA SmallRemainder ==
  ASSUME NEW d \in Nat \ {0}, NEW a \in Nat, a < d
  PROVE  a % d = a
BY SMTT(20)

LEMMA NextRemainder ==
  ASSUME NEW d \in Nat \ {0}, NEW a \in Nat, a >= d, a < d + d
  PROVE  a % d = a - d
BY SMTT(20)

\* Steps from one point to another, going round.
LEMMA RoundSteps ==
  ASSUME NEW p \in Points, NEW h \in Points
  PROVE  (p + Size - h) % Size = IF p >= h THEN p - h ELSE p + Size - h
<1> DEFINE a == p + Size - h
<1>1. Size \in Nat \ {0} /\ p \in Nat /\ h \in Nat /\ p < Size /\ h < Size
  BY RingAssumption DEF Points
<1>2. a \in Nat /\ a < Size + Size /\ a - Size = p - h
  BY <1>1
<1>3. CASE p >= h
  <2>1. a >= Size
    BY <1>1, <1>3
  <2> HIDE DEF a
  <2>2. a % Size = a - Size
    BY <1>1, <1>2, <2>1, NextRemainder
  <2> QED BY <1>2, <1>3, <2>2 DEF a
<1>4. CASE p < h
  <2>1. a < Size /\ ~(p >= h)
    BY <1>1, <1>4
  <2> HIDE DEF a
  <2>2. a % Size = a
    BY <1>1, <1>2, <2>1, SmallRemainder
  <2> QED BY <2>1, <2>2 DEF a
<1> QED BY <1>1, <1>3, <1>4

\* The search takes the first point that is not before h, or the first of all.
LEMMA SearchSplits ==
  ASSUME NEW S \in SUBSET Nat, NEW h \in Nat, S # {}
  PROVE  \/ Search(S, h) >= h /\ \A q \in S : q >= h => Search(S, h) <= q
         \/ Search(S, h) < h /\ \A q \in S : q < h /\ Search(S, h) <= q
<1> DEFINE above == {q \in S : q >= h}
<1>1. CASE above = {}
  <2>1. Search(S, h) = First(S)
    BY <1>1 DEF Search
  <2>2. First(S) \in S /\ \A q \in S : First(S) <= q
    BY FirstOfPoints
  <2>3. \A q \in S : q < h
    BY <1>1
  <2> QED BY <2>1, <2>2, <2>3
<1>2. CASE above # {}
  <2>1. Search(S, h) = First(above)
    BY <1>2 DEF Search
  <2>2. above \in SUBSET Nat
    OBVIOUS
  <2>3. First(above) \in above /\ \A q \in above : First(above) <= q
    BY <1>2, <2>2, FirstOfPoints
  <2> QED BY <2>1, <2>3
<1> QED BY <1>1, <1>2

\* The search takes the point that comes next.
LEMMA SearchIsNearest ==
  ASSUME NEW S \in SUBSET Points, NEW h \in Points, NEW p \in S
  PROVE  (Search(S, h) + Size - h) % Size <= (p + Size - h) % Size
<1>1. S \in SUBSET Nat /\ S # {} /\ h \in Nat
  BY DEF Points
<1>2. PICK x \in S : x = Search(S, h)
  BY <1>1, SearchFinds
<1>3. \/ x >= h /\ (p >= h => x <= p)
      \/ x < h /\ p < h /\ x <= p
  BY <1>1, <1>2, SearchSplits
<1>4. (x + Size - h) % Size = IF x >= h THEN x - h ELSE x + Size - h
  BY RoundSteps
<1>5. (p + Size - h) % Size = IF p >= h THEN p - h ELSE p + Size - h
  BY RoundSteps
<1>6. x \in Nat /\ p \in Nat /\ Size \in Nat /\ x < Size /\ p < Size
  BY RingAssumption DEF Points
<1>7. (IF x >= h THEN x - h ELSE x + Size - h) <= (IF p >= h THEN p - h ELSE p + Size - h)
  BY <1>1, <1>3, <1>6
<1> QED BY <1>2, <1>4, <1>5, <1>7

LEMMA NextOwnPoints ==
  ASSUME BalancerInv, OwnPoints, [BalancerNext]_balancerVars
  PROVE  OwnPoints'
<1>1. RingTypeOK /\ keys = DOMAIN ring
  BY DEF BalancerInv, TypeOK, RingInv
<1>2. CASE UNCHANGED ringVars
  BY <1>2 DEF OwnPoints, Apart, Shares, PointsOf, ringVars
<1>3. ASSUME NEW n \in Nodes, AddNode(n) \/ RemoveNode(n) PROVE OwnPoints'
  <2>1. \A m : PointsOf(m)' = PointsOf(m)
    BY <1>3 DEF AddNode, RemoveNode, PointsOf
  <2>2. Apart' <=> Apart
    BY <2>1 DEF Apart, Shares
  <2> SUFFICES ASSUME Apart, NEW m \in nodes', NEW p \in PointsOf(m) PROVE p \in keys' /\ ring'[p] = m
    BY <2>1, <2>2 DEF OwnPoints
  <2>3. m \in Nodes /\ (m # n => m \in nodes /\ p \notin PointsOf(n))
    BY <1>1, <1>3 DEF AddNode, RemoveNode, RingTypeOK, Apart, Shares
  <2>4. m # n => p \in keys /\ ring[p] = m
    BY <2>3 DEF OwnPoints
  <2>5. CASE AddNode(n)
    BY <1>1, <2>3, <2>4, <2>5 DEF AddNode
  <2>6. CASE RemoveNode(n)
    <3>1. m # n
      BY <2>6 DEF RemoveNode
    <3> QED BY <1>1, <2>3, <2>4, <2>6, <3>1 DEF RemoveNode
  <2> QED BY <1>3, <2>5, <2>6
<1> QED BY <1>2, <1>3 DEF BalancerNext, Start, Stop, ParentDone, Add, Remove, UpdateNodeStatus, Routine,
   Turn, Tick, End, CheckAndBalance, balancerVars

\* Where no two nodes share a point a key belongs to the registered node that follows it
\* most closely: sort.Search over sortedKeys and the wrap to the first point (GetNode)
\* never pass over a node, in whatever order nodes were added and removed.
THEOREM NearestNodeAlwaysServes == Spec => []NearestNodeServes
<1>1. BalancerInv /\ OwnPoints => NearestNodeServes
  <2> SUFFICES ASSUME BalancerInv, OwnPoints, Apart, NEW h \in Points, NEW n \in nodes
               PROVE  Distance(h, GetNode(h)) <= Distance(h, n)
    BY DEF NearestNodeServes, Apart
  <2> DEFINE to(p) == (p + Size - h) % Size
             Steps(m) == {to(p) : p \in PointsOf(m)}
             x == Search(keys, h)
             g == GetNode(h)
  <2>1. /\ n \in Nodes /\ keys \in SUBSET Points /\ keys \in SUBSET Nat /\ keys = DOMAIN ring
        /\ PointsOf(n) \subseteq keys /\ PointsOf(n) # {}
    BY PointsOfNode, PointsAreNaturals DEF BalancerInv, TypeOK, RingTypeOK, RingInv, OwnPoints
  <2>2. x \in keys
    BY <2>1, SearchFinds
  <2>3. g = ring[x] /\ g \in nodes /\ x \in PointsOf(g)
    BY <2>1, <2>2 DEF GetNode, At, BalancerInv, RingInv
  <2>4. \A p \in Points : to(p) \in Nat
    <3> TAKE p \in Points
    <3>1. to(p) = IF p >= h THEN p - h ELSE p + Size - h
      BY RoundSteps
    <3>2. p \in Nat /\ h \in Nat /\ Size \in Nat /\ h < Size
      BY RingAssumption DEF Points
    <3> HIDE DEF to
    <3> QED BY <3>1, <3>2
  <2>5. \A p \in PointsOf(n) : to(x) <= to(p)
    BY <2>1, SearchIsNearest
  <2> HIDE DEF to, x
  <2>6. \A m \in nodes : PointsOf(m) \subseteq Points /\ PointsOf(m) # {}
    BY PointsOfNode DEF BalancerInv, TypeOK, RingTypeOK
  <2>7. \A m \in nodes : Steps(m) \in SUBSET Nat /\ Steps(m) # {}
    BY <2>4, <2>6
  <2>8. First(Steps(g)) <= to(x) /\ First(Steps(g)) \in Nat /\ to(x) \in Nat
    <3>1. Steps(g) \in SUBSET Nat /\ Steps(g) # {}
      BY <2>3, <2>7
    <3>2. First(Steps(g)) \in Steps(g) /\ \A s \in Steps(g) : First(Steps(g)) <= s
      BY <3>1, FirstOfPoints
    <3>3. to(x) \in Steps(g)
      BY <2>3
    <3> QED BY <3>1, <3>2, <3>3
  <2>9. \E p \in PointsOf(n) : First(Steps(n)) = to(p)
    <3>1. Steps(n) \in SUBSET Nat /\ Steps(n) # {}
      BY <2>7
    <3>2. First(Steps(n)) \in Steps(n)
      BY <3>1, FirstOfPoints
    <3> QED BY <3>2
  <2>10. PICK p \in PointsOf(n) : First(Steps(n)) = to(p)
    BY <2>9
  <2>11. to(x) <= to(p) /\ to(p) \in Nat
    BY <2>4, <2>5, <2>6
  <2>12. First(Steps(g)) <= First(Steps(n))
    <3> HIDE DEF Steps
    <3> QED BY <2>8, <2>10, <2>11
  <2> QED BY <2>12 DEF Distance, to
<1>2. Init => OwnPoints
  BY DEF Init, RingInit, OwnPoints
<1>3. Spec => []OwnPoints
  BY <1>2, BalancerCorrect, NextOwnPoints, PTL DEF Spec
<1> QED BY <1>1, <1>3, BalancerCorrect, PTL
=============================================================================
