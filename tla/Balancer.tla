------------------------------ MODULE Balancer ------------------------------
(***************************************************************************)
(* pkg/balance.ConsistentHashBalancer: the ring of HashRing, and the       *)
(* goroutine that checks the load, with Start and Stop around it.  A       *)
(* routine is named by the Start that made it.                             *)
(*                                                                         *)
(* b.ctx is written under b.mutex and read by the routine without it, at   *)
(* each turn of its loop.  The read is a data race: a routine may see any  *)
(* context between the last one it saw and the current one.                *)
(*                                                                         *)
(* EnableAutoBalance is on.  Shard counts, hot files and the statistics    *)
(* GetShardStatus copies are left out; rebalance itself changes nothing.   *)
(***************************************************************************)
EXTENDS HashRing

CONSTANTS MaxStarts  \* bound: successful calls of Start

ASSUME BalancerAssumption == MaxStarts \in Nat

VARIABLES
  over,       \* the nodes whose DiskUsage or LoadFactor is above its threshold
  running,    \* b.isRunning
  current,    \* which Start made b.ctx
  cancelled,  \* the contexts that are done
  pc,         \* each routine: "none", "loop", "select", "check", "rebalance", "ended"
  seen,       \* the context each routine read last
  holder      \* 0, or the routine that keeps b.mutex

routineVars == <<running, current, cancelled, pc, seen, holder>>
balancerVars == <<ringVars, over, routineVars>>

Starts == 1 .. MaxStarts

Init ==
  /\ RingInit
  /\ over = {}
  /\ running = FALSE
  /\ current = 0
  /\ cancelled = {}
  /\ pc = [r \in Starts |-> "none"]
  /\ seen = [r \in Starts |-> 0]
  /\ holder = 0

-----------------------------------------------------------------------------
(* The calls, each under b.mutex. *)

Free == holder = 0

Start ==
  /\ Free /\ ~running
  /\ current < MaxStarts
  /\ current' = current + 1
  /\ running' = TRUE
  /\ pc' = [pc EXCEPT ![current + 1] = "loop"]
  /\ seen' = [seen EXCEPT ![current + 1] = current + 1]
  /\ UNCHANGED <<ringVars, over, cancelled, holder>>

\* Mutant: the flag alone.
StopFlagOnly ==
  /\ Free /\ running
  /\ running' = FALSE
  /\ UNCHANGED <<ringVars, over, current, cancelled, pc, seen, holder>>

Stop ==
  /\ Free /\ running
  /\ cancelled' = cancelled \cup {current}
  /\ running' = FALSE
  /\ UNCHANGED <<ringVars, over, current, pc, seen, holder>>

\* The caller's own context, of which b.ctx is a child, ends: isRunning stays.
ParentDone ==
  /\ running /\ current \notin cancelled
  /\ cancelled' = cancelled \cup {current}
  /\ UNCHANGED <<ringVars, over, running, current, pc, seen, holder>>

Add(n) == Free /\ AddNode(n) /\ UNCHANGED <<over, routineVars>>

Remove(n) == Free /\ RemoveNode(n) /\ over' = over \ {n} /\ UNCHANGED routineVars

UpdateNodeStatus(n) ==
  /\ Free
  /\ n \in nodes
  /\ over' \in {over \cup {n}, over \ {n}}
  /\ UNCHANGED <<ringVars, routineVars>>

-----------------------------------------------------------------------------
(* balanceRoutine. *)

Turn(r) ==
  /\ pc[r] = "loop"
  /\ \E c \in seen[r] .. current : seen' = [seen EXCEPT ![r] = c]
  /\ pc' = [pc EXCEPT ![r] = "select"]
  /\ UNCHANGED <<ringVars, over, running, current, cancelled, holder>>

Tick(r) ==
  /\ pc[r] = "select"
  /\ pc' = [pc EXCEPT ![r] = "check"]
  /\ UNCHANGED <<ringVars, over, running, current, cancelled, seen, holder>>

\* Mutant: what Stop signals stays signalled.
EndOnAny(r) ==
  /\ pc[r] = "select"
  /\ cancelled # {}
  /\ pc' = [pc EXCEPT ![r] = "ended"]
  /\ UNCHANGED <<ringVars, over, running, current, cancelled, seen, holder>>

\* The context the routine read is done.  If the ticker has fired as well, either case
\* of the select may be taken.
End(r) ==
  /\ pc[r] = "select"
  /\ seen[r] \in cancelled
  /\ pc' = [pc EXCEPT ![r] = "ended"]
  /\ UNCHANGED <<ringVars, over, running, current, cancelled, seen, holder>>

\* checkAndBalance calls rebalance with b.mutex held.  rebalance locks it first: from
\* "rebalance" there is no step.
CheckAndBalance(r) ==
  /\ pc[r] = "check"
  /\ Free
  /\ \/ over = {} /\ pc' = [pc EXCEPT ![r] = "loop"] /\ UNCHANGED holder
     \/ over # {} /\ pc' = [pc EXCEPT ![r] = "rebalance"] /\ holder' = r
  /\ UNCHANGED <<ringVars, over, running, current, cancelled, seen>>

Routine(r) == Turn(r) \/ Tick(r) \/ End(r) \/ CheckAndBalance(r)

BalancerNext ==
  \/ Start \/ Stop \/ ParentDone
  \/ \E n \in Nodes : Add(n) \/ Remove(n) \/ UpdateNodeStatus(n)
  \/ \E r \in Starts : Routine(r)

Spec == Init /\ [][BalancerNext]_balancerVars

\* A goroutine runs on; a context that stays done is chosen by the select in the end.
FairSpec ==
  /\ Spec
  /\ \A r \in Starts : WF_balancerVars(Routine(r)) /\ SF_balancerVars(End(r))

-----------------------------------------------------------------------------
(* Properties. *)

TypeOK ==
  /\ RingTypeOK
  /\ over \subseteq nodes
  /\ running \in BOOLEAN
  /\ current \in 0 .. MaxStarts
  /\ cancelled \subseteq 1 .. current
  /\ pc \in [Starts -> {"none", "loop", "select", "check", "rebalance", "ended"}]
  /\ seen \in [Starts -> 0 .. current]
  /\ holder \in 0 .. MaxStarts

\* A running balancer whose context is alive has a routine, whatever was started and
\* stopped before, and whichever context a routine happened to read.
RunningHasRoutine ==
  running /\ current \notin cancelled => pc[current] \notin {"none", "ended"}

\* Once the balancer is stopped for good all its routines end, also one that read the
\* context of its successor, unless one of them has locked itself out.
StoppedRoutinesEnd ==
  <>[](~running /\ Free) => <>[](\A r \in Starts : pc[r] \in {"none", "ended"})
=============================================================================
