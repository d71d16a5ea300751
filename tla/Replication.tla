---------------------------- MODULE Replication -----------------------------
(***************************************************************************)
(* A primary, its replication queue and its replica.  The gateway commits  *)
(* a change to the primary's store and then queues a job for it            *)
(* (handlers.go:272, 644-652); the worker carries jobs to the replica over *)
(* HTTP, where a request may be refused, or be answered too late and still *)
(* be carried out.                                                         *)
(*                                                                         *)
(* Each store is here what its clients see of a file (DiskStore has the    *)
(* steps below that).  The replica changes only through the queue: it      *)
(* serves no other writer.                                                 *)
(***************************************************************************)
EXTENDS ReplicationQueue

CONSTANTS Requests,    \* handlers of client requests that may run at once
          NoChange,    \* a handler that is not between its commit and its enqueue
          MaxChanges,  \* bound: changes of each file committed on the primary
          MaxFaults,   \* bound: requests to the replica that fail or get no answer in time
          MaxHangups   \* bound: clients gone before their handler queues the job

ASSUME ReplicationAssumption ==
  /\ NoChange \notin JobIds
  /\ MaxChanges \in Nat
  /\ MaxFaults \in Nat
  /\ MaxHangups \in Nat

VARIABLES
  primary,   \* each file on the primary
  replica,   \* each file on the replica
  request,   \* the change each handler committed and has not queued yet
  late,      \* requests the worker gave up on that the replica may still carry out
  changes,   \* changes of each file committed so far
  faults,    \* failed requests so far
  hangups,   \* clients that went away so far
  executed   \* ghost: jobs whose request the replica carried out

pairVars == <<primary, replica, request, late, changes, faults, hangups, executed>>
vars == <<queueVars, pairVars>>

FileStates == {"none", "live", "trashed", "purged"}

TypeOK ==
  /\ QueueTypeOK
  /\ primary \in [FileIds -> FileStates]
  /\ replica \in [FileIds -> FileStates]
  /\ request \in [Requests -> JobIds \cup {NoChange}]
  /\ late \in SUBSET JobIds
  /\ changes \in [FileIds -> 0..MaxChanges]
  /\ faults \in 0..MaxFaults
  /\ hangups \in 0..MaxHangups
  /\ executed \in SUBSET JobIds

Init ==
  /\ QueueInit
  /\ primary = [f \in FileIds |-> "none"]
  /\ replica = [f \in FileIds |-> "none"]
  /\ request = [r \in Requests |-> NoChange]
  /\ late = {}
  /\ changes = [f \in FileIds |-> 0]
  /\ faults = 0
  /\ hangups = 0
  /\ executed = {}

-----------------------------------------------------------------------------
(* What the store of either side does with an operation. *)

From(operation) ==
  CASE operation = "upload" -> "none" [] operation = "delete" -> "live" [] operation = "restore" -> "trashed"
To(operation) == IF operation = "delete" THEN "trashed" ELSE "live"

Carried(store, j) ==
  IF store[FileOf(j)] = From(OperationOf(j))
  THEN [store EXCEPT ![FileOf(j)] = To(OperationOf(j))] ELSE store

-----------------------------------------------------------------------------
(* The gateway: upload, completeUpload, delete and restore.  Delete of a   *)
(* file that is gone already succeeds as well, and is queued like one that *)
(* changed something (store.go:1062-1067); an id is known only from its    *)
(* upload on.                                                              *)

Succeeds(j) ==
  \/ primary[FileOf(j)] = From(OperationOf(j))
  \/ OperationOf(j) = "delete" /\ primary[FileOf(j)] # "none"

Commit(r, j) ==
  /\ proc = "up"
  /\ request[r] = NoChange
  /\ changes[FileOf(j)] < MaxChanges
  /\ Succeeds(j)
  /\ primary' = Carried(primary, j)
  /\ request' = [request EXCEPT ![r] = j]
  /\ changes' = [changes EXCEPT ![FileOf(j)] = @ + 1]
  /\ UNCHANGED <<queueVars, replica, late, faults, hangups, executed>>

Purge(f) ==
  /\ proc = "up"
  /\ changes[f] < MaxChanges
  /\ primary[f] = "trashed"
  /\ primary' = [primary EXCEPT ![f] = "purged"]
  /\ changes' = [changes EXCEPT ![f] = @ + 1]
  /\ UNCHANGED <<queueVars, replica, request, late, faults, hangups, executed>>

HandlerReturns(r) ==
  /\ request[r] # NoChange
  /\ request' = [request EXCEPT ![r] = NoChange]
  /\ UNCHANGED <<primary, replica, late, changes, faults, executed>>

QueueChange(r) ==
  /\ HandlerReturns(r)
  /\ Enqueue(request[r])
  /\ UNCHANGED <<proc, worker, retries, restarts, hangups>>

(* enqueue refuses a cancelled request context; the handler only logs it. *)
ClientGone(r) ==
  /\ HandlerReturns(r)
  /\ hangups < MaxHangups
  /\ hangups' = hangups + 1
  /\ UNCHANGED queueVars

-----------------------------------------------------------------------------
(* The worker between its critical sections: execute(). *)

restOfQueue == <<proc, jobs, stored, ioErrors, retries, restarts, acked>>

OpenSource ==
  /\ At("source")
  /\ IF primary[FileOf(worker.job)] = "live" THEN GoTo("check") ELSE Result(FALSE)
  /\ UNCHANGED <<restOfQueue, pairVars>>

(* remoteFileMatches: status answers for live files only. *)
CheckRemote ==
  /\ At("check")
  /\ IF replica[FileOf(worker.job)] = "live"
     THEN Result(TRUE) /\ executed' = executed \cup {worker.job}
     ELSE GoTo("send") /\ UNCHANGED executed
  /\ UNCHANGED <<restOfQueue, primary, replica, request, late, changes, faults, hangups>>

\* Mutant: the answer not-found counts as success for a restore as well.
AcceptedNotFound(j) == replica[FileOf(j)] = From(OperationOf(j)) \/ OperationOf(j) # "upload"

(* A delete succeeds whatever the replica has of the file: its store says  *)
(* so, and a 404 would count as success.  For a restore it does not.       *)
Accepted(j) == replica[FileOf(j)] = From(OperationOf(j)) \/ OperationOf(j) = "delete"

(* The replica handles the request of job j. *)
Serve(j) ==
  /\ replica' = Carried(replica, j)
  /\ executed' = IF Accepted(j) THEN executed \cup {j} ELSE executed

\* Mutant: the answer's status code is not looked at.
SendUnchecked ==
  /\ At("send")
  /\ Serve(worker.job)
  /\ Result(TRUE)
  /\ UNCHANGED <<restOfQueue, primary, request, late, changes, faults, hangups>>

Send ==
  /\ At("send")
  /\ Serve(worker.job)
  /\ Result(Accepted(worker.job))
  /\ UNCHANGED <<restOfQueue, primary, request, late, changes, faults, hangups>>

InFlight == IF At("send") THEN {worker.job} ELSE {}

(* A transport error, a 5xx, a client timeout, or the context that Close   *)
(* cancelled.  What was sent may still reach the replica.                  *)
RequestFails ==
  /\ worker.pc \in {"source", "check", "send"}
  /\ \/ faults < MaxFaults /\ faults' = faults + 1
     \/ proc = "stopping" /\ UNCHANGED faults
  /\ late' \in {late, late \cup InFlight}
  /\ Result(FALSE)
  /\ UNCHANGED <<restOfQueue, primary, replica, request, changes, hangups, executed>>

LateRequest(j) ==
  /\ j \in late
  /\ late' = late \ {j}
  /\ Serve(j) \/ UNCHANGED <<replica, executed>>
  /\ UNCHANGED <<queueVars, primary, request, changes, faults, hangups>>

-----------------------------------------------------------------------------
(* The end of the process takes the handlers with it. *)

HandlersEnd == request' = [r \in Requests |-> NoChange]

Killed ==
  /\ Kill
  /\ HandlersEnd
  /\ late' \in {late, late \cup InFlight}
  /\ UNCHANGED <<primary, replica, changes, faults, hangups, executed>>

Exited ==
  /\ Exit
  /\ HandlersEnd
  /\ UNCHANGED <<primary, replica, late, changes, faults, hangups, executed>>

QueueAlone(action) == action /\ UNCHANGED pairVars

Work ==
  \/ \E j \in JobIds : QueueAlone(ClaimNext(j))
  \/ OpenSource
  \/ CheckRemote
  \/ Send
  \/ RequestFails
  \/ QueueAlone(Finish)

Next ==
  \/ \E r \in Requests, j \in JobIds : Commit(r, j)
  \/ \E f \in FileIds : Purge(f)
  \/ \E r \in Requests : QueueChange(r)
  \/ \E r \in Requests : ClientGone(r)
  \/ Work
  \/ \E j \in JobIds : LateRequest(j)
  \/ \E j \in JobIds : QueueAlone(RetryJob(j))
  \/ \E f \in FileIds : QueueAlone(RetryFile(f))
  \/ \E j \in JobIds : QueueAlone(BackoffElapses(j))
  \/ QueueAlone(Stop)
  \/ Exited
  \/ Killed
  \/ QueueAlone(Start)

Spec == Init /\ [][Next]_vars

(* The worker goroutine runs on (its client gives up after 30 minutes,     *)
(* manager.go:141), time passes, and the supervisor starts a primary that  *)
(* is down.                                                                *)
FairSpec ==
  /\ Spec
  /\ WF_vars(Work)
  /\ WF_vars(Exited)
  /\ WF_vars(QueueAlone(Start))
  /\ \A j \in JobIds : WF_vars(QueueAlone(BackoffElapses(j)))

-----------------------------------------------------------------------------
(* Properties. *)

Owed(j) == j \in acked \ executed

(* A job the gateway was told is queued and that the replica has not       *)
(* carried out yet is on disk as unfinished, and known to the manager      *)
(* while it runs: enqueue writes before it publishes, and no kill, failed  *)
(* write or restart may drop the job or finish it unseen                   *)
(* (manager.go:213-219, 486-495).                                          *)
OwedJobsAreQueued ==
  \A j \in JobIds : Owed(j) =>
    /\ stored[j].status \in {"pending", "running", "failed"}
    /\ proc # "down" => jobs[j].status \in {"pending", "running", "failed"}

(* A job is completed only when the replica has carried out its request or *)
(* was found to have the file already (manager.go:357-453).                *)
CompletedMeansExecuted ==
  \A j \in JobIds : "completed" \in {jobs[j].status, stored[j].status} => j \in executed

(* A job the manager calls running is the one its worker is on: nothing    *)
(* else would ever finish it.  Only a failed persistJob in claimNext       *)
(* (manager.go:329-332) leaves one running without a worker.               *)
RunningHasWorker ==
  \A j \in JobIds :
    jobs[j].status = "running" => worker.job = j \/ ioErrors > 0

(* The queue is clear: nothing pending, running or failed, no handler      *)
(* between its commit and its enqueue, no request still under way.         *)
QueueClear ==
  /\ proc = "up"
  /\ \A j \in JobIds : jobs[j].status \in {"none", "completed"}
  /\ \A r \in Requests : request[r] = NoChange
  /\ late = {}

(* When the queue is clear the replica has exactly the live files of the   *)
(* primary, which is what an operator reads from it before a switch-over   *)
(* (README.md:175).                                                        *)
ClearQueueInSync ==
  QueueClear => \A f \in FileIds : (replica[f] = "live") <=> (primary[f] = "live")

(* Nothing has failed, was stopped or was retried by hand. *)
Undisturbed == ioErrors = 0 /\ retries = 0 /\ restarts = 0 /\ faults = 0 /\ hangups = 0

(* Too few changes for an upload, a delete, a restore and a second delete. *)
FewChanges(f) == changes[f] < 4

(* Where the queue does keep a file in step, whatever becomes of the other *)
(* files: whatever order the handlers queue its changes in and the worker  *)
(* takes the jobs in, a delete that reaches the replica before its upload, *)
(* or a restore before its delete, is made good by a later attempt         *)
(* (manager.go:319).                                                       *)
UndisturbedQueueInSync ==
  Undisturbed /\ QueueClear =>
    \A f \in FileIds : FewChanges(f) => ((replica[f] = "live") <=> (primary[f] = "live"))

Settled(j) == jobs[j].status = "completed" \/ (jobs[j].status = "failed" /\ jobs[j].attempts = MaxAttempts)

(* Left running by a failed persistJob in claimNext: RunningHasWorker.     *)
Stranded(j) == jobs[j].status = "running" /\ worker.job # j /\ ioErrors > 0

(* Every queued job comes to its end: it completes, or it has used up its  *)
(* attempts and waits for a manual retry.  Backoff, restarts, a Retry      *)
(* beside the attempt and a worker that takes jobs in any order must not   *)
(* starve one; only a failed persistJob in claimNext may strand it.        *)
JobsSettle ==
  \A j \in JobIds :
    jobs[j].status \in {"pending", "running"} ~> Settled(j) \/ Stranded(j)

=============================================================================
