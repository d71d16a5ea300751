-------------------------- MODULE ReplicationQueue --------------------------
(***************************************************************************)
(* pkg/replication.Manager: the durable queue of jobs a primary keeps for  *)
(* its replica.  A job is named by its operation and its file              *)
(* (manager.go:194), so there is at most one job of each name; jobs is the *)
(* map in memory, stored what jobsDir holds.  Every operation here is one  *)
(* critical section of m.mu; what the one worker does between its two      *)
(* critical sections is in Replication.                                    *)
(*                                                                         *)
(* Time is abstracted to whether NextAttemptAt is still ahead.  The wake   *)
(* channel is left out: the ticker of worker() brings the same call, so a  *)
(* signal only makes it earlier.                                           *)
(***************************************************************************)
EXTENDS Integers, FiniteSets

CONSTANTS FileIds,      \* ids of the primary's files
          MaxAttempts,  \* XION_REPLICATION_MAX_ATTEMPTS
          MaxIOErrors,  \* bound: calls of persistJob that fail
          MaxRetries,   \* bound: manual retries
          MaxRestarts   \* bound: kills and orderly stops of the primary

ASSUME QueueAssumption ==
  /\ MaxAttempts \in Nat \ {0}
  /\ MaxIOErrors \in Nat
  /\ MaxRetries \in Nat
  /\ MaxRestarts \in Nat

VARIABLES
  proc,      \* the primary: "up", "stopping" once Close cancelled the worker, "down"
  jobs,      \* Manager.jobs
  stored,    \* the manifests in jobsDir
  worker,    \* the one worker goroutine: where it is, its job, how that went
  ioErrors,  \* failed calls of persistJob so far
  retries,   \* manual retries so far
  restarts,  \* kills and stops so far
  acked      \* ghost: jobs whose enqueue returned without an error

queueVars == <<proc, jobs, stored, worker, ioErrors, retries, restarts, acked>>

Operations == {"upload", "delete", "restore"}
JobIds == Operations \X FileIds

OperationOf(j) == j[1]
FileOf(j) == j[2]

Statuses == {"none", "pending", "running", "failed", "completed"}
Job == [status : Statuses, attempts : 0..MaxAttempts, backoff : BOOLEAN]

NoJob    == [status |-> "none", attempts |-> 0, backoff |-> FALSE]
FreshJob == [status |-> "pending", attempts |-> 0, backoff |-> FALSE]

Pcs == {"select", "source", "check", "send", "finish"}
Worker == [pc : Pcs, job : JobIds \cup {<<>>}, ok : BOOLEAN]
Waiting == [pc |-> "select", job |-> <<>>, ok |-> FALSE]
At(pc) == worker.pc = pc
GoTo(pc) == worker' = [worker EXCEPT !.pc = pc]
Result(ok) == worker' = [worker EXCEPT !.pc = "finish", !.ok = ok]

QueueTypeOK ==
  /\ proc \in {"up", "stopping", "down"}
  /\ jobs \in [JobIds -> Job]
  /\ stored \in [JobIds -> Job]
  /\ worker \in Worker
  /\ ioErrors \in 0..MaxIOErrors
  /\ retries \in 0..MaxRetries
  /\ restarts \in 0..MaxRestarts
  /\ acked \in SUBSET JobIds

-----------------------------------------------------------------------------
(* persistJob: a temporary file renamed over the manifest, then a sync of  *)
(* the directory.  A failure of the sync comes after the rename.           *)

Save(newStored) == stored' = newStored /\ UNCHANGED ioErrors

SaveFails(newStored) ==
  /\ ioErrors < MaxIOErrors
  /\ ioErrors' = ioErrors + 1
  /\ stored' \in {stored, newStored}

-----------------------------------------------------------------------------
\* Mutant: the failed write is logged and the job handed to the worker all the same.
EnqueueUnsaved(j) ==
  IF jobs[j].status \in {"none", "failed"}
  THEN /\ Save([stored EXCEPT ![j] = FreshJob]) \/ SaveFails([stored EXCEPT ![j] = FreshJob])
       /\ jobs' = [jobs EXCEPT ![j] = FreshJob]
       /\ acked' = acked \cup {j}
  ELSE acked' = acked \cup {j} /\ UNCHANGED <<jobs, stored, ioErrors>>

(* enqueue: a new job, or a failed one put back; any other job is left as  *)
(* it is and the caller is told it is queued.                              *)

Enqueue(j) ==
  \/ /\ jobs[j].status \in {"none", "failed"}
     /\ Save([stored EXCEPT ![j] = FreshJob])
     /\ jobs' = [jobs EXCEPT ![j] = FreshJob]
     /\ acked' = acked \cup {j}
  \/ /\ jobs[j].status \in {"none", "failed"}
     /\ SaveFails([stored EXCEPT ![j] = FreshJob])
     /\ UNCHANGED <<jobs, acked>>
  \/ /\ jobs[j].status \notin {"none", "failed"}
     /\ acked' = acked \cup {j}
     /\ UNCHANGED <<jobs, stored, ioErrors>>

(* Retry, by job id or by file id: back to pending whatever the status,    *)
(* running included.  By file id completed jobs are left alone, and the    *)
(* loop stops at the first manifest it cannot write.                       *)

RetryTargets(targets) ==
  LET Put(old, S) == [j \in JobIds |-> IF j \in S THEN FreshJob ELSE old[j]]
  IN  /\ proc = "up"
      /\ targets # {}
      /\ retries < MaxRetries
      /\ retries' = retries + 1
      /\ \/ /\ Save(Put(stored, targets))
            /\ jobs' = Put(jobs, targets)
         \/ \E S \in SUBSET targets, x \in targets :
              /\ x \notin S
              /\ ioErrors < MaxIOErrors
              /\ ioErrors' = ioErrors + 1
              /\ stored' \in {Put(stored, S), Put(stored, S \cup {x})}
              /\ jobs' = Put(jobs, S)
      /\ UNCHANGED <<proc, worker, restarts, acked>>

RetryJob(j) == jobs[j].status # "none" /\ RetryTargets({j})

RetryFile(f) ==
  RetryTargets({j \in JobIds : FileOf(j) = f /\ jobs[j].status \notin {"none", "completed"}})

-----------------------------------------------------------------------------
(* The worker's two critical sections. *)

FirstStep(j) == IF OperationOf(j) = "upload" THEN "source" ELSE "send"

(* claimNext: any job that is due, in the order of a Go map.  The map says *)
(* running before the manifest is written, and still does if that fails.   *)
ClaimNext(j) ==
  LET claimed == [jobs[j] EXCEPT !.status = "running"]
  IN  /\ proc # "down"
      /\ At("select")
      /\ jobs[j].status \in {"pending", "failed"}
      /\ jobs[j].attempts < MaxAttempts
      /\ ~jobs[j].backoff
      /\ jobs' = [jobs EXCEPT ![j] = claimed]
      /\ \/ /\ Save([stored EXCEPT ![j] = claimed])
            /\ worker' = [pc |-> FirstStep(j), job |-> j, ok |-> FALSE]
         \/ /\ SaveFails([stored EXCEPT ![j] = claimed])
            /\ UNCHANGED worker
      /\ UNCHANGED <<proc, retries, restarts, acked>>

\* Mutant: a failed attempt is not counted.
FinishUncounted ==
  LET j == worker.job
      finished == IF worker.ok THEN [jobs[j] EXCEPT !.status = "completed"]
                  ELSE [jobs[j] EXCEPT !.status = "failed", !.backoff = TRUE]
  IN  /\ At("finish")
      /\ jobs' = [jobs EXCEPT ![j] = finished]
      /\ Save([stored EXCEPT ![j] = finished])
      /\ worker' = Waiting
      /\ UNCHANGED <<proc, retries, restarts, acked>>

(* The second half of ProcessPending: the outcome is written over whatever *)
(* the map says of the job by now, a Retry's pending included.             *)
Finish ==
  LET j == worker.job
      finished ==
        IF worker.ok
        THEN [jobs[j] EXCEPT !.status = "completed"]
        ELSE [status |-> "failed", attempts |-> jobs[j].attempts + 1, backoff |-> TRUE]
  IN  /\ At("finish")
      /\ jobs' = [jobs EXCEPT ![j] = finished]
      /\ Save([stored EXCEPT ![j] = finished]) \/ SaveFails([stored EXCEPT ![j] = finished])
      /\ worker' = Waiting
      /\ UNCHANGED <<proc, retries, restarts, acked>>

(* NextAttemptAt passes, on disk as in memory. *)
BackoffElapses(j) ==
  /\ jobs[j].backoff \/ stored[j].backoff
  /\ jobs' = [jobs EXCEPT ![j].backoff = FALSE]
  /\ stored' = [stored EXCEPT ![j].backoff = FALSE]
  /\ UNCHANGED <<proc, worker, ioErrors, retries, restarts, acked>>

-----------------------------------------------------------------------------
(* Close, the end of the process, and loadJobs at the next start. *)

Stop ==
  /\ proc = "up"
  /\ restarts < MaxRestarts
  /\ restarts' = restarts + 1
  /\ proc' = "stopping"
  /\ UNCHANGED <<jobs, stored, worker, ioErrors, retries, acked>>

ProcessEnds ==
  /\ proc' = "down"
  /\ jobs' = [j \in JobIds |-> NoJob]
  /\ worker' = Waiting
  /\ UNCHANGED <<stored, ioErrors, retries, acked>>

Exit == proc = "stopping" /\ At("select") /\ ProcessEnds /\ UNCHANGED restarts

Kill ==
  /\ proc # "down"
  /\ restarts < MaxRestarts
  /\ restarts' = restarts + 1
  /\ ProcessEnds

Interrupted == {j \in JobIds : stored[j].status = "running"}

\* Mutant: jobs a dead process was running are loaded as they are.
RequeuedNothing(S) == stored

(* loadJobs makes the running jobs pending again, manifest by manifest, and *)
(* gives up at the first one it cannot write; the supervisor starts again. *)
Requeued(S) == [j \in JobIds |-> IF j \in S THEN [stored[j] EXCEPT !.status = "pending"] ELSE stored[j]]

Start ==
  /\ proc = "down"
  /\ \/ /\ Save(Requeued(Interrupted))
        /\ jobs' = Requeued(Interrupted)
        /\ proc' = "up"
     \/ \E S \in SUBSET Interrupted :
          /\ Interrupted # {}
          /\ ioErrors < MaxIOErrors
          /\ ioErrors' = ioErrors + 1
          /\ stored' = Requeued(S)
          /\ UNCHANGED <<jobs, proc>>
  /\ UNCHANGED <<worker, retries, restarts, acked>>

QueueInit ==
  /\ proc = "up"
  /\ jobs = [j \in JobIds |-> NoJob]
  /\ stored = [j \in JobIds |-> NoJob]
  /\ worker = Waiting
  /\ ioErrors = 0
  /\ retries = 0
  /\ restarts = 0
  /\ acked = {}

=============================================================================
