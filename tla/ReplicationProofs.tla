------------------------- MODULE ReplicationProofs --------------------------
(***************************************************************************)
(* Proofs about Replication: types, that an acknowledged job is not lost,  *)
(* that a completed one was carried out, that a running one has a worker,  *)
(* and that an undisturbed queue leaves the replica in step, for any       *)
(* number of files, handlers, attempts, faults and kills.                  *)
(***************************************************************************)
EXTENDS Replication, TLAPS

(* The worker waits, or is on a job that is still open and may be tried    *)
(* again; a result that is a success stands for a request carried out.     *)
WorkerOK ==
  /\ worker.job = <<>> <=> At("select")
  /\ proc = "down" => At("select")
  /\ ~At("select") =>
       /\ jobs[worker.job].status \in {"pending", "running"}
       /\ jobs[worker.job].attempts < MaxAttempts
  /\ worker.ok => worker.job \in executed

(* What the manager knows is on disk, and an acknowledged job is in both.  *)
KnownIsStored == \A j \in JobIds : jobs[j].status # "none" => stored[j].status # "none"

AckedIsKnown ==
  \A j \in acked : stored[j].status # "none" /\ (proc # "down" => jobs[j].status # "none")

QueueInv ==
  /\ TypeOK
  /\ WorkerOK
  /\ KnownIsStored
  /\ AckedIsKnown
  /\ CompletedMeansExecuted
  /\ RunningHasWorker

-----------------------------------------------------------------------------
(* A job id is a pair, the absence of one is not. *)
LEMMA EmptyIsNoJob == <<>> \notin JobIds
BY DEF JobIds

LEMMA RecordTypes ==
  /\ NoJob \in Job /\ FreshJob \in Job /\ Waiting \in Worker
  /\ \A job \in Job, status \in Statuses : [job EXCEPT !.status = status] \in Job
BY QueueAssumption DEF NoJob, FreshJob, Waiting, Job, Statuses, Worker, Pcs

LEMMA InitialInv == Init => QueueInv
<1> SUFFICES ASSUME Init PROVE QueueInv
  OBVIOUS
<1> USE DEF Init, QueueInit
<1>1. TypeOK
  BY RecordTypes, QueueAssumption, ReplicationAssumption DEF TypeOK, QueueTypeOK, FileStates
<1>2. WorkerOK
  BY DEF WorkerOK, Waiting, At
<1>3. KnownIsStored /\ AckedIsKnown /\ CompletedMeansExecuted /\ RunningHasWorker
  BY DEF KnownIsStored, AckedIsKnown, CompletedMeansExecuted, RunningHasWorker, NoJob
<1> QED
  BY <1>1, <1>2, <1>3 DEF QueueInv

-----------------------------------------------------------------------------
(* Steps that leave the queue's own variables alone. *)

LEMMA CarriedTypes ==
  ASSUME NEW store \in [FileIds -> FileStates], NEW j \in JobIds
  PROVE  Carried(store, j) \in [FileIds -> FileStates]
BY DEF Carried, FileStates, To, JobIds, FileOf

(* The gateway's commits and the ends of handlers whose client is gone, and *)
(* late requests: at most a job more is executed.                          *)
LEMMA BesideTheQueue ==
  ASSUME QueueInv, TypeOK', UNCHANGED queueVars, executed \subseteq executed'
  PROVE  QueueInv'
<1> USE DEF QueueInv, queueVars
<1>1. WorkerOK'
  BY DEF WorkerOK, At
<1>2. KnownIsStored' /\ AckedIsKnown' /\ RunningHasWorker'
  BY DEF KnownIsStored, AckedIsKnown, RunningHasWorker
<1>3. CompletedMeansExecuted'
  BY DEF CompletedMeansExecuted
<1> QED
  BY <1>1, <1>2, <1>3

LEMMA GatewaySteps ==
  ASSUME QueueInv,
         \/ \E r \in Requests, j \in JobIds : Commit(r, j)
         \/ \E f \in FileIds : Purge(f)
         \/ \E r \in Requests : ClientGone(r)
  PROVE  QueueInv'
<1> USE DEF QueueInv, TypeOK
<1>1. CASE \E r \in Requests, j \in JobIds : Commit(r, j)
  <2> PICK r \in Requests, j \in JobIds : Commit(r, j)
    BY <1>1
  <2>1. Carried(primary, j) \in [FileIds -> FileStates]
    BY CarriedTypes
  <2>0. changes' \in [FileIds -> 0..MaxChanges]
    <3>1. FileOf(j) \in FileIds /\ changes[FileOf(j)] \in 0..MaxChanges /\ changes[FileOf(j)] < MaxChanges
      BY DEF Commit, JobIds, FileOf
    <3> QED BY <3>1, ReplicationAssumption DEF Commit
  <2>2. TypeOK'
    BY <2>0, <2>1 DEF Commit, queueVars, QueueTypeOK
  <2> QED
    BY <2>2, BesideTheQueue DEF Commit
<1>2. CASE \E f \in FileIds : Purge(f)
  <2>1. TypeOK'
    BY <1>2, ReplicationAssumption DEF Purge, queueVars, QueueTypeOK, FileStates
  <2> QED
    BY <1>2, <2>1, BesideTheQueue DEF Purge
<1>3. CASE \E r \in Requests : ClientGone(r)
  <2>1. TypeOK'
    BY <1>3, ReplicationAssumption DEF ClientGone, HandlerReturns, queueVars, QueueTypeOK
  <2> QED
    BY <1>3, <2>1, BesideTheQueue DEF ClientGone, HandlerReturns
<1> QED
  BY <1>1, <1>2, <1>3

LEMMA LateSteps ==
  ASSUME QueueInv, NEW j \in JobIds, LateRequest(j)
  PROVE  QueueInv'
<1> USE DEF QueueInv, TypeOK
<1>1. Carried(replica, j) \in [FileIds -> FileStates]
  BY CarriedTypes
<1>2. TypeOK'
  BY <1>1 DEF LateRequest, Serve, queueVars, QueueTypeOK
<1> QED
  BY <1>2, BesideTheQueue DEF LateRequest, Serve

-----------------------------------------------------------------------------
(* The worker on its way through execute().                                *)

LEMMA JobOfWorker ==
  ASSUME QueueInv, ~At("select")
  PROVE  worker.job \in JobIds
BY DEF QueueInv, TypeOK, QueueTypeOK, Worker, WorkerOK

(* Such a step changes of the queue the worker only: it stays on its job,  *)
(* and reports success only of a request carried out.                      *)
LEMMA BetweenSections ==
  ASSUME QueueInv, TypeOK', UNCHANGED restOfQueue, executed \subseteq executed',
         ~At("select"), ~At("select")', worker'.job = worker.job,
         worker'.ok => worker.job \in executed'
  PROVE  QueueInv'
<1> USE DEF QueueInv, restOfQueue
<1>1. WorkerOK'
  BY DEF WorkerOK, At
<1>2. KnownIsStored' /\ AckedIsKnown' /\ RunningHasWorker'
  BY DEF KnownIsStored, AckedIsKnown, RunningHasWorker
<1>3. CompletedMeansExecuted'
  BY DEF CompletedMeansExecuted
<1> QED
  BY <1>1, <1>2, <1>3

LEMMA OpenSourceStep ==
  ASSUME QueueInv, OpenSource
  PROVE  QueueInv'
<1> USE DEF QueueInv, TypeOK, QueueTypeOK
<1>1. ~At("select") /\ worker.job \in JobIds
  BY JobOfWorker DEF OpenSource, At
<1>2. worker' \in Worker /\ worker'.pc \in {"check", "finish"} /\ worker'.job = worker.job
      /\ (worker'.ok => worker.ok)
  BY DEF OpenSource, GoTo, Result, Worker, Pcs
<1>3. TypeOK'
  BY <1>2 DEF OpenSource, restOfQueue, pairVars
<1> QED
  BY <1>1, <1>2, <1>3, BetweenSections DEF OpenSource, pairVars, At, WorkerOK

LEMMA CheckRemoteStep ==
  ASSUME QueueInv, CheckRemote
  PROVE  QueueInv'
<1> USE DEF QueueInv, TypeOK, QueueTypeOK
<1>1. ~At("select") /\ worker.job \in JobIds
  BY JobOfWorker DEF CheckRemote, At
<1>2. worker' \in Worker /\ worker'.pc \in {"send", "finish"} /\ worker'.job = worker.job
      /\ (worker'.ok => worker.job \in executed')
  BY DEF CheckRemote, GoTo, Result, Worker, Pcs, WorkerOK
<1>3. executed \subseteq executed' /\ executed' \subseteq JobIds
  BY <1>1 DEF CheckRemote
<1>4. TypeOK'
  BY <1>2, <1>3 DEF CheckRemote, restOfQueue
<1> QED
  BY <1>1, <1>2, <1>3, <1>4, BetweenSections DEF CheckRemote, At

LEMMA SendStep ==
  ASSUME QueueInv, Send
  PROVE  QueueInv'
<1> USE DEF QueueInv, TypeOK, QueueTypeOK
<1>1. ~At("select") /\ worker.job \in JobIds
  BY JobOfWorker DEF Send, At
<1>2. worker' \in Worker /\ worker'.pc = "finish" /\ worker'.job = worker.job
      /\ worker'.ok = Accepted(worker.job)
  BY DEF Send, Result, Worker, Pcs, Accepted
<1>3. /\ executed \subseteq executed' /\ executed' \subseteq JobIds
      /\ Accepted(worker.job) => worker.job \in executed'
  BY <1>1 DEF Send, Serve
<1>4. replica' \in [FileIds -> FileStates]
  BY <1>1, CarriedTypes DEF Send, Serve
<1>5. TypeOK'
  BY <1>2, <1>3, <1>4 DEF Send, restOfQueue
<1> QED
  BY <1>1, <1>2, <1>3, <1>5, BetweenSections DEF Send, At

LEMMA RequestFailsStep ==
  ASSUME QueueInv, RequestFails
  PROVE  QueueInv'
<1> USE DEF QueueInv, TypeOK, QueueTypeOK
<1>1. ~At("select") /\ worker.job \in JobIds
  BY JobOfWorker DEF RequestFails, At
<1>2. worker' \in Worker /\ worker'.pc = "finish" /\ worker'.job = worker.job /\ ~worker'.ok
  BY DEF RequestFails, Result, Worker, Pcs
<1>3. late' \subseteq JobIds
  BY <1>1 DEF RequestFails, InFlight
<1>4. faults' \in 0..MaxFaults
  BY ReplicationAssumption DEF RequestFails
<1>5. TypeOK'
  BY <1>2, <1>3, <1>4 DEF RequestFails, restOfQueue
<1> QED
  BY <1>1, <1>2, <1>5, BetweenSections DEF RequestFails, At

-----------------------------------------------------------------------------
(* Steps of the queue.  The variables of the pair stay as they are, or     *)
(* change within their types.                                              *)

(* What a failed or successful persistJob leaves on disk and counts. *)
LEMMA SaveTypes ==
  ASSUME QueueInv, NEW new \in [JobIds -> Job], Save(new) \/ SaveFails(new)
  PROVE  /\ stored' \in [JobIds -> Job] /\ stored' \in {stored, new}
         /\ ioErrors' \in 0..MaxIOErrors /\ ioErrors' >= ioErrors
BY QueueAssumption DEF QueueInv, TypeOK, QueueTypeOK, Save, SaveFails

LEMMA QueueChangeStep ==
  ASSUME QueueInv, NEW r \in Requests, QueueChange(r)
  PROVE  QueueInv'
<1> DEFINE j == request[r]
<1> USE DEF QueueInv, TypeOK, QueueTypeOK
<1>1. j \in JobIds
  BY DEF QueueChange, HandlerReturns
<1>2. request' \in [Requests -> JobIds \cup {NoChange}]
  BY DEF QueueChange, HandlerReturns
<1>3. CASE jobs[j].status \notin {"none", "failed"}
  <2>1. acked' = acked \cup {j} /\ UNCHANGED <<proc, jobs, stored, worker, ioErrors, executed>>
    BY <1>3 DEF QueueChange, HandlerReturns, Enqueue
  <2>2. TypeOK'
    BY <1>1, <1>2, <2>1 DEF QueueChange, HandlerReturns
  <2>3. WorkerOK'
    BY <2>1 DEF WorkerOK, At
  <2>4. AckedIsKnown'
    BY <1>1, <1>3, <2>1 DEF AckedIsKnown, KnownIsStored
  <2>5. KnownIsStored' /\ CompletedMeansExecuted' /\ RunningHasWorker'
    BY <2>1 DEF KnownIsStored, CompletedMeansExecuted, RunningHasWorker
  <2> QED
    BY <2>2, <2>3, <2>4, <2>5
<1>4. CASE jobs[j].status \in {"none", "failed"}
  <2> DEFINE saved == [stored EXCEPT ![j] = FreshJob]
             put   == [jobs EXCEPT ![j] = FreshJob]
  <2>1. saved \in [JobIds -> Job] /\ put \in [JobIds -> Job]
    BY <1>1, RecordTypes
  <2>2. /\ UNCHANGED <<proc, worker, executed, retries, restarts>>
        /\ \/ Save(saved) /\ jobs' = put /\ acked' = acked \cup {j}
           \/ SaveFails(saved) /\ UNCHANGED <<jobs, acked>>
    BY <1>4 DEF QueueChange, HandlerReturns, Enqueue
  <2>3. /\ stored' \in [JobIds -> Job] /\ stored' \in {stored, saved}
        /\ ioErrors' \in 0..MaxIOErrors /\ ioErrors' >= ioErrors
    BY <2>1, <2>2, SaveTypes
  <2>4. TypeOK'
    BY <1>1, <1>2, <2>1, <2>2, <2>3 DEF QueueChange, HandlerReturns
  <2>5. jobs' \in {jobs, put} /\ (jobs' # jobs => stored' = saved)
    BY <2>2 DEF Save
  <2>6. FreshJob.status = "pending"
    BY DEF FreshJob
  <2>7. WorkerOK'
    <3>1. ~At("select") => worker.job \in JobIds /\ worker.job # j
      BY <1>4, JobOfWorker DEF WorkerOK
    <3> QED
      BY <2>2, <2>5, <3>1 DEF WorkerOK, At
  <2>8. KnownIsStored'
    BY <1>1, <2>3, <2>5, <2>6 DEF KnownIsStored
  <2>9. AckedIsKnown'
    <3>1. CASE Save(saved) /\ jobs' = put /\ acked' = acked \cup {j}
      BY <1>1, <2>2, <2>6, <3>1 DEF AckedIsKnown, Save
    <3>2. CASE SaveFails(saved) /\ UNCHANGED <<jobs, acked>>
      BY <1>1, <2>2, <2>3, <2>6, <3>2 DEF AckedIsKnown
    <3> QED
      BY <2>2, <3>1, <3>2
  <2>10. CompletedMeansExecuted'
    BY <1>1, <2>2, <2>3, <2>5, <2>6 DEF CompletedMeansExecuted
  <2>11. RunningHasWorker'
    BY <1>1, <2>2, <2>3, <2>5, <2>6 DEF RunningHasWorker
  <2> QED
    BY <2>4, <2>7, <2>8, <2>9, <2>10, <2>11
<1> QED
  BY <1>3, <1>4

(* A retry puts fresh jobs over some: in memory only where it also did on  *)
(* disk.                                                                   *)
LEMMA RetryStep ==
  ASSUME QueueInv, NEW targets \in SUBSET JobIds, RetryTargets(targets), UNCHANGED pairVars
  PROVE  QueueInv'
<1> DEFINE Put(old, S) == [j \in JobIds |-> IF j \in S THEN FreshJob ELSE old[j]]
<1> USE DEF QueueInv, TypeOK, QueueTypeOK
<1>1. PICK S \in SUBSET JobIds, T \in SUBSET JobIds :
        S \subseteq T /\ jobs' = Put(jobs, S) /\ stored' = Put(stored, T)
  <2>1. CASE Save(Put(stored, targets)) /\ jobs' = Put(jobs, targets)
    BY <2>1 DEF Save
  <2>2. CASE \E S \in SUBSET targets, x \in targets :
               /\ stored' \in {Put(stored, S), Put(stored, S \cup {x})}
               /\ jobs' = Put(jobs, S)
    <3> PICK S \in SUBSET targets, x \in targets :
               /\ stored' \in {Put(stored, S), Put(stored, S \cup {x})}
               /\ jobs' = Put(jobs, S)
      BY <2>2
    <3>1. S \in SUBSET JobIds /\ S \cup {x} \in SUBSET JobIds
      OBVIOUS
    <3>2. CASE stored' = Put(stored, S)
      BY <3>1, <3>2
    <3>3. CASE stored' = Put(stored, S \cup {x})
      BY <3>1, <3>3
    <3> QED
      BY <3>2, <3>3
  <2> QED
    BY <2>1, <2>2 DEF RetryTargets
<1>2. \A j \in JobIds :
        /\ jobs'[j] = IF j \in S THEN FreshJob ELSE jobs[j]
        /\ stored'[j] = IF j \in T THEN FreshJob ELSE stored[j]
  BY <1>1
<1>3. FreshJob.status = "pending" /\ FreshJob.attempts = 0
  BY DEF FreshJob
<1>4. /\ UNCHANGED <<proc, worker, restarts, acked, executed>>
      /\ ioErrors' \in 0..MaxIOErrors /\ ioErrors' >= ioErrors /\ retries' \in 0..MaxRetries
  BY QueueAssumption DEF RetryTargets, Save, pairVars
<1>5. TypeOK'
  <2>1. jobs' \in [JobIds -> Job] /\ stored' \in [JobIds -> Job]
    BY <1>1, RecordTypes
  <2> QED
    BY <1>4, <2>1 DEF pairVars
<1>6. WorkerOK'
  BY <1>2, <1>3, <1>4, JobOfWorker, QueueAssumption DEF WorkerOK, At
<1>7. KnownIsStored'
  BY <1>1, <1>2, <1>3 DEF KnownIsStored
<1>8. AckedIsKnown'
  BY <1>2, <1>3, <1>4 DEF AckedIsKnown
<1>9. CompletedMeansExecuted'
  BY <1>2, <1>3, <1>4 DEF CompletedMeansExecuted
<1>10. RunningHasWorker'
  BY <1>2, <1>3, <1>4 DEF RunningHasWorker
<1> QED
  BY <1>5, <1>6, <1>7, <1>8, <1>9, <1>10

LEMMA ClaimNextStep ==
  ASSUME QueueInv, NEW j \in JobIds, ClaimNext(j), UNCHANGED pairVars
  PROVE  QueueInv'
<1> DEFINE claimed == [jobs[j] EXCEPT !.status = "running"]
           onJob   == [pc |-> FirstStep(j), job |-> j, ok |-> FALSE]
<1> USE DEF QueueInv, TypeOK, QueueTypeOK
<1>0. \A job \in Job : /\ [job EXCEPT !.status = "running"] \in Job
                       /\ [job EXCEPT !.status = "running"].status = "running"
                       /\ [job EXCEPT !.status = "running"].attempts = job.attempts
  BY RecordTypes DEF Statuses, Job
<1>1. claimed \in Job /\ claimed.status = "running" /\ claimed.attempts = jobs[j].attempts
  BY <1>0
<1>2. /\ UNCHANGED <<proc, retries, restarts, acked, executed>>
      /\ At("select") /\ proc # "down" /\ jobs[j].attempts < MaxAttempts
      /\ jobs[j].status \in {"pending", "failed"}
      /\ jobs' = [jobs EXCEPT ![j] = claimed]
  BY DEF ClaimNext, pairVars
<1>3. \/ Save([stored EXCEPT ![j] = claimed]) /\ worker' = onJob
      \/ SaveFails([stored EXCEPT ![j] = claimed]) /\ worker' = worker
  BY DEF ClaimNext
<1>4. /\ stored' \in [JobIds -> Job] /\ stored' \in {stored, [stored EXCEPT ![j] = claimed]}
      /\ ioErrors' \in 0..MaxIOErrors /\ ioErrors' >= ioErrors
  BY <1>1, <1>3, SaveTypes
<1>5. onJob \in Worker /\ onJob.pc # "select" /\ onJob.job = j /\ ~onJob.ok
  BY DEF Worker, FirstStep, Pcs
<1>6. TypeOK'
  BY <1>1, <1>2, <1>3, <1>4, <1>5 DEF pairVars
<1>7. WorkerOK'
  BY <1>1, <1>2, <1>3, <1>5, EmptyIsNoJob DEF WorkerOK, At
<1>8. KnownIsStored'
  BY <1>1, <1>2, <1>4 DEF KnownIsStored
<1>9. AckedIsKnown'
  BY <1>1, <1>2, <1>4 DEF AckedIsKnown
<1>10. CompletedMeansExecuted'
  BY <1>1, <1>2, <1>4 DEF CompletedMeansExecuted
<1>11. RunningHasWorker'
  <2>1. CASE Save([stored EXCEPT ![j] = claimed]) /\ worker' = onJob
    <3>1. \A i \in JobIds : i # j /\ jobs[i].status = "running" => ioErrors > 0
      BY <1>2, EmptyIsNoJob DEF RunningHasWorker, WorkerOK
    <3> QED
      BY <1>2, <1>4, <1>5, <2>1, <3>1 DEF RunningHasWorker
  <2>2. CASE SaveFails([stored EXCEPT ![j] = claimed]) /\ worker' = worker
    BY <2>2, QueueAssumption DEF RunningHasWorker, SaveFails
  <2> QED
    BY <1>3, <2>1, <2>2
<1> QED
  BY <1>6, <1>7, <1>8, <1>9, <1>10, <1>11

LEMMA FinishStep ==
  ASSUME QueueInv, Finish, UNCHANGED pairVars
  PROVE  QueueInv'
<1> DEFINE j == worker.job
           finished ==
             IF worker.ok
             THEN [jobs[j] EXCEPT !.status = "completed"]
             ELSE [status |-> "failed", attempts |-> jobs[j].attempts + 1, backoff |-> TRUE]
<1> USE DEF QueueInv, TypeOK, QueueTypeOK
<1>1. j \in JobIds /\ jobs[j].attempts < MaxAttempts /\ jobs[j].status \in {"pending", "running"}
      /\ proc # "down"
  BY JobOfWorker DEF Finish, At, WorkerOK
<1>2. finished \in Job /\ finished.status \in {"completed", "failed"}
      /\ (finished.status = "completed" => j \in executed)
  <2>1. CASE worker.ok
    BY <1>1, <2>1 DEF Job, Statuses, WorkerOK
  <2>2. CASE ~worker.ok
    <3>1. jobs[j].attempts + 1 \in 0..MaxAttempts
      BY <1>1, QueueAssumption DEF Job
    <3> QED
      BY <2>2, <3>1 DEF Job, Statuses
  <2> QED
    BY <2>1, <2>2
<1>3. /\ UNCHANGED <<proc, retries, restarts, acked, executed>>
      /\ jobs' = [jobs EXCEPT ![j] = finished] /\ worker' = Waiting
      /\ (Save([stored EXCEPT ![j] = finished]) \/ SaveFails([stored EXCEPT ![j] = finished]))
  BY DEF Finish, pairVars
<1>4. /\ stored' \in [JobIds -> Job] /\ stored' \in {stored, [stored EXCEPT ![j] = finished]}
      /\ ioErrors' \in 0..MaxIOErrors /\ ioErrors' >= ioErrors
  <2> HIDE DEF finished
  <2>1. [stored EXCEPT ![j] = finished] \in [JobIds -> Job]
    BY <1>1, <1>2
  <2> QED
    BY <1>3, <2>1, SaveTypes
<1> HIDE DEF finished
<1>5. TypeOK'
  BY <1>1, <1>2, <1>3, <1>4, RecordTypes DEF pairVars
<1>6. WorkerOK'
  BY <1>3 DEF WorkerOK, Waiting, At
<1>7. KnownIsStored'
  BY <1>1, <1>2, <1>3, <1>4 DEF KnownIsStored
<1>8. AckedIsKnown'
  BY <1>1, <1>2, <1>3, <1>4 DEF AckedIsKnown
<1>9. CompletedMeansExecuted'
  BY <1>1, <1>2, <1>3, <1>4 DEF CompletedMeansExecuted
<1>10. RunningHasWorker'
  BY <1>1, <1>2, <1>3, <1>4 DEF RunningHasWorker
<1> QED
  BY <1>5, <1>6, <1>7, <1>8, <1>9, <1>10

LEMMA BackoffStep ==
  ASSUME QueueInv, NEW j \in JobIds, BackoffElapses(j), UNCHANGED pairVars
  PROVE  QueueInv'
<1> USE DEF QueueInv, TypeOK, QueueTypeOK
<1>1. /\ jobs' = [jobs EXCEPT ![j] = [jobs[j] EXCEPT !.backoff = FALSE]]
      /\ stored' = [stored EXCEPT ![j] = [stored[j] EXCEPT !.backoff = FALSE]]
      /\ UNCHANGED <<proc, worker, ioErrors, retries, restarts, acked, executed>>
  BY DEF BackoffElapses, pairVars
<1>2. \A job \in Job :
        /\ [job EXCEPT !.backoff = FALSE] \in Job
        /\ [job EXCEPT !.backoff = FALSE].status = job.status
        /\ [job EXCEPT !.backoff = FALSE].attempts = job.attempts
  BY DEF Job
<1>3. jobs' \in [JobIds -> Job] /\ stored' \in [JobIds -> Job]
  BY <1>1, <1>2
<1>4. \A i \in JobIds :
        /\ jobs'[i].status = jobs[i].status /\ jobs'[i].attempts = jobs[i].attempts
        /\ stored'[i].status = stored[i].status
  BY <1>1, <1>2
<1>5. TypeOK'
  BY <1>1, <1>3 DEF pairVars
<1>6. WorkerOK'
  BY <1>1, <1>4, JobOfWorker DEF WorkerOK, At
<1>7. KnownIsStored' /\ AckedIsKnown' /\ CompletedMeansExecuted' /\ RunningHasWorker'
  BY <1>1, <1>4 DEF KnownIsStored, AckedIsKnown, CompletedMeansExecuted, RunningHasWorker
<1> QED
  BY <1>5, <1>6, <1>7

-----------------------------------------------------------------------------
(* The process ends and starts. *)

LEMMA StopStep ==
  ASSUME QueueInv, Stop, UNCHANGED pairVars
  PROVE  QueueInv'
<1> USE DEF QueueInv, TypeOK, QueueTypeOK
<1>1. proc = "up" /\ proc' = "stopping" /\ restarts' \in 0..MaxRestarts
      /\ UNCHANGED <<jobs, stored, worker, ioErrors, retries, acked, executed>>
  BY QueueAssumption DEF Stop, pairVars
<1>2. TypeOK'
  BY <1>1 DEF pairVars
<1>3. WorkerOK' /\ KnownIsStored' /\ AckedIsKnown' /\ CompletedMeansExecuted' /\ RunningHasWorker'
  BY <1>1 DEF WorkerOK, At, KnownIsStored, AckedIsKnown, CompletedMeansExecuted, RunningHasWorker
<1> QED
  BY <1>2, <1>3

(* The manager's map is gone, the directory is not. *)
LEMMA EndStep ==
  ASSUME QueueInv, Killed \/ Exited
  PROVE  QueueInv'
<1> USE DEF QueueInv, TypeOK, QueueTypeOK
<1>1. /\ proc' = "down" /\ jobs' = [j \in JobIds |-> NoJob] /\ worker' = Waiting
      /\ UNCHANGED <<stored, ioErrors, retries, acked, executed, primary, replica, changes, faults, hangups>>
      /\ request' = [r \in Requests |-> NoChange]
  BY DEF Killed, Exited, Kill, Exit, ProcessEnds, HandlersEnd
<1>2. late' \subseteq JobIds
  BY JobOfWorker DEF Killed, Exited, InFlight, At
<1>3. restarts' \in 0..MaxRestarts
  BY QueueAssumption DEF Killed, Exited, Kill, Exit
<1>4. TypeOK'
  BY <1>1, <1>2, <1>3, RecordTypes
<1>5. WorkerOK'
  BY <1>1 DEF WorkerOK, Waiting, At
<1>6. KnownIsStored' /\ AckedIsKnown' /\ CompletedMeansExecuted' /\ RunningHasWorker'
  BY <1>1 DEF KnownIsStored, AckedIsKnown, CompletedMeansExecuted, RunningHasWorker, NoJob
<1> QED
  BY <1>4, <1>5, <1>6

LEMMA RequeuedJobs ==
  ASSUME QueueInv, NEW S \in SUBSET Interrupted
  PROVE  /\ Requeued(S) \in [JobIds -> Job]
         /\ \A j \in JobIds :
              Requeued(S)[j].status = IF j \in S THEN "pending" ELSE stored[j].status
<1>1. \A job \in Job : [job EXCEPT !.status = "pending"] \in Job
                       /\ [job EXCEPT !.status = "pending"].status = "pending"
  BY RecordTypes DEF Statuses, Job
<1>2. stored \in [JobIds -> Job]
  BY DEF QueueInv, TypeOK, QueueTypeOK
<1> QED
  BY <1>1, <1>2 DEF Requeued

LEMMA StartStep ==
  ASSUME QueueInv, Start, UNCHANGED pairVars
  PROVE  QueueInv'
<1> USE DEF QueueInv, TypeOK, QueueTypeOK
<1>0. proc = "down" /\ UNCHANGED <<worker, retries, restarts, acked, executed>>
  BY DEF Start, pairVars
<1>1. PICK S \in SUBSET Interrupted :
        /\ stored' = Requeued(S)
        /\ \/ S = Interrupted /\ jobs' = Requeued(S) /\ proc' = "up" /\ ioErrors' = ioErrors
           \/ UNCHANGED <<jobs, proc>> /\ ioErrors' = ioErrors + 1 /\ ioErrors < MaxIOErrors
  BY DEF Start, Save
<1>2. ioErrors' \in 0..MaxIOErrors /\ ioErrors' >= ioErrors
  BY <1>1, QueueAssumption
<1>3. stored' \in [JobIds -> Job]
      /\ \A j \in JobIds : stored'[j].status = IF j \in S THEN "pending" ELSE stored[j].status
  BY <1>1, RequeuedJobs
<1>4. jobs' \in [JobIds -> Job] /\ jobs' \in {jobs, stored'}
  BY <1>1, <1>3
<1>5. TypeOK'
  BY <1>0, <1>1, <1>2, <1>3, <1>4 DEF pairVars
<1>6. WorkerOK'
  BY <1>0, <1>1 DEF WorkerOK, At
<1>7. KnownIsStored'
  BY <1>3, <1>4 DEF KnownIsStored
<1>8. AckedIsKnown'
  BY <1>0, <1>1, <1>3 DEF AckedIsKnown
<1>9. CompletedMeansExecuted'
  BY <1>0, <1>3, <1>4 DEF CompletedMeansExecuted
<1>10. RunningHasWorker'
  <2>1. CASE S = Interrupted /\ jobs' = stored'
    BY <1>3, <2>1 DEF RunningHasWorker, Interrupted
  <2>2. CASE UNCHANGED jobs
    BY <1>0, <1>2, <2>2 DEF RunningHasWorker
  <2> QED
    BY <1>1, <2>1, <2>2
<1> QED
  BY <1>5, <1>6, <1>7, <1>8, <1>9, <1>10

-----------------------------------------------------------------------------
LEMMA StutterStep ==
  ASSUME QueueInv, UNCHANGED vars
  PROVE  QueueInv'
<1>1. TypeOK'
  BY DEF QueueInv, TypeOK, QueueTypeOK, vars, queueVars, pairVars
<1> QED
  BY <1>1, BesideTheQueue DEF vars, pairVars

LEMMA NextInv == QueueInv /\ [Next]_vars => QueueInv'
<1> SUFFICES ASSUME QueueInv, [Next]_vars PROVE QueueInv'
  OBVIOUS
<1>1. CASE \/ \E r \in Requests, j \in JobIds : Commit(r, j)
           \/ \E f \in FileIds : Purge(f)
           \/ \E r \in Requests : ClientGone(r)
  BY <1>1, GatewaySteps
<1>2. CASE \E r \in Requests : QueueChange(r)
  BY <1>2, QueueChangeStep
<1>3. CASE Work
  BY <1>3, ClaimNextStep, OpenSourceStep, CheckRemoteStep, SendStep, RequestFailsStep, FinishStep
  DEF Work, QueueAlone
<1>4. CASE \E j \in JobIds : LateRequest(j)
  BY <1>4, LateSteps
<1>5. CASE \E j \in JobIds : QueueAlone(RetryJob(j))
  <2> PICK j \in JobIds : QueueAlone(RetryJob(j))
    BY <1>5
  <2> QED
    BY RetryStep DEF QueueAlone, RetryJob
<1>6. CASE \E f \in FileIds : QueueAlone(RetryFile(f))
  <2> PICK f \in FileIds : QueueAlone(RetryFile(f))
    BY <1>6
  <2> QED
    BY RetryStep DEF QueueAlone, RetryFile
<1>7. CASE \E j \in JobIds : QueueAlone(BackoffElapses(j))
  BY <1>7, BackoffStep DEF QueueAlone
<1>8. CASE QueueAlone(Stop)
  BY <1>8, StopStep DEF QueueAlone
<1>9. CASE Exited \/ Killed
  BY <1>9, EndStep
<1>10. CASE QueueAlone(Start)
  BY <1>10, StartStep DEF QueueAlone
<1>11. CASE UNCHANGED vars
  BY <1>11, StutterStep
<1> QED
  BY <1>1, <1>2, <1>3, <1>4, <1>5, <1>6, <1>7, <1>8, <1>9, <1>10, <1>11 DEF Next

(* The inductive invariant holds throughout. *)
LEMMA AlwaysQueueInv == Spec => []QueueInv
BY InitialInv, NextInv, PTL DEF Spec

(* A job that is owed has a manifest that is not a completed one's. *)
LEMMA OwedFromInv == QueueInv => OwedJobsAreQueued
<1> SUFFICES ASSUME QueueInv, NEW j \in JobIds, Owed(j)
             PROVE  /\ stored[j].status \in {"pending", "running", "failed"}
                    /\ proc # "down" => jobs[j].status \in {"pending", "running", "failed"}
  BY DEF OwedJobsAreQueued
<1>1. stored[j].status \in Statuses /\ jobs[j].status \in Statuses
  BY DEF QueueInv, TypeOK, QueueTypeOK, Job
<1>2. stored[j].status # "completed" /\ jobs[j].status # "completed"
  BY DEF QueueInv, CompletedMeansExecuted, Owed
<1>3. stored[j].status # "none" /\ (proc # "down" => jobs[j].status # "none")
  BY DEF QueueInv, AckedIsKnown, Owed
<1> QED
  BY <1>1, <1>2, <1>3 DEF Statuses

(* Every reachable state is well typed: jobs and their manifests have the  *)
(* fields of a Job, and no job's attempts pass MaxAttempts, whatever the   *)
(* order of claims, retries, finishes and restarts (manager.go:295-335).   *)
THEOREM QueueTypeCorrect == Spec => []TypeOK
BY AlwaysQueueInv, PTL DEF QueueInv

(* A job the gateway was told is queued stays on disk, and known to a      *)
(* running manager, until the replica has carried it out: for any number   *)
(* of failed writes, kills, retries and late requests (manager.go:213-219).*)
THEOREM OwedJobsStayQueued == Spec => []OwedJobsAreQueued
BY AlwaysQueueInv, OwedFromInv, PTL

(* ProcessPending writes completed only for a request the replica carried  *)
(* out or had no need of, even over a Retry made meanwhile                 *)
(* (manager.go:280-292).                                                   *)
THEOREM CompletedWasExecuted == Spec => []CompletedMeansExecuted
BY AlwaysQueueInv, PTL DEF QueueInv

(* Without a failed persistJob, the one job that is running is the         *)
(* worker's: claimNext, Retry and loadJobs leave no other behind.          *)
THEOREM RunningJobsHaveWorker == Spec => []RunningHasWorker
BY AlwaysQueueInv, PTL DEF QueueInv

-----------------------------------------------------------------------------
(* An undisturbed queue keeps the replica in step. *)

Upload(f)   == <<"upload", f>>
Deletion(f) == <<"delete", f>>
Restored(f) == <<"restore", f>>

\* The change was committed; the replica has carried it out and the worker knows.
Wanted(j) == jobs[j].status # "none" \/ \E r \in Requests : request[r] = j
Done(j)   == jobs[j].status = "completed" \/ (worker.job = j /\ worker.ok)

\* Three changes of a file are at most an upload, a delete and a restore of it, in this
\* order, or two deletes; how often the other files change does not matter.
OrderInv == \A f \in FileIds : FewChanges(f) =>
  /\ Wanted(Upload(f)) <=> primary[f] # "none"
  /\ primary[f] # "none" => changes[f] >= 1
  /\ primary[f] \in {"trashed", "purged"} => Wanted(Deletion(f)) /\ changes[f] >= 2
  /\ Wanted(Restored(f)) => primary[f] = "live" /\ Wanted(Deletion(f)) /\ changes[f] >= 3
  /\ Wanted(Deletion(f)) => primary[f] \in {"trashed", "purged"} \/ Wanted(Restored(f))

\* The replica has what the jobs that are done made of it.  A delete that came first is
\* done with nothing to delete: then no upload follows, since its source is gone.
ReplicaInv == \A f \in FileIds : FewChanges(f) =>
  /\ replica[f] # "purged"
  /\ Done(Upload(f)) => replica[f] # "none"
  /\ replica[f] # "none" => Wanted(Upload(f))
  /\ replica[f] = "trashed" => Done(Deletion(f))
  /\ Done(Restored(f)) => Done(Deletion(f)) /\ replica[f] = "live"
  /\ primary[f] \in {"trashed", "purged"} /\ Done(Deletion(f)) =>
       replica[f] # "live" /\ ~(worker.job = Upload(f) /\ worker.pc \in {"check", "send"})

\* Only an upload has a source, and only a finished attempt a success.
AttemptInv ==
  /\ worker.pc \in {"source", "check"} => OperationOf(worker.job) = "upload"
  /\ worker.ok => At("finish")

\* A primary that was never stopped is up, and what was never given up is not late.
ProcessInv ==
  /\ restarts = 0 => proc = "up"
  /\ restarts = 0 /\ faults = 0 => late = {}

SyncInv ==
  /\ AttemptInv
  /\ ProcessInv
  /\ Undisturbed => OrderInv /\ ReplicaInv

LEMMA JobNames ==
  /\ \A f \in FileIds : {Upload(f), Deletion(f), Restored(f)} \subseteq JobIds
  /\ \A f \in FileIds : /\ FileOf(Upload(f)) = f /\ OperationOf(Upload(f)) = "upload"
                        /\ FileOf(Deletion(f)) = f /\ OperationOf(Deletion(f)) = "delete"
                        /\ FileOf(Restored(f)) = f /\ OperationOf(Restored(f)) = "restore"
  /\ \A j \in JobIds :
       /\ FileOf(j) \in FileIds /\ OperationOf(j) \in Operations
       /\ OperationOf(j) = "upload" => j = Upload(FileOf(j))
       /\ OperationOf(j) = "delete" => j = Deletion(FileOf(j))
       /\ OperationOf(j) = "restore" => j = Restored(FileOf(j))
BY DEF JobIds, Operations, Upload, Deletion, Restored, FileOf, OperationOf

LEMMA OperationNames ==
  /\ From("upload") = "none" /\ From("delete") = "live" /\ From("restore") = "trashed"
  /\ To("upload") = "live" /\ To("delete") = "trashed" /\ To("restore") = "live"
BY DEF From, To

\* A step that changes neither store, and of the jobs only how far they are.
LEMMA SyncFrame ==
  ASSUME OrderInv, ReplicaInv, UNCHANGED <<primary, replica, changes>>,
         \A j \in JobIds : (Wanted(j)' <=> Wanted(j)) /\ (Done(j)' <=> Done(j)),
         \A f \in FileIds :
           worker'.job = Upload(f) /\ worker'.pc \in {"check", "send"} =>
             \/ worker.job = Upload(f) /\ worker.pc \in {"check", "send"}
             \/ primary[f] = "live"
  PROVE  OrderInv' /\ ReplicaInv'
<1>1. \A f \in FileIds :
        /\ (Wanted(Upload(f))' <=> Wanted(Upload(f))) /\ (Done(Upload(f))' <=> Done(Upload(f)))
        /\ (Wanted(Deletion(f))' <=> Wanted(Deletion(f))) /\ (Done(Deletion(f))' <=> Done(Deletion(f)))
        /\ (Wanted(Restored(f))' <=> Wanted(Restored(f))) /\ (Done(Restored(f))' <=> Done(Restored(f)))
  BY JobNames
<1>2. OrderInv'
  BY <1>1 DEF OrderInv, FewChanges
<1>3. ReplicaInv'
  BY <1>1 DEF ReplicaInv, FewChanges
<1> QED BY <1>2, <1>3

\* What a job that the worker is on, or that is waiting to be taken, is not.
LEMMA OpenJobs ==
  ASSUME QueueInv, AttemptInv, NEW j \in JobIds
  PROVE  /\ Done(j) => jobs[j].status \in {"completed", "pending", "running"}
         /\ worker.job = j /\ ~worker.ok => ~Done(j)
         /\ At("select") => worker.job # j /\ (Done(j) <=> jobs[j].status = "completed")
BY EmptyIsNoJob DEF QueueInv, WorkerOK, AttemptInv, Done, At

LEMMA QueuedInStep ==
  ASSUME QueueInv, AttemptInv, OrderInv, ReplicaInv, NEW r \in Requests, QueueChange(r), ioErrors' = ioErrors
  PROVE  OrderInv' /\ ReplicaInv'
<1> DEFINE j == request[r]
<1>1. j \in JobIds /\ UNCHANGED <<primary, replica, changes, worker>>
      /\ request' = [request EXCEPT ![r] = NoChange]
  BY DEF QueueChange, HandlerReturns, QueueInv, TypeOK
<1>2. \/ jobs[j].status \in {"none", "failed"} /\ jobs' = [jobs EXCEPT ![j] = FreshJob]
      \/ jobs[j].status \notin {"none", "failed"} /\ jobs' = jobs
  BY DEF QueueChange, Enqueue, SaveFails, QueueInv, TypeOK, QueueTypeOK
<1>3. jobs \in [JobIds -> Job] /\ request \in [Requests -> JobIds \cup {NoChange}] /\ FreshJob.status = "pending"
  BY DEF QueueInv, TypeOK, QueueTypeOK, FreshJob
<1>4. ASSUME NEW i \in JobIds PROVE (Wanted(i)' <=> Wanted(i)) /\ (Done(i)' <=> Done(i))
  <2>1. CASE i = j
    <3>1. Wanted(i)' /\ Wanted(i)
      BY <1>1, <1>2, <1>3, <2>1 DEF Wanted
    <3>2. jobs[i].status \in {"none", "failed"} => ~Done(i)
      BY OpenJobs
    <3>3. Done(i)' <=> Done(i)
      BY <1>1, <1>2, <1>3, <2>1, <3>2 DEF Done
    <3> QED BY <3>1, <3>3
  <2>2. CASE i # j
    <3>1. jobs'[i] = jobs[i] /\ \A q \in Requests : request'[q] = i <=> request[q] = i
      BY <1>1, <1>2, <1>3, <2>2, ReplicationAssumption
    <3> QED BY <1>1, <3>1 DEF Wanted, Done
  <2> QED BY <2>1, <2>2
<1> QED BY <1>1, <1>4, SyncFrame

LEMMA ClaimedInStep ==
  ASSUME QueueInv, AttemptInv, OrderInv, ReplicaInv, NEW j \in JobIds, ClaimNext(j), UNCHANGED pairVars,
         ioErrors' = ioErrors
  PROVE  OrderInv' /\ ReplicaInv' /\ AttemptInv'
<1> DEFINE claimed == [jobs[j] EXCEPT !.status = "running"]
<1>1. /\ At("select") /\ jobs[j].status \in {"pending", "failed"}
      /\ jobs' = [jobs EXCEPT ![j] = claimed] /\ worker' = [pc |-> FirstStep(j), job |-> j, ok |-> FALSE]
      /\ UNCHANGED <<primary, replica, changes, request>>
  BY DEF ClaimNext, SaveFails, QueueInv, TypeOK, QueueTypeOK, pairVars
<1>2. jobs \in [JobIds -> Job] /\ claimed.status = "running"
  BY DEF QueueInv, TypeOK, QueueTypeOK, Job
<1>3. \A i \in JobIds : (Wanted(i)' <=> Wanted(i)) /\ (Done(i)' <=> Done(i))
  <2>1. \A i \in JobIds : Done(i) <=> jobs[i].status = "completed"
    BY <1>1, OpenJobs
  <2>2. \A i \in JobIds : Done(i)' <=> jobs'[i].status = "completed"
    BY <1>1 DEF Done
  <2>3. \A i \in JobIds : /\ jobs'[i].status = "none" <=> jobs[i].status = "none"
                          /\ jobs'[i].status = "completed" <=> jobs[i].status = "completed"
    BY <1>1, <1>2
  <2> QED BY <1>1, <2>1, <2>2, <2>3 DEF Wanted
<1>4. worker'.job = j /\ worker'.pc = FirstStep(j) /\ ~worker'.ok
  BY <1>1
<1>5. \A f \in FileIds : worker'.job = Upload(f) => worker'.pc = "source"
  BY <1>4, JobNames DEF FirstStep
<1>6. AttemptInv'
  BY <1>4 DEF AttemptInv, FirstStep
<1> QED BY <1>1, <1>3, <1>5, <1>6, SyncFrame

LEMMA FinishedInStep ==
  ASSUME QueueInv, AttemptInv, OrderInv, ReplicaInv, Finish, UNCHANGED pairVars
  PROVE  OrderInv' /\ ReplicaInv' /\ AttemptInv'
<1> DEFINE j == worker.job
<1>1. j \in JobIds /\ jobs[j].status \in {"pending", "running"} /\ jobs \in [JobIds -> Job]
  BY JobOfWorker DEF Finish, At, QueueInv, WorkerOK, TypeOK, QueueTypeOK
<1>2. /\ jobs'[j].status = IF worker.ok THEN "completed" ELSE "failed"
      /\ \A i \in JobIds \ {j} : jobs'[i] = jobs[i]
      /\ worker' = Waiting /\ UNCHANGED <<primary, replica, changes, request>>
  BY <1>1 DEF Finish, pairVars, Job
<1>3. ASSUME NEW i \in JobIds PROVE (Wanted(i)' <=> Wanted(i)) /\ (Done(i)' <=> Done(i))
  <2>1. worker'.job # i
    BY <1>2, EmptyIsNoJob DEF Waiting
  <2>2. Wanted(i)' <=> Wanted(i)
    BY <1>1, <1>2 DEF Wanted
  <2>3. Done(i)' <=> Done(i)
    BY <1>1, <1>2, <2>1 DEF Done
  <2> QED BY <2>2, <2>3
<1>4. worker'.pc = "select" /\ ~worker'.ok
  BY <1>2 DEF Waiting
<1> QED BY <1>2, <1>3, <1>4, SyncFrame DEF AttemptInv

LEMMA BackoffInStep ==
  ASSUME QueueInv, AttemptInv, OrderInv, ReplicaInv, NEW j \in JobIds, BackoffElapses(j), UNCHANGED pairVars
  PROVE  OrderInv' /\ ReplicaInv' /\ AttemptInv'
<1>1. jobs' = [jobs EXCEPT ![j] = [jobs[j] EXCEPT !.backoff = FALSE]] /\ worker' = worker
      /\ UNCHANGED <<primary, replica, changes, request>>
  BY DEF BackoffElapses, pairVars
<1>2. \A i \in JobIds : jobs'[i].status = jobs[i].status
  BY <1>1 DEF QueueInv, TypeOK, QueueTypeOK, Job
<1>3. \A i \in JobIds : (Wanted(i)' <=> Wanted(i)) /\ (Done(i)' <=> Done(i))
  BY <1>1, <1>2 DEF Wanted, Done
<1> QED BY <1>1, <1>3, SyncFrame DEF AttemptInv, At

LEMMA OpenedInStep ==
  ASSUME QueueInv, AttemptInv, OrderInv, ReplicaInv, OpenSource
  PROVE  OrderInv' /\ ReplicaInv' /\ AttemptInv'
<1>1. At("source") /\ ~worker.ok /\ worker.job \in JobIds /\ OperationOf(worker.job) = "upload"
  BY JobOfWorker DEF OpenSource, AttemptInv, At
<1>2. /\ worker'.job = worker.job /\ ~worker'.ok /\ worker'.pc \in {"check", "finish"}
      /\ worker'.pc = "check" => primary[FileOf(worker.job)] = "live"
  BY <1>1 DEF OpenSource, GoTo, Result, QueueInv, TypeOK, QueueTypeOK, Worker, At
<1>3. UNCHANGED <<primary, replica, changes, request, jobs>>
  BY DEF OpenSource, pairVars, restOfQueue
<1>4. \A j \in JobIds : (Wanted(j)' <=> Wanted(j)) /\ (Done(j)' <=> Done(j))
  BY <1>1, <1>2, <1>3 DEF Wanted, Done
<1>5. \A f \in FileIds : worker'.job = Upload(f) /\ worker'.pc \in {"check", "send"} => primary[f] = "live"
  BY <1>2, JobNames
<1>6. AttemptInv'
  BY <1>1, <1>2 DEF AttemptInv
<1> QED BY <1>3, <1>4, <1>5, <1>6, SyncFrame

\* An upload that is there already is done.
LEMMA CheckedInStep ==
  ASSUME QueueInv, AttemptInv, OrderInv, ReplicaInv, CheckRemote
  PROVE  OrderInv' /\ ReplicaInv' /\ AttemptInv'
<1> DEFINE f == FileOf(worker.job)
<1>1. /\ At("check") /\ ~worker.ok /\ worker.job \in JobIds /\ f \in FileIds
      /\ worker.job = Upload(f)
  BY JobOfWorker, JobNames DEF CheckRemote, AttemptInv, At
<1>2. UNCHANGED <<primary, replica, changes, request, jobs>>
  BY DEF CheckRemote, restOfQueue
<1>3. CASE replica[f] # "live"
  <2>1. worker'.job = worker.job /\ ~worker'.ok /\ worker'.pc = "send"
    BY <1>1, <1>3 DEF CheckRemote, GoTo, QueueInv, TypeOK, QueueTypeOK, Worker, At
  <2>2. \A j \in JobIds : (Wanted(j)' <=> Wanted(j)) /\ (Done(j)' <=> Done(j))
    BY <1>1, <1>2, <2>1 DEF Wanted, Done
  <2>3. AttemptInv'
    BY <1>1, <2>1 DEF AttemptInv
  <2> QED BY <1>1, <1>2, <2>1, <2>2, <2>3, SyncFrame DEF At
<1>4. CASE replica[f] = "live"
  <2>1. worker'.job = worker.job /\ worker'.pc = "finish"
    BY <1>1, <1>4 DEF CheckRemote, Result, QueueInv, TypeOK, QueueTypeOK, Worker, At
  <2>2. \A j \in JobIds : (Wanted(j)' <=> Wanted(j))
                          /\ (Done(j)' <=> Done(j) \/ (j = worker.job /\ worker'.ok))
    BY <1>1, <1>2, <2>1 DEF Wanted, Done
  <2>3. OrderInv'
    BY <1>2, <2>2, JobNames DEF OrderInv, FewChanges
  <2>4. ASSUME NEW g \in FileIds, FewChanges(g)
        PROVE  /\ Done(Upload(g))' => replica[g] # "none"
               /\ Wanted(Upload(g))' <=> Wanted(Upload(g))
               /\ Done(Deletion(g))' <=> Done(Deletion(g))
               /\ Done(Restored(g))' <=> Done(Restored(g))
    <3>1. worker.job # Deletion(g) /\ worker.job # Restored(g)
      BY <1>1, JobNames
    <3>2. worker.job = Upload(g) => replica[g] = "live"
      BY <1>4, JobNames
    <3> QED BY <2>2, <2>4, <3>1, <3>2, JobNames DEF ReplicaInv
  <2>5. ReplicaInv'
    BY <1>2, <2>1, <2>4 DEF ReplicaInv, FewChanges
  <2>6. AttemptInv'
    BY <2>1 DEF AttemptInv, At
  <2> QED BY <2>3, <2>5, <2>6
<1> QED BY <1>3, <1>4

\* The replica carries out a request.
LEMMA SentInStep ==
  ASSUME QueueInv, AttemptInv, OrderInv, ReplicaInv, Send
  PROVE  OrderInv' /\ ReplicaInv' /\ AttemptInv'
<1> DEFINE job == worker.job
           f == FileOf(job)
<1>1. /\ At("send") /\ ~worker.ok /\ job \in JobIds /\ f \in FileIds /\ OperationOf(job) \in Operations
      /\ jobs[job].status \in {"pending", "running"}
  BY JobOfWorker, JobNames DEF Send, AttemptInv, At, QueueInv, WorkerOK
<1>2. UNCHANGED <<primary, changes, request, jobs>> /\ replica' = Carried(replica, job)
  BY DEF Send, restOfQueue, Serve
<1>3. worker'.job = job /\ worker'.pc = "finish" /\ worker'.ok = Accepted(job)
  BY <1>1 DEF Send, Result, QueueInv, TypeOK, QueueTypeOK, Worker, At
<1>4. \A j \in JobIds : /\ Wanted(j)' <=> Wanted(j)
                        /\ Done(j)' <=> Done(j) \/ (j = job /\ Accepted(job))
  BY <1>1, <1>2, <1>3 DEF Wanted, Done
<1>5. Wanted(job) /\ ~Done(job)
  BY <1>1 DEF Wanted, Done
<1>6. replica \in [FileIds -> FileStates]
  BY DEF QueueInv, TypeOK
<1>7. OrderInv'
  BY <1>2, <1>4, JobNames DEF OrderInv, FewChanges
<1>8. AttemptInv'
  BY <1>3 DEF AttemptInv, At
<1>9. ReplicaInv'
  <2> SUFFICES ASSUME NEW g \in FileIds, FewChanges(g)
               PROVE  /\ replica'[g] # "purged"
                      /\ Done(Upload(g))' => replica'[g] # "none"
                      /\ replica'[g] # "none" => Wanted(Upload(g))'
                      /\ replica'[g] = "trashed" => Done(Deletion(g))'
                      /\ Done(Restored(g))' => Done(Deletion(g))' /\ replica'[g] = "live"
                      /\ primary'[g] \in {"trashed", "purged"} /\ Done(Deletion(g))' =>
                           replica'[g] # "live" /\ ~(worker'.job = Upload(g) /\ worker'.pc \in {"check", "send"})
    BY <1>2 DEF ReplicaInv, FewChanges
  <2>1. CASE g # f
    <3>1. job \notin {Upload(g), Deletion(g), Restored(g)}
      BY <2>1, JobNames
    <3>2. replica'[g] = replica[g]
      BY <1>1, <1>2, <1>6, <2>1 DEF Carried
    <3>3. /\ Done(Upload(g))' <=> Done(Upload(g))
          /\ Done(Deletion(g))' <=> Done(Deletion(g))
          /\ Done(Restored(g))' <=> Done(Restored(g))
          /\ Wanted(Upload(g))' <=> Wanted(Upload(g))
      BY <1>4, <3>1, JobNames
    <3> QED BY <1>2, <1>3, <3>2, <3>3 DEF ReplicaInv
  <2>2. CASE g = f /\ job = Upload(g)
    <3>1. /\ Done(Deletion(g))' <=> Done(Deletion(g))
          /\ Done(Restored(g))' <=> Done(Restored(g))
          /\ Wanted(Upload(g))' /\ ~Done(Upload(g))
          /\ Done(Upload(g))' => Accepted(job)
      BY <1>1, <1>4, <1>5, <2>2, JobNames
    <3>2. replica'[g] = IF replica[g] = "none" THEN "live" ELSE replica[g]
      BY <1>1, <1>2, <1>6, <2>2, JobNames, OperationNames DEF Carried
    <3>3. Accepted(job) => replica'[g] = "live"
      BY <1>1, <2>2, <3>2, JobNames, OperationNames DEF Accepted
    <3>4. ~(primary[g] \in {"trashed", "purged"} /\ Done(Deletion(g)))
      BY <1>1, <2>2 DEF ReplicaInv, At
    <3> QED BY <1>1, <1>2, <1>3, <2>2, <3>1, <3>2, <3>3, <3>4 DEF ReplicaInv
  <2>3. CASE g = f /\ job = Deletion(g)
    <3>1. /\ Done(Upload(g))' <=> Done(Upload(g))
          /\ Wanted(Upload(g))' <=> Wanted(Upload(g))
          /\ Done(Restored(g))' <=> Done(Restored(g))
          /\ Done(Deletion(g))' /\ ~Done(Deletion(g))
      BY <1>1, <1>4, <1>5, <2>3, JobNames DEF Accepted
    <3>2. replica'[g] = IF replica[g] = "live" THEN "trashed" ELSE replica[g]
      BY <1>1, <1>2, <1>6, <2>3, JobNames, OperationNames DEF Carried
    <3> QED BY <1>1, <1>2, <1>3, <2>3, <3>1, <3>2 DEF ReplicaInv
  <2>4. CASE g = f /\ job = Restored(g)
    <3>1. /\ Done(Upload(g))' <=> Done(Upload(g))
          /\ Wanted(Upload(g))' <=> Wanted(Upload(g))
          /\ Done(Deletion(g))' <=> Done(Deletion(g))
          /\ Wanted(Restored(g)) /\ ~Done(Restored(g))
          /\ Done(Restored(g))' => Accepted(job)
      BY <1>1, <1>4, <1>5, <2>4, JobNames
    <3>2. replica'[g] = IF replica[g] = "trashed" THEN "live" ELSE replica[g]
      BY <1>1, <1>2, <1>6, <2>4, JobNames, OperationNames DEF Carried
    <3>3. Accepted(job) => replica[g] = "trashed"
      BY <1>1, <2>4, JobNames, OperationNames DEF Accepted
    <3>4. primary[g] = "live"
      BY <1>1, <3>1 DEF OrderInv
    <3> QED BY <1>1, <1>2, <1>3, <2>4, <3>1, <3>2, <3>3, <3>4 DEF ReplicaInv
  <2> QED BY <1>1, <2>1, <2>2, <2>3, <2>4, JobNames DEF Operations
<1> QED BY <1>7, <1>8, <1>9

\* The primary commits a change, and its handler has yet to queue it.
LEMMA CommittedInStep ==
  ASSUME QueueInv, AttemptInv, OrderInv, ReplicaInv, NEW r \in Requests, NEW j \in JobIds, Commit(r, j)
  PROVE  OrderInv' /\ ReplicaInv'
<1> DEFINE f == FileOf(j)
<1>1. /\ f \in FileIds /\ changes[f] \in Nat /\ changes'[f] = changes[f] + 1
      /\ \A g \in FileIds \ {f} : changes'[g] = changes[g]
      /\ UNCHANGED <<jobs, worker, replica>>
      /\ primary' = Carried(primary, j) /\ primary \in [FileIds -> FileStates]
      /\ Succeeds(j) /\ OperationOf(j) \in Operations
  BY ReplicationAssumption, JobNames DEF Commit, queueVars, QueueInv, TypeOK
<1>2. ASSUME NEW i \in JobIds
      PROVE  (Wanted(i)' <=> Wanted(i) \/ i = j) /\ (Done(i)' <=> Done(i)) /\ (Done(i) => Wanted(i))
  <2>1. \A q \in Requests : request'[q] = i <=> request[q] = i \/ (q = r /\ i = j)
    BY ReplicationAssumption DEF Commit, QueueInv, TypeOK
  <2>2. Wanted(i)' <=> Wanted(i) \/ i = j
    BY <1>1, <2>1 DEF Wanted
  <2>3. Done(i)' <=> Done(i)
    BY <1>1 DEF Done
  <2>4. Done(i) => Wanted(i)
    BY OpenJobs DEF Wanted
  <2> QED BY <2>2, <2>3, <2>4
<1>3. \A g \in FileIds :
        /\ Done(Upload(g))' <=> Done(Upload(g))
        /\ Done(Deletion(g))' <=> Done(Deletion(g))
        /\ Done(Restored(g))' <=> Done(Restored(g))
        /\ Wanted(Upload(g))' <=> Wanted(Upload(g)) \/ j = Upload(g)
        /\ Wanted(Deletion(g))' <=> Wanted(Deletion(g)) \/ j = Deletion(g)
        /\ Wanted(Restored(g))' <=> Wanted(Restored(g)) \/ j = Restored(g)
        /\ Done(Deletion(g)) => Wanted(Deletion(g))
  BY <1>2, JobNames
\* The file itself, operation by operation; the others stay as they are.
<1>4. /\ \A g \in FileIds \ {f} : primary'[g] = primary[g] /\ j \notin {Upload(g), Deletion(g), Restored(g)}
      /\ OperationOf(j) = "upload" => j = Upload(f) /\ primary[f] = "none" /\ primary'[f] = "live"
      /\ OperationOf(j) = "delete" => j = Deletion(f) /\ primary[f] # "none"
                                      /\ primary'[f] = IF primary[f] = "live" THEN "trashed" ELSE primary[f]
      /\ OperationOf(j) = "restore" => j = Restored(f) /\ primary[f] = "trashed" /\ primary'[f] = "live"
  BY <1>1, JobNames, OperationNames DEF Carried, Succeeds
<1>5. \A g \in FileIds : /\ Upload(g) # Deletion(g) /\ Upload(g) # Restored(g) /\ Deletion(g) # Restored(g)
                         /\ FewChanges(g)' => FewChanges(g)
  BY <1>1, JobNames DEF FewChanges
<1>6. ASSUME NEW g \in FileIds, FewChanges(g)'
      PROVE  /\ Wanted(Upload(g))' <=> primary'[g] # "none"
             /\ primary'[g] # "none" => changes'[g] >= 1
             /\ primary'[g] \in {"trashed", "purged"} => Wanted(Deletion(g))' /\ changes'[g] >= 2
             /\ Wanted(Restored(g))' => primary'[g] = "live" /\ Wanted(Deletion(g))' /\ changes'[g] >= 3
             /\ Wanted(Deletion(g))' => primary'[g] \in {"trashed", "purged"} \/ Wanted(Restored(g))'
  <2> DEFINE U == Wanted(Upload(g))
             D == Wanted(Deletion(g))
             R == Wanted(Restored(g))
  <2>0. /\ U <=> primary[g] # "none"
        /\ primary[g] # "none" => changes[g] >= 1
        /\ primary[g] \in {"trashed", "purged"} => D /\ changes[g] >= 2
        /\ R => primary[g] = "live" /\ D /\ changes[g] >= 3
        /\ D => primary[g] \in {"trashed", "purged"} \/ R
        /\ primary[g] \in FileStates /\ changes'[g] < 4
    BY <1>1, <1>5, <1>6 DEF OrderInv, FewChanges
  <2>1. CASE g # f
    BY <1>1, <1>3, <1>4, <2>0, <2>1 DEF OrderInv
  <2>2. CASE g = f /\ OperationOf(j) = "upload"
    BY <1>1, <1>3, <1>4, <1>5, <2>0, <2>2
  <2>3. CASE g = f /\ OperationOf(j) = "delete"
    BY <1>1, <1>3, <1>4, <1>5, <2>0, <2>3 DEF FileStates
  <2>4. CASE g = f /\ OperationOf(j) = "restore"
    BY <1>1, <1>3, <1>4, <1>5, <2>0, <2>4
  <2> QED BY <1>1, <2>1, <2>2, <2>3, <2>4 DEF Operations
<1>7. ASSUME NEW g \in FileIds, FewChanges(g)'
      PROVE  /\ replica'[g] # "purged"
             /\ Done(Upload(g))' => replica'[g] # "none"
             /\ replica'[g] # "none" => Wanted(Upload(g))'
             /\ replica'[g] = "trashed" => Done(Deletion(g))'
             /\ Done(Restored(g))' => Done(Deletion(g))' /\ replica'[g] = "live"
             /\ primary'[g] \in {"trashed", "purged"} /\ Done(Deletion(g))' =>
                  replica'[g] # "live" /\ ~(worker'.job = Upload(g) /\ worker'.pc \in {"check", "send"})
  <2>1. primary'[g] \in {"trashed", "purged"} /\ Done(Deletion(g)) => primary[g] \in {"trashed", "purged"}
    <3> SUFFICES ASSUME primary'[g] \in {"trashed", "purged"}, Done(Deletion(g)),
                        primary[g] \notin {"trashed", "purged"}
                 PROVE  FALSE
      OBVIOUS
    <3>1. Wanted(Restored(g)) /\ changes[g] >= 3 /\ primary[g] = "live"
      BY <1>3, <1>5, <1>7 DEF OrderInv
    <3>2. g = f /\ changes'[g] < 4
      BY <1>4, <1>7, <3>1 DEF FewChanges
    <3> QED BY <1>1, <3>1, <3>2
  <2> QED BY <1>1, <1>3, <1>5, <1>7, <2>1 DEF ReplicaInv
<1>8. OrderInv'
  BY <1>6 DEF OrderInv
<1>9. ReplicaInv'
  BY <1>7 DEF ReplicaInv
<1> QED BY <1>8, <1>9

LEMMA PurgedInStep ==
  ASSUME QueueInv, OrderInv, ReplicaInv, NEW f \in FileIds, Purge(f)
  PROVE  OrderInv' /\ ReplicaInv'
<1>1. /\ changes[f] \in Nat /\ changes'[f] = changes[f] + 1 /\ UNCHANGED <<jobs, worker, replica, request>>
      /\ \A g \in FileIds \ {f} : changes'[g] = changes[g]
      /\ primary[f] = "trashed" /\ primary'[f] = "purged"
      /\ \A g \in FileIds \ {f} : primary'[g] = primary[g]
  BY ReplicationAssumption DEF Purge, queueVars, QueueInv, TypeOK
<1>2. \A j \in JobIds : (Wanted(j)' <=> Wanted(j)) /\ (Done(j)' <=> Done(j))
  BY <1>1 DEF Wanted, Done
<1>3. \A g \in FileIds :
        /\ Wanted(Upload(g))' <=> Wanted(Upload(g))
        /\ Wanted(Deletion(g))' <=> Wanted(Deletion(g))
        /\ Wanted(Restored(g))' <=> Wanted(Restored(g))
        /\ Done(Upload(g))' <=> Done(Upload(g))
        /\ Done(Deletion(g))' <=> Done(Deletion(g))
        /\ Done(Restored(g))' <=> Done(Restored(g))
  BY <1>2, JobNames
<1>4. OrderInv'
  BY <1>1, <1>3 DEF OrderInv, FewChanges
<1>5. ReplicaInv'
  BY <1>1, <1>3 DEF ReplicaInv, FewChanges
<1> QED BY <1>4, <1>5

\* The worker's attempt, whatever fails.
LEMMA NextAttempt ==
  ASSUME QueueInv, AttemptInv, [Next]_vars
  PROVE  AttemptInv'
<1>1. CASE UNCHANGED worker
  BY <1>1 DEF AttemptInv, At
<1>2. CASE worker' = Waiting
  BY <1>2 DEF AttemptInv, At, Waiting
<1>3. CASE worker'.pc = "finish"
  BY <1>3 DEF AttemptInv, At
<1>4. ASSUME NEW j \in JobIds, ClaimNext(j) PROVE AttemptInv'
  <2>1. worker' = worker \/ worker' = [pc |-> FirstStep(j), job |-> j, ok |-> FALSE]
    BY <1>4 DEF ClaimNext
  <2> QED BY <1>1, <2>1 DEF AttemptInv, FirstStep
<1>5. CASE OpenSource \/ CheckRemote
  <2>1. /\ worker.pc \in {"source", "check"} /\ worker \in Worker
        /\ worker'.pc = "finish" \/ worker' = [worker EXCEPT !.pc = "check"] \/ worker' = [worker EXCEPT !.pc = "send"]
    BY <1>5 DEF OpenSource, CheckRemote, GoTo, Result, At, QueueInv, TypeOK, QueueTypeOK, Worker
  <2> QED BY <1>3, <2>1 DEF AttemptInv, At, Worker
<1>6. CASE Send \/ RequestFails
  BY <1>3, <1>6 DEF Send, RequestFails, Result, QueueInv, TypeOK, QueueTypeOK, Worker
<1>7. CASE Exited \/ Killed \/ QueueAlone(Finish)
  BY <1>2, <1>7 DEF Exited, Killed, Exit, Kill, ProcessEnds, QueueAlone, Finish
<1>8. CASE \/ \E r \in Requests, j \in JobIds : Commit(r, j)
           \/ \E f \in FileIds : Purge(f)
           \/ \E r \in Requests : QueueChange(r) \/ ClientGone(r)
           \/ \E j \in JobIds : LateRequest(j) \/ QueueAlone(RetryJob(j)) \/ QueueAlone(BackoffElapses(j))
           \/ \E f \in FileIds : QueueAlone(RetryFile(f))
           \/ QueueAlone(Stop) \/ QueueAlone(Start) \/ UNCHANGED vars
  BY <1>1, <1>8 DEF Commit, Purge, QueueChange, ClientGone, LateRequest, QueueAlone, RetryJob, RetryFile,
     RetryTargets, BackoffElapses, Stop, Start, queueVars, vars
<1> QED BY <1>4, <1>5, <1>6, <1>7, <1>8 DEF Next, Work, QueueAlone

\* Nothing that counts as a disturbance is undone.
LEMMA CountersGrow ==
  ASSUME QueueInv, [Next]_vars
  PROVE  /\ ioErrors' >= ioErrors /\ retries' >= retries /\ restarts' >= restarts
         /\ faults' >= faults /\ hangups' >= hangups
         /\ {ioErrors, retries, restarts, faults, hangups} \subseteq Nat
<1> DEFINE Grow == /\ ioErrors' >= ioErrors /\ retries' >= retries /\ restarts' >= restarts
                   /\ faults' >= faults /\ hangups' >= hangups
<1>1. ioErrors \in Nat /\ retries \in Nat /\ restarts \in Nat /\ faults \in Nat /\ hangups \in Nat
  BY QueueAssumption, ReplicationAssumption DEF QueueInv, TypeOK, QueueTypeOK
<1>2. CASE \/ \E r \in Requests, j \in JobIds : Commit(r, j)
           \/ \E f \in FileIds : Purge(f)
           \/ \E r \in Requests : ClientGone(r)
           \/ \E j \in JobIds : LateRequest(j)
           \/ UNCHANGED vars
  BY <1>1, <1>2 DEF Commit, Purge, ClientGone, HandlerReturns, LateRequest, queueVars, pairVars, vars
<1>3. ASSUME NEW r \in Requests, QueueChange(r) PROVE Grow
  BY <1>1, <1>3 DEF QueueChange, HandlerReturns, Enqueue, Save, SaveFails
<1>4. CASE Work
  <2>1. ASSUME NEW j \in JobIds, QueueAlone(ClaimNext(j)) PROVE Grow
    <3>1. (ioErrors' = ioErrors \/ ioErrors' = ioErrors + 1) /\ UNCHANGED <<retries, restarts>> /\ UNCHANGED pairVars
      BY <2>1 DEF QueueAlone, ClaimNext, Save, SaveFails
    <3> QED BY <1>1, <3>1 DEF pairVars
  <2>2. ASSUME OpenSource \/ CheckRemote \/ Send \/ RequestFails PROVE Grow
    <3>1. /\ UNCHANGED <<ioErrors, retries, restarts, hangups>>
          /\ faults' = faults \/ faults' = faults + 1
      BY <2>2 DEF OpenSource, CheckRemote, Send, RequestFails, restOfQueue, pairVars
    <3> QED BY <1>1, <3>1
  <2>3. ASSUME QueueAlone(Finish) PROVE Grow
    BY <1>1, <2>3 DEF QueueAlone, Finish, Save, SaveFails, pairVars
  <2>4. Grow
    BY <1>4, <2>1, <2>2, <2>3 DEF Work
  <2> QED BY <1>1, <2>4
<1>5. CASE \/ \E j \in JobIds : QueueAlone(RetryJob(j))
           \/ \E f \in FileIds : QueueAlone(RetryFile(f))
  BY <1>1, <1>5 DEF QueueAlone, RetryJob, RetryFile, RetryTargets, Save, pairVars
<1>6. CASE \/ \E j \in JobIds : QueueAlone(BackoffElapses(j))
           \/ QueueAlone(Stop) \/ Exited \/ Killed
  BY <1>1, <1>6 DEF QueueAlone, BackoffElapses, Stop, Exited, Killed, Exit, Kill, ProcessEnds, pairVars
<1>7. CASE QueueAlone(Start)
  BY <1>1, <1>7 DEF QueueAlone, Start, Save, pairVars
<1> QED BY <1>1, <1>2, <1>3, <1>4, <1>5, <1>6, <1>7 DEF Next

LEMMA NextProcess ==
  ASSUME QueueInv, ProcessInv, [Next]_vars
  PROVE  ProcessInv'
<1>0. /\ restarts' = 0 => restarts = 0
      /\ faults' = 0 => faults = 0
      /\ restarts \in Nat /\ faults \in Nat
  BY CountersGrow
<1>1. CASE UNCHANGED <<proc, late>>
  BY <1>0, <1>1 DEF ProcessInv
<1>2. CASE RequestFails
  BY <1>0, <1>2 DEF RequestFails, restOfQueue, ProcessInv
<1>3. ASSUME NEW j \in JobIds, LateRequest(j) PROVE ProcessInv'
  BY <1>0, <1>3 DEF LateRequest, queueVars, ProcessInv
<1>4. CASE Exited \/ Killed \/ QueueAlone(Stop) \/ QueueAlone(Start)
  BY <1>0, <1>4 DEF QueueAlone, Stop, Start, Exited, Killed, Exit, Kill, ProcessInv
<1>5. CASE \/ \E r \in Requests, j \in JobIds : Commit(r, j)
           \/ \E f \in FileIds : Purge(f)
           \/ \E r \in Requests : QueueChange(r) \/ ClientGone(r)
           \/ \E j \in JobIds : \/ QueueAlone(RetryJob(j)) \/ QueueAlone(BackoffElapses(j))
                                \/ QueueAlone(ClaimNext(j))
           \/ \E f \in FileIds : QueueAlone(RetryFile(f))
           \/ OpenSource \/ CheckRemote \/ Send \/ QueueAlone(Finish) \/ UNCHANGED vars
  BY <1>1, <1>5 DEF Commit, Purge, QueueChange, ClientGone, HandlerReturns, QueueAlone, RetryJob, RetryFile,
     RetryTargets, BackoffElapses, ClaimNext, OpenSource, CheckRemote, Send, Finish, restOfQueue,
     queueVars, pairVars, vars
<1> QED BY <1>2, <1>3, <1>4, <1>5 DEF Next, Work

LEMMA NextSync == QueueInv /\ SyncInv /\ [Next]_vars => SyncInv'
<1> SUFFICES ASSUME QueueInv, SyncInv, [Next]_vars PROVE SyncInv'
  OBVIOUS
<1>1. AttemptInv' /\ ProcessInv'
  BY NextAttempt, NextProcess DEF SyncInv
<1>2. ASSUME Undisturbed' PROVE OrderInv' /\ ReplicaInv'
  <2>0. /\ ioErrors \in Nat /\ retries \in Nat /\ restarts \in Nat
        /\ faults \in Nat /\ hangups \in Nat
    BY CountersGrow
  <2>1. /\ ioErrors' = ioErrors /\ retries' = retries /\ restarts' = restarts /\ faults' = faults
        /\ hangups' = hangups /\ Undisturbed
    <3>1. /\ ioErrors' >= ioErrors /\ retries' >= retries /\ restarts' >= restarts
          /\ faults' >= faults /\ hangups' >= hangups
      BY CountersGrow
    <3>2. /\ ioErrors' = 0 /\ retries' = 0 /\ restarts' = 0 /\ faults' = 0 /\ hangups' = 0
      BY <1>2 DEF Undisturbed
    <3> QED BY <2>0, <3>1, <3>2 DEF Undisturbed
  <2>2. AttemptInv /\ OrderInv /\ ReplicaInv /\ proc = "up" /\ late = {}
    BY <2>1 DEF SyncInv, ProcessInv, Undisturbed
  <2>4. CASE \E r \in Requests, j \in JobIds : Commit(r, j)
    BY <2>1, <2>2, <2>4, CommittedInStep
  <2>5. CASE \E f \in FileIds : Purge(f)
    BY <2>2, <2>5, PurgedInStep
  <2>6. CASE \E r \in Requests : QueueChange(r)
    BY <2>1, <2>2, <2>6, QueuedInStep
  <2>7. CASE \E j \in JobIds : QueueAlone(ClaimNext(j))
    BY <2>1, <2>2, <2>7, ClaimedInStep DEF QueueAlone
  <2>8. CASE OpenSource \/ CheckRemote \/ Send
    BY <2>2, <2>8, OpenedInStep, CheckedInStep, SentInStep
  <2>9. CASE QueueAlone(Finish)
    BY <2>2, <2>9, FinishedInStep DEF QueueAlone
  <2>10. CASE \E j \in JobIds : QueueAlone(BackoffElapses(j))
    BY <2>2, <2>10, BackoffInStep DEF QueueAlone
  \* The other steps fail, stop or retry something.
  <2>11. /\ \A r \in Requests : ~ClientGone(r)
         /\ \A j \in JobIds : ~LateRequest(j) /\ ~RetryJob(j)
         /\ \A f \in FileIds : ~RetryFile(f)
    <3>1. \A targets : ~RetryTargets(targets)
      BY <2>1, <2>0 DEF RetryTargets
    <3>2. \A r \in Requests : ~ClientGone(r)
      BY <2>1, <2>0 DEF ClientGone
    <3>3. \A j \in JobIds : ~LateRequest(j)
      BY <2>2 DEF LateRequest
    <3> QED BY <3>1, <3>2, <3>3 DEF RetryJob, RetryFile
  <2>12. ~RequestFails /\ ~Stop /\ ~Exited /\ ~Killed /\ ~Start
    <3>1. ~RequestFails
      <4>1. RequestFails => faults' = faults + 1 \/ proc = "stopping"
        BY DEF RequestFails
      <4> QED BY <2>0, <2>1, <2>2, <4>1
    <3>2. ~Stop /\ ~Kill
      BY <2>0, <2>1 DEF Stop, Kill
    <3> QED BY <2>2, <3>1, <3>2 DEF Exited, Exit, Killed, Start
  <2>13. CASE UNCHANGED vars
    <3>1. /\ UNCHANGED <<primary, replica, changes, worker>>
          /\ \A j \in JobIds : (Wanted(j)' <=> Wanted(j)) /\ (Done(j)' <=> Done(j))
      BY <2>13 DEF vars, queueVars, pairVars, Wanted, Done
    <3> QED BY <2>2, <3>1, SyncFrame
  <2> QED BY <2>4, <2>5, <2>6, <2>7, <2>8, <2>9, <2>10, <2>11, <2>12, <2>13 DEF Next, Work, QueueAlone
<1> QED BY <1>1, <1>2 DEF SyncInv

LEMMA InitSync == Init => SyncInv
<1> SUFFICES ASSUME Init PROVE SyncInv
  OBVIOUS
<1>1. \A j \in JobIds : ~Wanted(j) /\ ~Done(j)
  BY ReplicationAssumption DEF Init, QueueInit, Wanted, Done, NoJob, Waiting
<1>2. \A f \in FileIds : /\ ~Wanted(Upload(f)) /\ ~Wanted(Deletion(f)) /\ ~Wanted(Restored(f))
                         /\ ~Done(Upload(f)) /\ ~Done(Deletion(f)) /\ ~Done(Restored(f))
  BY <1>1, JobNames
<1>3. OrderInv /\ ReplicaInv
  BY <1>2 DEF Init, OrderInv, ReplicaInv
<1>4. AttemptInv /\ ProcessInv
  BY DEF Init, QueueInit, Waiting, AttemptInv, ProcessInv
<1> QED BY <1>3, <1>4 DEF SyncInv

\* Where the queue does keep a file in step: nothing failed, stopped or was retried by
\* hand, and the file itself had at most three changes, so that it was not deleted,
\* restored and deleted again; the other files may have changed any number of times.
\* Whatever order the handlers queue their changes in and the worker takes the jobs in (a
\* delete before its upload, a restore before its delete), once the queue is clear the
\* file is live on the replica exactly if it is on the primary (manager.go:295-335, 357-453).
THEOREM QueueKeepsReplicaInStep == Spec => []UndisturbedQueueInSync
<1>1. QueueInv /\ SyncInv => UndisturbedQueueInSync
  <2> SUFFICES ASSUME QueueInv, SyncInv, Undisturbed, QueueClear, NEW f \in FileIds, FewChanges(f)
               PROVE  replica[f] = "live" <=> primary[f] = "live"
    BY DEF UndisturbedQueueInSync
  <2>1. OrderInv /\ ReplicaInv /\ AttemptInv
    BY DEF SyncInv
  <2>2. \A j \in JobIds : Wanted(j) => Done(j)
    BY ReplicationAssumption DEF QueueClear, Wanted, Done
  <2>3. \A j \in JobIds : Done(j) => Wanted(j)
    BY <2>1, OpenJobs DEF Wanted
  <2>4. /\ Wanted(Upload(f)) <=> Done(Upload(f))
        /\ Wanted(Deletion(f)) <=> Done(Deletion(f))
        /\ Wanted(Restored(f)) <=> Done(Restored(f))
    BY <2>2, <2>3, JobNames
  <2>5. primary[f] \in FileStates /\ replica[f] \in FileStates
    BY DEF QueueInv, TypeOK
  <2> QED BY <2>1, <2>4, <2>5 DEF OrderInv, ReplicaInv, FileStates
<1>2. Spec => [](QueueInv /\ SyncInv)
  BY InitialInv, InitSync, NextInv, NextSync, PTL DEF Spec
<1> QED BY <1>1, <1>2, PTL
=============================================================================
