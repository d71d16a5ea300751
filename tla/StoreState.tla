----------------------------- MODULE StoreState -----------------------------
(***************************************************************************)
(* The state of pkg/files.DiskStore as a process that may be killed leaves *)
(* it: what is in each directory of the data root, the one operation that  *)
(* holds s.mu, and the part of the usage index that decides whether writes *)
(* are admitted.  Every writer of the store takes s.mu for its whole body  *)
(* (store.go:272, 386, 459, ...), so at most one operation is between two  *)
(* of its system calls at any time.                                        *)
(*                                                                         *)
(* A system call that changes the data root is one step.  fsync changes    *)
(* nothing that a killed process leaves behind: its success is part of the *)
(* following step and its failure is one of the I/O errors.                *)
(***************************************************************************)
EXTENDS Integers, FiniteSets

CONSTANTS FileIds,     \* file ids: what uuid.NewString or a replication peer supplies
          UploadIds,   \* resumable upload session ids
          NoFile,      \* no file id
          NoUpload,    \* no session id
          UploadSize,  \* the size a session declares, in units of one chunk byte
          UploadTTL,   \* TRUE when XION_UPLOAD_SESSION_TTL is set (uploadTTL > 0)
          MaxFaults,   \* bound: failed system calls in a behaviour
          MaxCrashes   \* bound: process kills in a behaviour

ASSUME ConstantsAssumption ==
  /\ NoFile \notin FileIds
  /\ NoUpload \notin UploadIds
  /\ UploadSize \in Nat \ {0}
  /\ UploadTTL \in BOOLEAN
  /\ MaxFaults \in Nat
  /\ MaxCrashes \in Nat

VARIABLES
  objects,       \* ids with a file objects/{id}
  manifests,     \* metadata/{id}.json: "none", "live", or "deleted" when it carries deleted_at
  manifestTmps,  \* ids with metadata/{id}.json.tmp
  partials,      \* ids with tmp/{id}.part
  trash,         \* trash/{id}/: the directory and what it contains
  uploads,       \* uploads/{id}/: the directory and what it contains
  proc,          \* the server process
  op,            \* the operation that holds s.mu, and where it is
  index,         \* the outcome of the sync.Once that loads the usage index
  repaired,      \* RecoveryReport.Recovered() so far, while Recover runs
  held,          \* ghost: files whose Put or Complete was acknowledged, not since purged
  confirmed,     \* ghost: the last offset a client was told for an open session
  assembled,     \* ghost: the session, and how many of its bytes, an object was made of
  overlooked,    \* ghost: ids a Put or Restore took for free because a stat failed
  faults,        \* failed system calls so far
  crashes        \* process kills so far

fileVars  == <<objects, manifests, manifestTmps, partials, trash>>
diskVars  == <<fileVars, uploads>>
ghostVars == <<held, confirmed, assembled, overlooked>>
procVars  == <<proc, repaired, crashes>>
vars == <<diskVars, procVars, op, index, ghostVars, faults>>

-----------------------------------------------------------------------------
(* The shapes on disk. *)

Absent  == -1   \* a part file that does not exist
NotOpen == -1   \* a session no client relies on

ManifestState == {"none", "live", "deleted"}

NoTrash == [dir |-> FALSE, object |-> FALSE, tmp |-> FALSE, manifest |-> "none"]
TrashItem == [dir : BOOLEAN, object : BOOLEAN, tmp : BOOLEAN, manifest : ManifestState]

NoSession == [dir |-> FALSE, part |-> Absent, tmp |-> FALSE, status |-> "none",
              received |-> 0, file |-> NoFile, stale |-> FALSE]
\* Append may read one byte past its chunk before it notices (io.LimitReader(chunkSize+1)).
Session == [dir : BOOLEAN, part : -1 .. UploadSize + 1, tmp : BOOLEAN,
            status : {"none", "uploading", "completed"},
            received : 0 .. UploadSize, file : FileIds \cup {NoFile}, stale : BOOLEAN]

NotAssembled == [from |-> NoUpload, bytes |-> 0]

-----------------------------------------------------------------------------
(* What the readers of the store check. *)

\* getTrashUnlocked: a manifest with deleted_at, and an object beside it.
TrashOK(id) == trash[id].manifest = "deleted" /\ trash[id].object

\* getUploadUnlocked: a manifest, and for a session still uploading a part file of
\* exactly the received size.
UploadOK(u) ==
  /\ uploads[u].status # "none"
  /\ uploads[u].status = "uploading" => uploads[u].part = uploads[u].received

\* rebuildUsageLocked succeeds: it reads every trash entry and every session and
\* stops at the first one it cannot use.
RebuildOK ==
  /\ \A id \in FileIds : trash[id].dir => TrashOK(id)
  /\ \A u \in UploadIds : uploads[u].dir => UploadOK(u)

\* Ready, without the probe file (see ReadinessProbe).
ReadyOK ==
  /\ partials = {}
  /\ manifestTmps = {}
  /\ \A id \in FileIds :
       /\ manifests[id] # "none" <=> id \in objects
       /\ trash[id].dir => TrashOK(id) /\ ~trash[id].tmp
  /\ \A u \in UploadIds : uploads[u].dir =>
       /\ UploadOK(u) /\ ~uploads[u].tmp
       /\ uploads[u].status = "completed" => uploads[u].part = Absent

-----------------------------------------------------------------------------
(* The operation that holds the lock. *)

Idle == [pc |-> "idle", file |-> NoFile, session |-> NoUpload, base |-> 0, chunk |-> 0,
         files |-> {}, sessions |-> {}, victim |-> NoUpload]

Serving == proc = "running" /\ op = Idle

At(place) == op.pc = place
Goto(place) == op' = [op EXCEPT !.pc = place]
Return == op' = Idle

\* A system call fails.  The code's error path follows in the action that uses this.
IOError == faults < MaxFaults /\ faults' = faults + 1

\* pathExists (store.go:1425) takes any error of os.Stat for absence.  A guard that wants
\* id to be absent passes over each entry that is there only if its stat fails.
Missed(there) == IF there THEN 1 ELSE 0
Overlooks(id, entries) ==
  /\ faults + entries <= MaxFaults
  /\ faults' = faults + entries
  /\ overlooked' = IF entries = 0 THEN overlooked ELSE overlooked \cup {id}

\* ensureUsageLocked: the first caller scans the store, and load.Do keeps the outcome.
EnsureUsage ==
  index' = IF index # "unloaded" THEN index
           ELSE IF RebuildOK THEN "loaded" ELSE "failed"
=============================================================================
