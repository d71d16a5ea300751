----------------------------- MODULE DiskStore -----------------------------
(***************************************************************************)
(* The file store as core/apigateway runs it: NewDiskStore and Recover     *)
(* before the listener opens (main.go:65-81), then requests one writer at  *)
(* a time, with process kills and failed system calls at any point.        *)
(***************************************************************************)
EXTENDS FileOps, UploadOps

\* The data directories are empty and no process runs.
Init ==
  /\ objects = {} /\ manifestTmps = {} /\ partials = {}
  /\ manifests = [id \in FileIds |-> "none"]
  /\ trash = [id \in FileIds |-> NoTrash]
  /\ uploads = [u \in UploadIds |-> NoSession]
  /\ proc = "down" /\ op = Idle /\ index = "unloaded" /\ repaired = FALSE
  /\ held = {} /\ confirmed = [u \in UploadIds |-> NotOpen]
  /\ assembled = [id \in FileIds |-> NotAssembled] /\ overlooked = {}
  /\ faults = 0 /\ crashes = 0

-----------------------------------------------------------------------------
(* The process. *)

\* NewDiskStoreWithOptions makes the directories; main then calls Recover.
Restart ==
  /\ proc = "down"
  /\ proc' = "recovering"
  /\ op' = [Idle EXCEPT !.pc = "recover"]
  /\ UNCHANGED <<diskVars, index, repaired, ghostVars, faults, crashes>>

\* What was in memory is lost, what is on disk stays.
Crash ==
  /\ proc # "down"
  /\ crashes < MaxCrashes
  /\ crashes' = crashes + 1
  /\ proc' = "down" /\ op' = Idle /\ index' = "unloaded" /\ repaired' = FALSE
  /\ UNCHANGED <<diskVars, ghostVars, faults>>

-----------------------------------------------------------------------------
(* Recover: tmp/*.part, metadata/*.json.tmp and the unfinished sessions go to *)
(* quarantine/, in this order; trash/ and objects/ are not looked at.         *)

Quarantines(unchanged) ==
  /\ repaired' = TRUE
  /\ UNCHANGED <<proc, crashes, op, index, ghostVars, faults>>
  /\ UNCHANGED unchanged

RecoverPartial(id) ==
  /\ At("recover")
  /\ id \in partials
  /\ partials' = partials \ {id}
  /\ Quarantines(<<objects, manifests, manifestTmps, trash, uploads>>)

RecoverManifestTmp(id) ==
  /\ At("recover")
  /\ partials = {} /\ id \in manifestTmps
  /\ manifestTmps' = manifestTmps \ {id}
  /\ Quarantines(<<objects, manifests, partials, trash, uploads>>)

RecoverUploadTmp(u) ==
  /\ At("recover")
  /\ partials = {} /\ manifestTmps = {}
  /\ uploads[u].tmp
  /\ uploads' = [uploads EXCEPT ![u].tmp = FALSE]
  /\ Quarantines(fileVars)

\* Mutant: any session whose part does not fit its manifest is quarantined.
RecoverUnreadableSession(u) ==
  /\ At("recover")
  /\ partials = {} /\ manifestTmps = {}
  /\ uploads[u].dir /\ ~uploads[u].tmp /\ ~UploadOK(u)
  /\ uploads' = [uploads EXCEPT ![u] = NoSession]
  /\ Quarantines(fileVars)

\* Mutant: a session that has a manifest is quarantined as well.
RecoverAnySession(u) ==
  /\ At("recover")
  /\ partials = {} /\ manifestTmps = {}
  /\ uploads[u].dir /\ ~uploads[u].tmp
  /\ uploads' = [uploads EXCEPT ![u] = NoSession]
  /\ Quarantines(fileVars)

\* A session without a manifest, as a whole.
RecoverSession(u) ==
  /\ At("recover")
  /\ partials = {} /\ manifestTmps = {}
  /\ uploads[u].dir /\ ~uploads[u].tmp /\ uploads[u].status = "none"
  /\ uploads' = [uploads EXCEPT ![u] = NoSession]
  /\ Quarantines(fileVars)

\* Mutant: metadata/ is not scanned for temporary manifests.
RecoverScannedWithoutMetadata ==
  /\ At("recover")
  /\ partials = {}
  /\ \A u \in SessionDirs : ~uploads[u].tmp /\ uploads[u].status # "none"
  /\ op' = IF UploadTTL THEN [op EXCEPT !.pc = "sweep", !.sessions = SessionDirs]
                        ELSE [op EXCEPT !.pc = "rebuild"]
  /\ UNCHANGED <<diskVars, procVars, index, ghostVars, faults>>

RecoverScanned ==
  /\ At("recover")
  /\ partials = {} /\ manifestTmps = {}
  /\ \A u \in SessionDirs : ~uploads[u].tmp /\ uploads[u].status # "none"
  /\ op' = IF UploadTTL THEN [op EXCEPT !.pc = "sweep", !.sessions = SessionDirs]
                        ELSE [op EXCEPT !.pc = "rebuild"]
  /\ UNCHANGED <<diskVars, procVars, index, ghostVars, faults>>

\* Mutant: the usage is recounted even when Recover had nothing to do.
RecoverDoneAlwaysRebuilding ==
  /\ At("rebuild")
  /\ proc' = IF ~RebuildOK THEN "down" ELSE "running"
  /\ repaired' = FALSE
  /\ Return
  /\ UNCHANGED <<diskVars, crashes, index, ghostVars, faults>>

\* If anything was removed the usage is recounted; when that fails, or a system call
\* of Recover does, main returns the error and the process exits.
RecoverDone ==
  /\ At("rebuild")
  /\ proc' = IF repaired /\ ~RebuildOK THEN "down" ELSE "running"
  /\ repaired' = FALSE
  /\ Return
  /\ UNCHANGED <<diskVars, crashes, index, ghostVars, faults>>

RecoverIOError ==
  /\ op.pc \in {"recover", "rebuild"}
  /\ IOError
  /\ proc' = "down" /\ repaired' = FALSE
  /\ Return
  /\ UNCHANGED <<diskVars, crashes, index, ghostVars>>

RecoverStep ==
  \/ RecoverScanned \/ RecoverDone \/ RecoverIOError
  \/ \E id \in FileIds : RecoverPartial(id) \/ RecoverManifestTmp(id)
  \/ \E u \in UploadIds : RecoverUploadTmp(u) \/ RecoverSession(u)

-----------------------------------------------------------------------------
\* What runs without a new request: the steps of the operation in progress.
Progress == PutStep \/ DeleteStep \/ RestoreStep \/ PurgeStep \/ SweepStep
            \/ SessionStep \/ CompleteStep \/ RecoverStep

Next ==
  \/ Progress
  \/ FileStart \/ UploadStart
  \/ \E u \in UploadIds : Age(u)
  \/ Restart \/ Crash

Spec == Init /\ [][Next]_vars
-----------------------------------------------------------------------------
(* Types. *)

Places == {"idle",
  "putBody", "putTmp", "putRename", "putSync", "putUndoManifest", "putUndo",
  "delObject", "delManifest", "delTmp", "delMark", "delSync",
  "undoObject", "undoManifest", "undoDir",
  "resMark", "resObject", "resManifest", "resDir", "resSync", "resUndo",
  "purge", "purgeDrop",
  "sweep", "sweepDrop", "drop",
  "startDir", "startPart", "startTmp", "startRename", "startSync",
  "appBody", "appRename", "appSync", "appUndo",
  "cmpTmp", "cmpRename", "cmpSession", "cmpSessionRename", "cmpSync",
  "cmpUndo", "cmpUndoManifest",
  "recover", "rebuild"}

Operation == [pc : Places, file : FileIds \cup {NoFile}, session : UploadIds \cup {NoUpload},
              base : 0 .. UploadSize, chunk : 0 .. UploadSize,
              files : SUBSET FileIds, sessions : SUBSET UploadIds,
              victim : UploadIds \cup {NoUpload}]

\* Every variable holds a value of its kind (the directories and records of
\* store.go:70-174 and model.go:35-76).
TypeOK ==
  /\ objects \subseteq FileIds /\ manifestTmps \subseteq FileIds /\ partials \subseteq FileIds
  /\ manifests \in [FileIds -> ManifestState]
  /\ trash \in [FileIds -> TrashItem]
  /\ uploads \in [UploadIds -> Session]
  /\ proc \in {"down", "recovering", "running"}
  /\ op \in Operation
  /\ index \in {"unloaded", "loaded", "failed"}
  /\ repaired \in BOOLEAN
  /\ held \subseteq FileIds /\ overlooked \subseteq FileIds
  /\ confirmed \in [UploadIds -> -1 .. UploadSize]
  /\ assembled \in [FileIds -> [from : UploadIds \cup {NoUpload}, bytes : 0 .. UploadSize]]
  /\ faults \in 0 .. MaxFaults
  /\ crashes \in 0 .. MaxCrashes

-----------------------------------------------------------------------------
(* Safety. *)

\* The bytes of a file: in objects/ or in its trash entry.
HasBytes(id) == id \in objects \/ trash[id].object

\* No process kill, at any point of any operation or of Recover, and no single failed
\* system call with the clean-up that follows it, loses the bytes of a file whose
\* creation was acknowledged and whose purge nobody asked for.  (Two failed calls can:
\* Delete's rollback at store.go:1075-1081 removes the trash entry even when the
\* rename that should have emptied it failed.)
HeldBytesKept == faults <= 1 => \A id \in held : HasBytes(id)

\* A manifest in metadata/ never stands for nothing: Put and Complete write the object
\* before its manifest, Delete and Restore move rather than copy.  One failed system call
\* spoils this in Complete alone, whose rollback removes the object first (store.go:599-600;
\* Put's, at 347-348, the manifest): until it has removed the manifest too, and for good if
\* the process is killed there, the manifest stands for a file that is gone.
ManifestHasBytes == faults = 0 \/ (faults = 1 /\ crashes = 0) =>
  \A id \in FileIds : manifests[id] # "none" =>
    HasBytes(id) \/ (At("cmpUndoManifest") /\ id = op.file)

\* One id never has two contents or two manifests, whatever failed or was killed: the
\* guards of Put (store.go:284), Delete (1068) and Restore (1190) are enough.  What they
\* cannot keep apart is an id whose own stat failed.
Single(id) ==
  /\ ~(id \in objects /\ trash[id].object)
  /\ ~(manifests[id] # "none" /\ trash[id].manifest # "none")
OneCopy == \A id \in FileIds \ overlooked : Single(id)

\* A session that says completed has its file, with exactly the declared number of bytes
\* and a manifest to find it by, in metadata/ or in the trash, until the file is purged:
\* Complete commits the object, the manifest and then the session, so a kill between any
\* two of them leaves a session that is not completed yet.
CompletedHasFile == faults = 0 => \A u \in UploadIds :
  uploads[u].status = "completed" =>
    \E id \in FileIds :
      /\ id = uploads[u].file
      /\ assembled[id] # NotAssembled =>
           /\ assembled[id] = [from |-> u, bytes |-> UploadSize]
           /\ HasBytes(id)
           /\ manifests[id] # "none" \/ trash[id].manifest # "none"

\* However often a session is completed again after a kill or a failure, its bytes become
\* one file: Complete moves the part away before anything else can stop it.
BytesUsedOnce == \A i, j \in FileIds :
  i # j /\ assembled[i].from = assembled[j].from => assembled[i].from = NoUpload

\* The bytes up to the offset a client was told are on disk, in the part file or in an
\* object Complete made of it, until the session is aborted, expires, or its file is
\* purged.
ConfirmedBytes(u) ==
  \/ uploads[u].part >= confirmed[u]
  \/ \E id \in FileIds : assembled[id].from = u /\ HasBytes(id)

\* No process kill, in the middle of an append, of a completion or of Recover, takes away
\* bytes a client was told are received.
ConfirmedBytesKept == faults = 0 => \A u \in UploadIds : ConfirmedBytes(u)

\* AppendUpload writes and syncs data before the manifest that counts it (store.go:505,
\* 536): short of a failed system call a session manifest is never ahead of its data.
ManifestNeverAhead == faults = 0 => \A u \in UploadIds :
  uploads[u].status = "uploading" /\ uploads[u].part # Absent
    => uploads[u].received <= uploads[u].part

\* Between operations, if nothing was killed and nothing failed, Ready finds nothing to
\* object to and the usage index could be loaded: every operation leaves all the
\* directories consistent with each other.
QuietStoreReady ==
  proc = "running" /\ op = Idle /\ faults = 0 /\ crashes = 0 => ReadyOK /\ index # "failed"

\* Once the process serves, Recover has left no temporary file of Put or of a session
\* behind, not even one of an earlier process: only the operation that runs has one.
\* This is what the O_EXCL of the next writer needs.  In trash/, which Recover does not
\* look at, it holds until the first kill: one in the middle of Delete or Restore leaves
\* trash/{id}/manifest.json.tmp for good, and writeManifest (store.go:1564) refuses every
\* later Restore of that file.
NoStrayTemporaries == proc = "running" /\ faults = 0 =>
  /\ partials \cup manifestTmps \subseteq {op.file}
  /\ \A u \in UploadIds : uploads[u].tmp => u = op.session
  /\ crashes = 0 => \A id \in FileIds : trash[id].tmp => id = op.file

-----------------------------------------------------------------------------
(* What a step may never do. *)

\* Recovery touches only what the package writes as temporary files (recovery.go:45-48):
\* objects, manifests and the trash stay, and so does every session a client could
\* still use.
RecoverKeepsData ==
  [][proc = "recovering" =>
       /\ UNCHANGED <<objects, manifests, trash>>
       /\ \A u \in UploadIds : UploadOK(u) /\ ~Expired(u) =>
            uploads[u] = [uploads'[u] EXCEPT !.tmp = uploads[u].tmp, !.stale = uploads[u].stale]]_vars

Lifecycle == INSTANCE FileLifecycle WITH
  place <- [id \in FileIds |-> IF manifests[id] # "none" THEN "active"
                              ELSE IF trash[id].manifest # "none" THEN "trashed"
                              ELSE "absent"],
  promised <- held

\* Seen through the directory its manifest is in, every file follows FileLifecycle.
FollowsLifecycle == Lifecycle!Spec

-----------------------------------------------------------------------------
(* Liveness. *)

\* A store that is down serves again, although Recover may fail and the process exit:
\* what a failing Recover has already quarantined does not stop the next one.
ServesAgain == proc # "running" ~> proc = "running"

\* Every operation lets go of the lock.
LockReleased == op # Idle ~> op = Idle

-----------------------------------------------------------------------------
(* What the documentation says and the code does not do. *)

\* pkg/files/service.go:143-144, of Recover: it "repairs crash leftovers so a restarted
\* process can become ready without manual filesystem surgery".
ReadyAfterRecovery == proc = "running" /\ op = Idle /\ faults = 0 => ReadyOK

\* docs/superpowers/specs/2026-08-15-resumable-upload-design.md:11-12: the received byte
\* count is kept over a restart, and the client continues from it.
SessionResumable ==
  proc = "running" /\ op = Idle /\ faults = 0 =>
    \A u \in UploadIds : confirmed[u] # NotOpen => UploadOK(u)

\* docs/superpowers/specs/2026-08-15-resumable-upload-design.md:14: completion generates
\* the file object atomically, so one that fails leaves the session its bytes.
CompleteAtomic == \A u \in UploadIds : ConfirmedBytes(u)

=============================================================================
