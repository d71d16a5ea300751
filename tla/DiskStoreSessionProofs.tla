----------------------- MODULE DiskStoreSessionProofs -----------------------
(***************************************************************************)
(* The resumable sessions of DiskStore, its temporary files, what Recover  *)
(* promises (ManifestNeverAhead, ConfirmedBytesKept, CompletedHasFile,     *)
(* BytesUsedOnce, NoStrayTemporaries, RecoverKeepsData) and the refinement *)
(* of FileLifecycle, for every set of files and sessions.                  *)
(***************************************************************************)
EXTENDS DiskStoreProofs

-----------------------------------------------------------------------------
(* Which operations run in which process. *)

FilePlaces == {"putBody", "putTmp", "putRename", "putSync", "putUndoManifest", "putUndo",
               "delObject", "delManifest", "delTmp", "delMark", "delSync",
               "undoObject", "undoManifest", "undoDir",
               "resMark", "resObject", "resManifest", "resDir", "resSync", "resUndo",
               "purge", "purgeDrop"}
StartPlaces == {"startPart", "startTmp", "startRename", "startSync"}
CompletePlaces == {"cmpTmp", "cmpRename", "cmpSession", "cmpSessionRename", "cmpSync",
                   "cmpUndo", "cmpUndoManifest"}
SweepPlaces == {"sweep", "sweepDrop"}
RecoverPlaces == {"recover", "rebuild"}
\* Places where op.session is a directory of the operation's own.
OwnPlaces == AppendPlaces \cup StartPlaces \cup CompletePlaces \cup {"drop"}

\* A process that is down has no operation, one that recovers nothing but Recover, which
\* has no session of its own, and Recover runs in no other.
ProcInv ==
  /\ proc = "down" => op = Idle
  /\ proc = "recovering" => op.pc \in SweepPlaces \cup RecoverPlaces /\ op.session = NoUpload
  /\ op.pc \in RecoverPlaces => proc = "recovering"

\* What the steps of Put, Delete, Restore and PurgeTrash leave alone.
LEMMA FileStepPlaces ==
  ASSUME TypeInv, PutStep \/ DeleteStep \/ RestoreStep \/ PurgeStep
  PROVE  /\ op.pc \in FilePlaces
         /\ op'.pc \in FilePlaces \cup {"idle"}
         /\ UNCHANGED <<uploads, proc, index, crashes, repaired>>
         /\ \A u \in UploadIds : confirmed'[u] \in {confirmed[u], NotOpen}
         /\ faults' = faults \/ IOError
<1> USE DEF At, Frame, fileVars, diskVars, ghostVars, procVars
<1>a. op \in Operation BY DEF TypeInv, TypeOK
<1>1. CASE PutStep
  <2>1. op.pc \in FilePlaces /\ UNCHANGED <<uploads, proc, index, crashes, repaired, confirmed>>
        /\ (faults' = faults \/ IOError)
    BY <1>1 DEF PutStep, PutAbandon, PutCommitObject, PutWriteManifest, PutCommitManifest, PutAck,
       PutIOError, PutUndoManifest, PutUndo, FilePlaces, IOError
  <2>2. op'.pc \in {"idle", "putTmp", "putRename", "putSync", "putUndoManifest", "putUndo"}
    BY <1>1, <1>a, GotoKeepsOperation, ReturnKeepsOperation, PlaceNames
       DEF PutStep, PutAbandon, PutCommitObject, PutWriteManifest, PutCommitManifest, PutAck,
           PutIOError, PutUndoManifest, PutUndo
  <2> QED BY <2>1, <2>2 DEF FilePlaces
<1>2. CASE DeleteStep
  <2>1. op.pc \in FilePlaces /\ UNCHANGED <<uploads, proc, index, crashes, repaired, confirmed>>
        /\ (faults' = faults \/ IOError)
    BY <1>2 DEF DeleteStep, DeleteMoveObject, DeleteMoveFails, DeleteMoveManifest, DeleteWriteMark,
       DeleteCommitMark, DeleteReturn, DeleteIOError, UndoDeleteObject, UndoDeleteManifest,
       UndoDeleteDir, FilePlaces, IOError
  <2>2. op'.pc \in {"idle", "delManifest", "delTmp", "delMark", "delSync", "undoObject",
                    "undoManifest", "undoDir"}
    BY <1>2, <1>a, GotoKeepsOperation, ReturnKeepsOperation, PlaceNames
       DEF DeleteStep, DeleteMoveObject, DeleteMoveFails, DeleteMoveManifest, DeleteWriteMark,
           DeleteCommitMark, DeleteReturn, DeleteIOError, UndoDeleteObject, UndoDeleteManifest,
           UndoDeleteDir
  <2> QED BY <2>1, <2>2 DEF FilePlaces
<1>3. CASE RestoreStep
  <2>1. op.pc \in FilePlaces /\ UNCHANGED <<uploads, proc, index, crashes, repaired, confirmed>>
        /\ (faults' = faults \/ IOError)
    BY <1>3 DEF RestoreStep, RestoreCommitMark, RestoreMoveObject, RestoreMoveManifest,
       RestoreRemoveDir, RestoreReturn, RestoreEarlyIOError, RestoreIOError, RestoreUndo,
       FilePlaces, IOError
  <2>2. op'.pc \in {"idle", "resObject", "resManifest", "resDir", "resSync", "resUndo"}
    BY <1>3, <1>a, GotoKeepsOperation, ReturnKeepsOperation, PlaceNames
       DEF RestoreStep, RestoreCommitMark, RestoreMoveObject, RestoreMoveManifest,
           RestoreRemoveDir, RestoreReturn, RestoreEarlyIOError, RestoreIOError, RestoreUndo
  <2> QED BY <2>1, <2>2 DEF FilePlaces
<1>4. CASE PurgeStep
  <2>1. CASE PurgeStops \/ PurgeUnlink \/ PurgeRemoveDir \/ PurgeIOError \/ PurgeReturn
    <3>1. op.pc \in FilePlaces /\ UNCHANGED <<uploads, proc, index, crashes, repaired, confirmed>>
          /\ (faults' = faults \/ IOError)
      BY <2>1 DEF PurgeStops, PurgeUnlink, PurgeRemoveDir, PurgeIOError, PurgeReturn, FilePlaces, IOError
    <3>2. op'.pc \in {"idle", "purge", "purgeDrop"}
      BY <2>1, <1>a, ReturnKeepsOperation, PlaceNames
         DEF PurgeStops, PurgeUnlink, PurgeRemoveDir, PurgeIOError, PurgeReturn, Operation
    <3> QED BY <3>1, <3>2 DEF FilePlaces
  <2>2. ASSUME NEW id \in FileIds, PurgeKeeps(id) \/ PurgeEntry(id)
        PROVE  /\ op.pc \in FilePlaces /\ op'.pc \in FilePlaces
               /\ UNCHANGED <<uploads, proc, index, crashes, repaired, faults>>
               /\ \A u \in UploadIds : confirmed'[u] \in {confirmed[u], NotOpen}
    BY <2>2, <1>a DEF PurgeKeeps, PurgeEntry, FilePlaces, Operation
  <2> QED BY <2>1, <2>2, <1>4 DEF PurgeStep
<1> QED BY <1>1, <1>2, <1>3, <1>4

\* An operation that is not Recover's runs in a process that serves.
LEMMA OperationServes ==
  ASSUME TypeInv, ProcInv, op.pc \notin SweepPlaces \cup RecoverPlaces \cup {"idle"}
  PROVE  proc = "running"
BY IdleOperation DEF TypeInv, TypeOK, ProcInv

LEMMA RunningProc ==
  ASSUME proc' = "running", op'.pc \notin RecoverPlaces
  PROVE  ProcInv'
BY DEF ProcInv

\* Where the steps of a session operation lead.
LEMMA SessionStepPlaces ==
  ASSUME TypeInv, SessionStep \/ CompleteStep
  PROVE  /\ op.pc \in OwnPlaces \cup {"startDir"}
         /\ op'.pc \in OwnPlaces \cup {"idle"}
         /\ UNCHANGED <<proc, crashes, repaired>>
         /\ faults' = faults \/ IOError
<1> USE DEF At, Sessions, fileVars, diskVars, ghostVars, procVars
<1>a. op \in Operation BY DEF TypeInv, TypeOK
<1>1. CASE SessionStep
  <2>1. op.pc \in OwnPlaces \cup {"startDir"} /\ UNCHANGED <<proc, crashes, repaired>>
        /\ (faults' = faults \/ IOError)
    BY <1>1 DEF SessionStep, StartCreateDir, StartRefused, StartCreatePart, StartWriteManifest,
       StartCommitManifest, StartAck, StartIOError, AppendCopy, AppendWriteManifest, AppendReject,
       AppendCommitManifest, AppendAck, AppendIOError, AppendUndo, DropUnlink, DropRemoveDir,
       DropIOError, OwnPlaces, StartPlaces, AppendPlaces, IOError
  <2>2. op'.pc \in {"idle", "startPart", "startTmp", "startRename", "startSync", "drop",
                    "appBody", "appRename", "appSync", "appUndo"}
    <3>1. CASE AppendCopy \/ DropUnlink
      BY <3>1 DEF AppendCopy, DropUnlink
    <3>2. CASE StartRefused \/ StartAck \/ AppendAck \/ AppendUndo \/ DropRemoveDir \/ DropIOError
      BY <3>2, ReturnKeepsOperation
         DEF StartRefused, StartAck, AppendAck, AppendUndo, DropRemoveDir, DropIOError
    <3>3. CASE StartCreateDir \/ StartCreatePart \/ StartWriteManifest \/ StartCommitManifest
               \/ StartIOError \/ AppendWriteManifest \/ AppendReject \/ AppendCommitManifest
               \/ AppendIOError
      BY <3>3, <1>a, GotoKeepsOperation, PlaceNames
         DEF StartCreateDir, StartCreatePart, StartWriteManifest, StartCommitManifest, StartIOError,
             AppendWriteManifest, AppendReject, AppendCommitManifest, AppendIOError
    <3> QED BY <3>1, <3>2, <3>3, <1>1 DEF SessionStep
  <2> QED BY <2>1, <2>2 DEF OwnPlaces, StartPlaces, AppendPlaces
<1>2. CASE CompleteStep
  <2>1. op.pc \in CompletePlaces /\ UNCHANGED <<proc, crashes, repaired>>
        /\ (faults' = faults \/ IOError)
    BY <1>2 DEF CompleteStep, CompleteWriteManifest, CompleteCommitManifest, CompleteWriteSession,
       CompleteCommitSession, CompleteAck, CompleteIOError, CompleteUndo, CompleteUndoManifest, CompletePlaces, IOError
  <2>2. op'.pc \in CompletePlaces \cup {"idle"}
    <3>1. CASE CompleteAck \/ CompleteUndoManifest
      BY <3>1, ReturnKeepsOperation DEF CompleteAck, CompleteUndoManifest
    <3>2. CASE CompleteWriteManifest \/ CompleteCommitManifest \/ CompleteWriteSession
               \/ CompleteCommitSession \/ CompleteIOError \/ CompleteUndo
      BY <3>2, <1>a, GotoKeepsOperation, PlaceNames
         DEF CompleteWriteManifest, CompleteCommitManifest, CompleteWriteSession,
             CompleteCommitSession, CompleteIOError, CompleteUndo, CompletePlaces
    <3> QED BY <3>1, <3>2, <1>2 DEF CompleteStep
  <2> QED BY <2>1, <2>2 DEF OwnPlaces
<1> QED BY <1>1, <1>2

\* A request finds the process serving and the lock free, and leads to its first place.
LEMMA StartPlacesOfRequests ==
  ASSUME FileStart \/ UploadStart, op' # op
  PROVE  /\ Serving /\ UNCHANGED <<proc, crashes, repaired>>
         /\ op'.pc \in {"purge", "putBody", "delObject", "resMark", "sweep", "startDir", "drop",
                        "appBody", "cmpTmp"}
<1> USE IdleOperation DEF Frame, Sessions, fileVars, diskVars, ghostVars, procVars, Operation
<1>1. CASE FileStart
  <2>1. CASE PurgeTrash
    BY <2>1 DEF PurgeTrash, Serving
  <2>2. ASSUME NEW id \in FileIds, Put(id) \/ Delete(id) \/ Restore(id)
        PROVE  /\ Serving /\ UNCHANGED <<proc, crashes, repaired>>
               /\ op'.pc \in {"putBody", "delObject", "resMark"}
    BY <2>2 DEF Put, Delete, Restore, Serving
  <2>3. CASE UsageLoad
    BY <2>3 DEF UsageLoad
  <2> QED BY <2>1, <2>2, <2>3, <1>1 DEF FileStart
<1>2. CASE UploadStart
  <2>1. CASE SweepUploads
    BY <2>1 DEF SweepUploads, Serving
  <2>2. ASSUME NEW u \in UploadIds, StartUpload(u) \/ AbortUpload(u)
        PROVE  /\ Serving /\ UNCHANGED <<proc, crashes, repaired>>
               /\ op'.pc \in {"sweep", "startDir", "drop"}
    BY <2>2 DEF StartUpload, AbortUpload, Serving
  <2>3. ASSUME NEW u \in UploadIds, NEW n \in 1 .. UploadSize, AppendUpload(u, n)
        PROVE  /\ Serving /\ UNCHANGED <<proc, crashes, repaired>> /\ op'.pc = "appBody"
    BY <2>3 DEF AppendUpload, Serving
  <2>4. ASSUME NEW u \in UploadIds, NEW id \in FileIds, CompleteUpload(u, id)
        PROVE  /\ Serving /\ UNCHANGED <<proc, crashes, repaired>> /\ op'.pc = "cmpTmp"
    BY <2>4 DEF CompleteUpload, Serving
  <2> QED BY <2>1, <2>2, <2>3, <2>4, <1>2 DEF UploadStart
<1> QED BY <1>1, <1>2

LEMMA NextProc == TypeInv /\ ProcInv /\ [Next]_vars => ProcInv'
<1> SUFFICES ASSUME TypeInv, ProcInv, [Next]_vars PROVE ProcInv'
  OBVIOUS
<1> USE DEF At, Sessions, Quarantines, fileVars, diskVars, ghostVars, procVars
<1>a. op \in Operation BY DEF TypeInv, TypeOK
<1>1. CASE PutStep \/ DeleteStep \/ RestoreStep \/ PurgeStep
  <2>1. proc = "running"
    BY <1>1, FileStepPlaces, OperationServes DEF FilePlaces, SweepPlaces, RecoverPlaces
  <2> QED BY <1>1, <2>1, FileStepPlaces, RunningProc DEF FilePlaces, RecoverPlaces
<1>2. CASE SessionStep \/ CompleteStep
  <2>1. proc = "running"
    BY <1>2, SessionStepPlaces, OperationServes
       DEF OwnPlaces, AppendPlaces, StartPlaces, CompletePlaces, SweepPlaces, RecoverPlaces
  <2> QED BY <1>2, <2>1, SessionStepPlaces, RunningProc
       DEF OwnPlaces, AppendPlaces, StartPlaces, CompletePlaces, RecoverPlaces
<1>3. CASE SweepStep
  <2>1. CASE SweepUnlink
    BY <2>1 DEF SweepUnlink, ProcInv
  <2>2. CASE SweepRemoveDir
    <3>1. op'.pc = "sweep" /\ op'.session = op.session
      BY <2>2, <1>a DEF SweepRemoveDir, Operation
    <3>2. op.pc = "sweepDrop" /\ proc' = proc
      BY <2>2 DEF SweepRemoveDir
    <3> QED BY <3>1, <3>2, IdleOperation DEF ProcInv, SweepPlaces, RecoverPlaces
  <2>3. CASE SweepDone
    <3>1. CASE proc = "recovering"
      BY <3>1, <2>3, <1>a, GotoKeepsOperation, PlaceNames DEF SweepDone, ProcInv, RecoverPlaces
    <3>2. CASE proc # "recovering"
      <4>1. proc = "running"
        BY <3>2, <2>3, IdleOperation DEF SweepDone, ProcInv, TypeInv, TypeOK
      <4>2. op'.pc \in {"startDir", "idle"}
        BY <3>2, <2>3, <1>a, GotoKeepsOperation, ReturnKeepsOperation, PlaceNames DEF SweepDone
      <4> QED BY <2>3, <4>1, <4>2, RunningProc DEF SweepDone, RecoverPlaces
    <3> QED BY <3>1, <3>2
  <2>4. CASE SweepIOError
    BY <2>4, IdleOperation DEF SweepIOError, Return, ProcInv, RecoverPlaces, TypeInv, TypeOK
  <2>5. ASSUME NEW u \in UploadIds, SweepSkip(u) \/ SweepEntry(u) PROVE ProcInv'
    BY <2>5, <1>a, IdleOperation DEF SweepSkip, SweepEntry, ProcInv, SweepPlaces, RecoverPlaces, Operation
  <2> QED BY <2>1, <2>2, <2>3, <2>4, <2>5, <1>3 DEF SweepStep
<1>4. CASE RecoverStep
  <2>1. CASE RecoverScanned
    BY <2>1, <1>a, IdleOperation DEF RecoverScanned, ProcInv, SweepPlaces, RecoverPlaces, Operation
  <2>2. CASE RecoverDone \/ RecoverIOError
    BY <2>2, IdleOperation DEF RecoverDone, RecoverIOError, Return, ProcInv, RecoverPlaces
  <2>3. ASSUME NEW id \in FileIds, RecoverPartial(id) \/ RecoverManifestTmp(id) PROVE ProcInv'
    BY <2>3 DEF RecoverPartial, RecoverManifestTmp, ProcInv
  <2>4. ASSUME NEW u \in UploadIds, RecoverUploadTmp(u) \/ RecoverSession(u) PROVE ProcInv'
    BY <2>4 DEF RecoverUploadTmp, RecoverSession, ProcInv
  <2> QED BY <2>1, <2>2, <2>3, <2>4, <1>4 DEF RecoverStep
<1>5. CASE (FileStart \/ UploadStart) /\ op' # op
  BY <1>5, StartPlacesOfRequests, RunningProc DEF Serving, RecoverPlaces
<1>6. CASE UNCHANGED <<op, proc>>
  BY <1>6 DEF ProcInv
<1>7. CASE Restart
  BY <1>7, IdleOperation DEF Restart, ProcInv, RecoverPlaces, Operation, Idle
<1>8. CASE Crash
  BY <1>8, IdleOperation DEF Crash, ProcInv, RecoverPlaces
<1>9. CASE FileStart \/ UploadStart
  <2>1. UNCHANGED proc
    BY <1>9 DEF FileStart, UploadStart, UsageLoad, PurgeTrash, Put, Delete, Restore, SweepUploads,
       StartUpload, AbortUpload, AppendUpload, CompleteUpload, Frame
  <2> QED BY <2>1, <1>9, <1>5, <1>6
<1>10. CASE \E u \in UploadIds : Age(u)
  BY <1>10, <1>6 DEF Age
<1> QED BY <1>1, <1>2, <1>3, <1>4, <1>6, <1>7, <1>8, <1>9, <1>10
        DEF Next, Progress, vars

-----------------------------------------------------------------------------
(* The session an operation works on, and the sessions nobody works on. *)

Mine == uploads[op.session]

\* A directory is there as long as anything is in it, and as long as its operation runs.
DirInv ==
  /\ \A u \in UploadIds : ~uploads[u].dir => uploads[u] = NoSession
  /\ op.pc \in OwnPlaces => Mine.dir
  /\ op.pc = "sweepDrop" => uploads[op.victim].dir

\* The sweep removes what is over, and never the session that is about to start.
SweepInv ==
  /\ op.pc \in SweepPlaces =>
       op.session \notin op.sessions /\ \A u \in op.sessions : uploads[u].dir
  /\ op.pc = "sweepDrop" =>
       /\ op.victim # op.session /\ op.victim \notin op.sessions
       /\ confirmed[op.victim] = NotOpen
       /\ uploads[op.victim].status = "uploading" => uploads[op.victim].stale

\* StartUpload builds the directory, the empty part and the manifest, in this order, and
\* no client knows the session before the answer, or after Abort.
StartInv ==
  /\ op.pc \in SweepPlaces \cup {"startDir"} /\ op.session # NoUpload => Mine = NoSession
  /\ op.pc \in StartPlaces \cup {"drop"} => confirmed[op.session] = NotOpen
  /\ op.pc = "startPart" => Mine.part = Absent
  /\ op.pc \in {"startTmp", "startRename", "startSync"} => Mine.part = 0
  /\ op.pc \in {"startPart", "startTmp", "startRename"} => Mine.status = "none"
  /\ op.pc \in StartPlaces => Mine.received = 0 /\ Mine.file = NoFile /\ ~Mine.stale
  /\ op.pc = "startSync" => Mine.status = "uploading"

\* The part file is never shorter than the offset the append began at, and the manifest
\* counts the chunk only once it is all there.
AppendInv ==
  /\ op.pc \in AppendPlaces =>
       /\ Mine.status = "uploading" /\ op.base <= Mine.part
       /\ confirmed[op.session] <= op.base
  /\ op.pc \in {"appBody", "appRename"} => Mine.received = op.base
  /\ op.pc \in {"appRename", "appSync"} => Mine.part = op.base + op.chunk
  /\ op.pc = "appSync" => Mine.received = op.base + op.chunk
  /\ op.pc = "appUndo" /\ faults = 0 => Mine.received = op.base

\* From Complete's first rename on the session has no part; it counts every byte and is
\* completed last.
CompleteInv ==
  /\ op.pc \in CompletePlaces => Mine.part = Absent /\ Mine.received = UploadSize
  /\ op.pc \in {"cmpTmp", "cmpRename", "cmpSession", "cmpSessionRename"} =>
       Mine.status = "uploading"
  /\ op.pc = "cmpSync" => Mine.status = "completed"
  /\ op.pc \in {"cmpUndo", "cmpUndoManifest"} => faults >= 1 /\ Mine.status # "none"

\* A manifest and what it says come and go together, and a client is told of no more.
StatusInv == \A u \in UploadIds :
  /\ uploads[u].status = "none" =>
       uploads[u].received = 0 /\ uploads[u].file = NoFile /\ ~uploads[u].stale
  /\ uploads[u].stale => uploads[u].status = "uploading"
  /\ confirmed[u] # NotOpen => uploads[u].status # "none" /\ confirmed[u] <= uploads[u].received

SessionInv == DirInv /\ SweepInv /\ StartInv /\ AppendInv /\ CompleteInv /\ StatusInv
              /\ ManifestNeverAhead

\* Failed system calls are counted up.
LEMMA FaultsGrow ==
  ASSUME TypeInv, faults' = faults \/ IOError
  PROVE  faults' \in Nat /\ faults <= faults' /\ (faults' = 0 => faults = 0)
BY ConstantsAssumption DEF TypeInv, TypeOK, IOError

\* A step that leaves the sessions alone and ends outside of the operations on them.
LEMMA SessionFrame ==
  ASSUME TypeInv, SessionInv, UNCHANGED uploads,
         \A u \in UploadIds : confirmed'[u] \in {confirmed[u], NotOpen},
         faults' = 0 => faults = 0,
         op'.pc \notin OwnPlaces \cup SweepPlaces \cup {"startDir"}
  PROVE  SessionInv'
<1>1. DirInv' /\ StatusInv'
  BY DEF SessionInv, DirInv, StatusInv, SweepPlaces
<1>2. SweepInv' /\ StartInv' /\ AppendInv' /\ CompleteInv'
  BY DEF SweepInv, StartInv, AppendInv, CompleteInv, OwnPlaces, SweepPlaces, StartPlaces,
     AppendPlaces, CompletePlaces
<1>3. ManifestNeverAhead'
  BY DEF SessionInv, ManifestNeverAhead
<1> QED BY <1>1, <1>2, <1>3 DEF SessionInv

LEMMA FileSessions ==
  TypeInv /\ SessionInv /\ (PutStep \/ DeleteStep \/ RestoreStep \/ PurgeStep) => SessionInv'
<1> SUFFICES ASSUME TypeInv, SessionInv, PutStep \/ DeleteStep \/ RestoreStep \/ PurgeStep
             PROVE  SessionInv'
  OBVIOUS
<1>1. op'.pc \notin OwnPlaces \cup SweepPlaces \cup {"startDir"}
  BY FileStepPlaces DEF FilePlaces, OwnPlaces, AppendPlaces, StartPlaces, CompletePlaces, SweepPlaces
<1>2. faults' = 0 => faults = 0
  BY FileStepPlaces, FaultsGrow
<1> QED BY <1>1, <1>2, FileStepPlaces, SessionFrame

\* What RemoveAll's next unlink makes of a session: less, and nobody else's.
LEMMA UnlinkedFields ==
  ASSUME uploads \in [UploadIds -> Session], NEW u \in UploadIds, UnlinkFrom(u)
  PROVE  /\ uploads'[u].dir = uploads[u].dir
         /\ uploads'[u].part \in {uploads[u].part, Absent}
         /\ uploads'[u].tmp \in {uploads[u].tmp, FALSE}
         /\ \/ /\ uploads'[u].status = uploads[u].status
               /\ uploads'[u].received = uploads[u].received
               /\ uploads'[u].file = uploads[u].file
               /\ uploads'[u].stale = uploads[u].stale
            \/ /\ uploads'[u].status = "none" /\ uploads'[u].received = 0
               /\ uploads'[u].file = NoFile /\ ~uploads'[u].stale
         /\ \A v \in UploadIds \ {u} : uploads'[v] = uploads[v]
<1>1. CASE uploads' = [uploads EXCEPT ![u].part = Absent]
  BY <1>1 DEF Session
<1>2. CASE uploads' = [uploads EXCEPT ![u].tmp = FALSE]
  BY <1>2 DEF Session
<1>3. CASE uploads' = [uploads EXCEPT ![u].status = "none", ![u].received = 0,
                                      ![u].file = NoFile, ![u].stale = FALSE]
  BY <1>3 DEF Session
<1> QED BY <1>1, <1>2, <1>3 DEF UnlinkFrom

\* The steps of StartUpload, AppendUpload and AbortUpload.
LEMMA OwnSessions == TypeInv /\ SessionInv /\ SessionStep => SessionInv'
<1> SUFFICES ASSUME TypeInv, SessionInv, SessionStep PROVE SessionInv'
  OBVIOUS
<1> USE ConstantsAssumption DEF At, Sessions, fileVars, diskVars, ghostVars, procVars
<1>a. op \in Operation /\ OpOK BY DEF TypeInv, TypeOK
<1>b. SessionInv /\ faults \in Nat BY DEF TypeInv, TypeOK
<1>c. uploads \in [UploadIds -> Session] BY DEF TypeInv, TypeOK
<1>d. /\ confirmed \in [UploadIds -> -1 .. UploadSize]
      /\ op.base \in 0 .. UploadSize /\ op.chunk \in 0 .. UploadSize
  BY <1>a DEF TypeInv, TypeOK, Operation
<1>1. CASE StartCreateDir
  <2>1. op.session \in UploadIds
    BY <1>1, <1>a DEF StartCreateDir, OpOK, SessionPlaces, AppendPlaces, StartPlaces
  <2>2. /\ op'.pc = "startPart" /\ op'.session = op.session
        /\ op'.base = op.base /\ op'.chunk = op.chunk
    BY <1>1, <1>a, GotoKeepsOperation, PlaceNames DEF StartCreateDir
  <2>3. /\ uploads'[op.session].dir = TRUE
        /\ uploads'[op.session].part = uploads[op.session].part
        /\ uploads'[op.session].tmp = uploads[op.session].tmp
        /\ uploads'[op.session].status = uploads[op.session].status
        /\ uploads'[op.session].received = uploads[op.session].received
        /\ uploads'[op.session].file = uploads[op.session].file
        /\ uploads'[op.session].stale = uploads[op.session].stale
        /\ \A u \in UploadIds \ {op.session} : uploads'[u] = uploads[u]
    BY <1>1, <1>c, <2>1 DEF StartCreateDir, Session
  <2>4. uploads[op.session] = NoSession
    BY <1>1, <1>b, <2>1 DEF StartCreateDir, SessionInv, StartInv, Mine
  <2>5. confirmed[op.session] = NotOpen
    BY <1>b, <2>1, <2>4 DEF SessionInv, StatusInv, NoSession
  <2>6. UNCHANGED <<confirmed, faults>>
    BY <1>1 DEF StartCreateDir
  <2>7. DirInv' /\ StartInv'
    BY <1>b, <2>1, <2>2, <2>3, <2>4, <2>5, <2>6 DEF NoSession, SessionInv, DirInv, StartInv, Mine,
       OwnPlaces, SweepPlaces, StartPlaces
  <2>8. SweepInv' /\ AppendInv' /\ CompleteInv'
    BY <2>2 DEF SweepInv, AppendInv, CompleteInv, SweepPlaces, AppendPlaces, CompletePlaces
  <2>9. /\ uploads'[op.session].status = "none" /\ uploads'[op.session].received = 0
        /\ uploads'[op.session].file = NoFile /\ ~uploads'[op.session].stale
    BY <2>3, <2>4 DEF NoSession
  <2>10. StatusInv'
    BY <1>b, <2>3, <2>5, <2>6, <2>9 DEF SessionInv, StatusInv
  <2>11. ManifestNeverAhead'
    BY <1>b, <2>3, <2>6, <2>9 DEF SessionInv, ManifestNeverAhead
  <2> QED BY <2>7, <2>8, <2>10, <2>11 DEF SessionInv
<1>2. CASE StartRefused
  <2>1. op.session \in UploadIds
    BY <1>2, <1>a DEF StartRefused, OpOK, SessionPlaces, AppendPlaces, StartPlaces
  <2>2. op'.pc = "idle"
    BY <1>2, ReturnKeepsOperation DEF StartRefused
  <2>3. UNCHANGED uploads
    BY <1>2 DEF StartRefused
  <2> QED BY <1>2, <1>b, <1>c, <1>d, <2>1, <2>2, <2>3
    DEF StartRefused, SessionInv, DirInv, SweepInv, StartInv, AppendInv, CompleteInv, StatusInv, ManifestNeverAhead,
       Mine, OwnPlaces, SweepPlaces, StartPlaces, AppendPlaces, CompletePlaces, NotOpen, Absent
<1>3. CASE StartCreatePart
  <2>1. op.session \in UploadIds
    BY <1>3, <1>a DEF StartCreatePart, OpOK, SessionPlaces, AppendPlaces, StartPlaces
  <2>2. /\ op'.pc = "startTmp" /\ op'.session = op.session
        /\ op'.base = op.base /\ op'.chunk = op.chunk
    BY <1>3, <1>a, GotoKeepsOperation, PlaceNames DEF StartCreatePart
  <2>3. /\ uploads'[op.session].dir = uploads[op.session].dir
        /\ uploads'[op.session].part = 0
        /\ uploads'[op.session].tmp = uploads[op.session].tmp
        /\ uploads'[op.session].status = uploads[op.session].status
        /\ uploads'[op.session].received = uploads[op.session].received
        /\ uploads'[op.session].file = uploads[op.session].file
        /\ uploads'[op.session].stale = uploads[op.session].stale
        /\ \A u \in UploadIds \ {op.session} : uploads'[u] = uploads[u]
    BY <1>3, <1>c, <2>1 DEF StartCreatePart, Session
  <2> QED BY <1>3, <1>b, <1>c, <1>d, <2>1, <2>2, <2>3
    DEF StartCreatePart, SessionInv, DirInv, SweepInv, StartInv, AppendInv, CompleteInv, StatusInv, ManifestNeverAhead,
       Mine, OwnPlaces, SweepPlaces, StartPlaces, AppendPlaces, CompletePlaces, NotOpen, Absent
<1>4. CASE StartWriteManifest
  <2>1. op.session \in UploadIds
    BY <1>4, <1>a DEF StartWriteManifest, OpOK, SessionPlaces, AppendPlaces, StartPlaces
  <2>2. /\ op'.pc = "startRename" /\ op'.session = op.session
        /\ op'.base = op.base /\ op'.chunk = op.chunk
    BY <1>4, <1>a, GotoKeepsOperation, PlaceNames DEF StartWriteManifest
  <2>3. /\ uploads'[op.session].dir = uploads[op.session].dir
        /\ uploads'[op.session].part = uploads[op.session].part
        /\ uploads'[op.session].tmp = TRUE
        /\ uploads'[op.session].status = uploads[op.session].status
        /\ uploads'[op.session].received = uploads[op.session].received
        /\ uploads'[op.session].file = uploads[op.session].file
        /\ uploads'[op.session].stale = uploads[op.session].stale
        /\ \A u \in UploadIds \ {op.session} : uploads'[u] = uploads[u]
    BY <1>4, <1>c, <2>1 DEF StartWriteManifest, Session
  <2> QED BY <1>4, <1>b, <1>c, <1>d, <2>1, <2>2, <2>3
    DEF StartWriteManifest, SessionInv, DirInv, SweepInv, StartInv, AppendInv, CompleteInv, StatusInv, ManifestNeverAhead,
       Mine, OwnPlaces, SweepPlaces, StartPlaces, AppendPlaces, CompletePlaces, NotOpen, Absent
<1>5. CASE StartCommitManifest
  <2>1. op.session \in UploadIds
    BY <1>5, <1>a DEF StartCommitManifest, OpOK, SessionPlaces, AppendPlaces, StartPlaces
  <2>2. /\ op'.pc = "startSync" /\ op'.session = op.session
        /\ op'.base = op.base /\ op'.chunk = op.chunk
    BY <1>5, <1>a, GotoKeepsOperation, PlaceNames DEF StartCommitManifest
  <2>3. /\ uploads'[op.session].dir = uploads[op.session].dir
        /\ uploads'[op.session].part = uploads[op.session].part
        /\ uploads'[op.session].tmp = FALSE
        /\ uploads'[op.session].status = "uploading"
        /\ uploads'[op.session].received = uploads[op.session].received
        /\ uploads'[op.session].file = uploads[op.session].file
        /\ uploads'[op.session].stale = uploads[op.session].stale
        /\ \A u \in UploadIds \ {op.session} : uploads'[u] = uploads[u]
    BY <1>5, <1>c, <2>1 DEF StartCommitManifest, Session
  <2> QED BY <1>5, <1>b, <1>c, <1>d, <2>1, <2>2, <2>3
    DEF StartCommitManifest, SessionInv, DirInv, SweepInv, StartInv, AppendInv, CompleteInv, StatusInv, ManifestNeverAhead,
       Mine, OwnPlaces, SweepPlaces, StartPlaces, AppendPlaces, CompletePlaces, NotOpen, Absent
<1>6. CASE StartAck
  <2>1. op.session \in UploadIds
    BY <1>6, <1>a DEF StartAck, OpOK, SessionPlaces, AppendPlaces, StartPlaces
  <2>2. op'.pc = "idle"
    BY <1>6, ReturnKeepsOperation DEF StartAck
  <2>3. UNCHANGED uploads
    BY <1>6 DEF StartAck
  <2> QED BY <1>6, <1>b, <1>c, <1>d, <2>1, <2>2, <2>3
    DEF StartAck, SessionInv, DirInv, SweepInv, StartInv, AppendInv, CompleteInv, StatusInv, ManifestNeverAhead,
       Mine, OwnPlaces, SweepPlaces, StartPlaces, AppendPlaces, CompletePlaces, NotOpen, Absent
<1>7. CASE StartIOError
  <2>1. op.session \in UploadIds
    BY <1>7, <1>a DEF StartIOError, OpOK, SessionPlaces, AppendPlaces, StartPlaces
  <2>2. /\ op'.pc = "drop" /\ op'.session = op.session
        /\ op'.base = op.base /\ op'.chunk = op.chunk
    BY <1>7, <1>a, GotoKeepsOperation, PlaceNames DEF StartIOError
  <2>3. /\ uploads'[op.session].dir = uploads[op.session].dir
        /\ uploads'[op.session].part = uploads[op.session].part
        /\ uploads'[op.session].tmp = FALSE
        /\ uploads'[op.session].status = uploads[op.session].status
        /\ uploads'[op.session].received = uploads[op.session].received
        /\ uploads'[op.session].file = uploads[op.session].file
        /\ uploads'[op.session].stale = uploads[op.session].stale
        /\ \A u \in UploadIds \ {op.session} : uploads'[u] = uploads[u]
    BY <1>7, <1>c, <2>1 DEF StartIOError, Session
  <2> QED BY <1>7, <1>b, <1>c, <1>d, <2>1, <2>2, <2>3
    DEF StartIOError, IOError, SessionInv, DirInv, SweepInv, StartInv, AppendInv, CompleteInv, StatusInv, ManifestNeverAhead,
       Mine, OwnPlaces, SweepPlaces, StartPlaces, AppendPlaces, CompletePlaces, NotOpen, Absent
<1>9. CASE AppendWriteManifest
  <2>1. op.session \in UploadIds
    BY <1>9, <1>a DEF AppendWriteManifest, OpOK, SessionPlaces, AppendPlaces, StartPlaces
  <2>2. /\ op'.pc = "appRename" /\ op'.session = op.session
        /\ op'.base = op.base /\ op'.chunk = op.chunk
    BY <1>9, <1>a, GotoKeepsOperation, PlaceNames DEF AppendWriteManifest
  <2>3. /\ uploads'[op.session].dir = uploads[op.session].dir
        /\ uploads'[op.session].part = uploads[op.session].part
        /\ uploads'[op.session].tmp = TRUE
        /\ uploads'[op.session].status = uploads[op.session].status
        /\ uploads'[op.session].received = uploads[op.session].received
        /\ uploads'[op.session].file = uploads[op.session].file
        /\ uploads'[op.session].stale = uploads[op.session].stale
        /\ \A u \in UploadIds \ {op.session} : uploads'[u] = uploads[u]
    BY <1>9, <1>c, <2>1 DEF AppendWriteManifest, Session
  <2> QED BY <1>9, <1>b, <1>c, <1>d, <2>1, <2>2, <2>3
    DEF AppendWriteManifest, SessionInv, DirInv, SweepInv, StartInv, AppendInv, CompleteInv, StatusInv, ManifestNeverAhead,
       Mine, OwnPlaces, SweepPlaces, StartPlaces, AppendPlaces, CompletePlaces, NotOpen, Absent
<1>10. CASE AppendReject
  <2>1. op.session \in UploadIds
    BY <1>10, <1>a DEF AppendReject, OpOK, SessionPlaces, AppendPlaces, StartPlaces
  <2>2. /\ op'.pc = "appUndo" /\ op'.session = op.session
        /\ op'.base = op.base /\ op'.chunk = op.chunk
    BY <1>10, <1>a, GotoKeepsOperation, PlaceNames DEF AppendReject
  <2>3. UNCHANGED uploads
    BY <1>10 DEF AppendReject
  <2> QED BY <1>10, <1>b, <1>c, <1>d, <2>1, <2>2, <2>3
    DEF AppendReject, SessionInv, DirInv, SweepInv, StartInv, AppendInv, CompleteInv, StatusInv, ManifestNeverAhead,
       Mine, OwnPlaces, SweepPlaces, StartPlaces, AppendPlaces, CompletePlaces, NotOpen, Absent
<1>11. CASE AppendCommitManifest
  <2>1. op.session \in UploadIds
    BY <1>11, <1>a DEF AppendCommitManifest, OpOK, SessionPlaces, AppendPlaces, StartPlaces
  <2>2. /\ op'.pc = "appSync" /\ op'.session = op.session
        /\ op'.base = op.base /\ op'.chunk = op.chunk
    BY <1>11, <1>a, GotoKeepsOperation, PlaceNames DEF AppendCommitManifest
  <2>3. /\ uploads'[op.session].dir = uploads[op.session].dir
        /\ uploads'[op.session].part = uploads[op.session].part
        /\ uploads'[op.session].tmp = FALSE
        /\ uploads'[op.session].status = uploads[op.session].status
        /\ uploads'[op.session].received = op.base + op.chunk
        /\ uploads'[op.session].file = uploads[op.session].file
        /\ uploads'[op.session].stale = FALSE
        /\ \A u \in UploadIds \ {op.session} : uploads'[u] = uploads[u]
    BY <1>11, <1>c, <2>1 DEF AppendCommitManifest, Session
  <2>4. /\ uploads[op.session].received = op.base /\ uploads[op.session].part = op.base + op.chunk
        /\ uploads[op.session].status = "uploading" /\ uploads[op.session].dir
        /\ confirmed[op.session] <= op.base
    BY <1>11, <1>b DEF AppendCommitManifest, SessionInv, DirInv, AppendInv, Mine, AppendPlaces, OwnPlaces
  <2>5. UNCHANGED <<confirmed, faults>>
    BY <1>11 DEF AppendCommitManifest
  <2>6. op.base <= op.base + op.chunk /\ confirmed[op.session] <= op.base + op.chunk
    BY <1>d, <2>1, <2>4
  <2>7. DirInv' /\ SweepInv' /\ StartInv' /\ CompleteInv'
    BY <1>b, <2>1, <2>2, <2>3, <2>4 DEF SessionInv, DirInv, SweepInv, StartInv, CompleteInv,
       Mine, OwnPlaces, SweepPlaces, StartPlaces, AppendPlaces, CompletePlaces
  <2>8. AppendInv'
    BY <1>d, <2>1, <2>2, <2>3, <2>4, <2>5, <2>6 DEF AppendInv, Mine, AppendPlaces
  <2>9. StatusInv'
    BY <1>b, <2>1, <2>3, <2>4, <2>5, <2>6 DEF SessionInv, StatusInv
  <2>10. ManifestNeverAhead'
    BY <1>b, <1>d, <2>1, <2>3, <2>4, <2>5 DEF SessionInv, ManifestNeverAhead
  <2> QED BY <2>7, <2>8, <2>9, <2>10 DEF SessionInv
<1>12. CASE AppendAck
  <2>1. op.session \in UploadIds
    BY <1>12, <1>a DEF AppendAck, OpOK, SessionPlaces, AppendPlaces, StartPlaces
  <2>2. op'.pc = "idle"
    BY <1>12, ReturnKeepsOperation DEF AppendAck
  <2>3. UNCHANGED uploads
    BY <1>12 DEF AppendAck
  <2> QED BY <1>12, <1>b, <1>c, <1>d, <2>1, <2>2, <2>3
    DEF AppendAck, SessionInv, DirInv, SweepInv, StartInv, AppendInv, CompleteInv, StatusInv, ManifestNeverAhead,
       Mine, OwnPlaces, SweepPlaces, StartPlaces, AppendPlaces, CompletePlaces, NotOpen, Absent
<1>13. CASE AppendIOError
  <2>1. op.session \in UploadIds
    BY <1>13, <1>a DEF AppendIOError, OpOK, SessionPlaces, AppendPlaces, StartPlaces
  <2>2. /\ op'.pc = "appUndo" /\ op'.session = op.session
        /\ op'.base = op.base /\ op'.chunk = op.chunk
    BY <1>13, <1>a, GotoKeepsOperation, PlaceNames DEF AppendIOError
  <2>3. /\ uploads'[op.session].dir = uploads[op.session].dir
        /\ uploads'[op.session].part = uploads[op.session].part
        /\ uploads'[op.session].tmp = FALSE
        /\ uploads'[op.session].status = uploads[op.session].status
        /\ uploads'[op.session].received = uploads[op.session].received
        /\ uploads'[op.session].file = uploads[op.session].file
        /\ uploads'[op.session].stale = uploads[op.session].stale
        /\ \A u \in UploadIds \ {op.session} : uploads'[u] = uploads[u]
    BY <1>13, <1>c, <2>1 DEF AppendIOError, Session
  <2> QED BY <1>13, <1>b, <1>c, <1>d, <2>1, <2>2, <2>3
    DEF AppendIOError, IOError, SessionInv, DirInv, SweepInv, StartInv, AppendInv, CompleteInv, StatusInv, ManifestNeverAhead,
       Mine, OwnPlaces, SweepPlaces, StartPlaces, AppendPlaces, CompletePlaces, NotOpen, Absent
<1>8. CASE AppendCopy
  <2>1. op.session \in UploadIds /\ op' = op
    BY <1>8, <1>a DEF AppendCopy, OpOK, SessionPlaces, AppendPlaces
  <2>2. PICK size \in 1 .. UploadSize + 1 :
          uploads[op.session].part < size /\ uploads' = [uploads EXCEPT ![op.session].part = size]
    BY <1>8 DEF AppendCopy
  <2>3. /\ uploads'[op.session].dir = uploads[op.session].dir
        /\ uploads'[op.session].part = size
        /\ uploads'[op.session].tmp = uploads[op.session].tmp
        /\ uploads'[op.session].status = uploads[op.session].status
        /\ uploads'[op.session].received = uploads[op.session].received
        /\ uploads'[op.session].file = uploads[op.session].file
        /\ uploads'[op.session].stale = uploads[op.session].stale
        /\ \A u \in UploadIds \ {op.session} : uploads'[u] = uploads[u]
    BY <1>c, <2>1, <2>2 DEF Session
  <2>4. /\ uploads[op.session].received = op.base /\ op.base <= uploads[op.session].part
        /\ uploads[op.session].status = "uploading" /\ uploads[op.session].dir
        /\ confirmed[op.session] <= op.base /\ op.pc = "appBody"
        /\ uploads[op.session].part \in Int
    BY <1>8, <1>b, <1>c, <2>1 DEF AppendCopy, SessionInv, DirInv, AppendInv, Mine, AppendPlaces, OwnPlaces,
       Session
  <2>5. UNCHANGED <<confirmed, faults>> /\ op.base <= size
    BY <1>8, <1>d, <2>2, <2>4 DEF AppendCopy
  <2>6. DirInv' /\ SweepInv' /\ StartInv' /\ CompleteInv' /\ AppendInv'
    BY <1>b, <2>1, <2>3, <2>4, <2>5 DEF SessionInv, DirInv, SweepInv, StartInv, CompleteInv, AppendInv,
       Mine, OwnPlaces, SweepPlaces, StartPlaces, AppendPlaces, CompletePlaces
  <2>7. StatusInv' /\ ManifestNeverAhead'
    BY <1>b, <2>1, <2>3, <2>4, <2>5 DEF SessionInv, StatusInv, ManifestNeverAhead
  <2> QED BY <2>6, <2>7 DEF SessionInv
<1>14. CASE AppendUndo
  <2>1. op.session \in UploadIds
    BY <1>14, <1>a DEF AppendUndo, OpOK, SessionPlaces, AppendPlaces
  <2>2. op'.pc = "idle"
    BY <1>14, ReturnKeepsOperation DEF AppendUndo
  <2>3. CASE UNCHANGED uploads
    BY <1>14, <2>2, <2>3, SessionFrame, FaultsGrow
       DEF AppendUndo, OwnPlaces, AppendPlaces, StartPlaces, CompletePlaces, SweepPlaces
  <2>4. CASE uploads' = [uploads EXCEPT ![op.session].part = op.base] /\ UNCHANGED faults
    <3>1. /\ uploads'[op.session].dir = uploads[op.session].dir
          /\ uploads'[op.session].part = op.base
          /\ uploads'[op.session].tmp = uploads[op.session].tmp
          /\ uploads'[op.session].status = uploads[op.session].status
          /\ uploads'[op.session].received = uploads[op.session].received
          /\ uploads'[op.session].file = uploads[op.session].file
          /\ uploads'[op.session].stale = uploads[op.session].stale
          /\ \A u \in UploadIds \ {op.session} : uploads'[u] = uploads[u]
      BY <1>c, <2>1, <2>4 DEF Session
    <3> QED BY <1>14, <1>b, <1>c, <1>d, <2>1, <2>2, <2>4, <3>1
        DEF AppendUndo, SessionInv, DirInv, SweepInv, StartInv, AppendInv, CompleteInv, StatusInv,
            ManifestNeverAhead, Mine, OwnPlaces, SweepPlaces, StartPlaces, AppendPlaces, CompletePlaces,
            NotOpen, Absent
  <2> QED BY <2>3, <2>4, <1>14 DEF AppendUndo
<1>15. CASE DropUnlink
  <2>1. op.session \in UploadIds /\ op' = op /\ op.pc = "drop"
    BY <1>15, <1>a DEF DropUnlink, OpOK, SessionPlaces
  <2>2. UNCHANGED <<confirmed, faults>> /\ UnlinkFrom(op.session)
    BY <1>15 DEF DropUnlink
  <2>3. confirmed[op.session] = NotOpen /\ uploads[op.session].dir
    BY <1>b, <2>1 DEF SessionInv, StartInv, DirInv, Mine, OwnPlaces
  <2>4. /\ uploads'[op.session].dir
        /\ \A v \in UploadIds \ {op.session} : uploads'[v] = uploads[v]
    BY <1>c, <2>1, <2>2, <2>3, UnlinkedFields
  <2>5. DirInv' /\ StartInv'
    BY <1>b, <2>1, <2>2, <2>3, <2>4 DEF SessionInv, DirInv, StartInv, Mine, SweepPlaces, StartPlaces
  <2>6. SweepInv' /\ AppendInv' /\ CompleteInv'
    BY <2>1 DEF SweepInv, AppendInv, CompleteInv, SweepPlaces, AppendPlaces, CompletePlaces
  <2>7. StatusInv'
    <3>1. \/ /\ uploads'[op.session].status = uploads[op.session].status
             /\ uploads'[op.session].received = uploads[op.session].received
             /\ uploads'[op.session].file = uploads[op.session].file
             /\ uploads'[op.session].stale = uploads[op.session].stale
          \/ /\ uploads'[op.session].status = "none" /\ uploads'[op.session].received = 0
             /\ uploads'[op.session].file = NoFile /\ ~uploads'[op.session].stale
      BY <1>c, <2>1, <2>2, UnlinkedFields
    <3> QED BY <1>b, <2>1, <2>2, <2>3, <2>4, <3>1 DEF SessionInv, StatusInv
  <2>8. ManifestNeverAhead'
    BY <1>b, <1>c, <2>1, <2>2, <2>4, UnlinkedFields DEF SessionInv, ManifestNeverAhead
  <2> QED BY <2>5, <2>6, <2>7, <2>8 DEF SessionInv
<1>16. CASE DropRemoveDir
  <2>1. op.session \in UploadIds /\ op.pc = "drop"
    BY <1>16, <1>a DEF DropRemoveDir, OpOK, SessionPlaces
  <2>2. op'.pc = "idle"
    BY <1>16, ReturnKeepsOperation DEF DropRemoveDir
  <2>3. uploads'[op.session] = NoSession /\ \A u \in UploadIds \ {op.session} : uploads'[u] = uploads[u]
    BY <1>16, <1>c, <2>1 DEF DropRemoveDir
  <2>4. confirmed[op.session] = NotOpen /\ UNCHANGED confirmed /\ (faults' = 0 => faults = 0)
    BY <1>16, <1>b, <2>1 DEF DropRemoveDir, IOError, SessionInv, StartInv
  <2>5. DirInv'
    BY <1>b, <2>1, <2>2, <2>3 DEF SessionInv, DirInv, OwnPlaces, AppendPlaces, StartPlaces, CompletePlaces
  <2>6. SweepInv' /\ StartInv' /\ AppendInv' /\ CompleteInv'
    BY <2>2 DEF SweepInv, StartInv, AppendInv, CompleteInv, SweepPlaces, StartPlaces, AppendPlaces,
       CompletePlaces
  <2>7. StatusInv' /\ ManifestNeverAhead'
    BY <1>b, <2>1, <2>3, <2>4 DEF NoSession, SessionInv, StatusInv, ManifestNeverAhead
  <2> QED BY <2>5, <2>6, <2>7 DEF SessionInv
<1>17. CASE DropIOError
  <2>1. op'.pc = "idle"
    BY <1>17, ReturnKeepsOperation DEF DropIOError
  <2> QED BY <1>17, <2>1, SessionFrame, FaultsGrow
       DEF DropIOError, OwnPlaces, AppendPlaces, StartPlaces, CompletePlaces, SweepPlaces
<1> QED BY <1>1, <1>2, <1>3, <1>4, <1>5, <1>6, <1>7, <1>8, <1>9, <1>10, <1>11, <1>12, <1>13, <1>14,
           <1>15, <1>16, <1>17 DEF SessionStep

\* The steps of CompleteUpload.
LEMMA CompleteSessions == TypeInv /\ SessionInv /\ CompleteStep => SessionInv'
<1> SUFFICES ASSUME TypeInv, SessionInv, CompleteStep PROVE SessionInv'
  OBVIOUS
<1> USE ConstantsAssumption DEF At, Sessions, fileVars, diskVars, ghostVars, procVars
<1>a. op \in Operation /\ OpOK BY DEF TypeInv, TypeOK
<1>b. SessionInv /\ faults \in Nat BY DEF TypeInv, TypeOK
<1>c. uploads \in [UploadIds -> Session] BY DEF TypeInv, TypeOK
<1>d. confirmed \in [UploadIds -> -1 .. UploadSize] BY DEF TypeInv, TypeOK
<1>1. CASE CompleteWriteManifest
  <2>1. op.session \in UploadIds
    BY <1>1, <1>a DEF CompleteWriteManifest, OpOK, SessionPlaces
  <2>2. op'.pc = "cmpRename" /\ op'.session = op.session
    BY <1>1, <1>a, GotoKeepsOperation, PlaceNames DEF CompleteWriteManifest
  <2>3. UNCHANGED uploads
    BY <1>1 DEF CompleteWriteManifest
  <2> QED BY <1>1, <1>b, <1>c, <1>d, <2>1, <2>2, <2>3
    DEF CompleteWriteManifest, SessionInv, DirInv, SweepInv, StartInv, AppendInv, CompleteInv, StatusInv,
        ManifestNeverAhead, Mine, OwnPlaces, SweepPlaces, StartPlaces, AppendPlaces, CompletePlaces, NotOpen, Absent
<1>2. CASE CompleteCommitManifest
  <2>1. op.session \in UploadIds
    BY <1>2, <1>a DEF CompleteCommitManifest, OpOK, SessionPlaces
  <2>2. op'.pc = "cmpSession" /\ op'.session = op.session
    BY <1>2, <1>a, GotoKeepsOperation, PlaceNames DEF CompleteCommitManifest
  <2>3. UNCHANGED uploads
    BY <1>2 DEF CompleteCommitManifest
  <2> QED BY <1>2, <1>b, <1>c, <1>d, <2>1, <2>2, <2>3
    DEF CompleteCommitManifest, SessionInv, DirInv, SweepInv, StartInv, AppendInv, CompleteInv, StatusInv,
        ManifestNeverAhead, Mine, OwnPlaces, SweepPlaces, StartPlaces, AppendPlaces, CompletePlaces, NotOpen, Absent
<1>3. CASE CompleteWriteSession
  <2>1. op.session \in UploadIds
    BY <1>3, <1>a DEF CompleteWriteSession, OpOK, SessionPlaces
  <2>2. op'.pc = "cmpSessionRename" /\ op'.session = op.session
    BY <1>3, <1>a, GotoKeepsOperation, PlaceNames DEF CompleteWriteSession
  <2>3. /\ uploads'[op.session].dir = uploads[op.session].dir
        /\ uploads'[op.session].part = uploads[op.session].part
        /\ uploads'[op.session].tmp = TRUE
        /\ uploads'[op.session].status = uploads[op.session].status
        /\ uploads'[op.session].received = uploads[op.session].received
        /\ uploads'[op.session].file = uploads[op.session].file
        /\ uploads'[op.session].stale = uploads[op.session].stale
        /\ \A u \in UploadIds \ {op.session} : uploads'[u] = uploads[u]
    BY <1>3, <1>c, <2>1 DEF CompleteWriteSession, Session
  <2> QED BY <1>3, <1>b, <1>c, <1>d, <2>1, <2>2, <2>3
    DEF CompleteWriteSession, SessionInv, DirInv, SweepInv, StartInv, AppendInv, CompleteInv, StatusInv,
        ManifestNeverAhead, Mine, OwnPlaces, SweepPlaces, StartPlaces, AppendPlaces, CompletePlaces, NotOpen, Absent
<1>4. CASE CompleteCommitSession
  <2>1. op.session \in UploadIds
    BY <1>4, <1>a DEF CompleteCommitSession, OpOK, SessionPlaces
  <2>2. op'.pc = "cmpSync" /\ op'.session = op.session
    BY <1>4, <1>a, GotoKeepsOperation, PlaceNames DEF CompleteCommitSession
  <2>3. /\ uploads'[op.session].dir = uploads[op.session].dir
        /\ uploads'[op.session].part = uploads[op.session].part
        /\ uploads'[op.session].tmp = FALSE
        /\ uploads'[op.session].status = "completed"
        /\ uploads'[op.session].received = uploads[op.session].received
        /\ uploads'[op.session].file = op.file
        /\ uploads'[op.session].stale = FALSE
        /\ \A u \in UploadIds \ {op.session} : uploads'[u] = uploads[u]
    BY <1>4, <1>c, <2>1 DEF CompleteCommitSession, Session
  <2> QED BY <1>4, <1>b, <1>c, <1>d, <2>1, <2>2, <2>3
    DEF CompleteCommitSession, SessionInv, DirInv, SweepInv, StartInv, AppendInv, CompleteInv, StatusInv,
        ManifestNeverAhead, Mine, OwnPlaces, SweepPlaces, StartPlaces, AppendPlaces, CompletePlaces, NotOpen, Absent
<1>5. CASE CompleteAck
  <2>1. op.session \in UploadIds
    BY <1>5, <1>a DEF CompleteAck, OpOK, SessionPlaces
  <2>2. op'.pc = "idle"
    BY <1>5, ReturnKeepsOperation DEF CompleteAck
  <2>3. UNCHANGED uploads
    BY <1>5 DEF CompleteAck
  <2> QED BY <1>5, <1>b, <1>c, <1>d, <2>1, <2>2, <2>3
    DEF CompleteAck, SessionInv, DirInv, SweepInv, StartInv, AppendInv, CompleteInv, StatusInv,
        ManifestNeverAhead, Mine, OwnPlaces, SweepPlaces, StartPlaces, AppendPlaces, CompletePlaces, NotOpen, Absent
<1>6. CASE CompleteIOError
  <2>1. op.session \in UploadIds
    BY <1>6, <1>a DEF CompleteIOError, OpOK, SessionPlaces
  <2>2. op'.pc = "cmpUndo" /\ op'.session = op.session
    BY <1>6, <1>a, GotoKeepsOperation, PlaceNames DEF CompleteIOError
  <2>3. /\ uploads'[op.session].dir = uploads[op.session].dir
        /\ uploads'[op.session].part = uploads[op.session].part
        /\ uploads'[op.session].tmp = FALSE
        /\ uploads'[op.session].status = uploads[op.session].status
        /\ uploads'[op.session].received = uploads[op.session].received
        /\ uploads'[op.session].file = uploads[op.session].file
        /\ uploads'[op.session].stale = uploads[op.session].stale
        /\ \A u \in UploadIds \ {op.session} : uploads'[u] = uploads[u]
    BY <1>6, <1>c, <2>1 DEF CompleteIOError, Session
  <2> QED BY <1>6, <1>b, <1>c, <1>d, <2>1, <2>2, <2>3
    DEF CompleteIOError, IOError, SessionInv, DirInv, SweepInv, StartInv, AppendInv, CompleteInv, StatusInv,
        ManifestNeverAhead, Mine, OwnPlaces, SweepPlaces, StartPlaces, AppendPlaces, CompletePlaces, NotOpen, Absent
<1>7. CASE CompleteUndo
  <2>1. op.session \in UploadIds
    BY <1>7, <1>a DEF CompleteUndo, OpOK, SessionPlaces
  <2>2. op'.pc = "cmpUndoManifest" /\ op'.session = op.session
    BY <1>7, <1>a, GotoKeepsOperation, PlaceNames DEF CompleteUndo
  <2>3. UNCHANGED <<uploads, confirmed>> /\ (faults' = faults \/ IOError)
    BY <1>7 DEF CompleteUndo
  <2>4. faults <= faults' /\ (faults' = 0 => faults = 0) /\ faults' \in Nat
    BY <2>3, FaultsGrow
  <2>5. op.pc = "cmpUndo"
    BY <1>7 DEF CompleteUndo
  <2> QED BY <1>b, <1>c, <1>d, <2>1, <2>2, <2>3, <2>4, <2>5
    DEF SessionInv, DirInv, SweepInv, StartInv, AppendInv, CompleteInv, StatusInv,
        ManifestNeverAhead, Mine, OwnPlaces, SweepPlaces, StartPlaces, AppendPlaces, CompletePlaces, NotOpen, Absent
<1>8. CASE CompleteUndoManifest
  <2>1. op'.pc = "idle"
    BY <1>8, ReturnKeepsOperation DEF CompleteUndoManifest
  <2>2. UNCHANGED <<uploads, confirmed>> /\ (faults' = faults \/ IOError)
    BY <1>8 DEF CompleteUndoManifest
  <2> QED BY <2>1, <2>2, SessionFrame, FaultsGrow
       DEF OwnPlaces, AppendPlaces, StartPlaces, CompletePlaces, SweepPlaces
<1> QED BY <1>1, <1>2, <1>3, <1>4, <1>5, <1>6, <1>7, <1>8 DEF CompleteStep

\* The sweep of expired sessions.
LEMMA SweepSessions == TypeInv /\ SessionInv /\ SweepStep => SessionInv'
<1> SUFFICES ASSUME TypeInv, SessionInv, SweepStep PROVE SessionInv'
  OBVIOUS
<1> USE ConstantsAssumption DEF At, Sessions, fileVars, diskVars, ghostVars, procVars
<1>a. op \in Operation /\ OpOK BY DEF TypeInv, TypeOK
<1>b. SessionInv /\ faults \in Nat BY DEF TypeInv, TypeOK
<1>c. uploads \in [UploadIds -> Session] BY DEF TypeInv, TypeOK
<1>1. CASE SweepUnlink
  <2>1. op.victim \in UploadIds /\ op' = op /\ op.pc = "sweepDrop"
    BY <1>1, <1>a DEF SweepUnlink, OpOK
  <2>2. UNCHANGED <<confirmed, faults>> /\ UnlinkFrom(op.victim)
    BY <1>1 DEF SweepUnlink
  <2>3. /\ confirmed[op.victim] = NotOpen /\ uploads[op.victim].dir
        /\ op.victim # op.session /\ op.victim \notin op.sessions
        /\ uploads[op.victim].status = "uploading" => uploads[op.victim].stale
    BY <1>b, <2>1 DEF SessionInv, SweepInv, DirInv
  <2>4. uploads'[op.victim].dir /\ \A v \in UploadIds \ {op.victim} : uploads'[v] = uploads[v]
    BY <1>c, <2>1, <2>2, <2>3, UnlinkedFields
  <2>5. \/ /\ uploads'[op.victim].status = uploads[op.victim].status
           /\ uploads'[op.victim].received = uploads[op.victim].received
           /\ uploads'[op.victim].file = uploads[op.victim].file
           /\ uploads'[op.victim].stale = uploads[op.victim].stale
        \/ /\ uploads'[op.victim].status = "none" /\ uploads'[op.victim].received = 0
           /\ uploads'[op.victim].file = NoFile /\ ~uploads'[op.victim].stale
    BY <1>c, <2>1, <2>2, UnlinkedFields
  <2>6. op.session \in UploadIds \cup {NoUpload} /\ op.sessions \subseteq UploadIds
    BY <1>a DEF Operation
  <2>7. DirInv'
    BY <1>b, <2>1, <2>3, <2>4 DEF SessionInv, DirInv, OwnPlaces, AppendPlaces, StartPlaces, CompletePlaces
  <2>8. SweepInv'
    BY <1>b, <2>1, <2>2, <2>3, <2>4, <2>5, <2>6 DEF SessionInv, SweepInv, SweepPlaces
  <2>9. StartInv'
    BY <1>b, <2>1, <2>3, <2>4, <2>6 DEF SessionInv, StartInv, Mine, SweepPlaces, StartPlaces
  <2>10. AppendInv' /\ CompleteInv'
    BY <2>1 DEF AppendInv, CompleteInv, AppendPlaces, CompletePlaces
  <2>11. StatusInv'
    BY <1>b, <2>2, <2>3, <2>4, <2>5 DEF SessionInv, StatusInv
  <2>12. ManifestNeverAhead'
    BY <1>b, <1>c, <2>1, <2>2, <2>4, UnlinkedFields DEF SessionInv, ManifestNeverAhead
  <2> QED BY <2>7, <2>8, <2>9, <2>10, <2>11, <2>12 DEF SessionInv
<1>2. CASE SweepRemoveDir
  <2>1. op.victim \in UploadIds /\ op.pc = "sweepDrop"
    BY <1>2, <1>a DEF SweepRemoveDir, OpOK
  <2>2. op'.pc = "sweep" /\ op'.session = op.session /\ op'.sessions = op.sessions
    BY <1>2, <1>a DEF SweepRemoveDir, Operation
  <2>3. uploads'[op.victim] = NoSession /\ \A u \in UploadIds \ {op.victim} : uploads'[u] = uploads[u]
    BY <1>2, <1>c, <2>1 DEF SweepRemoveDir
  <2>4. /\ confirmed[op.victim] = NotOpen /\ op.victim # op.session /\ op.victim \notin op.sessions
        /\ UNCHANGED <<confirmed, faults>>
    BY <1>2, <1>b, <2>1 DEF SweepRemoveDir, SessionInv, SweepInv
  <2>5. op.session \in UploadIds \cup {NoUpload} /\ op.sessions \subseteq UploadIds
    BY <1>a DEF Operation
  <2>6. DirInv'
    BY <1>b, <2>2, <2>3 DEF SessionInv, DirInv, OwnPlaces, AppendPlaces, StartPlaces, CompletePlaces
  <2>7. SweepInv'
    BY <1>b, <2>1, <2>2, <2>3, <2>4, <2>5 DEF SessionInv, SweepInv, SweepPlaces
  <2>8. StartInv'
    BY <1>b, <2>1, <2>2, <2>3, <2>4, <2>5 DEF SessionInv, StartInv, Mine, SweepPlaces, StartPlaces
  <2>9. AppendInv' /\ CompleteInv'
    BY <2>2 DEF AppendInv, CompleteInv, AppendPlaces, CompletePlaces
  <2>10. StatusInv' /\ ManifestNeverAhead'
    BY <1>b, <2>1, <2>3, <2>4 DEF NoSession, SessionInv, StatusInv, ManifestNeverAhead
  <2> QED BY <2>6, <2>7, <2>8, <2>9, <2>10 DEF SessionInv
<1>3. CASE SweepDone
  <2>1. UNCHANGED <<uploads, confirmed, faults>> /\ op.pc = "sweep"
    BY <1>3 DEF SweepDone
  <2>2. CASE op'.pc \in {"idle", "rebuild"}
    BY <2>1, <2>2, SessionFrame DEF OwnPlaces, AppendPlaces, StartPlaces, CompletePlaces, SweepPlaces
  <2>3. CASE op'.pc = "startDir" /\ op'.session = op.session
    BY <1>b, <2>1, <2>3 DEF SessionInv, DirInv, SweepInv, StartInv, AppendInv, CompleteInv, StatusInv,
       ManifestNeverAhead, Mine, OwnPlaces, SweepPlaces, StartPlaces, AppendPlaces, CompletePlaces
  <2> QED BY <1>3, <1>a, <2>2, <2>3, GotoKeepsOperation, ReturnKeepsOperation, PlaceNames DEF SweepDone
<1>4. CASE SweepIOError
  <2>1. op'.pc = "idle" /\ UNCHANGED <<uploads, confirmed>> /\ IOError
    BY <1>4, ReturnKeepsOperation DEF SweepIOError
  <2> QED BY <2>1, SessionFrame, FaultsGrow DEF OwnPlaces, AppendPlaces, StartPlaces, CompletePlaces, SweepPlaces
<1>5. ASSUME NEW u \in UploadIds, SweepSkip(u) PROVE SessionInv'
  <2>1. /\ op.pc = "sweep" /\ op'.pc = "sweep" /\ op'.session = op.session
        /\ op'.sessions = op.sessions \ {u} /\ UNCHANGED <<uploads, confirmed, faults>>
    BY <1>5, <1>a DEF SweepSkip, Operation
  <2> QED BY <1>b, <2>1 DEF SessionInv, DirInv, SweepInv, StartInv, AppendInv, CompleteInv, StatusInv,
       ManifestNeverAhead, Mine, OwnPlaces, SweepPlaces, StartPlaces, AppendPlaces, CompletePlaces
<1>6. ASSUME NEW u \in UploadIds, SweepEntry(u) PROVE SessionInv'
  <2>1. /\ op.pc = "sweep" /\ op'.pc = "sweepDrop" /\ op'.session = op.session
        /\ op'.sessions = op.sessions \ {u} /\ op'.victim = u /\ u \in op.sessions
        /\ UNCHANGED <<uploads, faults>>
    BY <1>6, <1>a DEF SweepEntry, Operation
  <2>2. confirmed'[u] = NotOpen /\ \A v \in UploadIds \ {u} : confirmed'[v] = confirmed[v]
    BY <1>6 DEF SweepEntry, TypeInv, TypeOK
  <2>3. uploads[u].status = "uploading" => uploads[u].stale
    BY <1>6 DEF SweepEntry, Expired
  <2> QED BY <1>b, <2>1, <2>2, <2>3 DEF SessionInv, DirInv, SweepInv, StartInv, AppendInv, CompleteInv,
       StatusInv, ManifestNeverAhead, Mine, OwnPlaces, SweepPlaces, StartPlaces, AppendPlaces, CompletePlaces
<1> QED BY <1>1, <1>2, <1>3, <1>4, <1>5, <1>6 DEF SweepStep

\* Recover, the clock and the process.
LEMMA BackgroundSessions ==
  TypeInv /\ ProcInv /\ SessionInv
  /\ (RecoverStep \/ (\E u \in UploadIds : Age(u)) \/ Restart \/ Crash) => SessionInv'
<1> SUFFICES ASSUME TypeInv, ProcInv, SessionInv,
                    RecoverStep \/ (\E u \in UploadIds : Age(u)) \/ Restart \/ Crash
             PROVE  SessionInv'
  OBVIOUS
<1> USE ConstantsAssumption DEF At, Sessions, Quarantines, fileVars, diskVars, ghostVars, procVars
<1>a. op \in Operation /\ OpOK BY DEF TypeInv, TypeOK
<1>b. SessionInv /\ faults \in Nat BY DEF TypeInv, TypeOK
<1>c. uploads \in [UploadIds -> Session] BY DEF TypeInv, TypeOK
<1>1. CASE RecoverScanned
  <2>1. op.session = NoUpload /\ op.pc = "recover"
    BY <1>1 DEF RecoverScanned, ProcInv, RecoverPlaces
  <2>2. CASE op'.pc = "rebuild"
    BY <1>1, <2>2, SessionFrame
       DEF RecoverScanned, OwnPlaces, AppendPlaces, StartPlaces, CompletePlaces, SweepPlaces
  <2>3. CASE op'.pc = "sweep" /\ op'.session = op.session /\ op'.sessions = SessionDirs
    BY <1>1, <1>b, <2>1, <2>3 DEF RecoverScanned, SessionDirs, SessionInv, DirInv, SweepInv, StartInv,
       AppendInv, CompleteInv, StatusInv, ManifestNeverAhead, Mine, OwnPlaces, SweepPlaces, StartPlaces,
       AppendPlaces, CompletePlaces
  <2> QED BY <1>1, <1>a, <2>2, <2>3 DEF RecoverScanned, Operation
<1>2. CASE RecoverDone \/ RecoverIOError
  <2>1. op'.pc = "idle"
    BY <1>2, ReturnKeepsOperation DEF RecoverDone, RecoverIOError
  <2>2. UNCHANGED <<uploads, confirmed>> /\ (faults' = faults \/ IOError)
    BY <1>2 DEF RecoverDone, RecoverIOError
  <2> QED BY <2>1, <2>2, SessionFrame, FaultsGrow
       DEF OwnPlaces, AppendPlaces, StartPlaces, CompletePlaces, SweepPlaces
<1>3. ASSUME NEW id \in FileIds, RecoverPartial(id) \/ RecoverManifestTmp(id) PROVE SessionInv'
  <2>1. op'.pc = "recover" /\ UNCHANGED <<uploads, confirmed, faults>>
    BY <1>3 DEF RecoverPartial, RecoverManifestTmp
  <2> QED BY <2>1, SessionFrame DEF OwnPlaces, AppendPlaces, StartPlaces, CompletePlaces, SweepPlaces
<1>4. ASSUME NEW u \in UploadIds, RecoverUploadTmp(u) PROVE SessionInv'
  <2>1. op'.pc = "recover" /\ UNCHANGED <<confirmed, faults>>
    BY <1>4 DEF RecoverUploadTmp
  <2>2. /\ uploads'[u].dir = uploads[u].dir /\ uploads'[u].part = uploads[u].part
        /\ uploads'[u].status = uploads[u].status /\ uploads'[u].received = uploads[u].received
        /\ uploads'[u].file = uploads[u].file /\ uploads'[u].stale = uploads[u].stale
        /\ \A v \in UploadIds \ {u} : uploads'[v] = uploads[v]
    BY <1>4, <1>c DEF RecoverUploadTmp, Session
  <2>3. uploads[u].dir
    BY <1>4, <1>b DEF RecoverUploadTmp, SessionInv, DirInv, NoSession
  <2>4. DirInv'
    BY <1>b, <2>1, <2>2, <2>3 DEF SessionInv, DirInv, OwnPlaces, AppendPlaces, StartPlaces, CompletePlaces
  <2>5. SweepInv' /\ StartInv' /\ AppendInv' /\ CompleteInv'
    BY <2>1 DEF SweepInv, StartInv, AppendInv, CompleteInv, SweepPlaces, StartPlaces, AppendPlaces,
       CompletePlaces
  <2>6. StatusInv' /\ ManifestNeverAhead'
    BY <1>b, <2>1, <2>2 DEF SessionInv, StatusInv, ManifestNeverAhead
  <2> QED BY <2>4, <2>5, <2>6 DEF SessionInv
<1>5. ASSUME NEW u \in UploadIds, RecoverSession(u) PROVE SessionInv'
  <2>1. op'.pc = "recover" /\ UNCHANGED <<confirmed, faults>>
    BY <1>5 DEF RecoverSession
  <2>2. uploads'[u] = NoSession /\ \A v \in UploadIds \ {u} : uploads'[v] = uploads[v]
    BY <1>5, <1>c DEF RecoverSession
  <2>3. confirmed[u] = NotOpen
    BY <1>5, <1>b DEF RecoverSession, SessionInv, StatusInv
  <2>4. DirInv' /\ SweepInv' /\ StartInv' /\ AppendInv' /\ CompleteInv'
    BY <1>b, <2>1, <2>2 DEF SessionInv, DirInv, SweepInv, StartInv, AppendInv, CompleteInv, OwnPlaces,
       SweepPlaces, StartPlaces, AppendPlaces, CompletePlaces
  <2>5. StatusInv' /\ ManifestNeverAhead'
    BY <1>b, <2>1, <2>2, <2>3 DEF NoSession, SessionInv, StatusInv, ManifestNeverAhead
  <2> QED BY <2>4, <2>5 DEF SessionInv
<1>6. ASSUME NEW u \in UploadIds, Age(u) PROVE SessionInv'
  <2>1. op'.pc = "idle" /\ UNCHANGED <<confirmed, faults>> /\ uploads[u].status = "uploading"
    BY <1>6, IdleOperation DEF Age
  <2>2. /\ uploads'[u].dir = uploads[u].dir /\ uploads'[u].part = uploads[u].part
        /\ uploads'[u].status = uploads[u].status /\ uploads'[u].received = uploads[u].received
        /\ uploads'[u].file = uploads[u].file
        /\ \A v \in UploadIds \ {u} : uploads'[v] = uploads[v]
    BY <1>6, <1>c DEF Age, Session
  <2>3. uploads[u].dir
    BY <2>1, <1>b DEF SessionInv, DirInv, NoSession
  <2>4. DirInv' /\ SweepInv' /\ StartInv' /\ AppendInv' /\ CompleteInv'
    BY <1>b, <2>1, <2>2, <2>3 DEF SessionInv, DirInv, SweepInv, StartInv, AppendInv, CompleteInv,
       OwnPlaces, SweepPlaces, StartPlaces, AppendPlaces, CompletePlaces
  <2>5. StatusInv' /\ ManifestNeverAhead'
    BY <1>b, <2>1, <2>2 DEF SessionInv, StatusInv, ManifestNeverAhead
  <2> QED BY <2>4, <2>5 DEF SessionInv
<1>7. CASE Restart \/ Crash
  <2>1. op'.pc \in {"recover", "idle"} /\ UNCHANGED <<uploads, confirmed, faults>>
    BY <1>7, IdleOperation DEF Restart, Crash, Operation
  <2> QED BY <2>1, SessionFrame DEF OwnPlaces, AppendPlaces, StartPlaces, CompletePlaces, SweepPlaces
<1> QED BY <1>1, <1>2, <1>3, <1>4, <1>5, <1>6, <1>7 DEF RecoverStep

\* A guard of Put or of Restore may overlook what is there, at the cost of a failed stat.
LEMMA FileStartFaults ==
  ASSUME TypeInv, FileStart
  PROVE  faults' \in Nat /\ faults <= faults' /\ (faults' = 0 => faults = 0)
<1>a. TypeOK /\ faults \in Nat
  BY ConstantsAssumption DEF TypeInv, TypeOK
<1>1. ASSUME NEW id \in FileIds, Put(id)
      PROVE  faults' \in Nat /\ faults <= faults' /\ (faults' = 0 => faults = 0)
  BY <1>1, <1>a, PutGuard, ConstantsAssumption
<1>2. ASSUME NEW id \in FileIds, Restore(id)
      PROVE  faults' \in Nat /\ faults <= faults' /\ (faults' = 0 => faults = 0)
  BY <1>2, <1>a, RestoreGuard, ConstantsAssumption
<1>3. CASE UNCHANGED faults
  BY <1>3, <1>a
<1> QED BY <1>1, <1>2, <1>3 DEF FileStart, UsageLoad, PurgeTrash, Delete, Frame

\* The requests.
LEMMA RequestSessions ==
  TypeInv /\ SessionInv /\ (FileStart \/ UploadStart) => SessionInv'
<1> SUFFICES ASSUME TypeInv, SessionInv, FileStart \/ UploadStart PROVE SessionInv'
  OBVIOUS
<1> USE ConstantsAssumption DEF Frame, Sessions, fileVars, diskVars, ghostVars, procVars
<1>b. SessionInv /\ faults \in Nat BY DEF TypeInv, TypeOK
<1>c. /\ uploads \in [UploadIds -> Session]
      /\ confirmed \in [UploadIds -> -1 .. UploadSize]
  BY DEF TypeInv, TypeOK
<1>1. CASE FileStart
  <2>1. op'.pc \in {"idle", "purge", "putBody", "delObject", "resMark"}
    BY <1>1, IdleOperation
       DEF FileStart, UsageLoad, PurgeTrash, Put, Delete, Restore, Serving, Operation
  <2>2. UNCHANGED <<uploads, confirmed>>
    BY <1>1 DEF FileStart, UsageLoad, PurgeTrash, Put, Delete, Restore
  <2>3. faults' = 0 => faults = 0
    BY <1>1, FileStartFaults
  <2> QED BY <2>1, <2>2, <2>3, SessionFrame
       DEF OwnPlaces, AppendPlaces, StartPlaces, CompletePlaces, SweepPlaces
<1>2. CASE SweepUploads
  <2>1. /\ op'.pc = "sweep" /\ op'.session = NoUpload /\ op'.sessions = SessionDirs
        /\ UNCHANGED <<uploads, confirmed, faults>>
    BY <1>2 DEF SweepUploads, Idle
  <2> QED BY <1>b, <2>1 DEF SessionDirs, SessionInv, DirInv, SweepInv, StartInv, AppendInv, CompleteInv,
       StatusInv, ManifestNeverAhead, Mine, OwnPlaces, SweepPlaces, StartPlaces, AppendPlaces, CompletePlaces
<1>3. ASSUME NEW u \in UploadIds, StartUpload(u) PROVE SessionInv'
  <2>1. /\ op'.session = u /\ uploads[u] = NoSession
        /\ UNCHANGED <<uploads, confirmed, faults>>
        /\ \/ op'.pc = "sweep" /\ op'.sessions = SessionDirs
           \/ op'.pc = "startDir"
    BY <1>3 DEF StartUpload, Idle
  <2>2. ~uploads[u].dir
    BY <2>1 DEF NoSession
  <2> QED BY <1>b, <2>1, <2>2 DEF SessionDirs, SessionInv, DirInv, SweepInv, StartInv, AppendInv, CompleteInv,
       StatusInv, ManifestNeverAhead, Mine, OwnPlaces, SweepPlaces, StartPlaces, AppendPlaces, CompletePlaces
<1>4. ASSUME NEW u \in UploadIds, AbortUpload(u) PROVE SessionInv'
  <2>1. /\ op'.pc = "drop" /\ op'.session = u /\ uploads[u].status = "uploading"
        /\ UNCHANGED <<uploads, faults>>
    BY <1>4 DEF AbortUpload, Idle
  <2>2. confirmed'[u] = NotOpen /\ \A v \in UploadIds \ {u} : confirmed'[v] = confirmed[v]
    BY <1>4, <1>c DEF AbortUpload
  <2>3. uploads[u].dir
    BY <2>1, <1>b DEF SessionInv, DirInv, NoSession
  <2> QED BY <1>b, <2>1, <2>2, <2>3 DEF SessionInv, DirInv, SweepInv, StartInv, AppendInv, CompleteInv,
       StatusInv, ManifestNeverAhead, Mine, OwnPlaces, SweepPlaces, StartPlaces, AppendPlaces, CompletePlaces
<1>5. ASSUME NEW u \in UploadIds, NEW n \in 1 .. UploadSize, AppendUpload(u, n) PROVE SessionInv'
  <2>1. /\ op'.pc = "appBody" /\ op'.session = u /\ op'.base = uploads[u].received
        /\ uploads[u].status = "uploading" /\ uploads[u].part = uploads[u].received
        /\ UNCHANGED <<uploads, confirmed, faults>>
    BY <1>5 DEF AppendUpload, Idle, UploadOK
  <2>2. uploads[u].dir
    BY <2>1, <1>b DEF SessionInv, DirInv, NoSession
  <2>3. confirmed[u] <= uploads[u].received /\ uploads[u].received \in 0 .. UploadSize
    BY <1>b, <1>c DEF SessionInv, StatusInv, Session, NotOpen
  <2> QED BY <1>b, <2>1, <2>2, <2>3 DEF SessionInv, DirInv, SweepInv, StartInv, AppendInv, CompleteInv,
       StatusInv, ManifestNeverAhead, Mine, OwnPlaces, SweepPlaces, StartPlaces, AppendPlaces, CompletePlaces
<1>6. ASSUME NEW u \in UploadIds, NEW id \in FileIds, CompleteUpload(u, id) PROVE SessionInv'
  <2>1. /\ op'.pc = "cmpTmp" /\ op'.session = u
        /\ uploads[u].status = "uploading" /\ uploads[u].received = UploadSize
        /\ UNCHANGED <<confirmed, faults>>
    BY <1>6 DEF CompleteUpload, Idle
  <2>2. uploads[u].dir
    BY <2>1, <1>b DEF SessionInv, DirInv, NoSession
  <2>3. /\ uploads'[u].dir = uploads[u].dir /\ uploads'[u].part = Absent
        /\ uploads'[u].status = uploads[u].status /\ uploads'[u].received = uploads[u].received
        /\ uploads'[u].file = uploads[u].file /\ uploads'[u].stale = uploads[u].stale
        /\ \A v \in UploadIds \ {u} : uploads'[v] = uploads[v]
    BY <1>6, <1>c DEF CompleteUpload, Session
  <2>4. DirInv' /\ CompleteInv'
    BY <1>b, <2>1, <2>2, <2>3 DEF SessionInv, DirInv, CompleteInv, Mine, CompletePlaces
  <2>5. SweepInv' /\ StartInv' /\ AppendInv'
    BY <2>1 DEF SweepInv, StartInv, AppendInv, SweepPlaces, StartPlaces, AppendPlaces
  <2>6. StatusInv'
    BY <1>b, <2>1, <2>3 DEF SessionInv, StatusInv
  <2>7. ManifestNeverAhead'
    BY <1>b, <2>1, <2>3 DEF SessionInv, ManifestNeverAhead
  <2> QED BY <2>4, <2>5, <2>6, <2>7 DEF SessionInv
<1> QED BY <1>1, <1>2, <1>3, <1>4, <1>5, <1>6 DEF UploadStart

LEMMA InitSessions == Init => ProcInv /\ SessionInv
BY IdleOperation, ConstantsAssumption
   DEF Init, ProcInv, NoSession, NotOpen, SessionInv, DirInv, SweepInv, StartInv, AppendInv, CompleteInv,
       StatusInv, ManifestNeverAhead, OwnPlaces, SweepPlaces, StartPlaces, AppendPlaces, CompletePlaces,
       RecoverPlaces

LEMMA NextSessions == TypeInv /\ ProcInv /\ SessionInv /\ [Next]_vars => SessionInv'
<1> SUFFICES ASSUME TypeInv, ProcInv, SessionInv, [Next]_vars PROVE SessionInv'
  OBVIOUS
<1>1. CASE UNCHANGED vars
  BY <1>1 DEF SessionInv, DirInv, SweepInv, StartInv, AppendInv, CompleteInv, StatusInv,
     ManifestNeverAhead, Mine, vars, diskVars, fileVars, procVars, ghostVars
<1> QED BY <1>1, FileSessions, OwnSessions, CompleteSessions, SweepSessions, BackgroundSessions,
           RequestSessions DEF Next, Progress

LEMMA SessionsCorrect == Spec => [](TypeInv /\ FilesInv /\ ProcInv /\ SessionInv)
<1>1. Init => TypeInv /\ ProcInv /\ SessionInv
  BY InitTypes, InitSessions
<1>2. (TypeInv /\ ProcInv /\ SessionInv) /\ [Next]_vars => (TypeInv /\ ProcInv /\ SessionInv)'
  BY NextTypes, NextProc, NextSessions
<1> QED BY <1>1, <1>2, FilesCorrect, PTL DEF Spec

-----------------------------------------------------------------------------
\* Short of a failed system call, no session manifest counts a byte that is not in its part
\* file: AppendUpload syncs the data before it writes the manifest, and truncates a part
\* whose manifest it could not write (store.go:505-551).
THEOREM ManifestsNeverAhead == Spec => []ManifestNeverAhead
<1>1. SessionInv => ManifestNeverAhead
  BY DEF SessionInv
<1> QED BY <1>1, SessionsCorrect, PTL

\* The same of every step.
LEMMA NextFaults ==
  ASSUME TypeInv, [Next]_vars
  PROVE  faults' \in Nat /\ faults <= faults' /\ (faults' = 0 => faults = 0 /\ ~IOError)
<1> USE DEF At, Frame, Sessions, Quarantines, fileVars, diskVars, ghostVars, procVars
<1>a. ASSUME faults' = 0, IOError PROVE FALSE
  BY <1>a, ConstantsAssumption DEF IOError, TypeInv, TypeOK
<1>b. CASE faults' = faults \/ IOError
  BY <1>a, <1>b, FaultsGrow
<1>1. CASE PutStep \/ DeleteStep \/ RestoreStep \/ PurgeStep
  BY <1>1, <1>b, FileStepPlaces
<1>2. CASE SessionStep \/ CompleteStep
  BY <1>2, <1>b, SessionStepPlaces
<1>3. CASE SweepStep
  BY <1>3, <1>b DEF SweepStep, SweepUnlink, SweepRemoveDir, SweepDone, SweepIOError, SweepSkip, SweepEntry
<1>4. CASE RecoverStep
  BY <1>4, <1>b DEF RecoverStep, RecoverScanned, RecoverDone, RecoverIOError, RecoverPartial,
     RecoverManifestTmp, RecoverUploadTmp, RecoverSession
<1>5. CASE FileStart
  BY <1>5, <1>a, FileStartFaults
<1>6. CASE UploadStart
  BY <1>6, <1>b DEF UploadStart, SweepUploads, StartUpload, AbortUpload, AppendUpload, CompleteUpload
<1>7. CASE (\E u \in UploadIds : Age(u)) \/ Restart \/ Crash \/ UNCHANGED vars
  BY <1>7, <1>b DEF Age, Restart, Crash, vars
<1> QED BY <1>1, <1>2, <1>3, <1>4, <1>5, <1>6, <1>7 DEF Next, Progress

-----------------------------------------------------------------------------
(* DiskStore implements FileLifecycle: where the manifests of a file are while an *)
(* operation moves them.                                                          *)

CreatesManifest == {"putBody", "putTmp", "putRename", "cmpTmp", "cmpRename"}
HasManifest == {"putSync", "cmpSession", "cmpSessionRename", "cmpSync", "delObject", "delManifest"}
HasTrashManifest == {"delTmp", "delMark", "resMark", "resObject", "resManifest"}
NoTrashManifest == {"delObject", "delManifest", "resDir"}

\* What a Put overlooked may have two manifests, which with a second failed call would have
\* to be told apart: this is said of at most one.
LifecycleInv ==
  /\ op.pc \in CreatesManifest => manifests[op.file] = "none"
  /\ op.pc \in HasManifest => manifests[op.file] # "none"
  /\ op.pc \in HasTrashManifest => trash[op.file].manifest # "none"
  /\ op.pc \in NoTrashManifest => trash[op.file].manifest = "none"
  /\ op.pc = "undoDir" => trash[op.file].manifest = "none"

\* Where FileLifecycle sees a file.
PlaceOf(id) == IF manifests[id] # "none" THEN "active"
               ELSE IF trash[id].manifest # "none" THEN "trashed" ELSE "absent"

Mapped == Lifecycle!lifecycleVars

LEMMA LifecycleMove ==
  ASSUME NEW id \in FileIds, NEW from, NEW to, PlaceOf(id) = from, PlaceOf(id)' = to,
         \A i \in FileIds \ {id} : PlaceOf(i)' = PlaceOf(i), UNCHANGED held
  PROVE  Lifecycle!Move(id, from, to)
BY DEF Lifecycle!Move, PlaceOf

LEMMA LifecycleStutter ==
  ASSUME \A i \in FileIds : PlaceOf(i)' = PlaceOf(i), UNCHANGED held
  PROVE  UNCHANGED Mapped
BY DEF Mapped, Lifecycle!lifecycleVars, PlaceOf

LifecyclePlaces ==
  CreatesManifest \cup HasManifest \cup HasTrashManifest \cup NoTrashManifest \cup {"undoDir"}

\* A step that leaves the manifests where they are and is not inside an operation on one.
LEMMA LifecycleFrame ==
  ASSUME UNCHANGED <<manifests, trash, held>>, op'.pc \notin LifecyclePlaces
  PROVE  LifecycleInv' /\ UNCHANGED Mapped
BY LifecycleStutter
   DEF LifecycleInv, PlaceOf, LifecyclePlaces, CreatesManifest, HasManifest, HasTrashManifest, NoTrashManifest

\* An undo that takes the manifest back, or cannot: with at most one failed call the id was
\* free, and nobody holds it.
LEMMA UndoneManifest ==
  ASSUME TypeInv, FilesInv, faults <= 1, op.pc \in {"putUndoManifest", "cmpUndoManifest"},
         manifests' = [manifests EXCEPT ![op.file] = "none"] \/ UNCHANGED manifests,
         UNCHANGED <<trash, held>>, op'.pc \notin LifecyclePlaces
  PROVE  LifecycleInv' /\ (Lifecycle!Next \/ UNCHANGED Mapped)
<1>a. /\ op.file \in FileIds /\ faults \in Nat
      /\ trash \in [FileIds -> TrashItem] /\ manifests \in [FileIds -> ManifestState]
  BY ConstantsAssumption DEF TypeInv, TypeOK, OpOK, CreatePlaces
<1>b. trash[op.file].manifest = "none" /\ op.file \notin held
  BY <1>a DEF FilesInv, EntryInv, CreateInv, UndoInv, CreatePlaces, UndoCreatePlaces
<1>1. LifecycleInv'
  BY DEF LifecycleInv, LifecyclePlaces, CreatesManifest, HasManifest, HasTrashManifest, NoTrashManifest
<1>2. CASE UNCHANGED manifests
  BY <1>2, LifecycleFrame
<1>3. CASE manifests[op.file] = "none" /\ manifests' = [manifests EXCEPT ![op.file] = "none"]
  BY <1>a, <1>1, <1>3, LifecycleStutter DEF PlaceOf
<1>4. CASE manifests[op.file] # "none" /\ manifests' = [manifests EXCEPT ![op.file] = "none"]
  <2>1. Lifecycle!Move(op.file, "active", "absent")
    BY <1>a, <1>b, <1>4, LifecycleMove DEF PlaceOf
  <2> QED BY <1>a, <1>b, <1>1, <2>1 DEF Lifecycle!Next, Lifecycle!Withdraw
<1> QED BY <1>2, <1>3, <1>4

LEMMA PutLifecycle ==
  ASSUME TypeInv, FilesInv, LifecycleInv, faults <= 1, PutStep
  PROVE  LifecycleInv' /\ (Lifecycle!Next \/ UNCHANGED Mapped)
<1> USE DEF At, Frame, fileVars, diskVars, ghostVars, LifecyclePlaces, CreatesManifest, HasManifest,
            HasTrashManifest, NoTrashManifest
<1>a. op \in Operation /\ OpOK /\ LifecycleInv /\ FilesInv
  BY DEF TypeInv, TypeOK
<1>b. trash \in [FileIds -> TrashItem] /\ manifests \in [FileIds -> ManifestState] /\ held \subseteq FileIds
  BY DEF TypeInv, TypeOK
<1>c. op.file \in FileIds
  BY <1>a, <1>b DEF PutStep, PutAbandon, PutCommitObject, PutWriteManifest, PutCommitManifest, PutAck,
     PutIOError, PutUndoManifest, PutUndo, OpOK, CreatePlaces, MovePlaces
<1>1. CASE PutAbandon
  BY <1>1, ReturnKeepsOperation, LifecycleFrame DEF PutAbandon
<1>2. CASE PutCommitObject \/ PutWriteManifest
  <2>1. op'.pc \in {"putTmp", "putRename"} /\ op'.file = op.file
    BY <1>2, <1>a, GotoKeepsOperation, PlaceNames DEF PutCommitObject, PutWriteManifest
  <2> QED BY <1>2, <1>a, <2>1, LifecycleStutter DEF PutCommitObject, PutWriteManifest, LifecycleInv, PlaceOf
<1>3. CASE PutCommitManifest
  <2>1. op'.pc = "putSync" /\ op'.file = op.file
    BY <1>3, <1>a, GotoKeepsOperation, PlaceNames DEF PutCommitManifest
  <2>2. manifests'[op.file] = "live" /\ \A i \in FileIds \ {op.file} : manifests'[i] = manifests[i]
    BY <1>3, <1>b, <1>c DEF PutCommitManifest
  <2>3. manifests[op.file] = "none" /\ UNCHANGED <<trash, held>>
    BY <1>3, <1>a DEF PutCommitManifest, LifecycleInv
  <2>4. LifecycleInv'
    BY <2>1, <2>2 DEF LifecycleInv
  <2>5. CASE trash[op.file].manifest = "none"
    <3>1. Lifecycle!Move(op.file, "absent", "active")
      BY <1>c, <2>2, <2>3, <2>5, LifecycleMove DEF PlaceOf
    <3> QED BY <1>c, <2>4, <3>1 DEF Lifecycle!Next, Lifecycle!Appear
  <2>6. CASE trash[op.file].manifest # "none"
    <3>1. Lifecycle!Move(op.file, "trashed", "active")
      BY <1>c, <2>2, <2>3, <2>6, LifecycleMove DEF PlaceOf
    <3> QED BY <1>c, <2>4, <3>1 DEF Lifecycle!Next, Lifecycle!Recall
  <2> QED BY <2>5, <2>6
<1>4. CASE PutAck
  <2>1. op'.pc = "idle"
    BY <1>4, ReturnKeepsOperation DEF PutAck
  <2>2. Lifecycle!Acknowledge(op.file)
    BY <1>4, <1>a, <1>c DEF PutAck, LifecycleInv, Lifecycle!Acknowledge
  <2> QED BY <1>c, <2>1, <2>2 DEF LifecycleInv, Lifecycle!Next
<1>5. CASE PutIOError
  <2>1. op'.pc \in {"putUndoManifest", "putUndo"}
    BY <1>5, <1>a, GotoKeepsOperation, PlaceNames DEF PutIOError
  <2> QED BY <1>5, <2>1, LifecycleFrame DEF PutIOError
<1>6. CASE PutUndoManifest
  <2>1. op'.pc = "putUndo"
    BY <1>6, <1>a, GotoKeepsOperation, PlaceNames DEF PutUndoManifest
  <2> QED BY <1>6, <1>a, <1>b, <1>c, <2>1, UndoneManifest DEF PutUndoManifest
<1>7. CASE PutUndo
  <2>1. op'.pc = "idle"
    BY <1>7, ReturnKeepsOperation DEF PutUndo
  <2> QED BY <1>7, <2>1, LifecycleFrame DEF PutUndo
<1> QED BY <1>1, <1>2, <1>3, <1>4, <1>5, <1>6, <1>7 DEF PutStep

LEMMA DeleteLifecycle ==
  ASSUME TypeInv, FilesInv, LifecycleInv, faults <= 1, faults' <= 1, DeleteStep
  PROVE  LifecycleInv' /\ (Lifecycle!Next \/ UNCHANGED Mapped)
<1> USE DEF At, Frame, fileVars, diskVars, ghostVars, LifecyclePlaces, CreatesManifest, HasManifest,
            HasTrashManifest, NoTrashManifest
<1>a. op \in Operation /\ OpOK /\ LifecycleInv /\ FilesInv /\ faults \in Nat
  BY ConstantsAssumption DEF TypeInv, TypeOK
<1>b. trash \in [FileIds -> TrashItem] /\ manifests \in [FileIds -> ManifestState]
  BY DEF TypeInv, TypeOK
<1>c. op.file \in FileIds /\ UNCHANGED held
  BY <1>a DEF DeleteStep, DeleteMoveObject, DeleteMoveFails, DeleteMoveManifest, DeleteWriteMark,
     DeleteCommitMark, DeleteReturn, DeleteIOError, UndoDeleteObject, UndoDeleteManifest, UndoDeleteDir,
     OpOK, CreatePlaces, MovePlaces
\* The steps that leave both manifests alone.
<1>d. ASSUME UNCHANGED manifests, \A i \in FileIds : trash'[i].manifest = trash[i].manifest
      PROVE  UNCHANGED Mapped
  BY <1>c, <1>d, LifecycleStutter DEF PlaceOf
<1>1. CASE DeleteMoveObject \/ DeleteWriteMark
  <2>1. op'.file = op.file /\ <<op.pc, op'.pc>> \in {<<"delObject", "delManifest">>, <<"delTmp", "delMark">>}
    BY <1>1, <1>a, GotoKeepsOperation, PlaceNames DEF DeleteMoveObject, DeleteWriteMark
  <2>2. UNCHANGED manifests /\ \A i \in FileIds : trash'[i].manifest = trash[i].manifest
    BY <1>1, <1>b, <1>c DEF DeleteMoveObject, DeleteWriteMark, TrashItem
  <2> QED BY <1>a, <1>c, <1>d, <2>1, <2>2 DEF LifecycleInv
<1>2. CASE DeleteMoveFails
  <2>1. op'.pc = "idle"
    BY <1>2, ReturnKeepsOperation DEF DeleteMoveFails
  <2>2. UNCHANGED manifests /\ \A i \in FileIds : trash'[i].manifest = trash[i].manifest
    BY <1>2, <1>a, <1>b, <1>c DEF DeleteMoveFails, LifecycleInv, NoTrash
  <2> QED BY <1>d, <2>1, <2>2 DEF LifecycleInv
<1>3. CASE DeleteMoveManifest
  <2>1. op'.pc = "delTmp" /\ op'.file = op.file
    BY <1>3, <1>a, GotoKeepsOperation, PlaceNames DEF DeleteMoveManifest
  <2>2. /\ manifests'[op.file] = "none" /\ trash'[op.file].manifest = manifests[op.file]
        /\ \A i \in FileIds \ {op.file} : manifests'[i] = manifests[i] /\ trash'[i] = trash[i]
    BY <1>3, <1>b, <1>c DEF DeleteMoveManifest, TrashItem
  <2>3. manifests[op.file] # "none"
    BY <1>3, <1>a DEF DeleteMoveManifest, LifecycleInv
  <2>4. Lifecycle!Move(op.file, "active", "trashed")
    BY <1>c, <2>2, <2>3, LifecycleMove DEF PlaceOf
  <2> QED BY <1>c, <2>1, <2>2, <2>3, <2>4 DEF LifecycleInv, Lifecycle!Next, Lifecycle!Discard
<1>4. CASE DeleteCommitMark
  <2>1. op'.pc = "delSync"
    BY <1>4, <1>a, GotoKeepsOperation, PlaceNames DEF DeleteCommitMark
  <2>2. /\ UNCHANGED manifests /\ trash'[op.file].manifest = "deleted"
        /\ \A i \in FileIds \ {op.file} : trash'[i] = trash[i]
    BY <1>4, <1>b, <1>c DEF DeleteCommitMark, TrashItem
  <2>3. trash[op.file].manifest # "none"
    BY <1>4, <1>a DEF DeleteCommitMark, LifecycleInv
  <2> QED BY <1>c, <2>1, <2>2, <2>3, LifecycleStutter DEF LifecycleInv, PlaceOf
<1>5. CASE DeleteReturn
  <2>1. op'.pc = "idle"
    BY <1>5, ReturnKeepsOperation DEF DeleteReturn
  <2> QED BY <1>5, <2>1, LifecycleFrame DEF DeleteReturn
<1>6. CASE DeleteIOError \/ UndoDeleteObject
  <2>1. op'.pc \in {"undoObject", "undoManifest"}
    BY <1>6, <1>a, GotoKeepsOperation, PlaceNames DEF DeleteIOError, UndoDeleteObject
  <2>2. UNCHANGED manifests /\ \A i \in FileIds : trash'[i].manifest = trash[i].manifest
    BY <1>6, <1>b, <1>c DEF DeleteIOError, UndoDeleteObject, TrashItem
  <2> QED BY <1>d, <2>1, <2>2 DEF LifecycleInv
<1>7. CASE UndoDeleteManifest
  <2>1. op'.pc = "undoDir" /\ op'.file = op.file
    BY <1>7, <1>a, GotoKeepsOperation, PlaceNames DEF UndoDeleteManifest
  <2>2. CASE /\ trash[op.file].manifest # "none"
             /\ manifests' = [manifests EXCEPT ![op.file] = trash[op.file].manifest]
             /\ trash' = [trash EXCEPT ![op.file].manifest = "none"]
    <3>1. /\ manifests'[op.file] = trash[op.file].manifest /\ trash'[op.file].manifest = "none"
          /\ \A i \in FileIds \ {op.file} : manifests'[i] = manifests[i] /\ trash'[i] = trash[i]
      BY <2>2, <1>b, <1>c DEF TrashItem
    <3>2. manifests[op.file] = "none"
      BY <1>7, <2>2, <1>a DEF UndoDeleteManifest, FilesInv, MoveInv, MovePlaces, Single, Twice
    <3>3. Lifecycle!Move(op.file, "trashed", "active")
      BY <1>c, <2>2, <3>1, <3>2, LifecycleMove DEF PlaceOf
    <3> QED BY <1>c, <2>1, <3>1, <3>3 DEF LifecycleInv, Lifecycle!Next, Lifecycle!Recall
  <2>3. CASE UNCHANGED <<manifests, trash>> /\ (trash[op.file].manifest = "none" \/ IOError)
    <3>1. trash[op.file].manifest = "none"
      BY <1>7, <2>3, <1>a DEF UndoDeleteManifest, IOError, FilesInv, UndoInv
    <3> QED BY <1>d, <2>1, <2>3, <3>1 DEF LifecycleInv
  <2> QED BY <2>2, <2>3, <1>7 DEF UndoDeleteManifest
<1>8. CASE UndoDeleteDir
  <2>1. op'.pc = "idle"
    BY <1>8, ReturnKeepsOperation DEF UndoDeleteDir
  <2>2. UNCHANGED manifests /\ \A i \in FileIds : trash'[i].manifest = trash[i].manifest
    BY <1>8, <1>a, <1>b, <1>c DEF UndoDeleteDir, LifecycleInv, NoTrash
  <2> QED BY <1>d, <2>1, <2>2 DEF LifecycleInv
<1> QED BY <1>1, <1>2, <1>3, <1>4, <1>5, <1>6, <1>7, <1>8 DEF DeleteStep

LEMMA RestoreLifecycle ==
  ASSUME TypeInv, FilesInv, LifecycleInv, faults <= 1, RestoreStep
  PROVE  LifecycleInv' /\ (Lifecycle!Next \/ UNCHANGED Mapped)
<1> USE DEF At, Frame, fileVars, diskVars, ghostVars, LifecyclePlaces, CreatesManifest, HasManifest,
            HasTrashManifest, NoTrashManifest
<1>a. op \in Operation /\ OpOK /\ LifecycleInv /\ FilesInv /\ faults \in Nat
  BY ConstantsAssumption DEF TypeInv, TypeOK
<1>b. trash \in [FileIds -> TrashItem] /\ manifests \in [FileIds -> ManifestState]
  BY DEF TypeInv, TypeOK
<1>c. op.file \in FileIds /\ UNCHANGED held
  BY <1>a DEF RestoreStep, RestoreCommitMark, RestoreMoveObject, RestoreMoveManifest, RestoreRemoveDir,
     RestoreReturn, RestoreEarlyIOError, RestoreIOError, RestoreUndo, OpOK, CreatePlaces, MovePlaces
<1>d. ASSUME UNCHANGED manifests, \A i \in FileIds : trash'[i].manifest = trash[i].manifest
      PROVE  UNCHANGED Mapped
  BY <1>c, <1>d, LifecycleStutter DEF PlaceOf
<1>1. CASE RestoreCommitMark
  <2>1. op'.pc = "resObject" /\ op'.file = op.file
    BY <1>1, <1>a, GotoKeepsOperation, PlaceNames DEF RestoreCommitMark
  <2>2. /\ UNCHANGED manifests /\ trash'[op.file].manifest = "live"
        /\ \A i \in FileIds \ {op.file} : trash'[i] = trash[i]
    BY <1>1, <1>b, <1>c DEF RestoreCommitMark, TrashItem
  <2>3. trash[op.file].manifest # "none"
    BY <1>1, <1>a DEF RestoreCommitMark, LifecycleInv
  <2> QED BY <1>c, <2>1, <2>2, <2>3, LifecycleStutter DEF LifecycleInv, PlaceOf
<1>2. CASE RestoreMoveObject
  <2>1. op'.pc = "resManifest" /\ op'.file = op.file
    BY <1>2, <1>a, GotoKeepsOperation, PlaceNames DEF RestoreMoveObject
  <2>2. UNCHANGED manifests /\ \A i \in FileIds : trash'[i].manifest = trash[i].manifest
    BY <1>2, <1>b, <1>c DEF RestoreMoveObject, TrashItem
  <2> QED BY <1>2, <1>a, <1>c, <1>d, <2>1, <2>2 DEF RestoreMoveObject, LifecycleInv
<1>3. CASE RestoreMoveManifest
  <2>1. op'.pc = "resDir" /\ op'.file = op.file
    BY <1>3, <1>a, GotoKeepsOperation, PlaceNames DEF RestoreMoveManifest
  <2>2. /\ manifests'[op.file] = trash[op.file].manifest /\ trash'[op.file].manifest = "none"
        /\ \A i \in FileIds \ {op.file} : manifests'[i] = manifests[i] /\ trash'[i] = trash[i]
    BY <1>3, <1>b, <1>c DEF RestoreMoveManifest, TrashItem
  <2>3. trash[op.file].manifest # "none" /\ manifests[op.file] = "none"
    BY <1>3, <1>a DEF RestoreMoveManifest, LifecycleInv, FilesInv, MoveInv, MovePlaces, Single, Twice
  <2>4. Lifecycle!Move(op.file, "trashed", "active")
    BY <1>c, <2>2, <2>3, LifecycleMove DEF PlaceOf
  <2> QED BY <1>c, <2>1, <2>2, <2>4 DEF LifecycleInv, Lifecycle!Next, Lifecycle!Recall
<1>4. CASE RestoreRemoveDir
  <2>1. op'.pc = "resSync"
    BY <1>4, <1>a, GotoKeepsOperation, PlaceNames DEF RestoreRemoveDir
  <2>2. UNCHANGED manifests /\ \A i \in FileIds : trash'[i].manifest = trash[i].manifest
    BY <1>4, <1>a, <1>b, <1>c DEF RestoreRemoveDir, LifecycleInv, NoTrash
  <2> QED BY <1>d, <2>1, <2>2 DEF LifecycleInv
<1>5. CASE RestoreReturn \/ RestoreEarlyIOError \/ RestoreUndo
  <2>1. op'.pc = "idle"
    BY <1>5, ReturnKeepsOperation DEF RestoreReturn, RestoreEarlyIOError, RestoreUndo
  <2>2. UNCHANGED manifests /\ \A i \in FileIds : trash'[i].manifest = trash[i].manifest
    BY <1>5, <1>b, <1>c DEF RestoreReturn, RestoreEarlyIOError, RestoreUndo, TrashItem
  <2> QED BY <1>d, <2>1, <2>2 DEF LifecycleInv
<1>6. CASE RestoreIOError
  <2>1. op'.pc = "resUndo"
    BY <1>6, <1>a, GotoKeepsOperation, PlaceNames DEF RestoreIOError
  <2> QED BY <1>6, <2>1, LifecycleFrame DEF RestoreIOError
<1> QED BY <1>1, <1>2, <1>3, <1>4, <1>5, <1>6 DEF RestoreStep

LEMMA PurgeLifecycle ==
  ASSUME TypeInv, FilesInv, LifecycleInv, PurgeStep
  PROVE  LifecycleInv' /\ (Lifecycle!Next \/ UNCHANGED Mapped)
<1> USE DEF At, Frame, fileVars, diskVars, ghostVars, LifecyclePlaces, CreatesManifest, HasManifest,
            HasTrashManifest, NoTrashManifest
<1>a. op \in Operation /\ OpOK /\ FilesInv
  BY DEF TypeInv, TypeOK
<1>b. trash \in [FileIds -> TrashItem] /\ manifests \in [FileIds -> ManifestState]
  BY DEF TypeInv, TypeOK
<1>1. CASE PurgeStops \/ PurgeIOError \/ PurgeReturn
  <2>1. op'.pc = "idle"
    BY <1>1, ReturnKeepsOperation DEF PurgeStops, PurgeIOError, PurgeReturn
  <2> QED BY <1>1, <2>1, LifecycleFrame DEF PurgeStops, PurgeIOError, PurgeReturn
<1>2. ASSUME NEW id \in FileIds, PurgeKeeps(id)
      PROVE  LifecycleInv' /\ UNCHANGED Mapped
  <2>1. op'.pc = "purge"
    BY <1>2, <1>a DEF PurgeKeeps, Operation
  <2> QED BY <1>2, <2>1, LifecycleFrame DEF PurgeKeeps
<1>3. ASSUME NEW id \in FileIds, PurgeEntry(id)
      PROVE  LifecycleInv' /\ (Lifecycle!GiveUp(id) \/ UNCHANGED Mapped)
  <2>1. op'.pc = "purgeDrop"
    BY <1>3, <1>a DEF PurgeEntry, Operation
  <2>2. trash[id].manifest # "none" /\ UNCHANGED <<manifests, trash>>
    BY <1>3 DEF PurgeEntry, TrashOK
  <2>3. CASE manifests[id] = "none"
    BY <1>3, <2>1, <2>2, <2>3 DEF PurgeEntry, LifecycleInv, Lifecycle!GiveUp
  <2>4. CASE manifests[id] # "none"
    BY <1>3, <2>1, <2>2, <2>4, LifecycleFrame DEF PurgeEntry
  <2> QED BY <2>3, <2>4
<1>4. CASE PurgeUnlink
  <2>1. op'.pc = "purgeDrop" /\ UNCHANGED <<manifests, held>>
    BY <1>4 DEF PurgeUnlink
  <2>2. op.file \in FileIds /\ (manifests[op.file] = "none" => op.file \notin held)
    BY <1>4, <1>a DEF PurgeUnlink, OpOK, CreatePlaces, MovePlaces, FilesInv, MoveInv
  <2>3. /\ trash'[op.file].manifest \in {trash[op.file].manifest, "none"}
        /\ \A i \in FileIds \ {op.file} : trash'[i] = trash[i]
    BY <1>4, <1>b, <2>2 DEF PurgeUnlink, TrashItem, NoTrash
  <2>4. CASE trash'[op.file].manifest = trash[op.file].manifest \/ manifests[op.file] # "none"
    BY <2>1, <2>2, <2>3, <2>4, LifecycleStutter DEF LifecycleInv, PlaceOf
  <2>5. CASE /\ trash[op.file].manifest # "none" /\ trash'[op.file].manifest = "none"
             /\ manifests[op.file] = "none"
    <3>1. Lifecycle!Move(op.file, "trashed", "absent")
      BY <2>1, <2>2, <2>3, <2>5, LifecycleMove DEF PlaceOf
    <3> QED BY <2>1, <2>2, <2>5, <3>1 DEF LifecycleInv, Lifecycle!Next, Lifecycle!Destroy
  <2> QED BY <2>3, <2>4, <2>5
<1>5. CASE PurgeRemoveDir
  <2>1. op'.pc = "purge"
    BY <1>5, <1>a DEF PurgeRemoveDir, Operation
  <2>2. UNCHANGED <<manifests, held>> /\ \A i \in FileIds : trash'[i].manifest = trash[i].manifest
    BY <1>5, <1>b DEF PurgeRemoveDir, NoTrash
  <2> QED BY <2>1, <2>2, LifecycleStutter DEF LifecycleInv, PlaceOf
<1> QED BY <1>1, <1>2, <1>3, <1>4, <1>5 DEF PurgeStep, Lifecycle!Next

LEMMA CompleteLifecycle ==
  ASSUME TypeInv, FilesInv, LifecycleInv, faults <= 1, CompleteStep
  PROVE  LifecycleInv' /\ (Lifecycle!Next \/ UNCHANGED Mapped)
<1> USE DEF At, Sessions, fileVars, diskVars, ghostVars, LifecyclePlaces, CreatesManifest, HasManifest,
            HasTrashManifest, NoTrashManifest
<1>a. op \in Operation /\ OpOK /\ LifecycleInv /\ FilesInv
  BY DEF TypeInv, TypeOK
<1>b. trash \in [FileIds -> TrashItem] /\ manifests \in [FileIds -> ManifestState]
  BY DEF TypeInv, TypeOK
<1>c. op.file \in FileIds
  BY <1>a, <1>b DEF CompleteStep, CompleteWriteManifest, CompleteCommitManifest, CompleteWriteSession,
     CompleteCommitSession, CompleteAck, CompleteIOError, CompleteUndo, CompleteUndoManifest, OpOK, CreatePlaces, MovePlaces
<1>1. CASE CompleteWriteManifest
  <2>1. op'.pc = "cmpRename" /\ op'.file = op.file
    BY <1>1, <1>a, GotoKeepsOperation, PlaceNames DEF CompleteWriteManifest
  <2> QED BY <1>1, <1>a, <2>1, LifecycleStutter DEF CompleteWriteManifest, LifecycleInv, PlaceOf
<1>2. CASE CompleteCommitManifest
  <2>1. op'.pc = "cmpSession" /\ op'.file = op.file
    BY <1>2, <1>a, GotoKeepsOperation, PlaceNames DEF CompleteCommitManifest
  <2>2. manifests'[op.file] = "live" /\ \A i \in FileIds \ {op.file} : manifests'[i] = manifests[i]
    BY <1>2, <1>b, <1>c DEF CompleteCommitManifest
  <2>3. manifests[op.file] = "none" /\ UNCHANGED <<trash, held>>
    BY <1>2, <1>a DEF CompleteCommitManifest, LifecycleInv
  <2>4. LifecycleInv'
    BY <2>1, <2>2 DEF LifecycleInv
  <2>5. CASE trash[op.file].manifest = "none"
    <3>1. Lifecycle!Move(op.file, "absent", "active")
      BY <1>c, <2>2, <2>3, <2>5, LifecycleMove DEF PlaceOf
    <3> QED BY <1>c, <2>4, <3>1 DEF Lifecycle!Next, Lifecycle!Appear
  <2>6. CASE trash[op.file].manifest # "none"
    <3>1. Lifecycle!Move(op.file, "trashed", "active")
      BY <1>c, <2>2, <2>3, <2>6, LifecycleMove DEF PlaceOf
    <3> QED BY <1>c, <2>4, <3>1 DEF Lifecycle!Next, Lifecycle!Recall
  <2> QED BY <2>5, <2>6
<1>3. CASE CompleteWriteSession \/ CompleteCommitSession
  <2>1. op'.pc \in {"cmpSessionRename", "cmpSync"} /\ op'.file = op.file
    BY <1>3, <1>a, GotoKeepsOperation, PlaceNames DEF CompleteWriteSession, CompleteCommitSession
  <2> QED BY <1>3, <1>a, <2>1, LifecycleStutter
       DEF CompleteWriteSession, CompleteCommitSession, LifecycleInv, PlaceOf
<1>4. CASE CompleteAck
  <2>1. op'.pc = "idle"
    BY <1>4, ReturnKeepsOperation DEF CompleteAck
  <2>2. Lifecycle!Acknowledge(op.file)
    BY <1>4, <1>a, <1>c DEF CompleteAck, LifecycleInv, Lifecycle!Acknowledge
  <2> QED BY <1>c, <2>1, <2>2 DEF LifecycleInv, Lifecycle!Next
<1>5. CASE CompleteIOError
  <2>1. op'.pc = "cmpUndo"
    BY <1>5, <1>a, GotoKeepsOperation, PlaceNames DEF CompleteIOError
  <2> QED BY <1>5, <2>1, LifecycleFrame DEF CompleteIOError
<1>6. CASE CompleteUndo
  <2>1. op'.pc = "cmpUndoManifest"
    BY <1>6, <1>a, GotoKeepsOperation, PlaceNames DEF CompleteUndo
  <2> QED BY <1>6, <2>1, LifecycleFrame DEF CompleteUndo
<1>7. CASE CompleteUndoManifest
  <2>1. op'.pc = "idle"
    BY <1>7, ReturnKeepsOperation DEF CompleteUndoManifest
  <2> QED BY <1>7, <1>a, <1>b, <1>c, <2>1, UndoneManifest DEF CompleteUndoManifest
<1> QED BY <1>1, <1>2, <1>3, <1>4, <1>5, <1>6, <1>7 DEF CompleteStep

LEMMA RequestLifecycle ==
  ASSUME TypeInv, FilesInv, LifecycleInv, faults' <= 1, FileStart \/ UploadStart
  PROVE  LifecycleInv' /\ UNCHANGED Mapped
<1> USE DEF Frame, Sessions, fileVars, diskVars, ghostVars, LifecyclePlaces, CreatesManifest, HasManifest,
            HasTrashManifest, NoTrashManifest
<1>a. op \in Operation /\ trash \in [FileIds -> TrashItem] /\ manifests \in [FileIds -> ManifestState]
  BY DEF TypeInv, TypeOK
<1>1. CASE UsageLoad
  BY <1>1, IdleOperation, LifecycleFrame DEF UsageLoad, Serving
<1>2. CASE PurgeTrash
  <2>1. op'.pc = "purge"
    BY <1>2 DEF PurgeTrash, Idle
  <2> QED BY <1>2, <2>1, LifecycleFrame DEF PurgeTrash
<1>3. ASSUME NEW id \in FileIds, Put(id) PROVE LifecycleInv' /\ UNCHANGED Mapped
  <2>1. op'.pc = "putBody" /\ op'.file = id /\ op.pc = "idle"
    BY <1>3, IdleOperation DEF Put, Idle, Serving
  <2>2. faults = 0 => ~(id \notin objects /\ manifests[id] # "none" /\ ~trash[id].dir)
    BY <1>3, <2>1 DEF FilesInv, EntryInv, ManifestHasBytes, HasBytes, At
  <2>3. TypeOK /\ faults \in Nat
    BY ConstantsAssumption DEF TypeInv, TypeOK
  <2>4. manifests[id] = "none"
    BY <1>3, <2>2, <2>3, PutGuard
  <2> QED BY <1>3, <2>1, <2>4, LifecycleStutter DEF Put, LifecycleInv, PlaceOf
<1>4. ASSUME NEW id \in FileIds, Delete(id) PROVE LifecycleInv' /\ UNCHANGED Mapped
  <2>1. op'.pc = "delObject" /\ op'.file = id
    BY <1>4 DEF Delete, Idle
  <2>2. trash[id].manifest = "none"
    BY <1>4, <1>a DEF Delete, FilesInv, EntryInv
  <2>3. \A i \in FileIds : trash'[i].manifest = trash[i].manifest
    BY <1>4, <1>a, <2>2 DEF Delete, NoTrash
  <2> QED BY <1>4, <2>1, <2>2, <2>3, LifecycleStutter DEF Delete, LifecycleInv, PlaceOf
<1>5. ASSUME NEW id \in FileIds, Restore(id) PROVE LifecycleInv' /\ UNCHANGED Mapped
  <2>1. op'.pc = "resMark" /\ op'.file = id
    BY <1>5 DEF Restore, Idle
  <2>2. \A i \in FileIds : trash'[i].manifest = trash[i].manifest
    BY <1>5, <1>a DEF Restore, TrashItem
  <2> QED BY <1>5, <2>1, <2>2, LifecycleStutter DEF Restore, LifecycleInv, PlaceOf, TrashOK
<1>6. ASSUME NEW u \in UploadIds, NEW id \in FileIds, CompleteUpload(u, id)
      PROVE  LifecycleInv' /\ UNCHANGED Mapped
  <2>1. op'.pc = "cmpTmp" /\ op'.file = id
    BY <1>6 DEF CompleteUpload, Idle
  <2> QED BY <1>6, <2>1, LifecycleStutter DEF CompleteUpload, Fresh, LifecycleInv, PlaceOf
<1>7. CASE SweepUploads \/ \E u \in UploadIds :
             StartUpload(u) \/ AbortUpload(u) \/ \E n \in 1 .. UploadSize : AppendUpload(u, n)
  <2>1. op'.pc \in {"sweep", "startDir", "drop", "appBody"}
    BY <1>7 DEF SweepUploads, StartUpload, AbortUpload, AppendUpload, Idle
  <2> QED BY <1>7, <2>1, LifecycleFrame DEF SweepUploads, StartUpload, AbortUpload, AppendUpload
<1> QED BY <1>1, <1>2, <1>3, <1>4, <1>5, <1>6, <1>7 DEF FileStart, UploadStart

LEMMA NextLifecycle ==
  ASSUME TypeInv, FilesInv, faults <= 1 => LifecycleInv, faults' <= 1, [Next]_vars
  PROVE  LifecycleInv' /\ (Lifecycle!Next \/ UNCHANGED Mapped)
<1>a. LifecycleInv /\ faults <= 1 /\ CreateInv
  BY NextFaults, ConstantsAssumption DEF FilesInv, TypeInv, TypeOK
<1>1. CASE SweepStep \/ SessionStep \/ RecoverStep \/ (\E u \in UploadIds : Age(u)) \/ Restart \/ Crash
  <2>1. op'.pc \notin LifecyclePlaces
    BY <1>1, <1>a, BesideFiles DEF LifecyclePlaces, CreatesManifest, HasManifest, HasTrashManifest,
       NoTrashManifest, CreatePlaces, MovePlaces
  <2> QED BY <1>1, <1>a, <2>1, BesideFiles, LifecycleFrame
<1>2. CASE UNCHANGED vars
  BY <1>2, <1>a, LifecycleStutter DEF vars, diskVars, fileVars, ghostVars, LifecycleInv, PlaceOf
<1> QED BY <1>1, <1>2, <1>a, PutLifecycle, DeleteLifecycle, RestoreLifecycle, PurgeLifecycle,
           CompleteLifecycle, RequestLifecycle DEF Next, Progress

LEMMA InitLifecycle == Init => LifecycleInv /\ Lifecycle!Init
BY IdleOperation DEF Init, NoTrash, LifecycleInv, Lifecycle!Init, CreatesManifest, HasManifest,
   HasTrashManifest, NoTrashManifest

LEMMA LifecycleCorrect == Spec => [](TypeInv /\ FilesInv /\ (faults <= 1 => LifecycleInv))
<1>1. TypeInv /\ FilesInv /\ (faults <= 1 => LifecycleInv) /\ [Next]_vars
        => (faults <= 1 => LifecycleInv)'
  BY NextLifecycle
<1> QED BY <1>1, InitLifecycle, FilesCorrect, PTL DEF Spec

\* Seen through the directory its manifest is in, a file of DiskStore is created, moved to the
\* trash, restored and purged as FileLifecycle says, through every interleaving of system
\* calls, kills and Recover and at most one failed system call: an acknowledged file only
\* leaves metadata/ for the trash, and only leaves the trash after somebody asked to purge it.
THEOREM StoreFollowsLifecycle ==
  ASSUME MaxFaults <= 1
  PROVE  Spec => FollowsLifecycle
<1>1. Init => Lifecycle!Init
  BY InitLifecycle
<1>2. TypeInv /\ FilesInv /\ (faults <= 1 => LifecycleInv) /\ TypeInv' /\ [Next]_vars
        => [Lifecycle!Next]_(Lifecycle!lifecycleVars)
  <2>1. TypeInv' => faults' <= 1
    BY ConstantsAssumption DEF TypeInv, TypeOK
  <2> QED BY <2>1, NextLifecycle DEF Mapped
<1> QED BY <1>1, <1>2, LifecycleCorrect, PTL DEF Spec, FollowsLifecycle, Lifecycle!Spec

-----------------------------------------------------------------------------
(* The bytes a client was told are received. *)

\* Short of a failed system call, only PurgeTrash takes the bytes of a file away.
LEMMA BytesStay ==
  ASSUME TypeInv, FilesInv, [Next]_vars, faults' = 0, NEW id \in FileIds, HasBytes(id),
         ~(op.pc = "purgeDrop" /\ id = op.file)
  PROVE  HasBytes(id)'
<1> USE DEF At, Frame, fileVars, diskVars, ghostVars, procVars
<1>a. op \in Operation /\ OpOK /\ TypeOK BY DEF TypeInv, TypeOK
<1>b. trash \in [FileIds -> TrashItem] BY DEF TypeInv, TypeOK
<1>1. faults = 0 /\ ~IOError /\ CreateInv
  BY NextFaults DEF FilesInv
<1>2. CASE PutStep
  <2>1. CASE PutUndo
    BY <2>1, <1>1 DEF PutUndo, FilesInv, UndoInv, UndoCreatePlaces
  <2>2. (objects \subseteq objects' /\ UNCHANGED trash) \/ PutUndo
    BY <1>2 DEF PutStep, PutAbandon, PutCommitObject, PutWriteManifest, PutCommitManifest, PutAck, PutIOError,
       PutUndoManifest
  <2> QED BY <2>1, <2>2 DEF HasBytes
<1>3. CASE DeleteStep
  <2>1. CASE UndoDeleteObject \/ UndoDeleteManifest \/ UndoDeleteDir
    BY <2>1, <1>1 DEF UndoDeleteObject, UndoDeleteManifest, UndoDeleteDir, FilesInv, UndoInv
  <2>2. CASE DeleteMoveObject
    <3>1. op.file \in FileIds
      BY <2>2, <1>a DEF DeleteMoveObject, OpOK, MovePlaces
    <3> QED BY <2>2, <3>1, <1>b DEF DeleteMoveObject, TrashItem, HasBytes
  <2>3. CASE DeleteMoveManifest \/ DeleteWriteMark \/ DeleteCommitMark
    <3>1. op.file \in FileIds
      BY <2>3, <1>a DEF DeleteMoveManifest, DeleteWriteMark, DeleteCommitMark, OpOK, MovePlaces
    <3> QED BY <2>3, <3>1, <1>b DEF DeleteMoveManifest, DeleteWriteMark, DeleteCommitMark, TrashItem, HasBytes
  <2>4. CASE DeleteReturn
    BY <2>4 DEF DeleteReturn, HasBytes
  <2> QED BY <2>1, <2>2, <2>3, <2>4, <1>1, <1>3 DEF DeleteStep, DeleteMoveFails, DeleteIOError
<1>4. CASE RestoreStep
  <2>1. CASE RestoreCommitMark \/ RestoreMoveManifest
    <3>1. op.file \in FileIds
      BY <2>1, <1>a DEF RestoreCommitMark, RestoreMoveManifest, OpOK, MovePlaces
    <3> QED BY <2>1, <3>1, <1>b DEF RestoreCommitMark, RestoreMoveManifest, TrashItem, HasBytes
  <2>2. CASE RestoreMoveObject
    <3>1. op.file \in FileIds
      BY <2>2, <1>a DEF RestoreMoveObject, OpOK, MovePlaces
    <3> QED BY <2>2, <3>1, <1>b DEF RestoreMoveObject, TrashItem, HasBytes
  <2>3. CASE RestoreRemoveDir
    BY <2>3, <1>a, <1>b DEF RestoreRemoveDir, FilesInv, MoveInv, OpOK, MovePlaces, HasBytes
  <2>4. CASE RestoreReturn
    BY <2>4 DEF RestoreReturn, HasBytes
  <2>5. CASE RestoreUndo
    <3>1. op.file \in FileIds
      BY <2>5, <1>a DEF RestoreUndo, OpOK, MovePlaces
    <3> QED BY <2>5, <3>1, <1>1, <1>b DEF RestoreUndo, TrashItem, HasBytes
  <2> QED BY <2>1, <2>2, <2>3, <2>4, <2>5, <1>1, <1>4 DEF RestoreStep, RestoreEarlyIOError, RestoreIOError
<1>5. CASE PurgeStep
  <2>1. CASE PurgeUnlink \/ PurgeRemoveDir
    <3>1. op.file \in FileIds /\ op.pc = "purgeDrop"
      BY <2>1, <1>a DEF PurgeUnlink, PurgeRemoveDir, OpOK, MovePlaces
    <3>2. trash'[id] = trash[id] /\ UNCHANGED objects
      BY <2>1, <3>1, <1>b DEF PurgeUnlink, PurgeRemoveDir
    <3> QED BY <3>2 DEF HasBytes
  <2>2. CASE UNCHANGED <<objects, trash>>
    BY <2>2 DEF HasBytes
  <2> QED BY <2>1, <2>2, <1>5 DEF PurgeStep, PurgeStops, PurgeIOError, PurgeReturn, PurgeKeeps, PurgeEntry
<1>6. CASE CompleteStep
  <2>1. CASE CompleteUndo
    BY <2>1, <1>1 DEF CompleteUndo, FilesInv, UndoInv, UndoCreatePlaces
  <2>2. UNCHANGED <<objects, trash>> \/ CompleteUndo
    BY <1>6 DEF CompleteStep, CompleteWriteManifest, CompleteCommitManifest, CompleteWriteSession,
       CompleteCommitSession, CompleteAck, CompleteIOError, CompleteUndoManifest, Sessions
  <2> QED BY <2>1, <2>2 DEF HasBytes
<1>7. CASE FileStart
  <2>1. ASSUME NEW i \in FileIds, Delete(i) \/ Restore(i)
        PROVE  HasBytes(id)'
    <3>1. i # id => trash'[id] = trash[id]
      BY <2>1, <1>b DEF Delete, Restore
    <3>2. trash[i].object => trash'[i].object
      <4>1. CASE Delete(i)
        BY <4>1, <1>b DEF Delete, FilesInv, EntryInv
      <4>2. CASE Restore(i)
        BY <4>2, <1>b DEF Restore, TrashItem
      <4> QED BY <4>1, <4>2, <2>1
    <3> QED BY <2>1, <3>1, <3>2 DEF Delete, Restore, HasBytes
  <2>2. CASE UNCHANGED <<objects, trash>>
    BY <2>2 DEF HasBytes
  <2> QED BY <2>1, <2>2, <1>7 DEF FileStart, UsageLoad, PurgeTrash, Put
<1>8. CASE UploadStart
  <2>1. objects \subseteq objects' /\ UNCHANGED trash
    BY <1>8 DEF UploadStart, SweepUploads, StartUpload, AbortUpload, AppendUpload, CompleteUpload, Sessions
  <2> QED BY <2>1 DEF HasBytes
<1>9. CASE UNCHANGED <<objects, trash>>
  BY <1>9 DEF HasBytes
<1> QED BY <1>1, <1>2, <1>3, <1>4, <1>5, <1>6, <1>7, <1>8, <1>9, BesideFiles DEF Next, Progress, vars

\* A part file never gets shorter than what a client was told, but by becoming an object.
LEMMA PartsStay ==
  ASSUME TypeInv, ProcInv, SessionInv, [Next]_vars, NEW u \in UploadIds,
         uploads[u].part >= confirmed[u], ~\E id \in FileIds : CompleteUpload(u, id)
  PROVE  uploads'[u].part >= confirmed'[u]
<1> USE ConstantsAssumption DEF At, Sessions, Frame, fileVars, diskVars, ghostVars, procVars, NotOpen
<1>a. op \in Operation /\ OpOK BY DEF TypeInv, TypeOK
<1>b. SessionInv BY DEF SessionInv
<1>c. /\ uploads \in [UploadIds -> Session] /\ confirmed \in [UploadIds -> -1 .. UploadSize]
      /\ uploads' \in [UploadIds -> Session]
  BY NextTypes DEF TypeInv, TypeOK
<1>d. uploads[u].part \in Int /\ uploads'[u].part \in Int /\ uploads'[u].part >= -1
      /\ confirmed[u] \in Int
  BY <1>c DEF Session
\* It is enough that the part is as it was and that no more was promised.
<1>e. uploads'[u].part = uploads[u].part /\ confirmed'[u] \in {confirmed[u], NotOpen}
        => uploads'[u].part >= confirmed'[u]
  BY <1>d
<1>f. confirmed'[u] = NotOpen => uploads'[u].part >= confirmed'[u]
  BY <1>d
<1>1. CASE PutStep \/ DeleteStep \/ RestoreStep \/ PurgeStep
  BY <1>1, <1>e, FileStepPlaces
<1>2. CASE FileStart
  BY <1>2, <1>e DEF FileStart, UsageLoad, PurgeTrash, Put, Delete, Restore
<1>3. CASE UploadStart
  <2>1. CASE SweepUploads \/ (\E v \in UploadIds : StartUpload(v))
    BY <2>1, <1>e DEF SweepUploads, StartUpload
  <2>2. CASE \E v \in UploadIds : AbortUpload(v)
    BY <2>2, <1>c, <1>e DEF AbortUpload
  <2>3. CASE \E v \in UploadIds : \E n \in 1 .. UploadSize : AppendUpload(v, n)
    BY <2>3, <1>e DEF AppendUpload
  <2>4. ASSUME NEW v \in UploadIds, NEW id \in FileIds, CompleteUpload(v, id)
        PROVE  uploads'[u].part >= confirmed'[u]
    <3>1. v # u
      BY <2>4
    <3> QED BY <2>4, <3>1, <1>c, <1>e DEF CompleteUpload
  <2> QED BY <2>1, <2>2, <2>3, <2>4, <1>3 DEF UploadStart
<1>4. CASE CompleteStep
  <2>1. CASE CompleteAck
    <3>1. op.session \in UploadIds
      BY <2>1, <1>a DEF CompleteAck, OpOK, SessionPlaces
    <3> QED BY <2>1, <3>1, <1>c, <1>e DEF CompleteAck
  <2>2. CASE CompleteWriteSession \/ CompleteCommitSession \/ CompleteIOError
    <3>1. op.session \in UploadIds
      BY <2>2, <1>a DEF CompleteWriteSession, CompleteCommitSession, CompleteIOError, OpOK, SessionPlaces
    <3>2. uploads'[u].part = uploads[u].part
      BY <2>2, <3>1, <1>c DEF CompleteWriteSession, CompleteCommitSession, CompleteIOError, Session
    <3> QED BY <2>2, <3>2, <1>e DEF CompleteWriteSession, CompleteCommitSession, CompleteIOError
  <2>3. CASE CompleteWriteManifest \/ CompleteCommitManifest \/ CompleteUndo \/ CompleteUndoManifest
    BY <2>3, <1>e DEF CompleteWriteManifest, CompleteCommitManifest, CompleteUndo, CompleteUndoManifest
  <2> QED BY <2>1, <2>2, <2>3, <1>4 DEF CompleteStep
<1>5. CASE SessionStep
  <2>1. CASE StartRefused \/ AppendReject \/ DropIOError
    BY <2>1, <1>e DEF StartRefused, AppendReject, DropIOError
  <2>2. CASE StartCreateDir \/ StartWriteManifest \/ StartCommitManifest \/ StartIOError
             \/ AppendWriteManifest \/ AppendCommitManifest \/ AppendIOError
    <3>1. op.session \in UploadIds
      BY <2>2, <1>a DEF StartCreateDir, StartWriteManifest, StartCommitManifest, StartIOError,
         AppendWriteManifest, AppendCommitManifest, AppendIOError, OpOK, SessionPlaces, AppendPlaces
    <3>2. uploads'[u].part = uploads[u].part
      <4>1. CASE StartCreateDir \/ StartWriteManifest \/ StartCommitManifest \/ StartIOError
        BY <4>1, <3>1, <1>c DEF StartCreateDir, StartWriteManifest, StartCommitManifest, StartIOError, Session
      <4>2. CASE AppendWriteManifest \/ AppendCommitManifest \/ AppendIOError
        BY <4>2, <3>1, <1>c DEF AppendWriteManifest, AppendCommitManifest, AppendIOError, Session
      <4> QED BY <4>1, <4>2, <2>2
    <3>3. UNCHANGED confirmed
      BY <2>2 DEF StartCreateDir, StartWriteManifest, StartCommitManifest, StartIOError,
         AppendWriteManifest, AppendCommitManifest, AppendIOError
    <3> QED BY <3>2, <3>3, <1>e
  <2>3. CASE StartCreatePart \/ DropUnlink \/ DropRemoveDir
    <3>1. op.session \in UploadIds
      BY <2>3, <1>a DEF StartCreatePart, DropUnlink, DropRemoveDir, OpOK, SessionPlaces
    <3>2. confirmed[op.session] = NotOpen /\ UNCHANGED confirmed
      BY <2>3, <1>b DEF StartCreatePart, DropUnlink, DropRemoveDir, SessionInv, StartInv, StartPlaces
    <3>3. u # op.session => uploads'[u].part = uploads[u].part
      BY <2>3, <3>1, <1>c, UnlinkedFields DEF StartCreatePart, DropUnlink, DropRemoveDir
    <3> QED BY <3>2, <3>3, <1>e, <1>f
  <2>4. CASE StartAck
    <3>1. op.session \in UploadIds /\ uploads[op.session].part = 0
      BY <2>4, <1>a, <1>b DEF StartAck, OpOK, SessionPlaces, SessionInv, StartInv, Mine
    <3>2. confirmed'[op.session] = 0 /\ \A v \in UploadIds \ {op.session} : confirmed'[v] = confirmed[v]
      BY <2>4, <3>1, <1>c DEF StartAck
    <3> QED BY <2>4, <3>1, <3>2, <1>d, <1>e DEF StartAck
  <2>5. CASE AppendCopy
    <3>1. op.session \in UploadIds
      BY <2>5, <1>a DEF AppendCopy, OpOK, SessionPlaces, AppendPlaces
    <3>2. PICK size \in 1 .. UploadSize + 1 :
            uploads[op.session].part < size /\ uploads' = [uploads EXCEPT ![op.session].part = size]
      BY <2>5 DEF AppendCopy
    <3>3. uploads'[op.session].part = size /\ \A v \in UploadIds \ {op.session} : uploads'[v] = uploads[v]
      BY <3>1, <3>2, <1>c DEF Session
    <3>4. UNCHANGED confirmed
      BY <2>5 DEF AppendCopy
    <3> QED BY <3>1, <3>2, <3>3, <3>4, <1>d
  <2>6. CASE AppendAck
    <3>1. op.session \in UploadIds /\ uploads[op.session].part = op.base + op.chunk
      BY <2>6, <1>a, <1>b DEF AppendAck, OpOK, SessionPlaces, AppendPlaces, SessionInv, AppendInv, Mine
    <3>2. /\ confirmed'[op.session] = op.base + op.chunk /\ UNCHANGED uploads
          /\ \A v \in UploadIds \ {op.session} : confirmed'[v] = confirmed[v]
      BY <2>6, <3>1, <1>c DEF AppendAck
    <3> QED BY <3>1, <3>2, <1>d
  <2>7. CASE AppendUndo
    <3>1. op.session \in UploadIds /\ confirmed[op.session] <= op.base /\ UNCHANGED confirmed
      BY <2>7, <1>a, <1>b DEF AppendUndo, OpOK, SessionPlaces, AppendPlaces, SessionInv, AppendInv
    <3>2. CASE uploads' = [uploads EXCEPT ![op.session].part = op.base]
      <4>1. uploads'[op.session].part = op.base
            /\ \A v \in UploadIds \ {op.session} : uploads'[v] = uploads[v]
        BY <3>1, <3>2, <1>c DEF Session
      <4>2. op.base \in Int
        BY <1>a DEF Operation
      <4> QED BY <3>1, <4>1, <4>2, <1>d
    <3> QED BY <3>1, <3>2, <2>7, <1>e DEF AppendUndo
  <2> QED BY <2>1, <2>2, <2>3, <2>4, <2>5, <2>6, <2>7, <1>5 DEF SessionStep
<1>6. CASE SweepStep
  <2>1. CASE SweepUnlink \/ SweepRemoveDir
    <3>1. op.victim \in UploadIds
      BY <2>1, <1>a DEF SweepUnlink, SweepRemoveDir, OpOK
    <3>2. confirmed[op.victim] = NotOpen /\ UNCHANGED confirmed
      BY <2>1, <1>b DEF SweepUnlink, SweepRemoveDir, SessionInv, SweepInv
    <3>3. u # op.victim => uploads'[u].part = uploads[u].part
      BY <2>1, <3>1, <1>c, UnlinkedFields DEF SweepUnlink, SweepRemoveDir
    <3> QED BY <3>2, <3>3, <1>e, <1>f
  <2>2. CASE SweepDone \/ SweepIOError
    BY <2>2, <1>e DEF SweepDone, SweepIOError
  <2>3. ASSUME NEW v \in UploadIds, SweepSkip(v) \/ SweepEntry(v)
        PROVE  UNCHANGED uploads /\ confirmed'[u] \in {confirmed[u], NotOpen}
    BY <2>3, <1>c DEF SweepSkip, SweepEntry
  <2> QED BY <2>1, <2>2, <2>3, <1>e, <1>6 DEF SweepStep
<1>7. CASE RecoverStep
  <2>1. CASE RecoverScanned \/ RecoverDone \/ RecoverIOError
             \/ \E id \in FileIds : RecoverPartial(id) \/ RecoverManifestTmp(id)
    BY <2>1, <1>e DEF RecoverScanned, RecoverDone, RecoverIOError, RecoverPartial, RecoverManifestTmp,
       Quarantines
  <2>2. ASSUME NEW v \in UploadIds, RecoverUploadTmp(v)
        PROVE  uploads'[u].part = uploads[u].part /\ UNCHANGED confirmed
    BY <2>2, <1>c DEF RecoverUploadTmp, Quarantines, Session
  <2>3. ASSUME NEW v \in UploadIds, RecoverSession(v)
        PROVE  uploads'[u].part >= confirmed'[u]
    <3>1. confirmed[v] = NotOpen /\ UNCHANGED confirmed
      BY <2>3, <1>b DEF RecoverSession, Quarantines, SessionInv, StatusInv
    <3>2. u # v => uploads'[u].part = uploads[u].part
      BY <2>3, <1>c DEF RecoverSession
    <3> QED BY <3>1, <3>2, <1>e, <1>f
  <2> QED BY <2>1, <2>2, <2>3, <1>e, <1>7 DEF RecoverStep
<1>8. CASE \E v \in UploadIds : Age(v)
  <2>1. uploads'[u].part = uploads[u].part /\ UNCHANGED confirmed
    BY <1>8, <1>c DEF Age, Session
  <2> QED BY <2>1, <1>e
<1>9. CASE UNCHANGED <<uploads, confirmed>>
  BY <1>9, <1>e
<1> QED BY <1>1, <1>2, <1>3, <1>4, <1>5, <1>6, <1>7, <1>8, <1>9 DEF Next, Progress, Restart, Crash, vars

\* What an object was made of changes when Complete renames the part, when its undo removes
\* the object, and when somebody asks to purge the file.
LEMMA AssembledChanges ==
  ASSUME TypeInv, FilesInv, [Next]_vars, NEW id \in FileIds
  PROVE  \/ assembled'[id] = assembled[id]
         \/ assembled'[id] = NotAssembled /\ (PurgeEntry(id) \/ CompleteUndo)
         \/ \E u \in UploadIds : CompleteUpload(u, id)
<1> USE DEF Frame, Sessions, ghostVars
<1>a. assembled \in [FileIds -> [from : UploadIds \cup {NoUpload}, bytes : 0 .. UploadSize]]
  BY DEF TypeInv, TypeOK
<1>1. CASE PutStep
  BY <1>1 DEF PutStep, PutAbandon, PutCommitObject, PutWriteManifest, PutCommitManifest, PutAck, PutIOError, PutUndoManifest, PutUndo
<1>2. CASE DeleteStep
  BY <1>2 DEF DeleteStep, DeleteMoveObject, DeleteMoveFails, DeleteMoveManifest, DeleteWriteMark,
     DeleteCommitMark, DeleteReturn, DeleteIOError, UndoDeleteObject, UndoDeleteManifest, UndoDeleteDir
<1>3. CASE RestoreStep
  BY <1>3 DEF RestoreStep, RestoreCommitMark, RestoreMoveObject, RestoreMoveManifest, RestoreRemoveDir,
     RestoreReturn, RestoreEarlyIOError, RestoreIOError, RestoreUndo
<1>4. CASE PurgeStep
  <2>1. ASSUME NEW i \in FileIds, PurgeEntry(i)
        PROVE  assembled'[id] = assembled[id] \/ (i = id /\ assembled'[id] = NotAssembled)
    BY <2>1, <1>a DEF PurgeEntry
  <2> QED BY <2>1, <1>4 DEF PurgeStep, PurgeStops, PurgeUnlink, PurgeRemoveDir, PurgeIOError, PurgeReturn,
       PurgeKeeps
<1>5. CASE CompleteStep
  <2>1. CASE CompleteUndo
    BY <2>1, <1>a DEF CompleteUndo
  <2> QED BY <2>1, <1>5 DEF CompleteStep, CompleteWriteManifest, CompleteCommitManifest,
       CompleteWriteSession, CompleteCommitSession, CompleteAck, CompleteIOError, CompleteUndoManifest
<1>6. CASE FileStart
  BY <1>6 DEF FileStart, UsageLoad, PurgeTrash, Put, Delete, Restore
<1>7. CASE UploadStart
  <2>1. ASSUME NEW u \in UploadIds, NEW i \in FileIds, CompleteUpload(u, i)
        PROVE  assembled'[id] = assembled[id] \/ i = id
    BY <2>1, <1>a DEF CompleteUpload
  <2> QED BY <2>1, <1>7 DEF UploadStart, SweepUploads, StartUpload, AbortUpload, AppendUpload
<1>8. CASE UNCHANGED assembled
  BY <1>8
<1>9. CreateInv
  BY DEF FilesInv
<1> QED BY <1>1, <1>2, <1>3, <1>4, <1>5, <1>6, <1>7, <1>8, <1>9, BesideFiles DEF Next, Progress, vars

\* PurgeTrash alone is about to remove a file, and has given it up.
LEMMA PurgedIsNobodys ==
  ASSUME TypeInv, [Next]_vars, op.pc = "purgeDrop" => assembled[op.file] = NotAssembled
  PROVE  op'.pc = "purgeDrop" => assembled'[op'.file] = NotAssembled
<1> USE DEF At, Frame, Sessions, Quarantines, ghostVars
<1>a. op \in Operation /\ OpOK BY DEF TypeInv, TypeOK
<1>1. CASE PurgeStep
  <2>1. CASE PurgeUnlink
    BY <2>1 DEF PurgeUnlink
  <2>2. ASSUME NEW id \in FileIds, PurgeEntry(id) PROVE assembled'[op'.file] = NotAssembled
    BY <2>2, <1>a DEF PurgeEntry, Operation, TypeInv, TypeOK
  <2>3. CASE op'.pc \in {"idle", "purge"}
    BY <2>3
  <2>4. ASSUME NEW id \in FileIds, PurgeKeeps(id) PROVE op'.pc = "purge"
    BY <2>4, <1>a DEF PurgeKeeps, Operation
  <2>5. PurgeStops \/ PurgeRemoveDir \/ PurgeIOError \/ PurgeReturn => op'.pc \in {"idle", "purge"}
    BY <1>a, ReturnKeepsOperation DEF PurgeStops, PurgeRemoveDir, PurgeIOError, PurgeReturn, Operation
  <2> QED BY <2>1, <2>2, <2>3, <2>4, <2>5, <1>1 DEF PurgeStep
<1>2. CASE PutStep \/ DeleteStep \/ RestoreStep
  <2>1. op'.pc # "purgeDrop"
    <3>1. CASE PutStep
      BY <3>1, <1>a, GotoKeepsOperation, ReturnKeepsOperation, PlaceNames
         DEF PutStep, PutAbandon, PutCommitObject, PutWriteManifest, PutCommitManifest, PutAck, PutIOError, PutUndoManifest, PutUndo
    <3>2. CASE DeleteStep
      BY <3>2, <1>a, GotoKeepsOperation, ReturnKeepsOperation, PlaceNames
         DEF DeleteStep, DeleteMoveObject, DeleteMoveFails, DeleteMoveManifest, DeleteWriteMark,
             DeleteCommitMark, DeleteReturn, DeleteIOError, UndoDeleteObject, UndoDeleteManifest, UndoDeleteDir
    <3>3. CASE RestoreStep
      BY <3>3, <1>a, GotoKeepsOperation, ReturnKeepsOperation, PlaceNames
         DEF RestoreStep, RestoreCommitMark, RestoreMoveObject, RestoreMoveManifest, RestoreRemoveDir,
             RestoreReturn, RestoreEarlyIOError, RestoreIOError, RestoreUndo
    <3> QED BY <3>1, <3>2, <3>3, <1>2
  <2> QED BY <2>1
<1>3. CASE SessionStep \/ CompleteStep
  BY <1>3, SessionStepPlaces DEF OwnPlaces, AppendPlaces, StartPlaces, CompletePlaces
<1>4. CASE SweepStep
  <2>1. CASE SweepDone
    BY <2>1, <1>a, GotoKeepsOperation, ReturnKeepsOperation, PlaceNames DEF SweepDone
  <2>2. CASE SweepUnlink \/ SweepRemoveDir \/ SweepIOError
    BY <2>2, <1>a, ReturnKeepsOperation DEF SweepUnlink, SweepRemoveDir, SweepIOError, Operation
  <2>3. ASSUME NEW u \in UploadIds, SweepSkip(u) \/ SweepEntry(u) PROVE op'.pc # "purgeDrop"
    BY <2>3, <1>a DEF SweepSkip, SweepEntry, Operation
  <2> QED BY <2>1, <2>2, <2>3, <1>4 DEF SweepStep
<1>5. CASE RecoverStep
  <2>1. CASE RecoverScanned
    BY <2>1, <1>a DEF RecoverScanned, Operation
  <2>2. CASE RecoverDone \/ RecoverIOError
    BY <2>2, ReturnKeepsOperation DEF RecoverDone, RecoverIOError
  <2> QED BY <2>1, <2>2, <1>5 DEF RecoverStep, RecoverPartial, RecoverManifestTmp, RecoverUploadTmp,
       RecoverSession
<1>6. CASE UNCHANGED <<op, assembled>>
  BY <1>6
<1>7. CASE FileStart \/ UploadStart
  <2>1. CASE op' = op
    <3>1. CASE FileStart
      BY <3>1, <2>1, <1>6 DEF FileStart, UsageLoad, PurgeTrash, Put, Delete, Restore
    <3>2. CASE UploadStart
      BY <3>2, <2>1, IdleOperation DEF UploadStart, SweepUploads, StartUpload, AbortUpload, AppendUpload,
         CompleteUpload, Serving
    <3> QED BY <3>1, <3>2, <1>7
  <2> QED BY <2>1, <1>7, StartPlacesOfRequests
<1>8. CASE (\E u \in UploadIds : Age(u)) \/ Restart \/ Crash
  BY <1>8, IdleOperation, <1>6 DEF Age, Restart, Crash, Operation
<1> QED BY <1>1, <1>2, <1>3, <1>4, <1>5, <1>6, <1>7, <1>8 DEF Next, Progress, vars

\* A session is completed by Complete's last rename alone, which names the file.
LEMMA CompletedBefore ==
  ASSUME TypeInv, SessionInv, [Next]_vars, NEW u \in UploadIds, uploads'[u].status = "completed"
  PROVE  \/ uploads[u].status = "completed" /\ uploads'[u].file = uploads[u].file
         \/ CompleteCommitSession /\ u = op.session /\ uploads'[u].file = op.file
<1> USE ConstantsAssumption DEF At, Sessions, Frame, fileVars, diskVars, ghostVars, procVars
<1> DEFINE Before == uploads[u].status = "completed" /\ uploads'[u].file = uploads[u].file
<1>a. op \in Operation /\ OpOK /\ uploads \in [UploadIds -> Session]
  BY DEF TypeInv, TypeOK
<1>b. CASE UNCHANGED uploads
  BY <1>b
<1>1. CASE PutStep \/ DeleteStep \/ RestoreStep \/ PurgeStep
  BY <1>1, <1>b, FileStepPlaces
<1>2. CASE FileStart
  BY <1>2, <1>b DEF FileStart, UsageLoad, PurgeTrash, Put, Delete, Restore
<1>3. CASE UploadStart
  <2>1. ASSUME NEW v \in UploadIds, NEW id \in FileIds, CompleteUpload(v, id) PROVE Before
    BY <2>1, <1>a DEF CompleteUpload, Session
  <2> QED BY <2>1, <1>b, <1>3 DEF UploadStart, SweepUploads, StartUpload, AbortUpload, AppendUpload
<1>4. CASE CompleteStep
  <2>1. CASE CompleteWriteSession \/ CompleteIOError
    <3>1. op.session \in UploadIds
      BY <2>1, <1>a DEF CompleteWriteSession, CompleteIOError, OpOK, SessionPlaces
    <3> QED BY <2>1, <3>1, <1>a DEF CompleteWriteSession, CompleteIOError, Session
  <2>2. CASE CompleteCommitSession
    <3>1. op.session \in UploadIds
      BY <2>2, <1>a DEF CompleteCommitSession, OpOK, SessionPlaces
    <3> QED BY <2>2, <3>1, <1>a DEF CompleteCommitSession, Session
  <2> QED BY <2>1, <2>2, <1>b, <1>4 DEF CompleteStep, CompleteWriteManifest, CompleteCommitManifest,
       CompleteAck, CompleteUndo, CompleteUndoManifest
<1>5. CASE SessionStep
  <2>1. CASE StartRefused \/ StartAck \/ AppendReject \/ AppendAck \/ DropIOError
    BY <2>1, <1>b DEF StartRefused, StartAck, AppendReject, AppendAck, DropIOError
  <2>2. CASE StartCreateDir \/ StartCreatePart \/ StartWriteManifest \/ StartCommitManifest \/ StartIOError
    <3>1. op.session \in UploadIds
      BY <2>2, <1>a DEF StartCreateDir, StartCreatePart, StartWriteManifest, StartCommitManifest,
         StartIOError, OpOK, SessionPlaces
    <3> QED BY <2>2, <3>1, <1>a DEF StartCreateDir, StartCreatePart, StartWriteManifest,
         StartCommitManifest, StartIOError, Session
  <2>3. CASE AppendCopy \/ AppendWriteManifest \/ AppendCommitManifest \/ AppendIOError \/ AppendUndo
    <3>1. op.session \in UploadIds
      BY <2>3, <1>a DEF AppendCopy, AppendWriteManifest, AppendCommitManifest, AppendIOError,
         AppendUndo, OpOK, SessionPlaces, AppendPlaces
    <3>2. CASE AppendCopy \/ AppendUndo
      <4>1. ASSUME NEW size, uploads' = [uploads EXCEPT ![op.session].part = size] PROVE Before
        BY <3>1, <4>1, <1>a DEF Session
      <4> QED BY <3>2, <4>1, <1>b DEF AppendCopy, AppendUndo
    <3> QED BY <2>3, <3>1, <3>2, <1>a DEF AppendWriteManifest, AppendCommitManifest, AppendIOError,
         Session
  <2>4. CASE DropUnlink \/ DropRemoveDir
    <3>1. op.session \in UploadIds
      BY <2>4, <1>a DEF DropUnlink, DropRemoveDir, OpOK, SessionPlaces
    <3>2. CASE DropUnlink
      <4>1. UnlinkFrom(op.session)
        BY <3>2 DEF DropUnlink
      <4> QED BY <3>1, <4>1, <1>a, UnlinkedFields
    <3>3. CASE DropRemoveDir
      BY <3>1, <3>3, <1>a DEF DropRemoveDir, NoSession
    <3> QED BY <2>4, <3>2, <3>3
  <2> QED BY <2>1, <2>2, <2>3, <2>4, <1>5 DEF SessionStep
<1>6. CASE SweepStep
  <2>1. CASE SweepUnlink \/ SweepRemoveDir
    <3>1. op.victim \in UploadIds
      BY <2>1, <1>a DEF SweepUnlink, SweepRemoveDir, OpOK
    <3>2. CASE SweepUnlink
      <4>1. UnlinkFrom(op.victim)
        BY <3>2 DEF SweepUnlink
      <4> QED BY <3>1, <4>1, <1>a, UnlinkedFields
    <3>3. CASE SweepRemoveDir
      BY <3>1, <3>3, <1>a DEF SweepRemoveDir, NoSession
    <3> QED BY <2>1, <3>2, <3>3
  <2> QED BY <2>1, <1>b, <1>6 DEF SweepStep, SweepDone, SweepIOError, SweepSkip, SweepEntry
<1>7. CASE RecoverStep
  <2>1. ASSUME NEW v \in UploadIds, RecoverUploadTmp(v) \/ RecoverSession(v) PROVE Before
    BY <2>1, <1>a DEF RecoverUploadTmp, RecoverSession, Session, NoSession
  <2> QED BY <2>1, <1>b, <1>7 DEF RecoverStep, RecoverScanned, RecoverDone, RecoverIOError,
       RecoverPartial, RecoverManifestTmp, Quarantines
<1>8. CASE \E v \in UploadIds : Age(v)
  BY <1>8, <1>a DEF Age, Session
<1> QED BY <1>b, <1>1, <1>2, <1>3, <1>4, <1>5, <1>6, <1>7, <1>8 DEF Next, Progress, Restart, Crash, vars

\* Only StartUpload makes a part file where there is none.
LEMMA PartsGone ==
  ASSUME TypeInv, SessionInv, [Next]_vars, NEW u \in UploadIds, uploads[u].part = Absent,
         ~(op.pc = "startPart" /\ u = op.session)
  PROVE  uploads'[u].part = Absent
<1> USE ConstantsAssumption DEF At, Sessions, Frame, fileVars, diskVars, ghostVars, procVars
<1>a. op \in Operation /\ OpOK /\ uploads \in [UploadIds -> Session]
  BY DEF TypeInv, TypeOK
<1>b. CASE UNCHANGED uploads
  BY <1>b
<1>1. CASE PutStep \/ DeleteStep \/ RestoreStep \/ PurgeStep
  BY <1>1, <1>b, FileStepPlaces
<1>2. CASE FileStart
  BY <1>2, <1>b DEF FileStart, UsageLoad, PurgeTrash, Put, Delete, Restore
<1>3. CASE UploadStart
  <2>1. ASSUME NEW v \in UploadIds, NEW id \in FileIds, CompleteUpload(v, id)
        PROVE  uploads'[u].part = Absent
    BY <2>1, <1>a DEF CompleteUpload, Session
  <2> QED BY <2>1, <1>b, <1>3 DEF UploadStart, SweepUploads, StartUpload, AbortUpload, AppendUpload
<1>4. CASE CompleteStep
  <2>1. CASE CompleteWriteSession \/ CompleteCommitSession \/ CompleteIOError
    <3>1. op.session \in UploadIds
      BY <2>1, <1>a DEF CompleteWriteSession, CompleteCommitSession, CompleteIOError, OpOK, SessionPlaces
    <3> QED BY <2>1, <3>1, <1>a DEF CompleteWriteSession, CompleteCommitSession, CompleteIOError, Session
  <2> QED BY <2>1, <1>b, <1>4 DEF CompleteStep, CompleteWriteManifest, CompleteCommitManifest,
       CompleteAck, CompleteUndo, CompleteUndoManifest
<1>5. CASE SessionStep
  <2>1. CASE StartRefused \/ StartAck \/ AppendReject \/ AppendAck \/ DropIOError
    BY <2>1, <1>b DEF StartRefused, StartAck, AppendReject, AppendAck, DropIOError
  <2>2. CASE StartCreateDir \/ StartCreatePart \/ StartWriteManifest \/ StartCommitManifest \/ StartIOError
    <3>1. op.session \in UploadIds
      BY <2>2, <1>a DEF StartCreateDir, StartCreatePart, StartWriteManifest, StartCommitManifest,
         StartIOError, OpOK, SessionPlaces
    <3> QED BY <2>2, <3>1, <1>a DEF StartCreateDir, StartCreatePart, StartWriteManifest,
         StartCommitManifest, StartIOError, Session
  <2>3. CASE AppendWriteManifest \/ AppendCommitManifest \/ AppendIOError
    <3>1. op.session \in UploadIds
      BY <2>3, <1>a DEF AppendWriteManifest, AppendCommitManifest, AppendIOError, OpOK,
         SessionPlaces, AppendPlaces
    <3> QED BY <2>3, <3>1, <1>a DEF AppendWriteManifest, AppendCommitManifest, AppendIOError, Session
  <2>4. CASE AppendCopy \/ AppendUndo
    <3>1. op.session \in UploadIds /\ op.base \in Nat
      BY <2>4, <1>a DEF AppendCopy, AppendUndo, OpOK, SessionPlaces, AppendPlaces, Operation
    <3>2. u # op.session
      BY <2>4, <3>1 DEF AppendCopy, AppendUndo, SessionInv, AppendInv, AppendPlaces, Mine, Absent
    <3> QED BY <2>4, <3>1, <3>2, <1>a DEF AppendCopy, AppendUndo, Session
  <2>5. CASE DropUnlink \/ DropRemoveDir
    <3>1. op.session \in UploadIds
      BY <2>5, <1>a DEF DropUnlink, DropRemoveDir, OpOK, SessionPlaces
    <3>2. CASE DropUnlink
      <4>1. UnlinkFrom(op.session)
        BY <3>2 DEF DropUnlink
      <4> QED BY <3>1, <4>1, <1>a, UnlinkedFields
    <3>3. CASE DropRemoveDir
      BY <3>1, <3>3, <1>a DEF DropRemoveDir, NoSession
    <3> QED BY <2>5, <3>2, <3>3
  <2> QED BY <2>1, <2>2, <2>3, <2>4, <2>5, <1>5 DEF SessionStep
<1>6. CASE SweepStep
  <2>1. CASE SweepUnlink \/ SweepRemoveDir
    <3>1. op.victim \in UploadIds
      BY <2>1, <1>a DEF SweepUnlink, SweepRemoveDir, OpOK
    <3>2. CASE SweepUnlink
      <4>1. UnlinkFrom(op.victim)
        BY <3>2 DEF SweepUnlink
      <4> QED BY <3>1, <4>1, <1>a, UnlinkedFields
    <3>3. CASE SweepRemoveDir
      BY <3>1, <3>3, <1>a DEF SweepRemoveDir, NoSession
    <3> QED BY <2>1, <3>2, <3>3
  <2> QED BY <2>1, <1>b, <1>6 DEF SweepStep, SweepDone, SweepIOError, SweepSkip, SweepEntry
<1>7. CASE RecoverStep
  <2>1. ASSUME NEW v \in UploadIds, RecoverUploadTmp(v) \/ RecoverSession(v)
        PROVE  uploads'[u].part = Absent
    BY <2>1, <1>a DEF RecoverUploadTmp, RecoverSession, Session, NoSession
  <2> QED BY <2>1, <1>b, <1>7 DEF RecoverStep, RecoverScanned, RecoverDone, RecoverIOError,
       RecoverPartial, RecoverManifestTmp, Quarantines
<1>8. CASE \E v \in UploadIds : Age(v)
  BY <1>8, <1>a DEF Age, Session
<1> QED BY <1>b, <1>1, <1>2, <1>3, <1>4, <1>5, <1>6, <1>7, <1>8 DEF Next, Progress, Restart, Crash, vars

\* Where op.session is about to be made, and where it is being made a file.
FreshPlaces == SweepPlaces \cup {"startDir", "startPart"}
FilingPlaces == {"cmpTmp", "cmpRename", "cmpSession", "cmpSessionRename", "cmpSync"}

LEMMA SourcePlaces ==
  ASSUME TypeInv, FilesInv, ProcInv, [Next]_vars
  PROVE  /\ op'.pc \in FreshPlaces =>
              \/ op'.session = NoUpload
              \/ /\ UNCHANGED assembled
                 /\ \/ op.pc \in FreshPlaces /\ op'.session = op.session
                    \/ op'.session \in UploadIds /\ StartUpload(op'.session)
         /\ op'.pc \in FilingPlaces =>
              \/ /\ op.pc \in FilingPlaces /\ op'.session = op.session /\ op'.file = op.file
                 /\ UNCHANGED assembled
              \/ op'.session \in UploadIds /\ op'.file \in FileIds
                 /\ CompleteUpload(op'.session, op'.file)
<1> USE DEF At, Sessions, Frame, FreshPlaces, FilingPlaces, SweepPlaces
<1>a. op \in Operation /\ CreateInv /\ FilingPlaces \subseteq CreatePlaces
  BY DEF TypeInv, TypeOK, FilesInv, CreatePlaces
<1>1. CASE PutStep \/ DeleteStep \/ RestoreStep \/ PurgeStep
  BY <1>1, FileStepPlaces DEF FilePlaces
<1>2. CASE SessionStep
  <2>1. op'.pc \notin FilingPlaces /\ UNCHANGED assembled
    BY <1>2, <1>a, BesideFiles
  <2>2. op'.pc \notin SweepPlaces \cup {"startDir"}
    BY <1>2, SessionStepPlaces DEF OwnPlaces, StartPlaces, AppendPlaces, CompletePlaces
  <2>3. CASE StartCreateDir
    BY <2>1, <2>2, <2>3, <1>a, GotoKeepsOperation, PlaceNames DEF StartCreateDir
  <2>4. CASE ~StartCreateDir
    <3>1. op'.pc # "startPart"
      <4>1. CASE AppendCopy \/ DropUnlink
        BY <4>1 DEF AppendCopy, DropUnlink
      <4>2. CASE StartRefused \/ StartAck \/ AppendAck \/ AppendUndo \/ DropRemoveDir \/ DropIOError
        BY <4>2, ReturnKeepsOperation
           DEF StartRefused, StartAck, AppendAck, AppendUndo, DropRemoveDir, DropIOError
      <4>3. CASE StartCreatePart \/ StartWriteManifest \/ StartCommitManifest
                 \/ StartIOError \/ AppendWriteManifest \/ AppendReject \/ AppendCommitManifest
                 \/ AppendIOError
        BY <4>3, <1>a, GotoKeepsOperation, PlaceNames
           DEF StartCreatePart, StartWriteManifest, StartCommitManifest, StartIOError,
               AppendWriteManifest, AppendReject, AppendCommitManifest, AppendIOError
      <4> QED BY <4>1, <4>2, <4>3, <2>4, <1>2 DEF SessionStep
    <3> QED BY <2>1, <2>2, <3>1
  <2> QED BY <2>3, <2>4
<1>3. CASE CompleteStep
  <2>1. CASE CompleteAck \/ CompleteUndoManifest
    BY <2>1, ReturnKeepsOperation DEF CompleteAck, CompleteUndoManifest
  <2>2. CASE CompleteIOError \/ CompleteUndo
    BY <2>2, <1>a, GotoKeepsOperation, PlaceNames DEF CompleteIOError, CompleteUndo
  <2>3. CASE CompleteWriteManifest \/ CompleteCommitManifest \/ CompleteWriteSession
             \/ CompleteCommitSession
    <3>1. op'.pc \in FilingPlaces /\ op'.session = op.session /\ op'.file = op.file
      BY <2>3, <1>a, GotoKeepsOperation, PlaceNames
         DEF CompleteWriteManifest, CompleteCommitManifest, CompleteWriteSession, CompleteCommitSession
    <3>2. op.pc \in FilingPlaces /\ UNCHANGED assembled
      BY <2>3 DEF CompleteWriteManifest, CompleteCommitManifest, CompleteWriteSession,
         CompleteCommitSession, ghostVars
    <3> QED BY <3>1, <3>2
  <2> QED BY <2>1, <2>2, <2>3, <1>3 DEF CompleteStep
<1>4. CASE SweepStep
  <2>1. op'.pc \notin FilingPlaces /\ UNCHANGED assembled
    BY <1>4, <1>a, BesideFiles
  <2>2. CASE SweepUnlink \/ SweepRemoveDir
    BY <2>1, <2>2, <1>a DEF SweepUnlink, SweepRemoveDir, Operation
  <2>3. CASE SweepDone
    BY <2>1, <2>3, <1>a, GotoKeepsOperation, ReturnKeepsOperation, PlaceNames DEF SweepDone
  <2>4. CASE SweepIOError
    BY <2>4, ReturnKeepsOperation DEF SweepIOError
  <2>5. ASSUME NEW u \in UploadIds, SweepSkip(u) \/ SweepEntry(u)
        PROVE  op'.session = op.session /\ op.pc \in SweepPlaces
    BY <2>5, <1>a DEF SweepSkip, SweepEntry, Operation
  <2> QED BY <2>1, <2>2, <2>3, <2>4, <2>5, <1>4 DEF SweepStep
<1>5. CASE RecoverStep
  <2>1. op'.pc \notin FilingPlaces
    BY <1>5, <1>a, BesideFiles
  <2>2. CASE RecoverScanned
    BY <2>1, <2>2, <1>a DEF RecoverScanned, ProcInv, RecoverPlaces, Operation
  <2>3. CASE RecoverDone \/ RecoverIOError
    BY <2>3, ReturnKeepsOperation DEF RecoverDone, RecoverIOError
  <2> QED BY <2>1, <2>2, <2>3, <1>5 DEF RecoverStep, RecoverPartial, RecoverManifestTmp,
       RecoverUploadTmp, RecoverSession, Quarantines
<1>6. CASE FileStart
  <2>1. op'.pc \in {"idle", "purge", "putBody", "delObject", "resMark"}
    BY <1>6, IdleOperation
       DEF FileStart, UsageLoad, PurgeTrash, Put, Delete, Restore, Serving, Operation
  <2> QED BY <2>1
<1>7. CASE UploadStart
  <2>1. CASE SweepUploads
    BY <2>1 DEF SweepUploads, Idle
  <2>2. ASSUME NEW u \in UploadIds, StartUpload(u)
        PROVE  op'.pc \in {"sweep", "startDir"} /\ op'.session = u /\ UNCHANGED assembled
    BY <2>2 DEF StartUpload, Idle, ghostVars
  <2>3. ASSUME NEW u \in UploadIds, AbortUpload(u) \/ \E n \in 1 .. UploadSize : AppendUpload(u, n)
        PROVE  op'.pc \in {"drop", "appBody"}
    BY <2>3 DEF AbortUpload, AppendUpload, Idle
  <2>4. ASSUME NEW u \in UploadIds, NEW id \in FileIds, CompleteUpload(u, id)
        PROVE  op'.pc = "cmpTmp" /\ op'.session = u /\ op'.file = id
    BY <2>4 DEF CompleteUpload, Idle
  <2> QED BY <2>1, <2>2, <2>3, <2>4, <1>7 DEF UploadStart
<1>8. CASE (\E u \in UploadIds : Age(u)) \/ Restart \/ Crash
  BY <1>8, IdleOperation DEF Age, Restart, Crash, Operation
<1>9. CASE UNCHANGED <<op, assembled>>
  BY <1>9
<1> QED BY <1>1, <1>2, <1>3, <1>4, <1>5, <1>6, <1>7, <1>8, <1>9 DEF Next, Progress, vars, ghostVars

\* The session a file was made of has no part any more, a session about to start has made no
\* file, and the one that Complete works on has made op.file, all its bytes; the file that
\* PurgeTrash removes is nobody's any more.
SourceInv ==
  /\ \A id \in FileIds, u \in UploadIds : assembled[id].from = u => uploads[u].part = Absent
  /\ op.pc \in FreshPlaces =>
       \A id \in FileIds : assembled[id].from = op.session => op.session = NoUpload
  /\ op.pc \in FilingPlaces => assembled[op.file] = [from |-> op.session, bytes |-> UploadSize]
  /\ op.pc = "purgeDrop" => assembled[op.file] = NotAssembled

LEMMA NextSource ==
  ASSUME TypeInv, FilesInv, ProcInv, SessionInv, SourceInv, [Next]_vars
  PROVE  SourceInv'
<1>a. assembled \in [FileIds -> [from : UploadIds \cup {NoUpload}, bytes : 0 .. UploadSize]]
  BY DEF TypeInv, TypeOK
<1>1. ASSUME NEW id \in FileIds, NEW u \in UploadIds, assembled'[id].from = u
      PROVE  uploads'[u].part = Absent
  <2>1. CASE assembled'[id] = assembled[id]
    <3>1. uploads[u].part = Absent /\ ~(op.pc = "startPart" /\ u = op.session)
      BY <1>1, <2>1, ConstantsAssumption DEF SourceInv, FreshPlaces
    <3> QED BY <3>1, PartsGone
  <2>2. assembled'[id] # NotAssembled
    BY <1>1, ConstantsAssumption DEF NotAssembled
  <2>3. ASSUME NEW v \in UploadIds, CompleteUpload(v, id) PROVE uploads'[u].part = Absent
    BY <1>1, <2>3, <1>a DEF CompleteUpload, TypeInv, TypeOK, Session
  <2> QED BY <2>1, <2>2, <2>3, AssembledChanges
<1>2. ASSUME op'.pc \in FreshPlaces, NEW id \in FileIds, assembled'[id].from = op'.session
      PROVE  op'.session = NoUpload
  BY <1>2, SourcePlaces DEF SourceInv, StartUpload
<1>3. ASSUME op'.pc \in FilingPlaces
      PROVE  assembled'[op'.file] = [from |-> op'.session, bytes |-> UploadSize]
  <2>1. CASE op'.session \in UploadIds /\ op'.file \in FileIds /\ CompleteUpload(op'.session, op'.file)
    BY <2>1, <1>a DEF CompleteUpload, UploadOK
  <2> QED BY <1>3, <2>1, SourcePlaces DEF SourceInv
<1>4. op'.pc = "purgeDrop" => assembled'[op'.file] = NotAssembled
  BY PurgedIsNobodys DEF SourceInv
<1> QED BY <1>1, <1>2, <1>3, <1>4 DEF SourceInv

\* Where a file can be found.
Listed(id) == manifests[id] # "none" \/ trash[id].manifest # "none"

\* Short of a failed system call, only PurgeTrash takes the manifests of a file away.
LEMMA ListedStays ==
  ASSUME TypeInv, FilesInv, LifecycleInv, [Next]_vars, faults' = 0, NEW id \in FileIds, Listed(id),
         ~(op.pc = "purgeDrop" /\ id = op.file)
  PROVE  Listed(id)'
<1> USE DEF At, Frame, fileVars, diskVars, ghostVars, Listed
<1>a. /\ op \in Operation /\ OpOK /\ trash \in [FileIds -> TrashItem]
      /\ manifests \in [FileIds -> ManifestState]
  BY DEF TypeInv, TypeOK
<1>1. faults = 0 /\ ~IOError /\ CreateInv
  BY NextFaults DEF FilesInv
<1>2. CASE PutStep
  <2>1. CASE PutUndoManifest
    BY <2>1, <1>1 DEF PutUndoManifest, FilesInv, UndoInv, UndoCreatePlaces
  <2>2. CASE PutCommitManifest
    BY <2>2, <1>a DEF PutCommitManifest
  <2> QED BY <2>1, <2>2, <1>2 DEF PutStep, PutAbandon, PutCommitObject, PutWriteManifest, PutAck,
       PutIOError, PutUndo
<1>3. CASE DeleteStep
  <2>1. CASE UndoDeleteObject \/ UndoDeleteManifest \/ UndoDeleteDir
    BY <2>1, <1>1 DEF UndoDeleteObject, UndoDeleteManifest, UndoDeleteDir, FilesInv, UndoInv
  <2>2. CASE DeleteMoveObject \/ DeleteMoveManifest \/ DeleteWriteMark \/ DeleteCommitMark
    <3>1. op.file \in FileIds
      BY <2>2, <1>a DEF DeleteMoveObject, DeleteMoveManifest, DeleteWriteMark, DeleteCommitMark,
         OpOK, MovePlaces
    <3>2. CASE DeleteMoveManifest
      BY <3>1, <3>2, <1>a DEF DeleteMoveManifest, LifecycleInv, HasManifest, TrashItem
    <3> QED BY <2>2, <3>1, <3>2, <1>a DEF DeleteMoveObject, DeleteWriteMark, DeleteCommitMark, TrashItem
  <2> QED BY <2>1, <2>2, <1>1, <1>3 DEF DeleteStep, DeleteMoveFails, DeleteIOError, DeleteReturn
<1>4. CASE RestoreStep
  <2>1. CASE RestoreCommitMark \/ RestoreMoveObject \/ RestoreMoveManifest \/ RestoreUndo
    <3>1. op.file \in FileIds
      BY <2>1, <1>a DEF RestoreCommitMark, RestoreMoveObject, RestoreMoveManifest, RestoreUndo,
         OpOK, MovePlaces
    <3>2. CASE RestoreMoveManifest
      BY <3>1, <3>2, <1>a DEF RestoreMoveManifest, LifecycleInv, HasTrashManifest, TrashItem
    <3> QED BY <2>1, <3>1, <3>2, <1>1, <1>a DEF RestoreCommitMark, RestoreMoveObject, RestoreUndo, TrashItem
  <2>2. CASE RestoreRemoveDir
    BY <2>2, <1>a DEF RestoreRemoveDir, LifecycleInv, NoTrashManifest
  <2> QED BY <2>1, <2>2, <1>1, <1>4 DEF RestoreStep, RestoreReturn, RestoreEarlyIOError, RestoreIOError
<1>5. CASE PurgeStep
  <2>1. CASE PurgeUnlink \/ PurgeRemoveDir
    <3>1. op.file \in FileIds /\ op.pc = "purgeDrop"
      BY <2>1, <1>a DEF PurgeUnlink, PurgeRemoveDir, OpOK, MovePlaces
    <3> QED BY <2>1, <3>1, <1>a DEF PurgeUnlink, PurgeRemoveDir
  <2> QED BY <2>1, <1>5 DEF PurgeStep, PurgeStops, PurgeIOError, PurgeReturn, PurgeKeeps, PurgeEntry
<1>6. CASE CompleteStep
  <2>1. CASE CompleteUndoManifest
    BY <2>1, <1>1 DEF CompleteUndoManifest, FilesInv, UndoInv, UndoCreatePlaces
  <2>2. CASE CompleteCommitManifest
    BY <2>2, <1>a DEF CompleteCommitManifest
  <2> QED BY <2>1, <2>2, <1>6 DEF CompleteStep, CompleteWriteManifest, CompleteWriteSession,
       CompleteCommitSession, CompleteAck, CompleteIOError, CompleteUndo, Sessions
<1>7. CASE FileStart
  <2>1. ASSUME NEW i \in FileIds, Delete(i) PROVE Listed(id)'
    BY <2>1, <1>a DEF Delete
  <2>2. ASSUME NEW i \in FileIds, Restore(i) PROVE Listed(id)'
    BY <2>2, <1>a DEF Restore, TrashItem
  <2> QED BY <2>1, <2>2, <1>7 DEF FileStart, UsageLoad, PurgeTrash, Put
<1>8. CASE UploadStart
  BY <1>8 DEF UploadStart, SweepUploads, StartUpload, AbortUpload, AppendUpload, CompleteUpload, Sessions
<1>9. CASE UNCHANGED <<manifests, trash>>
  BY <1>9
<1> QED BY <1>1, <1>2, <1>3, <1>4, <1>5, <1>6, <1>7, <1>8, <1>9, BesideFiles DEF Next, Progress, vars

\* The bytes of a session move into an object once, all of them, and stay found.
BytesInv == SourceInv /\ CompletedHasFile /\ BytesUsedOnce /\ ConfirmedBytesKept

LEMMA InitBytes == Init => BytesInv
BY ConstantsAssumption, IdleOperation
   DEF Init, BytesInv, SourceInv, CompletedHasFile, BytesUsedOnce, ConfirmedBytesKept, ConfirmedBytes,
       NoSession, NotOpen, Absent, NotAssembled, FreshPlaces, SweepPlaces, FilingPlaces

LEMMA NextUsedOnce ==
  ASSUME TypeInv, FilesInv, SourceInv, BytesUsedOnce, [Next]_vars
  PROVE  BytesUsedOnce'
<1> SUFFICES ASSUME NEW i \in FileIds, NEW j \in FileIds, i # j,
                    assembled'[i].from = assembled'[j].from, assembled'[i].from # NoUpload
             PROVE  FALSE
  BY DEF BytesUsedOnce
<1>a. /\ assembled \in [FileIds -> [from : UploadIds \cup {NoUpload}, bytes : 0 .. UploadSize]]
      /\ uploads \in [UploadIds -> Session]
  BY DEF TypeInv, TypeOK
<1>1. assembled'[i] # NotAssembled /\ assembled'[j] # NotAssembled
  BY DEF NotAssembled
\* A session that is completed still has its part, so it has not made a file before.
<1>2. ASSUME NEW id \in FileIds, NEW k \in FileIds, id # k, NEW u \in UploadIds, CompleteUpload(u, id)
      PROVE  assembled'[k] = assembled[k] /\ assembled[k].from # u /\ assembled'[id].from = u
  <2>1. uploads[u].part # Absent
    BY <1>2, ConstantsAssumption DEF CompleteUpload, UploadOK, Absent
  <2> QED BY <1>2, <2>1, <1>a DEF CompleteUpload, SourceInv
<1>3. CASE \E u \in UploadIds : CompleteUpload(u, i)
  BY <1>2, <1>3
<1>4. CASE \E u \in UploadIds : CompleteUpload(u, j)
  BY <1>2, <1>4
<1>5. CASE assembled'[i] = assembled[i] /\ assembled'[j] = assembled[j]
  BY <1>5 DEF BytesUsedOnce
<1> QED BY <1>1, <1>3, <1>4, <1>5, AssembledChanges

LEMMA NextHasFile ==
  ASSUME TypeInv, FilesInv, SessionInv, faults <= 1 => LifecycleInv, SourceInv, CompletedHasFile,
         [Next]_vars
  PROVE  CompletedHasFile'
<1> SUFFICES ASSUME faults' = 0, NEW u \in UploadIds, uploads'[u].status = "completed",
                    NEW id, id = uploads'[u].file
             PROVE  /\ id \in FileIds
                    /\ assembled'[id] # NotAssembled =>
                         /\ assembled'[id] = [from |-> u, bytes |-> UploadSize]
                         /\ HasBytes(id)' /\ Listed(id)'
  BY DEF CompletedHasFile, Listed
<1>a. op \in Operation /\ OpOK
  BY DEF TypeInv, TypeOK
<1>1. faults = 0 /\ LifecycleInv
  BY NextFaults
<1>2. CASE CompleteCommitSession /\ u = op.session /\ id = op.file
  <2>1. op.file \in FileIds /\ op.pc = "cmpSessionRename"
    BY <1>2, <1>a DEF CompleteCommitSession, At, OpOK, CreatePlaces
  <2>2. op.file \in objects /\ manifests[op.file] # "none"
    BY <1>1, <2>1 DEF FilesInv, CreateInv, CreatePlaces, LifecycleInv, HasManifest
  <2>3. UNCHANGED <<objects, manifests, trash, assembled>>
    BY <1>2 DEF CompleteCommitSession, Sessions, fileVars, ghostVars
  <2> QED BY <1>2, <2>1, <2>2, <2>3 DEF SourceInv, FilingPlaces, HasBytes, Listed
<1>3. CASE uploads[u].status = "completed" /\ id = uploads[u].file
  <2>1. /\ id \in FileIds
        /\ assembled[id] # NotAssembled =>
             assembled[id] = [from |-> u, bytes |-> UploadSize] /\ HasBytes(id) /\ Listed(id)
    BY <1>1, <1>3 DEF CompletedHasFile, Listed
  <2>2. ASSUME assembled'[id] # NotAssembled PROVE assembled'[id] = assembled[id]
    <3>1. ~\E v \in UploadIds : CompleteUpload(v, id)
      BY <1>3 DEF CompleteUpload, Fresh
    <3>2. id \in FileIds
      BY <2>1
    <3> QED BY <2>2, <3>1, <3>2, AssembledChanges
  <2>3. ASSUME assembled'[id] # NotAssembled PROVE HasBytes(id)' /\ Listed(id)'
    <3>1. ~(op.pc = "purgeDrop" /\ id = op.file)
      BY <2>2, <2>3 DEF SourceInv
    <3>2. HasBytes(id) /\ Listed(id)
      BY <2>1, <2>2, <2>3
    <3> QED BY <1>1, <2>1, <3>1, <3>2, BytesStay, ListedStays
  <2> QED BY <2>1, <2>2, <2>3
<1> QED BY <1>2, <1>3, CompletedBefore

LEMMA NextConfirmed ==
  ASSUME TypeInv, FilesInv, ProcInv, SessionInv, SourceInv, ConfirmedBytesKept, [Next]_vars
  PROVE  ConfirmedBytesKept'
<1>a. /\ assembled \in [FileIds -> [from : UploadIds \cup {NoUpload}, bytes : 0 .. UploadSize]]
      /\ uploads' \in [UploadIds -> Session]
  BY NextTypes DEF TypeInv, TypeOK
<1> SUFFICES ASSUME faults' = 0, NEW u \in UploadIds
             PROVE  ConfirmedBytes(u)'
  BY DEF ConfirmedBytesKept
<1>1. faults = 0
  BY NextFaults
<1>2. ASSUME NEW id \in FileIds, CompleteUpload(u, id)
      PROVE  ConfirmedBytes(u)'
  BY <1>2, <1>a DEF CompleteUpload, ConfirmedBytes, HasBytes
<1>3. CASE uploads[u].part >= confirmed[u] /\ ~\E id \in FileIds : CompleteUpload(u, id)
  BY <1>3, PartsStay DEF ConfirmedBytes
<1>4. ASSUME NEW id \in FileIds, assembled[id].from = u, HasBytes(id)
      PROVE  ConfirmedBytes(u)'
  <2>1. ~(op.pc = "purgeDrop" /\ id = op.file)
    BY <1>4, ConstantsAssumption DEF SourceInv, NotAssembled
  <2>2. HasBytes(id)'
    BY <1>4, <2>1, BytesStay
  <2>3. CASE assembled'[id] = assembled[id]
    BY <1>4, <2>2, <2>3 DEF ConfirmedBytes
  <2>4. CASE PurgeEntry(id)
    <3>1. confirmed'[u] = -1
      BY <2>4, <1>4 DEF PurgeEntry, NotOpen
    <3> QED BY <3>1, <1>a DEF ConfirmedBytes, Session
  <2>5. ~CompleteUndo
    BY <1>1 DEF CompleteUndo, At, FilesInv, UndoInv, UndoCreatePlaces
  <2>6. ASSUME NEW v \in UploadIds, CompleteUpload(v, id) PROVE FALSE
    BY <2>6, <1>4 DEF CompleteUpload, Fresh, HasBytes, FilesInv, EntryInv
  <2> QED BY <2>3, <2>4, <2>5, <2>6, AssembledChanges
<1> QED BY <1>1, <1>2, <1>3, <1>4 DEF ConfirmedBytesKept, ConfirmedBytes

-----------------------------------------------------------------------------
(* Temporary files: who may have one, once Recover has looked. *)

\* Recover has been through tmp/, metadata/ and uploads/, and no system call failed.
Clean == faults = 0 /\ (proc = "running" \/ op.pc \in SweepPlaces \cup {"rebuild"})

ManifestRenames == {"putRename", "cmpRename"}
SessionRenames == {"startRename", "appRename", "cmpSessionRename"}

PartialsOwn == partials = {} \/ (op.pc = "putBody" /\ partials = {op.file})
ManifestTmpsOwn == manifestTmps = {} \/ (op.pc \in ManifestRenames /\ manifestTmps = {op.file})
UploadTmpsOwn == \A u \in UploadIds :
  uploads[u].tmp => u = op.session /\ op.pc \in SessionRenames

TmpInv == Clean => PartialsOwn /\ ManifestTmpsOwn /\ UploadTmpsOwn

\* In trash/ only the operation that is about to rename one has a temporary file, until the
\* first kill: Recover does not look there.
TrashTmpPlaces == {"delMark", "resMark"}
TrashTmpInv == faults = 0 /\ crashes = 0 =>
  \A id \in FileIds : trash[id].tmp => id = op.file /\ op.pc \in TrashTmpPlaces

\* Only the end of Recover's scan makes a store clean that was not.
LEMMA CleanBefore ==
  ASSUME TypeInv, ProcInv, [Next]_vars, Clean', ~RecoverScanned
  PROVE  Clean
<1> SUFFICES ASSUME ~Clean PROVE FALSE
  OBVIOUS
<1> USE DEF At, Sessions, Quarantines, fileVars, diskVars, ghostVars, procVars
<1>a. op \in Operation /\ faults \in Nat /\ proc \in {"down", "recovering", "running"}
  BY ConstantsAssumption DEF TypeInv, TypeOK
<1>b. faults = 0 /\ faults' = 0 /\ ~IOError
  BY <1>a, NextFaults DEF Clean, IOError
<1>c. proc # "running" /\ op.pc \notin SweepPlaces \cup {"rebuild"}
  BY <1>b DEF Clean
<1>d. (proc = "down" /\ op.pc = "idle") \/ (proc = "recovering" /\ op.pc = "recover")
  BY <1>a, <1>c, IdleOperation DEF ProcInv, RecoverPlaces
<1>1. CASE PutStep \/ DeleteStep \/ RestoreStep \/ PurgeStep
  BY <1>1, <1>d, FileStepPlaces DEF FilePlaces
<1>2. CASE SessionStep \/ CompleteStep
  BY <1>2, <1>d, SessionStepPlaces DEF OwnPlaces, AppendPlaces, StartPlaces, CompletePlaces
<1>3. CASE SweepStep
  BY <1>3, <1>d DEF SweepStep, SweepUnlink, SweepRemoveDir, SweepDone, SweepIOError, SweepSkip, SweepEntry
<1>4. CASE RecoverStep
  <2>1. UNCHANGED <<proc, op>>
    BY <1>4, <1>b, <1>d DEF RecoverStep, RecoverDone, RecoverIOError, RecoverPartial,
       RecoverManifestTmp, RecoverUploadTmp, RecoverSession
  <2> QED BY <2>1, <1>c DEF Clean
<1>5. CASE FileStart \/ UploadStart
  BY <1>5, <1>c DEF FileStart, UploadStart, UsageLoad, PurgeTrash, Put, Delete, Restore, SweepUploads,
     StartUpload, AbortUpload, AppendUpload, CompleteUpload, Serving
<1>6. CASE UNCHANGED <<proc, op>>
  BY <1>6, <1>c DEF Clean
<1>7. CASE Restart \/ Crash
  BY <1>7, IdleOperation DEF Restart, Crash, Clean, SweepPlaces, Operation
<1> QED BY <1>1, <1>2, <1>3, <1>4, <1>5, <1>6, <1>7 DEF Next, Progress, Age, vars

\* Steps that make no temporary file, and either take away their own or have none.
LEMMA CommitSteps ==
  ASSUME TypeInv, ProcInv, [Next]_vars, ~IOError, ~Crash
  PROVE  /\ \/ op.pc # "putBody" /\ partials' \subseteq partials
            \/ partials' = partials \ {op.file}
            \/ \E id \in FileIds : Put(id)
            \/ UNCHANGED <<partials, op>>
         /\ \/ op.pc \notin ManifestRenames /\ manifestTmps' \subseteq manifestTmps
            \/ manifestTmps' = manifestTmps \ {op.file}
            \/ PutWriteManifest \/ CompleteWriteManifest
            \/ UNCHANGED <<manifestTmps, op>>
<1> USE DEF At, Frame, Sessions, Quarantines, fileVars, diskVars, ManifestRenames
<1>1. CASE PutStep
  BY <1>1 DEF PutStep, PutAbandon, PutCommitObject, PutWriteManifest, PutCommitManifest, PutAck,
     PutIOError, PutUndoManifest, PutUndo
<1>2. CASE DeleteStep
  BY <1>2 DEF DeleteStep, DeleteMoveObject, DeleteMoveFails, DeleteMoveManifest, DeleteWriteMark,
     DeleteCommitMark, DeleteReturn, DeleteIOError, UndoDeleteObject, UndoDeleteManifest, UndoDeleteDir
<1>3. CASE RestoreStep
  BY <1>3 DEF RestoreStep, RestoreCommitMark, RestoreMoveObject, RestoreMoveManifest, RestoreRemoveDir,
     RestoreReturn, RestoreEarlyIOError, RestoreIOError, RestoreUndo
<1>4. CASE PurgeStep
  BY <1>4 DEF PurgeStep, PurgeStops, PurgeUnlink, PurgeRemoveDir, PurgeIOError, PurgeReturn, PurgeKeeps,
     PurgeEntry
<1>5. CASE SessionStep
  BY <1>5 DEF SessionStep, StartCreateDir, StartRefused, StartCreatePart, StartWriteManifest,
     StartCommitManifest, StartAck, StartIOError, AppendCopy, AppendWriteManifest, AppendReject,
     AppendCommitManifest, AppendAck, AppendIOError, AppendUndo, DropUnlink, DropRemoveDir, DropIOError
<1>6. CASE CompleteStep
  BY <1>6 DEF CompleteStep, CompleteWriteManifest, CompleteCommitManifest, CompleteWriteSession,
     CompleteCommitSession, CompleteAck, CompleteIOError, CompleteUndo, CompleteUndoManifest
<1>7. CASE SweepStep
  BY <1>7 DEF SweepStep, SweepUnlink, SweepRemoveDir, SweepDone, SweepIOError, SweepSkip, SweepEntry
<1>8. CASE RecoverStep
  BY <1>8 DEF RecoverStep, RecoverScanned, RecoverDone, RecoverIOError, RecoverPartial,
     RecoverManifestTmp, RecoverUploadTmp, RecoverSession
<1>9. CASE FileStart
  BY <1>9, IdleOperation DEF FileStart, UsageLoad, PurgeTrash, Put, Delete, Restore, Serving
<1>10. CASE UploadStart
  BY <1>10, IdleOperation DEF UploadStart, SweepUploads, StartUpload, AbortUpload, AppendUpload,
     CompleteUpload, Serving
<1>11. CASE (\E u \in UploadIds : Age(u)) \/ Restart \/ UNCHANGED vars
  <2>1. UNCHANGED <<partials, manifestTmps>> /\ (op.pc = "idle" \/ UNCHANGED op \/ Restart)
    BY <1>11 DEF Age, Restart, vars
  <2>2. Restart => op.pc = "idle"
    BY IdleOperation DEF Restart, ProcInv
  <2> QED BY <2>1, <2>2
<1> QED BY <1>1, <1>2, <1>3, <1>4, <1>5, <1>6, <1>7, <1>8, <1>9, <1>10, <1>11 DEF Next, Progress

LEMMA SessionCommitSteps ==
  ASSUME TypeInv, ProcInv, [Next]_vars, ~IOError, ~Crash, NEW u \in UploadIds
  PROVE  \/ op.pc \notin SessionRenames /\ (uploads'[u].tmp => uploads[u].tmp)
         \/ uploads'[u].tmp => uploads[u].tmp /\ u # op.session
         \/ StartWriteManifest \/ AppendWriteManifest \/ CompleteWriteSession
         \/ UNCHANGED <<uploads, op>>
<1> USE DEF At, Frame, Sessions, Quarantines, fileVars, diskVars, SessionRenames
<1>a. uploads \in [UploadIds -> Session] /\ op \in Operation /\ OpOK
  BY DEF TypeInv, TypeOK
<1>1. CASE PutStep \/ DeleteStep \/ RestoreStep \/ PurgeStep
  BY <1>1, FileStepPlaces DEF FilePlaces
<1>2. CASE SessionStep
  <2>1. CASE StartRefused \/ StartAck \/ AppendReject \/ AppendAck
    BY <2>1 DEF StartRefused, StartAck, AppendReject, AppendAck
  <2>2. CASE StartCreateDir \/ StartCreatePart
    <3>1. op.session \in UploadIds
      BY <2>2, <1>a DEF StartCreateDir, StartCreatePart, OpOK, SessionPlaces
    <3> QED BY <2>2, <3>1, <1>a DEF StartCreateDir, StartCreatePart, Session
  <2>3. CASE StartCommitManifest \/ AppendCommitManifest
    <3>1. op.session \in UploadIds
      BY <2>3, <1>a DEF StartCommitManifest, AppendCommitManifest, OpOK, SessionPlaces, AppendPlaces
    <3> QED BY <2>3, <3>1, <1>a DEF StartCommitManifest, AppendCommitManifest, Session
  <2>4. CASE AppendCopy \/ AppendUndo
    <3>1. op.session \in UploadIds
      BY <2>4, <1>a DEF AppendCopy, AppendUndo, OpOK, SessionPlaces, AppendPlaces
    <3> QED BY <2>4, <3>1, <1>a DEF AppendCopy, AppendUndo, Session
  <2>5. CASE DropUnlink \/ DropRemoveDir
    <3>1. op.session \in UploadIds
      BY <2>5, <1>a DEF DropUnlink, DropRemoveDir, OpOK, SessionPlaces
    <3> QED BY <2>5, <3>1, <1>a DEF DropUnlink, DropRemoveDir, UnlinkFrom, Session, NoSession
  <2> QED BY <2>1, <2>2, <2>3, <2>4, <2>5, <1>2 DEF SessionStep, StartIOError, AppendIOError, DropIOError
<1>3. CASE CompleteStep
  <2>1. CASE CompleteCommitSession
    <3>1. op.session \in UploadIds
      BY <2>1, <1>a DEF CompleteCommitSession, OpOK, SessionPlaces
    <3> QED BY <2>1, <3>1, <1>a DEF CompleteCommitSession, Session
  <2> QED BY <2>1, <1>3 DEF CompleteStep, CompleteWriteManifest, CompleteCommitManifest, CompleteAck,
       CompleteIOError, CompleteUndo, CompleteUndoManifest
<1>4. CASE SweepStep
  <2>1. CASE SweepUnlink \/ SweepRemoveDir
    <3>1. op.victim \in UploadIds
      BY <2>1, <1>a DEF SweepUnlink, SweepRemoveDir, OpOK
    <3> QED BY <2>1, <3>1, <1>a DEF SweepUnlink, SweepRemoveDir, UnlinkFrom, Session, NoSession
  <2> QED BY <2>1, <1>4 DEF SweepStep, SweepDone, SweepIOError, SweepSkip, SweepEntry
<1>5. CASE RecoverStep
  <2>1. CASE RecoverScanned \/ RecoverDone \/ RecoverIOError
             \/ \E id \in FileIds : RecoverPartial(id) \/ RecoverManifestTmp(id)
    BY <2>1 DEF RecoverScanned, RecoverDone, RecoverIOError, RecoverPartial, RecoverManifestTmp
  <2>2. ASSUME NEW v \in UploadIds, RecoverUploadTmp(v) \/ RecoverSession(v)
        PROVE  op.pc \notin SessionRenames /\ (uploads'[u].tmp => uploads[u].tmp)
    BY <2>2, <1>a DEF RecoverUploadTmp, RecoverSession, Session, NoSession
  <2> QED BY <2>1, <2>2, <1>5 DEF RecoverStep
<1>6. CASE FileStart
  <2>1. op.pc = "idle" /\ uploads' = uploads
    BY <1>6, IdleOperation DEF FileStart, UsageLoad, PurgeTrash, Put, Delete, Restore, Serving
  <2> QED BY <2>1
<1>7. CASE UploadStart
  <2>1. op.pc = "idle" /\ (uploads'[u].tmp => uploads[u].tmp)
    <3>1. ASSUME NEW v \in UploadIds, NEW id \in FileIds, CompleteUpload(v, id)
          PROVE  uploads'[u].tmp => uploads[u].tmp
      BY <3>1, <1>a DEF CompleteUpload, Session
    <3> QED BY <3>1, <1>7, IdleOperation DEF UploadStart, SweepUploads, StartUpload, AbortUpload,
         AppendUpload, CompleteUpload, Serving
  <2> QED BY <2>1
<1>8. CASE \E v \in UploadIds : Age(v)
  <2>1. op.pc = "idle" /\ (uploads'[u].tmp => uploads[u].tmp)
    BY <1>8, <1>a, IdleOperation DEF Age, Session
  <2> QED BY <2>1
<1>9. CASE Restart \/ UNCHANGED vars
  <2>1. Restart => op.pc = "idle"
    BY IdleOperation DEF Restart, ProcInv
  <2> QED BY <2>1, <1>9 DEF Restart, vars
<1> QED BY <1>1, <1>2, <1>3, <1>4, <1>5, <1>6, <1>7, <1>8, <1>9 DEF Next, Progress

LEMMA NextTmp ==
  ASSUME TypeInv, ProcInv, SessionInv, TmpInv, [Next]_vars
  PROVE  TmpInv'
<1> SUFFICES ASSUME Clean' PROVE (PartialsOwn /\ ManifestTmpsOwn /\ UploadTmpsOwn)'
  BY DEF TmpInv
<1>a. op \in Operation /\ OpOK /\ faults \in Nat /\ uploads \in [UploadIds -> Session]
  BY ConstantsAssumption DEF TypeInv, TypeOK
<1>b. ~IOError
  BY <1>a, NextFaults DEF Clean, IOError
<1>c. ~Crash
  BY IdleOperation DEF Crash, Clean, SweepPlaces
<1>1. CASE RecoverScanned
  <2>1. partials' = {} /\ manifestTmps' = {} /\ UNCHANGED uploads
    BY <1>1 DEF RecoverScanned, diskVars, fileVars
  <2>2. \A u \in UploadIds : ~uploads[u].tmp
    <3> TAKE u \in UploadIds
    <3>1. CASE uploads[u].dir
      BY <3>1, <1>1 DEF RecoverScanned, SessionDirs
    <3>2. CASE ~uploads[u].dir
      BY <3>2 DEF SessionInv, DirInv, NoSession
    <3> QED BY <3>1, <3>2
  <2> QED BY <2>1, <2>2 DEF PartialsOwn, ManifestTmpsOwn, UploadTmpsOwn
<1>2. CASE ~RecoverScanned
  <2>1. PartialsOwn /\ ManifestTmpsOwn /\ UploadTmpsOwn
    BY <1>2, CleanBefore DEF TmpInv
  <2>2. PartialsOwn'
    <3>1. ASSUME NEW id \in FileIds, Put(id) PROVE PartialsOwn'
      BY <3>1, <2>1, IdleOperation DEF Put, Serving, PartialsOwn, Idle
    <3> QED BY <3>1, <2>1, <1>b, <1>c, CommitSteps DEF PartialsOwn
  <2>3. ManifestTmpsOwn'
    <3>1. CASE PutWriteManifest \/ CompleteWriteManifest
      BY <3>1, <2>1, <1>a, GotoKeepsOperation, PlaceNames
         DEF PutWriteManifest, CompleteWriteManifest, At, ManifestTmpsOwn, ManifestRenames
    <3> QED BY <3>1, <2>1, <1>b, <1>c, CommitSteps DEF ManifestTmpsOwn
  <2>4. UploadTmpsOwn'
    <3> SUFFICES ASSUME NEW u \in UploadIds, uploads'[u].tmp
                 PROVE  u = op'.session /\ op'.pc \in SessionRenames
      BY DEF UploadTmpsOwn
    <3>1. CASE StartWriteManifest \/ AppendWriteManifest \/ CompleteWriteSession
      <4>1. /\ op.session \in UploadIds /\ op.pc \notin SessionRenames
            /\ uploads' = [uploads EXCEPT ![op.session].tmp = TRUE]
        BY <3>1, <1>a DEF StartWriteManifest, AppendWriteManifest, CompleteWriteSession, At, OpOK,
           SessionPlaces, AppendPlaces, SessionRenames
      <4>2. op'.session = op.session /\ op'.pc \in SessionRenames
        BY <3>1, <1>a, GotoKeepsOperation, PlaceNames
           DEF StartWriteManifest, AppendWriteManifest, CompleteWriteSession, SessionRenames
      <4>3. u = op.session
        BY <4>1, <1>a, <2>1 DEF UploadTmpsOwn, Session
      <4> QED BY <4>2, <4>3
    <3> QED BY <3>1, <2>1, <1>b, <1>c, SessionCommitSteps DEF UploadTmpsOwn
  <2> QED BY <2>2, <2>3, <2>4
<1> QED BY <1>1, <1>2

LEMMA InitTmp == Init => TmpInv /\ TrashTmpInv
BY IdleOperation DEF Init, TmpInv, Clean, SweepPlaces, TrashTmpInv, NoTrash

LEMMA NextTrashTmp ==
  ASSUME TypeInv, FilesInv, ProcInv, TrashTmpInv, [Next]_vars
  PROVE  TrashTmpInv'
<1> SUFFICES ASSUME faults' = 0, crashes' = 0, NEW id \in FileIds, trash'[id].tmp
             PROVE  id = op'.file /\ op'.pc \in TrashTmpPlaces
  BY DEF TrashTmpInv
<1> USE DEF At, Frame, Sessions, fileVars, diskVars, procVars, TrashTmpPlaces
<1>a. op \in Operation /\ OpOK /\ trash \in [FileIds -> TrashItem] /\ crashes \in Nat
  BY ConstantsAssumption DEF TypeInv, TypeOK
<1>b. faults = 0 /\ ~IOError /\ CreateInv
  BY NextFaults DEF FilesInv
<1>c. ASSUME crashes = 0, trash'[id].tmp => trash[id].tmp, op.pc \notin TrashTmpPlaces PROVE FALSE
  BY <1>b, <1>c DEF TrashTmpInv
<1>1. CASE DeleteStep \/ RestoreStep \/ PurgeStep
  <2>1. op.file \in FileIds \/ UNCHANGED trash
    BY <1>1, <1>a DEF OpOK, MovePlaces, DeleteStep, DeleteMoveObject, DeleteMoveFails, DeleteMoveManifest,
       DeleteWriteMark, DeleteCommitMark, DeleteReturn, DeleteIOError, UndoDeleteObject,
       UndoDeleteManifest, UndoDeleteDir, RestoreStep, RestoreCommitMark, RestoreMoveObject,
       RestoreMoveManifest, RestoreRemoveDir, RestoreReturn, RestoreEarlyIOError, RestoreIOError,
       RestoreUndo, PurgeStep, PurgeStops, PurgeUnlink, PurgeRemoveDir, PurgeIOError, PurgeReturn,
       PurgeKeeps, PurgeEntry
  <2>2. crashes = 0
    BY <1>1, FileStepPlaces
  <2>3. CASE DeleteWriteMark
    <3>1. op'.pc = "delMark" /\ op'.file = op.file
      BY <2>3, <1>a, GotoKeepsOperation, PlaceNames DEF DeleteWriteMark
    <3>2. id = op.file
      BY <2>1, <2>2, <2>3, <1>a, <1>c DEF DeleteWriteMark, TrashItem
    <3> QED BY <3>1, <3>2
  <2>4. CASE DeleteCommitMark \/ RestoreCommitMark
    <3>1. op.file \in FileIds /\ trash'[op.file].tmp = FALSE
          /\ \A i \in FileIds \ {op.file} : trash'[i] = trash[i]
      BY <2>4, <1>a DEF DeleteCommitMark, RestoreCommitMark, OpOK, MovePlaces, TrashItem
    <3> QED BY <3>1, <2>2, <1>b DEF TrashTmpInv
  <2>5. CASE DeleteMoveObject \/ DeleteMoveManifest \/ UndoDeleteObject \/ UndoDeleteManifest
             \/ UndoDeleteDir \/ RestoreMoveObject \/ RestoreMoveManifest \/ RestoreRemoveDir
             \/ RestoreUndo \/ PurgeUnlink \/ PurgeRemoveDir
    <3>1. op.pc \notin TrashTmpPlaces
      BY <2>5 DEF DeleteMoveObject, DeleteMoveManifest, UndoDeleteObject, UndoDeleteManifest,
         UndoDeleteDir, RestoreMoveObject, RestoreMoveManifest, RestoreRemoveDir, RestoreUndo,
         PurgeUnlink, PurgeRemoveDir
    <3>2. CASE UNCHANGED trash
      BY <2>2, <3>1, <3>2, <1>c
    <3>3. CASE op.file \in FileIds
      <4>1. CASE PurgeUnlink
        <5>1. PICK name \in {"object", "manifest", "tmp"} :
                trash' = [trash EXCEPT ![op.file][name] = NoTrash[name]]
          BY <4>1 DEF PurgeUnlink
        <5>2. trash'[id].tmp => trash[id].tmp
          BY <3>3, <5>1, <1>a DEF TrashItem, NoTrash
        <5> QED BY <2>2, <3>1, <5>2, <1>c
      <4>2. CASE ~PurgeUnlink
        <5>1. trash'[id].tmp => trash[id].tmp
          BY <2>5, <3>3, <4>2, <1>a DEF DeleteMoveObject, DeleteMoveManifest, UndoDeleteObject,
             UndoDeleteManifest, UndoDeleteDir, RestoreMoveObject, RestoreMoveManifest,
             RestoreRemoveDir, RestoreUndo, PurgeRemoveDir, TrashItem, NoTrash
        <5> QED BY <2>2, <3>1, <5>1, <1>c
      <4> QED BY <4>1, <4>2
    <3> QED BY <2>1, <3>2, <3>3
  <2>6. CASE DeleteReturn \/ RestoreReturn \/ PurgeStops \/ PurgeReturn
             \/ \E i \in FileIds : PurgeKeeps(i) \/ PurgeEntry(i)
    BY <2>2, <2>6, <1>c DEF DeleteReturn, RestoreReturn, PurgeStops, PurgeReturn, PurgeKeeps, PurgeEntry
  <2> QED BY <1>1, <1>b, <2>3, <2>4, <2>5, <2>6 DEF DeleteStep, DeleteMoveFails, DeleteIOError, RestoreStep,
       RestoreEarlyIOError, RestoreIOError, PurgeStep, PurgeIOError
<1>2. CASE FileStart
  <2>1. crashes = 0 /\ op.pc = "idle"
    BY <1>2, IdleOperation DEF FileStart, UsageLoad, PurgeTrash, Put, Delete, Restore, Serving
  <2>2. ASSUME NEW i \in FileIds, Restore(i) PROVE id = op'.file /\ op'.pc \in TrashTmpPlaces
    BY <2>1, <2>2, <1>a, <1>c, IdleOperation DEF Restore, TrashItem, Operation
  <2>3. ASSUME NEW i \in FileIds, Delete(i) PROVE FALSE
    BY <2>1, <2>3, <1>a, <1>c DEF Delete, TrashItem, NoTrash
  <2> QED BY <1>2, <2>1, <2>2, <2>3, <1>c DEF FileStart, UsageLoad, PurgeTrash, Put
<1>3. CASE UNCHANGED <<trash, crashes>> /\ op.pc \notin TrashTmpPlaces
  BY <1>3, <1>c
<1>4. CASE UNCHANGED <<trash, crashes, op>>
  BY <1>4, <1>b DEF TrashTmpInv
<1>5. CASE PutStep \/ CompleteStep
  <2>1. UNCHANGED <<trash, crashes>>
    BY <1>5 DEF PutStep, PutAbandon, PutCommitObject, PutWriteManifest, PutCommitManifest, PutAck,
       PutIOError, PutUndoManifest, PutUndo, CompleteStep, CompleteWriteManifest, CompleteCommitManifest,
       CompleteWriteSession, CompleteCommitSession, CompleteAck, CompleteIOError, CompleteUndo,
       CompleteUndoManifest
  <2>2. op.pc \notin TrashTmpPlaces
    BY <1>5 DEF PutStep, PutAbandon, PutCommitObject, PutWriteManifest, PutCommitManifest, PutAck,
       PutIOError, PutUndoManifest, PutUndo, CompleteStep, CompleteWriteManifest, CompleteCommitManifest,
       CompleteWriteSession, CompleteCommitSession, CompleteAck, CompleteIOError, CompleteUndo,
       CompleteUndoManifest
  <2> QED BY <2>1, <2>2, <1>3
<1>6. CASE SessionStep
  <2>1. UNCHANGED <<trash, crashes>>
    BY <1>6, <1>b, SessionStepPlaces, BesideFiles
  <2> QED BY <2>1, <1>3, <1>6, SessionStepPlaces DEF OwnPlaces, AppendPlaces, StartPlaces, CompletePlaces
<1>7. CASE SweepStep \/ RecoverStep
  <2>1. UNCHANGED trash
    BY <1>7, <1>b, BesideFiles
  <2>2. UNCHANGED crashes /\ op.pc \in SweepPlaces \cup RecoverPlaces
    BY <1>7 DEF SweepStep, SweepUnlink, SweepRemoveDir, SweepDone, SweepIOError, SweepSkip, SweepEntry,
       RecoverStep, RecoverScanned, RecoverDone, RecoverIOError, RecoverPartial, RecoverManifestTmp,
       RecoverUploadTmp, RecoverSession, SweepPlaces, RecoverPlaces, Quarantines
  <2> QED BY <2>1, <2>2, <1>3 DEF SweepPlaces, RecoverPlaces
<1>8. CASE UploadStart
  <2>1. op.pc = "idle" /\ UNCHANGED <<trash, crashes>>
    BY <1>8, IdleOperation DEF UploadStart, SweepUploads, StartUpload, AbortUpload, AppendUpload,
       CompleteUpload, Serving
  <2> QED BY <2>1, <1>3
<1>9. CASE Crash
  BY <1>9, <1>a DEF Crash
<1>10. CASE (\E u \in UploadIds : Age(u)) \/ UNCHANGED vars
  BY <1>10, <1>4 DEF Age, vars
<1>11. CASE Restart
  <2>1. UNCHANGED <<trash, crashes>>
    BY <1>11 DEF Restart
  <2>2. op.pc \notin TrashTmpPlaces
    BY <1>11, IdleOperation DEF Restart, ProcInv
  <2> QED BY <2>1, <2>2, <1>3
<1> QED BY <1>1, <1>2, <1>5, <1>6, <1>7, <1>8, <1>9, <1>10, <1>11 DEF Next, Progress

-----------------------------------------------------------------------------
(* The store's part of the above, in every reachable state. *)

LEMMA BytesCorrect == Spec => [](BytesInv /\ TmpInv /\ TrashTmpInv)
<1> DEFINE Known == TypeInv /\ FilesInv /\ ProcInv /\ SessionInv /\ (faults <= 1 => LifecycleInv)
           New == BytesInv /\ TmpInv /\ TrashTmpInv
<1>1. Init => New
  BY InitBytes, InitTmp
<1>2. Known /\ New /\ [Next]_vars => New'
  <2> SUFFICES ASSUME Known, New, [Next]_vars PROVE New'
    OBVIOUS
  <2>1. SourceInv' /\ CompletedHasFile' /\ BytesUsedOnce' /\ ConfirmedBytesKept'
    BY NextSource, NextUsedOnce, NextHasFile, NextConfirmed DEF BytesInv
  <2>2. TmpInv' /\ TrashTmpInv'
    BY NextTmp, NextTrashTmp
  <2> QED BY <2>1, <2>2 DEF BytesInv
<1> HIDE DEF New
<1>3. Spec => []New
  BY <1>1, <1>2, SessionsCorrect, LifecycleCorrect, PTL DEF Spec
<1> QED BY <1>3 DEF New

\* A session that says it is completed names a file that is whole, has its bytes and can be
\* found, in metadata/ or in the trash, until somebody asks to purge it: Complete commits the
\* object, the manifest and the session in this order (store.go:588-611), and neither a kill
\* between them nor Delete, Restore or Recover takes one of them away, as long as no system
\* call fails.
THEOREM CompletedFilesAreThere == Spec => []CompletedHasFile
<1>1. BytesInv => CompletedHasFile
  BY DEF BytesInv
<1> QED BY <1>1, BytesCorrect, PTL

\* The bytes of one session never become two files, whatever kills and failed system calls
\* interrupt a completion and however often it is asked for again: Complete moves the part
\* file, and no later step of any operation makes a part for that session again.
THEOREM BytesAreUsedOnce == Spec => []BytesUsedOnce
<1>1. BytesInv => BytesUsedOnce
  BY DEF BytesInv
<1> QED BY <1>1, BytesCorrect, PTL

\* Until a system call fails, the bytes up to the offset an append acknowledged are in the
\* session's part file or in the object Complete renamed it to, however often the process
\* was killed and recovered.
THEOREM ConfirmedStay == Spec => []ConfirmedBytesKept
<1>1. BytesInv => ConfirmedBytesKept
  BY DEF BytesInv
<1> QED BY <1>1, BytesCorrect, PTL

\* Once Recover has run, and as long as no system call failed, a temporary file in tmp/,
\* metadata/ or uploads/ belongs to the operation that holds the lock, however often the
\* process was killed: there the O_EXCL of Put and of writeManifest never meets an old one.
\* In trash/ that is so only until the first kill; a kill in Delete or Restore leaves
\* trash/{id}/manifest.json.tmp for good, and store.go:1564 refuses each Restore that follows.
THEOREM OnlyTheWritersTemporaries == Spec => []NoStrayTemporaries
<1>1. TmpInv /\ TrashTmpInv => NoStrayTemporaries
  BY DEF TmpInv, TrashTmpInv, Clean, PartialsOwn, ManifestTmpsOwn, UploadTmpsOwn, NoStrayTemporaries
<1> QED BY <1>1, BytesCorrect, PTL

-----------------------------------------------------------------------------
(* What Recover leaves alone. *)

LEMMA SameSession ==
  ASSUME NEW r \in Session
  PROVE  /\ r = [r EXCEPT !.tmp = r.tmp, !.stale = r.stale]
         /\ r = [[r EXCEPT !.tmp = FALSE] EXCEPT !.tmp = r.tmp, !.stale = r.stale]
BY DEF Session

\* Recover quarantines what the package writes as temporary files and sessions without a
\* manifest, and sweeps sessions that are completed or expired (recovery.go:45-160): it
\* moves no object, no manifest and nothing in the trash, and a session a client may go
\* on with keeps its part file and its manifest.
THEOREM RecoveryKeepsData == Spec => RecoverKeepsData
<1> DEFINE Kept(u) == uploads[u] = [uploads'[u] EXCEPT !.tmp = uploads[u].tmp, !.stale = uploads[u].stale]
           Keeps == proc = "recovering" =>
             /\ UNCHANGED <<objects, manifests, trash>>
             /\ \A u \in UploadIds : UploadOK(u) /\ ~Expired(u) => Kept(u)
<1>1. TypeInv /\ FilesInv /\ ProcInv /\ SessionInv /\ [Next]_vars => [Keeps]_vars
  <2> SUFFICES ASSUME TypeInv, FilesInv, ProcInv, SessionInv, Next, proc = "recovering"
               PROVE  /\ UNCHANGED <<objects, manifests, trash>>
                      /\ \A u \in UploadIds : UploadOK(u) /\ ~Expired(u) => Kept(u)
    BY DEF vars
  <2> USE DEF At, Sessions, Quarantines, fileVars, diskVars
  <2>a. /\ uploads \in [UploadIds -> Session] /\ op \in Operation /\ OpOK
        /\ op.pc \in SweepPlaces \cup RecoverPlaces
    BY DEF TypeInv, TypeOK, ProcInv
  <2>b. ASSUME UNCHANGED uploads, NEW u \in UploadIds PROVE Kept(u)
    BY <2>a, <2>b, SameSession
  <2>c. op.pc \notin FilePlaces \cup OwnPlaces \cup {"idle", "startDir"}
    BY <2>a DEF SweepPlaces, RecoverPlaces, FilePlaces, OwnPlaces, AppendPlaces, StartPlaces, CompletePlaces
  <2>1. SweepStep \/ RecoverStep \/ Crash
    <3>1. ~(PutStep \/ DeleteStep \/ RestoreStep \/ PurgeStep \/ SessionStep \/ CompleteStep)
      BY <2>c, FileStepPlaces, SessionStepPlaces
    <3>2. ~(FileStart \/ UploadStart \/ Restart)
      BY DEF FileStart, UploadStart, UsageLoad, PurgeTrash, Put, Delete, Restore, SweepUploads,
         StartUpload, AbortUpload, AppendUpload, CompleteUpload, Serving, Restart
    <3>3. ~\E u \in UploadIds : Age(u)
      BY <2>c, IdleOperation DEF Age
    <3> QED BY <3>1, <3>2, <3>3 DEF Next, Progress
  <2>2. UNCHANGED <<objects, manifests, trash>>
    BY <2>1, BesideFiles DEF FilesInv
  <2>3. ASSUME NEW u \in UploadIds, UploadOK(u), ~Expired(u)
        PROVE  Kept(u)
    <3>1. CASE SweepUnlink \/ SweepRemoveDir
      <4>1. op.victim \in UploadIds /\ op.victim # u
        BY <2>a, <2>3, <3>1 DEF SweepUnlink, SweepRemoveDir, OpOK, SessionInv, SweepInv, Expired,
           UploadOK, Session
      <4>2. uploads'[u] = uploads[u]
        BY <2>a, <3>1, <4>1 DEF SweepUnlink, SweepRemoveDir, UnlinkFrom
      <4> QED BY <2>a, <4>2, SameSession
    <3>2. CASE SweepDone \/ SweepIOError \/ (\E v \in UploadIds : SweepSkip(v) \/ SweepEntry(v)) \/ Crash
      BY <2>b, <3>2 DEF SweepDone, SweepIOError, SweepSkip, SweepEntry, Crash
    <3>3. CASE RecoverScanned \/ RecoverDone \/ RecoverIOError
               \/ \E id \in FileIds : RecoverPartial(id) \/ RecoverManifestTmp(id)
      BY <2>b, <3>3 DEF RecoverScanned, RecoverDone, RecoverIOError, RecoverPartial, RecoverManifestTmp
    <3>4. ASSUME NEW v \in UploadIds, RecoverUploadTmp(v) PROVE Kept(u)
      <4>1. uploads'[u] \in {uploads[u], [uploads[u] EXCEPT !.tmp = FALSE]}
        BY <2>a, <3>4 DEF RecoverUploadTmp
      <4> QED BY <2>a, <4>1, SameSession
    <3>5. ASSUME NEW v \in UploadIds, RecoverSession(v) PROVE Kept(u)
      <4>1. uploads'[u] = uploads[u]
        BY <2>a, <2>3, <3>5 DEF RecoverSession, UploadOK
      <4> QED BY <2>a, <4>1, SameSession
    <3> QED BY <2>1, <3>1, <3>2, <3>3, <3>4, <3>5 DEF SweepStep, RecoverStep
  <2> QED BY <2>2, <2>3
<1>2. Spec => [][Keeps]_vars
  BY <1>1, SessionsCorrect, PTL DEF Spec
<1> QED BY <1>2 DEF RecoverKeepsData
=====================
