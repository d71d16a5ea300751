-------------------------- MODULE ReadinessProofs --------------------------
(***************************************************************************)
(* What GET /readyz stands for, for every set of files, sessions and       *)
(* probes: a store without kills and failed system calls is ready between  *)
(* operations (QuietStoreReady), a probe that is alone says so             *)
(* (LoneProbeReady), and a 200 means a whole store (ReadyMeansWhole).      *)
(***************************************************************************)
EXTENDS Readiness, DiskStoreSessionProofs

-----------------------------------------------------------------------------
(* A quiet store: whatever is not ready is what the running operation works on. *)

Quiet == faults = 0 /\ crashes = 0

FileReady(id) ==
  /\ manifests[id] # "none" <=> id \in objects
  /\ trash[id].dir => TrashOK(id) /\ ~trash[id].tmp

SessionReady(u) == uploads[u].dir =>
  /\ UploadOK(u) /\ ~uploads[u].tmp
  /\ uploads[u].status = "completed" => uploads[u].part = Absent

\* Places where the operation's own file is half created or half moved.
HalfFile == {"putTmp", "putRename", "cmpTmp", "cmpRename",
             "delObject", "delManifest", "delTmp", "delMark",
             "resMark", "resObject", "resManifest", "resDir", "purgeDrop"}

QuietFiles == \A id \in FileIds : (id = op.file /\ op.pc \in HalfFile) \/ FileReady(id)

QuietSessions == \A u \in UploadIds :
  \/ u = op.session /\ op.pc \in OwnPlaces
  \/ u = op.victim /\ op.pc = "sweepDrop"
  \/ SessionReady(u)

\* What the last step of a move relies on.
QuietMove ==
  /\ op.pc \in {"delManifest", "delTmp", "delMark"} => trash[op.file].object
  /\ op.pc = "resDir" => manifests[op.file] # "none"
  /\ op.pc = "purgeDrop" => op.file \notin objects
  /\ op.pc # "resUndo"

QuietInv == Quiet => QuietFiles /\ QuietSessions /\ QuietMove /\ index # "failed"

\* A quiet store was quiet before the step.
LEMMA QuietBefore ==
  ASSUME TypeInv, [Next]_vars, Quiet'
  PROVE  Quiet /\ ~IOError /\ ~Crash
<1> USE DEF At, Frame, Sessions, Quarantines, procVars
<1>a. faults \in Nat /\ crashes \in Nat
  BY ConstantsAssumption DEF TypeInv, TypeOK
<1>b. faults = 0 /\ ~IOError /\ ~Crash
  BY <1>a, NextFaults DEF Quiet, Crash
<1>1. CASE PutStep \/ DeleteStep \/ RestoreStep \/ PurgeStep
  BY <1>1, <1>b, FileStepPlaces DEF Quiet
<1>2. CASE SessionStep \/ CompleteStep
  BY <1>2, <1>b, SessionStepPlaces DEF Quiet
<1>3. CASE SweepStep
  BY <1>3, <1>b DEF SweepStep, SweepUnlink, SweepRemoveDir, SweepDone, SweepIOError, SweepSkip,
     SweepEntry, Quiet
<1>4. CASE RecoverStep
  BY <1>4, <1>b DEF RecoverStep, RecoverScanned, RecoverDone, RecoverIOError, RecoverPartial,
     RecoverManifestTmp, RecoverUploadTmp, RecoverSession, Quiet
<1>5. CASE FileStart \/ UploadStart
  BY <1>5, <1>b DEF FileStart, UploadStart, UsageLoad, PurgeTrash, Put, Delete, Restore, SweepUploads,
     StartUpload, AbortUpload, AppendUpload, CompleteUpload, Quiet
<1>6. CASE (\E u \in UploadIds : Age(u)) \/ Restart \/ UNCHANGED vars
  BY <1>6, <1>b DEF Age, Restart, vars, Quiet
<1> QED BY <1>1, <1>2, <1>3, <1>4, <1>5, <1>6, <1>b DEF Next, Progress

\* A step on one file.
LEMMA QuietOthers ==
  ASSUME QuietFiles, NEW f \in FileIds, op.pc \in HalfFile => op.file = f,
         \A i \in FileIds \ {f} : /\ i \in objects' <=> i \in objects
                                 /\ manifests'[i] = manifests[i] /\ trash'[i] = trash[i],
         (f = op'.file /\ op'.pc \in HalfFile) \/ FileReady(f)'
  PROVE  QuietFiles'
BY DEF QuietFiles, FileReady, TrashOK

LEMMA QuietFilesFrame ==
  ASSUME QuietFiles, UNCHANGED <<objects, manifests, trash>>, op.pc \notin HalfFile
  PROVE  QuietFiles'
BY DEF QuietFiles, FileReady, TrashOK

LEMMA QuietPut ==
  ASSUME TypeInv, FilesInv, QuietFiles, faults = 0, ~IOError, PutStep
  PROVE  QuietFiles' /\ QuietMove'
<1> USE DEF At, Frame, fileVars, diskVars, HalfFile
<1>a. op \in Operation /\ OpOK /\ FilesInv /\ manifests \in [FileIds -> ManifestState]
  BY DEF TypeInv, TypeOK
<1>b. op.file \in FileIds
  BY <1>a DEF PutStep, PutAbandon, PutCommitObject, PutWriteManifest, PutCommitManifest, PutAck,
     PutIOError, PutUndoManifest, PutUndo, OpOK, CreatePlaces, MovePlaces
<1>1. CASE PutAbandon \/ PutAck
  <2>1. op'.pc = "idle"
    BY <1>1, ReturnKeepsOperation DEF PutAbandon, PutAck
  <2> QED BY <1>1, <2>1, QuietFilesFrame DEF PutAbandon, PutAck, QuietMove
<1>2. CASE PutCommitObject \/ PutWriteManifest
  <2>1. op'.pc \in {"putTmp", "putRename"} /\ op'.file = op.file
    BY <1>2, <1>a, GotoKeepsOperation, PlaceNames DEF PutCommitObject, PutWriteManifest
  <2> QED BY <1>2, <1>b, <2>1, QuietOthers DEF PutCommitObject, PutWriteManifest, QuietMove
<1>3. CASE PutCommitManifest
  <2>1. op'.pc = "putSync" /\ op'.file = op.file
    BY <1>3, <1>a, GotoKeepsOperation, PlaceNames DEF PutCommitManifest
  <2>2. /\ manifests'[op.file] = "live" /\ op.file \in objects' /\ ~trash'[op.file].dir
        /\ \A i \in FileIds \ {op.file} : manifests'[i] = manifests[i]
    BY <1>3, <1>a, <1>b DEF PutCommitManifest, FilesInv, CreateInv, CreatePlaces
  <2> QED BY <1>3, <1>b, <2>1, <2>2, QuietOthers DEF PutCommitManifest, QuietMove, FileReady
<1>4. ~PutIOError /\ ~PutUndoManifest /\ ~PutUndo
  BY <1>a DEF PutIOError, PutUndoManifest, PutUndo, FilesInv, UndoInv, UndoCreatePlaces
<1> QED BY <1>1, <1>2, <1>3, <1>4 DEF PutStep

LEMMA QuietDelete ==
  ASSUME TypeInv, FilesInv, QuietFiles, QuietMove, faults = 0, ~IOError, DeleteStep
  PROVE  QuietFiles' /\ QuietMove'
<1> USE DEF At, Frame, fileVars, diskVars, HalfFile
<1>a. op \in Operation /\ OpOK /\ FilesInv /\ trash \in [FileIds -> TrashItem]
      /\ manifests \in [FileIds -> ManifestState]
  BY DEF TypeInv, TypeOK
<1>b. op.file \in FileIds
  BY <1>a DEF DeleteStep, DeleteMoveObject, DeleteMoveFails, DeleteMoveManifest, DeleteWriteMark,
     DeleteCommitMark, DeleteReturn, DeleteIOError, UndoDeleteObject, UndoDeleteManifest, UndoDeleteDir,
     OpOK, CreatePlaces, MovePlaces
<1>1. CASE DeleteMoveObject
  <2>1. op'.pc = "delManifest" /\ op'.file = op.file
    BY <1>1, <1>a, GotoKeepsOperation, PlaceNames DEF DeleteMoveObject
  <2>2. trash'[op.file].object /\ \A i \in FileIds \ {op.file} : trash'[i] = trash[i]
    BY <1>1, <1>a, <1>b DEF DeleteMoveObject, TrashItem
  <2> QED BY <1>1, <1>b, <2>1, <2>2, QuietOthers DEF DeleteMoveObject, QuietMove
<1>2. CASE DeleteMoveManifest
  <2>1. op'.pc = "delTmp" /\ op'.file = op.file
    BY <1>2, <1>a, GotoKeepsOperation, PlaceNames DEF DeleteMoveManifest
  <2>2. /\ trash'[op.file].object
        /\ \A i \in FileIds \ {op.file} : trash'[i] = trash[i] /\ manifests'[i] = manifests[i]
    BY <1>2, <1>a, <1>b DEF DeleteMoveManifest, TrashItem, QuietMove
  <2> QED BY <1>2, <1>b, <2>1, <2>2, QuietOthers DEF DeleteMoveManifest, QuietMove
<1>3. CASE DeleteWriteMark
  <2>1. op'.pc = "delMark" /\ op'.file = op.file
    BY <1>3, <1>a, GotoKeepsOperation, PlaceNames DEF DeleteWriteMark
  <2>2. trash'[op.file].object /\ \A i \in FileIds \ {op.file} : trash'[i] = trash[i]
    BY <1>3, <1>a, <1>b DEF DeleteWriteMark, TrashItem, QuietMove
  <2> QED BY <1>3, <1>b, <2>1, <2>2, QuietOthers DEF DeleteWriteMark, QuietMove
<1>4. CASE DeleteCommitMark
  <2>1. op'.pc = "delSync" /\ op'.file = op.file
    BY <1>4, <1>a, GotoKeepsOperation, PlaceNames DEF DeleteCommitMark
  <2>2. /\ trash'[op.file].manifest = "deleted" /\ ~trash'[op.file].tmp
        /\ trash'[op.file].object = trash[op.file].object
        /\ \A i \in FileIds \ {op.file} : trash'[i] = trash[i]
        /\ UNCHANGED <<objects, manifests>>
    BY <1>4, <1>a, <1>b DEF DeleteCommitMark, TrashItem
  <2>3. trash[op.file].object /\ op.file \notin objects /\ manifests[op.file] = "none"
    BY <1>4, <1>a, <1>b DEF DeleteCommitMark, QuietMove, FilesInv, MoveInv, MovePlaces, Single, Twice
  <2>4. FileReady(op.file)'
    BY <2>1, <2>2, <2>3 DEF FileReady, TrashOK
  <2> QED BY <1>4, <1>b, <2>1, <2>2, <2>4, QuietOthers DEF QuietMove
<1>5. CASE DeleteReturn
  <2>1. op'.pc = "idle"
    BY <1>5, ReturnKeepsOperation DEF DeleteReturn
  <2> QED BY <1>5, <2>1, QuietFilesFrame DEF DeleteReturn, QuietMove
<1>6. CASE DeleteMoveFails \/ DeleteIOError \/ UndoDeleteObject \/ UndoDeleteManifest \/ UndoDeleteDir
  BY <1>6, <1>a DEF DeleteMoveFails, DeleteIOError, UndoDeleteObject, UndoDeleteManifest, UndoDeleteDir,
     FilesInv, UndoInv
<1> QED BY <1>1, <1>2, <1>3, <1>4, <1>5, <1>6 DEF DeleteStep

LEMMA QuietRestore ==
  ASSUME TypeInv, FilesInv, LifecycleInv, QuietFiles, QuietMove, faults = 0, ~IOError, RestoreStep
  PROVE  QuietFiles' /\ QuietMove'
<1> USE DEF At, Frame, fileVars, diskVars, HalfFile
<1>a. op \in Operation /\ OpOK /\ FilesInv /\ trash \in [FileIds -> TrashItem]
      /\ manifests \in [FileIds -> ManifestState]
  BY DEF TypeInv, TypeOK
<1>b. op.file \in FileIds
  BY <1>a DEF RestoreStep, RestoreCommitMark, RestoreMoveObject, RestoreMoveManifest, RestoreRemoveDir,
     RestoreReturn, RestoreEarlyIOError, RestoreIOError, RestoreUndo, OpOK, CreatePlaces, MovePlaces
<1>1. CASE RestoreCommitMark \/ RestoreMoveObject
  <2>1. op'.pc \in {"resObject", "resManifest"} /\ op'.file = op.file
    BY <1>1, <1>a, GotoKeepsOperation, PlaceNames DEF RestoreCommitMark, RestoreMoveObject
  <2>2. /\ \A i \in FileIds \ {op.file} : trash'[i] = trash[i] /\ (i \in objects' <=> i \in objects)
        /\ UNCHANGED manifests
    BY <1>1, <1>a, <1>b DEF RestoreCommitMark, RestoreMoveObject, TrashItem
  <2>3. op.pc \in {"resMark", "resObject"}
    BY <1>1 DEF RestoreCommitMark, RestoreMoveObject
  <2> QED BY <1>b, <2>1, <2>2, <2>3, QuietOthers DEF QuietMove
<1>2. CASE RestoreMoveManifest
  <2>1. op'.pc = "resDir" /\ op'.file = op.file
    BY <1>2, <1>a, GotoKeepsOperation, PlaceNames DEF RestoreMoveManifest
  <2>2. trash[op.file].manifest # "none"
    BY <1>2 DEF RestoreMoveManifest, LifecycleInv, HasTrashManifest
  <2>3. /\ manifests'[op.file] # "none"
        /\ \A i \in FileIds \ {op.file} : trash'[i] = trash[i] /\ manifests'[i] = manifests[i]
    BY <1>2, <1>a, <1>b, <2>2 DEF RestoreMoveManifest, TrashItem
  <2> QED BY <1>2, <1>b, <2>1, <2>3, QuietOthers DEF RestoreMoveManifest, QuietMove
<1>3. CASE RestoreRemoveDir
  <2>1. op'.pc = "resSync" /\ op'.file = op.file
    BY <1>3, <1>a, GotoKeepsOperation, PlaceNames DEF RestoreRemoveDir
  <2>2. /\ ~trash'[op.file].dir /\ \A i \in FileIds \ {op.file} : trash'[i] = trash[i]
        /\ UNCHANGED <<objects, manifests>>
    BY <1>3, <1>a, <1>b DEF RestoreRemoveDir, NoTrash
  <2>3. op.file \in objects /\ manifests[op.file] # "none"
    BY <1>3, <1>a DEF RestoreRemoveDir, QuietMove, FilesInv, MoveInv
  <2>4. FileReady(op.file)'
    BY <2>1, <2>2, <2>3 DEF FileReady
  <2> QED BY <1>3, <1>b, <2>1, <2>2, <2>4, QuietOthers DEF QuietMove
<1>4. CASE RestoreReturn
  <2>1. op'.pc = "idle"
    BY <1>4, ReturnKeepsOperation DEF RestoreReturn
  <2> QED BY <1>4, <2>1, QuietFilesFrame DEF RestoreReturn, QuietMove
<1>5. ~(RestoreEarlyIOError \/ RestoreIOError \/ RestoreUndo)
  BY DEF RestoreEarlyIOError, RestoreIOError, RestoreUndo, QuietMove
<1> QED BY <1>1, <1>2, <1>3, <1>4, <1>5 DEF RestoreStep

LEMMA QuietPurge ==
  ASSUME TypeInv, FilesInv, QuietFiles, QuietMove, faults = 0, ~IOError, PurgeStep
  PROVE  QuietFiles' /\ QuietMove'
<1> USE DEF At, Frame, fileVars, diskVars, HalfFile
<1>a. op \in Operation /\ OpOK /\ FilesInv /\ trash \in [FileIds -> TrashItem]
  BY DEF TypeInv, TypeOK
<1>1. CASE PurgeStops \/ PurgeReturn
  <2>1. op'.pc = "idle"
    BY <1>1, ReturnKeepsOperation DEF PurgeStops, PurgeReturn
  <2> QED BY <1>1, <2>1, QuietFilesFrame DEF PurgeStops, PurgeReturn, QuietMove
<1>2. ASSUME NEW id \in FileIds, PurgeKeeps(id) PROVE QuietFiles' /\ QuietMove'
  <2>1. op'.pc = "purge"
    BY <1>2, <1>a DEF PurgeKeeps, Operation
  <2> QED BY <1>2, <2>1, QuietFilesFrame DEF PurgeKeeps, QuietMove
<1>3. ASSUME NEW id \in FileIds, PurgeEntry(id) PROVE QuietFiles' /\ QuietMove'
  <2>1. op'.pc = "purgeDrop" /\ op'.file = id
    BY <1>3, <1>a DEF PurgeEntry, Operation
  <2>2. id \notin objects
    BY <1>3, <1>a DEF PurgeEntry, TrashOK, FilesInv, OneCopy, Single, OverlookInv
  <2> QED BY <1>3, <2>1, <2>2, QuietFilesFrame DEF PurgeEntry, QuietMove
<1>4. CASE PurgeUnlink
  <2>1. op.file \in FileIds
    BY <1>4, <1>a DEF PurgeUnlink, OpOK, CreatePlaces, MovePlaces
  <2>2. \A i \in FileIds \ {op.file} : trash'[i] = trash[i]
    BY <1>4, <1>a, <2>1 DEF PurgeUnlink, TrashItem, NoTrash
  <2> QED BY <1>4, <2>1, <2>2, QuietOthers DEF PurgeUnlink, QuietMove
<1>5. CASE PurgeRemoveDir
  <2>1. op.file \in FileIds
    BY <1>5, <1>a DEF PurgeRemoveDir, OpOK, CreatePlaces, MovePlaces
  <2>2. op'.pc = "purge"
    BY <1>5, <1>a DEF PurgeRemoveDir, Operation
  <2>3. /\ ~trash'[op.file].dir /\ \A i \in FileIds \ {op.file} : trash'[i] = trash[i]
        /\ UNCHANGED <<objects, manifests>>
    BY <1>5, <1>a, <2>1 DEF PurgeRemoveDir, NoTrash
  <2>4. op.file \notin objects /\ manifests[op.file] = "none"
    BY <1>5, <1>a DEF PurgeRemoveDir, QuietMove, FilesInv, MoveInv, OverlookInv
  <2>5. PICK f \in FileIds : f = op.file
    BY <2>1
  <2>6. FileReady(f)'
    BY <2>3, <2>4, <2>5 DEF FileReady
  <2> QED BY <1>5, <2>2, <2>3, <2>5, <2>6, QuietOthers DEF QuietMove, PurgeRemoveDir
<1> QED BY <1>1, <1>2, <1>3, <1>4, <1>5 DEF PurgeStep, PurgeIOError

LEMMA QuietComplete ==
  ASSUME TypeInv, FilesInv, QuietFiles, faults = 0, ~IOError, CompleteStep
  PROVE  QuietFiles' /\ QuietMove'
<1> USE DEF At, Sessions, fileVars, diskVars, HalfFile
<1>a. op \in Operation /\ OpOK /\ FilesInv /\ manifests \in [FileIds -> ManifestState]
  BY DEF TypeInv, TypeOK
<1>b. op.file \in FileIds
  BY <1>a DEF CompleteStep, CompleteWriteManifest, CompleteCommitManifest, CompleteWriteSession,
     CompleteCommitSession, CompleteAck, CompleteIOError, CompleteUndo, CompleteUndoManifest, OpOK, CreatePlaces, MovePlaces
<1>1. CASE CompleteWriteManifest
  <2>1. op'.pc = "cmpRename" /\ op'.file = op.file
    BY <1>1, <1>a, GotoKeepsOperation, PlaceNames DEF CompleteWriteManifest
  <2> QED BY <1>1, <1>b, <2>1, QuietOthers DEF CompleteWriteManifest, QuietMove
<1>2. CASE CompleteCommitManifest
  <2>1. op'.pc = "cmpSession" /\ op'.file = op.file
    BY <1>2, <1>a, GotoKeepsOperation, PlaceNames DEF CompleteCommitManifest
  <2>2. /\ manifests'[op.file] = "live" /\ op.file \in objects' /\ ~trash'[op.file].dir
        /\ \A i \in FileIds \ {op.file} : manifests'[i] = manifests[i]
    BY <1>2, <1>a, <1>b DEF CompleteCommitManifest, FilesInv, CreateInv, CreatePlaces
  <2> QED BY <1>2, <1>b, <2>1, <2>2, QuietOthers DEF CompleteCommitManifest, QuietMove, FileReady
<1>3. CASE CompleteWriteSession \/ CompleteCommitSession \/ CompleteAck
  <2>1. op'.pc \in {"cmpSessionRename", "cmpSync", "idle"}
    BY <1>3, <1>a, GotoKeepsOperation, ReturnKeepsOperation, PlaceNames
       DEF CompleteWriteSession, CompleteCommitSession, CompleteAck
  <2> QED BY <1>3, <2>1, QuietFilesFrame DEF CompleteWriteSession, CompleteCommitSession, CompleteAck, QuietMove
<1>4. ~CompleteIOError /\ ~CompleteUndo /\ ~CompleteUndoManifest
  BY <1>a DEF CompleteIOError, CompleteUndo, CompleteUndoManifest, FilesInv, UndoInv, UndoCreatePlaces
<1> QED BY <1>1, <1>2, <1>3, <1>4 DEF CompleteStep

LEMMA QuietFileRequest ==
  ASSUME TypeInv, QuietFiles, QuietMove, FileStart \/ UploadStart
  PROVE  QuietFiles' /\ QuietMove'
<1> USE DEF Frame, Sessions, fileVars, diskVars, HalfFile
<1>a. trash \in [FileIds -> TrashItem] /\ op.pc = "idle"
  BY IdleOperation DEF TypeInv, TypeOK, FileStart, UploadStart, UsageLoad, PurgeTrash, Put, Delete,
     Restore, SweepUploads, StartUpload, AbortUpload, AppendUpload, CompleteUpload, Serving
<1>1. CASE UsageLoad
  BY <1>1, <1>a, QuietFilesFrame DEF UsageLoad, QuietMove
<1>2. CASE PurgeTrash
  <2>1. op'.pc = "purge"
    BY <1>2 DEF PurgeTrash, Idle
  <2> QED BY <1>2, <1>a, <2>1, QuietFilesFrame DEF PurgeTrash, QuietMove
<1>3. ASSUME NEW id \in FileIds, Put(id) PROVE QuietFiles' /\ QuietMove'
  <2>1. op'.pc = "putBody" /\ op'.file = id
    BY <1>3 DEF Put, Idle
  <2> QED BY <1>3, <1>a, <2>1, QuietFilesFrame DEF Put, QuietMove
<1>4. ASSUME NEW id \in FileIds, Delete(id) \/ Restore(id) PROVE QuietFiles' /\ QuietMove'
  <2>1. op'.pc \in {"delObject", "resMark"} /\ op'.file = id
    BY <1>4 DEF Delete, Restore, Idle
  <2>2. UNCHANGED <<objects, manifests>> /\ \A i \in FileIds \ {id} : trash'[i] = trash[i]
    BY <1>4, <1>a DEF Delete, Restore
  <2> QED BY <1>a, <2>1, <2>2, QuietOthers DEF QuietMove
<1>5. ASSUME NEW u \in UploadIds, NEW id \in FileIds, CompleteUpload(u, id) PROVE QuietFiles' /\ QuietMove'
  <2>1. op'.pc = "cmpTmp" /\ op'.file = id
    BY <1>5 DEF CompleteUpload, Idle
  <2> QED BY <1>5, <1>a, <2>1, QuietOthers DEF CompleteUpload, QuietMove
<1>6. CASE SweepUploads \/ \E u \in UploadIds :
             StartUpload(u) \/ AbortUpload(u) \/ \E n \in 1 .. UploadSize : AppendUpload(u, n)
  <2>1. op'.pc \in {"sweep", "startDir", "drop", "appBody"}
    BY <1>6 DEF SweepUploads, StartUpload, AbortUpload, AppendUpload, Idle
  <2> QED BY <1>6, <1>a, <2>1, QuietFilesFrame DEF SweepUploads, StartUpload, AbortUpload, AppendUpload, QuietMove
<1> QED BY <1>1, <1>2, <1>3, <1>4, <1>5, <1>6 DEF FileStart, UploadStart

LEMMA QuietFileSteps ==
  ASSUME TypeInv, FilesInv, LifecycleInv, ProcInv, QuietFiles, QuietMove, faults = 0, ~IOError, ~Crash,
         [Next]_vars
  PROVE  QuietFiles' /\ QuietMove'
<1>a. CreateInv
  BY DEF FilesInv
<1>1. CASE SweepStep \/ SessionStep \/ RecoverStep \/ (\E u \in UploadIds : Age(u)) \/ Restart
  <2>1. op'.pc \notin CreatePlaces \cup MovePlaces
    BY <1>1, <1>a, BesideFiles
  <2>2. op.pc \notin HalfFile
    <3>1. CASE SessionStep
      BY <3>1 DEF SessionStep, StartCreateDir, StartRefused, StartCreatePart, StartWriteManifest,
         StartCommitManifest, StartAck, StartIOError, AppendCopy, AppendWriteManifest, AppendReject,
         AppendCommitManifest, AppendAck, AppendIOError, AppendUndo, DropUnlink, DropRemoveDir,
         DropIOError, At, HalfFile
    <3>2. CASE SweepStep \/ RecoverStep
      BY <3>2 DEF SweepStep, SweepUnlink, SweepRemoveDir, SweepDone, SweepIOError, SweepSkip, SweepEntry,
         RecoverStep, RecoverScanned, RecoverDone, RecoverIOError, RecoverPartial, RecoverManifestTmp,
         RecoverUploadTmp, RecoverSession, At, HalfFile
    <3>3. CASE (\E u \in UploadIds : Age(u)) \/ Restart
      BY <3>3, IdleOperation DEF Age, Restart, ProcInv, HalfFile
    <3> QED BY <1>1, <3>1, <3>2, <3>3
  <2> QED BY <1>1, <1>a, <2>1, <2>2, BesideFiles, QuietFilesFrame DEF QuietMove, CreatePlaces, MovePlaces
<1>2. CASE UNCHANGED vars
  BY <1>2 DEF QuietFiles, FileReady, TrashOK, QuietMove, vars, diskVars, fileVars
<1> QED BY <1>1, <1>2, QuietPut, QuietDelete, QuietRestore, QuietPurge, QuietComplete, QuietFileRequest
        DEF Next, Progress

\* A step on one session, which was the operation's own or nobody's.
LEMMA QuietOtherSessions ==
  ASSUME QuietSessions, NEW s \in UploadIds,
         op.pc \in OwnPlaces => op.session = s, op.pc = "sweepDrop" => op.victim = s,
         \A v \in UploadIds \ {s} : uploads'[v] = uploads[v],
         \/ s = op'.session /\ op'.pc \in OwnPlaces
         \/ s = op'.victim /\ op'.pc = "sweepDrop"
         \/ SessionReady(s)'
  PROVE  QuietSessions'
BY DEF QuietSessions, SessionReady, UploadOK

LEMMA QuietSessionsFrame ==
  ASSUME QuietSessions, UNCHANGED uploads, op.pc \notin OwnPlaces \cup {"sweepDrop"}
  PROVE  QuietSessions'
BY DEF QuietSessions, SessionReady, UploadOK

\* When an operation ends, its session has no temporary manifest.
LEMMA QuietNoTmp ==
  ASSUME TypeInv, ProcInv, TmpInv, faults = 0, op.pc \in OwnPlaces \ SessionRenames
  PROVE  \A u \in UploadIds : ~uploads[u].tmp
<1>1. op.pc \notin SweepPlaces \cup RecoverPlaces \cup {"idle"}
  BY DEF OwnPlaces, AppendPlaces, StartPlaces, CompletePlaces, SweepPlaces, RecoverPlaces
<1> QED BY <1>1, OperationServes DEF TmpInv, Clean, UploadTmpsOwn

LEMMA QuietSessionStep ==
  ASSUME TypeInv, ProcInv, SessionInv, TmpInv, QuietSessions, faults = 0, ~IOError, SessionStep
  PROVE  QuietSessions'
<1> USE DEF At, Sessions
<1>a. uploads \in [UploadIds -> Session] /\ op \in Operation /\ OpOK /\ SessionInv
  BY DEF TypeInv, TypeOK
<1>b. op.session \in UploadIds /\ op.pc # "sweepDrop"
  BY <1>a DEF SessionStep, StartCreateDir, StartRefused, StartCreatePart, StartWriteManifest,
     StartCommitManifest, StartAck, StartIOError, AppendCopy, AppendWriteManifest, AppendReject,
     AppendCommitManifest, AppendAck, AppendIOError, AppendUndo, DropUnlink, DropRemoveDir, DropIOError,
     OpOK, SessionPlaces, AppendPlaces
<1>1. CASE StartRefused
  BY <1>1, QuietSessionsFrame DEF StartRefused, OwnPlaces, AppendPlaces, StartPlaces, CompletePlaces
<1>2. CASE StartCreateDir \/ StartCreatePart \/ StartWriteManifest \/ StartCommitManifest \/ AppendCopy
           \/ AppendWriteManifest \/ AppendReject \/ AppendCommitManifest \/ DropUnlink
  <2>1. op'.session = op.session
        /\ op'.pc \in {"startPart", "startTmp", "startRename", "startSync", "drop"} \cup AppendPlaces
    <3>1. CASE AppendCopy \/ DropUnlink
      BY <3>1 DEF AppendCopy, DropUnlink, AppendPlaces
    <3> QED BY <3>1, <1>2, <1>a, GotoKeepsOperation, PlaceNames
         DEF StartCreateDir, StartCreatePart, StartWriteManifest, StartCommitManifest,
             AppendWriteManifest, AppendReject, AppendCommitManifest, AppendPlaces
  <2>2. \A v \in UploadIds \ {op.session} : uploads'[v] = uploads[v]
    BY <1>2, <1>a DEF StartCreateDir, StartCreatePart, StartWriteManifest, StartCommitManifest,
       AppendCopy, AppendWriteManifest, AppendReject, AppendCommitManifest, DropUnlink, UnlinkFrom
  <2> QED BY <1>b, <2>1, <2>2, QuietOtherSessions DEF OwnPlaces, StartPlaces
<1>3. CASE StartAck \/ AppendAck \/ AppendUndo \/ DropRemoveDir
  <2>1. PICK s \in UploadIds : s = op.session
    BY <1>b
  <2>2. \A v \in UploadIds \ {s} : uploads'[v] = uploads[v]
    BY <1>3, <1>a, <2>1 DEF StartAck, AppendAck, AppendUndo, DropRemoveDir
  <2>3. CASE StartAck
    <3>1. uploads[s].status = "uploading" /\ uploads[s].part = 0 /\ uploads[s].received = 0
      BY <1>a, <2>1, <2>3 DEF StartAck, SessionInv, StartInv, Mine, StartPlaces
    <3>2. ~uploads[s].tmp /\ UNCHANGED uploads
      BY <2>3, QuietNoTmp DEF StartAck, OwnPlaces, StartPlaces, SessionRenames
    <3> QED BY <3>1, <3>2 , <2>1, <2>2, <2>3, <1>b, QuietOtherSessions DEF SessionReady, UploadOK, StartAck
  <2>4. CASE AppendAck
    <3>1. uploads[s].status = "uploading" /\ uploads[s].part = uploads[s].received
      BY <1>a, <2>1, <2>4 DEF AppendAck, SessionInv, AppendInv, Mine, AppendPlaces
    <3>2. ~uploads[s].tmp /\ UNCHANGED uploads
      BY <2>4, QuietNoTmp DEF AppendAck, OwnPlaces, AppendPlaces, SessionRenames
    <3> QED BY <3>1, <3>2, <2>1, <2>2, <2>4, <1>b, QuietOtherSessions DEF SessionReady, UploadOK, AppendAck
  <2>5. CASE AppendUndo
    <3>1. uploads[s].status = "uploading" /\ uploads[s].received = op.base
      BY <1>a, <2>1, <2>5 DEF AppendUndo, SessionInv, AppendInv, Mine, AppendPlaces
    <3>2. ~uploads[s].tmp
      BY <2>5, QuietNoTmp DEF AppendUndo, OwnPlaces, AppendPlaces, SessionRenames
    <3>3. /\ uploads'[s].part = op.base /\ uploads'[s].status = uploads[s].status
          /\ uploads'[s].received = uploads[s].received /\ uploads'[s].tmp = uploads[s].tmp
      BY <1>a, <2>1, <2>5 DEF AppendUndo, Session
    <3>4. SessionReady(s)'
      BY <3>1, <3>2, <3>3 DEF SessionReady, UploadOK
    <3> QED BY <3>4, <2>1, <2>2, <2>5, <1>b, QuietOtherSessions DEF AppendUndo
  <2>6. CASE DropRemoveDir
    <3>1. SessionReady(s)'
      BY <2>1, <2>6, <1>a DEF DropRemoveDir, SessionReady, NoSession
    <3> QED BY <3>1, <2>1, <2>2, <2>6, <1>b, QuietOtherSessions DEF DropRemoveDir
  <2> QED BY <1>3, <2>3, <2>4, <2>5, <2>6
<1> QED BY <1>1, <1>2, <1>3 DEF SessionStep, StartIOError, AppendIOError, DropIOError

LEMMA QuietCompleteSession ==
  ASSUME TypeInv, FilesInv, ProcInv, SessionInv, TmpInv, QuietSessions, faults = 0, ~IOError, CompleteStep
  PROVE  QuietSessions'
<1> USE DEF At, Sessions
<1>a. uploads \in [UploadIds -> Session] /\ op \in Operation /\ OpOK /\ SessionInv
  BY DEF TypeInv, TypeOK
<1>b. op.session \in UploadIds /\ op.pc # "sweepDrop"
  BY <1>a DEF CompleteStep, CompleteWriteManifest, CompleteCommitManifest, CompleteWriteSession,
     CompleteCommitSession, CompleteAck, CompleteIOError, CompleteUndo, CompleteUndoManifest, OpOK, SessionPlaces
<1>1. CASE CompleteWriteManifest \/ CompleteCommitManifest \/ CompleteWriteSession \/ CompleteCommitSession
  <2>1. op'.session = op.session /\ op'.pc \in CompletePlaces
    BY <1>1, <1>a, GotoKeepsOperation, PlaceNames
       DEF CompleteWriteManifest, CompleteCommitManifest, CompleteWriteSession, CompleteCommitSession,
           CompletePlaces
  <2>2. \A v \in UploadIds \ {op.session} : uploads'[v] = uploads[v]
    BY <1>1, <1>a DEF CompleteWriteManifest, CompleteCommitManifest, CompleteWriteSession, CompleteCommitSession
  <2> QED BY <1>b, <2>1, <2>2, QuietOtherSessions DEF OwnPlaces
<1>2. CASE CompleteAck
  <2>1. PICK s \in UploadIds : s = op.session
    BY <1>b
  <2>2. uploads[s].status = "completed" /\ uploads[s].part = Absent
    BY <1>a, <1>2, <2>1 DEF CompleteAck, SessionInv, CompleteInv, Mine, CompletePlaces
  <2>3. ~uploads[s].tmp /\ UNCHANGED uploads
    BY <1>2, QuietNoTmp DEF CompleteAck, OwnPlaces, CompletePlaces, SessionRenames
  <2>4. SessionReady(s)'
    BY <2>2, <2>3 DEF SessionReady, UploadOK
  <2> QED BY <1>b, <2>1, <2>3, <2>4, QuietOtherSessions
<1>3. ~CompleteIOError /\ ~CompleteUndo /\ ~CompleteUndoManifest
  BY DEF CompleteIOError, CompleteUndo, CompleteUndoManifest, FilesInv, UndoInv, UndoCreatePlaces
<1> QED BY <1>1, <1>2, <1>3 DEF CompleteStep

LEMMA QuietSweep ==
  ASSUME TypeInv, QuietSessions, ~IOError, SweepStep
  PROVE  QuietSessions'
<1> USE DEF At, Sessions
<1>a. uploads \in [UploadIds -> Session] /\ op \in Operation /\ OpOK
  BY DEF TypeInv, TypeOK
<1>1. CASE SweepUnlink \/ SweepRemoveDir
  <2>1. op.pc = "sweepDrop" /\ op.pc \notin OwnPlaces
    BY <1>1 DEF SweepUnlink, SweepRemoveDir, OwnPlaces, AppendPlaces, StartPlaces, CompletePlaces
  <2>2. PICK s \in UploadIds : s = op.victim
    BY <1>a, <2>1 DEF OpOK
  <2>3. \A v \in UploadIds \ {s} : uploads'[v] = uploads[v]
    BY <1>1, <1>a, <2>2 DEF SweepUnlink, SweepRemoveDir, UnlinkFrom
  <2>4. (s = op'.victim /\ op'.pc = "sweepDrop") \/ SessionReady(s)'
    BY <1>1, <1>a, <2>1, <2>2 DEF SweepUnlink, SweepRemoveDir, SessionReady, NoSession
  <2> QED BY <2>1, <2>2, <2>3, <2>4, QuietOtherSessions
<1>2. CASE SweepDone \/ \E u \in UploadIds : SweepSkip(u) \/ SweepEntry(u)
  <2>1. UNCHANGED uploads /\ op.pc = "sweep"
    BY <1>2 DEF SweepDone, SweepSkip, SweepEntry
  <2> QED BY <2>1, QuietSessionsFrame DEF OwnPlaces, AppendPlaces, StartPlaces, CompletePlaces
<1> QED BY <1>1, <1>2 DEF SweepStep, SweepIOError

LEMMA QuietSessionSteps ==
  ASSUME TypeInv, FilesInv, ProcInv, SessionInv, TmpInv, QuietSessions, faults = 0, ~IOError, ~Crash,
         [Next]_vars
  PROVE  QuietSessions'
<1> USE DEF At, Frame, Sessions, Quarantines, fileVars, diskVars
<1>a. uploads \in [UploadIds -> Session] /\ op \in Operation /\ OpOK
  BY DEF TypeInv, TypeOK
<1>b. DEFINE Elsewhere == op.pc \notin OwnPlaces \cup {"sweepDrop"}
<1>c. op.pc \in FilePlaces \cup {"idle"} \cup RecoverPlaces => Elsewhere
  BY DEF FilePlaces, RecoverPlaces, OwnPlaces, AppendPlaces, StartPlaces, CompletePlaces
<1>1. CASE PutStep \/ DeleteStep \/ RestoreStep \/ PurgeStep
  BY <1>1, <1>c, FileStepPlaces, QuietSessionsFrame
<1>2. CASE RecoverStep
  <2>1. op.pc \in RecoverPlaces
    BY <1>2 DEF RecoverStep, RecoverScanned, RecoverDone, RecoverIOError, RecoverPartial,
       RecoverManifestTmp, RecoverUploadTmp, RecoverSession, RecoverPlaces
  <2>2. CASE UNCHANGED uploads
    BY <1>c, <2>1, <2>2, QuietSessionsFrame
  <2>3. ASSUME NEW u \in UploadIds, RecoverUploadTmp(u) PROVE QuietSessions'
    <3>1. /\ \A v \in UploadIds \ {u} : uploads'[v] = uploads[v]
          /\ uploads'[u].dir = uploads[u].dir /\ ~uploads'[u].tmp
          /\ uploads'[u].status = uploads[u].status /\ uploads'[u].part = uploads[u].part
          /\ uploads'[u].received = uploads[u].received
      BY <1>a, <2>3 DEF RecoverUploadTmp, Session
    <3>2. SessionReady(u)
      BY <1>c, <2>1 DEF QuietSessions
    <3> QED BY <1>c, <2>1, <3>1, <3>2, QuietOtherSessions DEF SessionReady, UploadOK
  <2>4. ASSUME NEW u \in UploadIds, RecoverSession(u) PROVE QuietSessions'
    <3>1. (\A v \in UploadIds \ {u} : uploads'[v] = uploads[v]) /\ ~uploads'[u].dir
      BY <1>a, <2>4 DEF RecoverSession, NoSession
    <3> QED BY <1>c, <2>1, <3>1, QuietOtherSessions DEF SessionReady
  <2> QED BY <1>2, <2>2, <2>3, <2>4 DEF RecoverStep, RecoverScanned, RecoverDone, RecoverIOError,
       RecoverPartial, RecoverManifestTmp
<1>3. CASE FileStart \/ Restart
  <2>1. UNCHANGED uploads /\ op.pc = "idle"
    BY <1>3, IdleOperation DEF FileStart, UsageLoad, PurgeTrash, Put, Delete, Restore, Serving, Restart, ProcInv
  <2> QED BY <1>c, <2>1, QuietSessionsFrame
<1>4. CASE UploadStart
  <2>1. op.pc = "idle"
    BY <1>4, IdleOperation DEF UploadStart, SweepUploads, StartUpload, AbortUpload, AppendUpload,
       CompleteUpload, Serving
  <2>2. ASSUME NEW u \in UploadIds, NEW id \in FileIds, CompleteUpload(u, id) PROVE QuietSessions'
    <3>1. op'.session = u /\ op'.pc \in OwnPlaces
      BY <2>2 DEF CompleteUpload, Idle, OwnPlaces, CompletePlaces
    <3>2. \A v \in UploadIds \ {u} : uploads'[v] = uploads[v]
      BY <1>a, <2>2 DEF CompleteUpload
    <3> QED BY <1>c, <2>1, <3>1, <3>2, QuietOtherSessions
  <2>3. UNCHANGED uploads \/ \E u \in UploadIds : \E id \in FileIds : CompleteUpload(u, id)
    BY <1>4 DEF UploadStart, SweepUploads, StartUpload, AbortUpload, AppendUpload
  <2> QED BY <1>c, <2>1, <2>2, <2>3, QuietSessionsFrame
<1>5. ASSUME NEW u \in UploadIds, Age(u) PROVE QuietSessions'
  <2>1. op.pc = "idle"
    BY <1>5, IdleOperation DEF Age
  <2>2. /\ \A v \in UploadIds \ {u} : uploads'[v] = uploads[v]
        /\ uploads'[u].dir = uploads[u].dir /\ uploads'[u].tmp = uploads[u].tmp
        /\ uploads'[u].status = uploads[u].status /\ uploads'[u].part = uploads[u].part
        /\ uploads'[u].received = uploads[u].received
    BY <1>a, <1>5 DEF Age, Session
  <2>3. SessionReady(u)
    BY <1>c, <2>1 DEF QuietSessions
  <2> QED BY <1>c, <2>1, <2>2, <2>3, QuietOtherSessions DEF SessionReady, UploadOK
<1>6. CASE UNCHANGED vars
  BY <1>6 DEF QuietSessions, SessionReady, UploadOK, vars
<1> QED BY <1>1, <1>2, <1>3, <1>4, <1>5, <1>6, QuietSessionStep, QuietCompleteSession, QuietSweep
        DEF Next, Progress

\* Where no operation is half way, the rescan that loads the usage index finds nothing to
\* stop at.
LEMMA QuietRebuild ==
  ASSUME QuietFiles, QuietSessions, op.pc \in {"idle", "startDir"}
  PROVE  RebuildOK
BY DEF QuietFiles, QuietSessions, FileReady, SessionReady, RebuildOK, HalfFile, OwnPlaces,
   AppendPlaces, StartPlaces, CompletePlaces

\* What becomes of the usage index.
LEMMA IndexSteps ==
  ASSUME TypeInv, [Next]_vars
  PROVE  \/ UNCHANGED index
         \/ Crash
         \/ index' = "loaded" /\ (Serving \/ op.pc = "startDir")
         \/ /\ EnsureUsage /\ (Serving \/ op.pc = "startDir")
            /\ UNCHANGED <<fileVars, uploads, proc, faults>> /\ op' \in {op, Idle}
<1> USE DEF At, Frame, Sessions, Quarantines, fileVars, diskVars, procVars
<1>1. CASE PutStep \/ DeleteStep \/ RestoreStep \/ PurgeStep
  BY <1>1, FileStepPlaces
<1>2. CASE SessionStep
  <2>1. CASE StartRefused
    BY <2>1 DEF StartRefused, Return
  <2>2. UNCHANGED index \/ (index' = "loaded" /\ op.pc = "startDir") \/ StartRefused
    BY <1>2 DEF SessionStep, StartCreateDir, StartCreatePart, StartWriteManifest, StartCommitManifest,
       StartAck, StartIOError, AppendCopy, AppendWriteManifest, AppendReject, AppendCommitManifest,
       AppendAck, AppendIOError, AppendUndo, DropUnlink, DropRemoveDir, DropIOError
  <2> QED BY <2>1, <2>2
<1>3. CASE CompleteStep
  BY <1>3 DEF CompleteStep, CompleteWriteManifest, CompleteCommitManifest, CompleteWriteSession,
     CompleteCommitSession, CompleteAck, CompleteIOError, CompleteUndo, CompleteUndoManifest
<1>4. CASE SweepStep
  BY <1>4 DEF SweepStep, SweepUnlink, SweepRemoveDir, SweepDone, SweepIOError, SweepSkip, SweepEntry
<1>5. CASE RecoverStep
  BY <1>5 DEF RecoverStep, RecoverScanned, RecoverDone, RecoverIOError, RecoverPartial,
     RecoverManifestTmp, RecoverUploadTmp, RecoverSession
<1>6. CASE FileStart
  BY <1>6 DEF FileStart, UsageLoad, PurgeTrash, Put, Delete, Restore, Serving
<1>7. CASE UploadStart
  BY <1>7 DEF UploadStart, SweepUploads, StartUpload, AbortUpload, AppendUpload, CompleteUpload
<1>8. CASE (\E u \in UploadIds : Age(u)) \/ Restart \/ Crash \/ UNCHANGED vars
  BY <1>8 DEF Age, Restart, vars
<1> QED BY <1>1, <1>2, <1>3, <1>4, <1>5, <1>6, <1>7, <1>8 DEF Next, Progress

\* All that is known of the store, as one invariant.
StoreInv ==
  /\ TypeInv /\ FilesInv /\ ProcInv /\ SessionInv /\ TmpInv
  /\ faults <= 1 => LifecycleInv
  /\ QuietInv

LEMMA InitStore == Init => StoreInv
<1>1. Init => TypeInv /\ FilesInv /\ ProcInv /\ SessionInv /\ TmpInv /\ LifecycleInv
  BY InitTypes, InitFiles, InitSessions, InitTmp, InitLifecycle
<1>2. Init => QuietInv
  BY IdleOperation DEF Init, NoTrash, NoSession, QuietInv, QuietFiles, QuietSessions, QuietMove,
     FileReady, SessionReady
<1> QED BY <1>1, <1>2 DEF StoreInv

LEMMA NextStore == StoreInv /\ [Next]_vars => StoreInv'
<1> SUFFICES ASSUME StoreInv, [Next]_vars PROVE StoreInv'
  OBVIOUS
<1>a. TypeInv /\ FilesInv /\ ProcInv /\ SessionInv /\ TmpInv
  BY DEF StoreInv
<1>1. (TypeInv /\ FilesInv /\ ProcInv /\ SessionInv /\ TmpInv)'
  BY <1>a, NextTypes, NextFiles, NextProc, NextSessions, NextTmp
<1>2. faults' <= 1 => LifecycleInv'
  BY <1>a, NextLifecycle DEF StoreInv
<1>3. QuietInv'
  <2> SUFFICES ASSUME Quiet'
               PROVE  QuietFiles' /\ QuietSessions' /\ QuietMove' /\ index' # "failed"
    BY DEF QuietInv
  <2>1. Quiet /\ ~IOError /\ ~Crash
    BY <1>a, QuietBefore
  <2>2. faults = 0 /\ QuietFiles /\ QuietSessions /\ QuietMove /\ index # "failed" /\ LifecycleInv
    BY <2>1 DEF StoreInv, QuietInv, Quiet
  <2>3. QuietFiles' /\ QuietMove'
    BY <1>a, <2>1, <2>2, QuietFileSteps
  <2>4. QuietSessions'
    BY <1>a, <2>1, <2>2, QuietSessionSteps
  <2>5. index' # "failed"
    BY <1>a, <2>1, <2>2, IndexSteps, QuietRebuild, IdleOperation DEF EnsureUsage, Serving
  <2> QED BY <2>3, <2>4, <2>5
<1> QED BY <1>1, <1>2, <1>3 DEF StoreInv

LEMMA StoreReady == StoreInv => QuietStoreReady
<1> SUFFICES ASSUME StoreInv, proc = "running", op = Idle, Quiet
             PROVE  ReadyOK /\ index # "failed"
  BY DEF QuietStoreReady, Quiet
<1>1. partials = {} /\ manifestTmps = {}
  BY IdleOperation DEF StoreInv, Quiet, TmpInv, Clean, PartialsOwn, ManifestTmpsOwn, ManifestRenames
<1>2. \A id \in FileIds : FileReady(id)
  BY IdleOperation DEF StoreInv, QuietInv, QuietFiles, HalfFile
<1>3. \A u \in UploadIds : SessionReady(u)
  BY IdleOperation DEF StoreInv, QuietInv, QuietSessions, OwnPlaces, AppendPlaces, StartPlaces, CompletePlaces
<1> QED BY <1>1, <1>2, <1>3 DEF ReadyOK, FileReady, SessionReady, StoreInv, QuietInv

\* Without a kill and without a failed system call, every operation (Put, Delete, Restore,
\* PurgeTrash, the session operations, refused or given up by their clients) leaves the
\* directories consistent with each other: Ready (store.go:1233-1330) finds nothing to
\* object to, and the usage index could be loaded.
THEOREM QuietStoreIsReady == Spec => []QuietStoreReady
<1>1. Spec => []StoreInv
  BY InitStore, NextStore, PTL DEF Spec
<1> QED BY <1>1, StoreReady, PTL

-----------------------------------------------------------------------------
(* Why a 200 means that the usage index admits writes: what made its rescan fail is *)
(* a trash entry or a session that no operation touches again, and Ready finds it.  *)

EntryBroken(id) == trash[id].dir /\ ~TrashOK(id) /\ ~(op.pc \in MovePlaces /\ op.file = id)

SessionBroken(u) ==
  /\ uploads[u].dir /\ ~UploadOK(u)
  /\ ~(op.pc \in OwnPlaces /\ op.session = u) /\ ~(op.pc = "sweepDrop" /\ op.victim = u)

IndexInv ==
  /\ index # "unloaded" => proc = "running"
  /\ index = "failed" /\ faults = 0 =>
       (\E id \in FileIds : EntryBroken(id)) \/ (\E u \in UploadIds : SessionBroken(u))

\* Delete wants no entry, Restore and PurgeTrash a readable one.
LEMMA BrokenEntryStays ==
  ASSUME TypeInv, CreateInv, [Next]_vars, NEW id \in FileIds, EntryBroken(id)
  PROVE  EntryBroken(id)'
<1> USE DEF At, Frame, Sessions, fileVars, diskVars
<1>a. op \in Operation /\ OpOK /\ trash \in [FileIds -> TrashItem]
  BY DEF TypeInv, TypeOK
\* It is enough that the entry stays and that the operation does not turn to it.
<1>b. ASSUME trash'[id] = trash[id], op'.pc \in MovePlaces => op'.file # id
      PROVE  EntryBroken(id)'
  BY <1>b DEF EntryBroken, TrashOK
<1>1. CASE PutStep
  <2>1. /\ op'.pc \in {"idle", "putTmp", "putRename", "putSync", "putUndoManifest", "putUndo"}
        /\ UNCHANGED trash
    BY <1>1, <1>a, GotoKeepsOperation, ReturnKeepsOperation, PlaceNames
       DEF PutStep, PutAbandon, PutCommitObject, PutWriteManifest, PutCommitManifest, PutAck,
           PutIOError, PutUndoManifest, PutUndo
  <2> QED BY <1>b, <2>1 DEF MovePlaces
<1>2. CASE DeleteStep
  <2>1. op.pc \in MovePlaces
    BY <1>2 DEF DeleteStep, DeleteMoveObject, DeleteMoveFails, DeleteMoveManifest, DeleteWriteMark,
       DeleteCommitMark, DeleteReturn, DeleteIOError, UndoDeleteObject, UndoDeleteManifest,
       UndoDeleteDir, MovePlaces
  <2>2. op'.pc = "idle" \/ op'.file = op.file
    BY <1>2, <1>a, GotoKeepsOperation, ReturnKeepsOperation, PlaceNames
       DEF DeleteStep, DeleteMoveObject, DeleteMoveFails, DeleteMoveManifest, DeleteWriteMark,
           DeleteCommitMark, DeleteReturn, DeleteIOError, UndoDeleteObject, UndoDeleteManifest, UndoDeleteDir
  <2>3. op.file # id
    BY <2>1 DEF EntryBroken
  <2>4. trash'[id] = trash[id]
    BY <1>2, <1>a, <2>3 DEF DeleteStep, DeleteMoveObject, DeleteMoveFails, DeleteMoveManifest,
       DeleteWriteMark, DeleteCommitMark, DeleteReturn, DeleteIOError, UndoDeleteObject,
       UndoDeleteManifest, UndoDeleteDir
  <2> QED BY <1>b, <2>2, <2>3, <2>4 DEF MovePlaces
<1>3. CASE RestoreStep
  <2>1. op.pc \in MovePlaces
    BY <1>3 DEF RestoreStep, RestoreCommitMark, RestoreMoveObject, RestoreMoveManifest,
       RestoreRemoveDir, RestoreReturn, RestoreEarlyIOError, RestoreIOError, RestoreUndo, MovePlaces
  <2>2. op'.pc = "idle" \/ op'.file = op.file
    BY <1>3, <1>a, GotoKeepsOperation, ReturnKeepsOperation, PlaceNames
       DEF RestoreStep, RestoreCommitMark, RestoreMoveObject, RestoreMoveManifest,
           RestoreRemoveDir, RestoreReturn, RestoreEarlyIOError, RestoreIOError, RestoreUndo
  <2>3. op.file # id
    BY <2>1 DEF EntryBroken
  <2>4. trash'[id] = trash[id]
    BY <1>3, <1>a, <2>3 DEF RestoreStep, RestoreCommitMark, RestoreMoveObject, RestoreMoveManifest,
       RestoreRemoveDir, RestoreReturn, RestoreEarlyIOError, RestoreIOError, RestoreUndo
  <2> QED BY <1>b, <2>2, <2>3, <2>4 DEF MovePlaces
<1>4. CASE PurgeStep
  <2>1. CASE PurgeStops \/ PurgeIOError \/ PurgeReturn
    <3>1. op'.pc = "idle"
      BY <2>1, ReturnKeepsOperation DEF PurgeStops, PurgeIOError, PurgeReturn
    <3> QED BY <1>b, <2>1, <3>1 DEF PurgeStops, PurgeIOError, PurgeReturn, MovePlaces
  <2>2. CASE PurgeUnlink \/ PurgeRemoveDir
    <3>1. op.file # id
      BY <2>2 DEF PurgeUnlink, PurgeRemoveDir, EntryBroken, MovePlaces
    <3>2. op'.pc = "purge" \/ op'.file = op.file
      BY <2>2, <1>a DEF PurgeUnlink, PurgeRemoveDir, Operation
    <3> QED BY <1>a, <1>b, <2>2, <3>1, <3>2 DEF PurgeUnlink, PurgeRemoveDir, MovePlaces
  <2>3. ASSUME NEW i \in FileIds, PurgeKeeps(i) PROVE EntryBroken(id)'
    <3>1. op'.pc = "purge"
      BY <2>3, <1>a DEF PurgeKeeps, Operation
    <3> QED BY <1>b, <2>3, <3>1 DEF PurgeKeeps, MovePlaces
  <2>4. ASSUME NEW i \in FileIds, PurgeEntry(i) PROVE EntryBroken(id)'
    <3>1. op'.file = i /\ i # id
      BY <2>4, <1>a DEF PurgeEntry, Operation, EntryBroken
    <3> QED BY <1>b, <2>4, <3>1 DEF PurgeEntry
  <2> QED BY <2>1, <2>2, <2>3, <2>4, <1>4 DEF PurgeStep
<1>5. CASE CompleteStep
  <2>1. op'.pc \in CompletePlaces \cup {"idle"} /\ UNCHANGED trash
    BY <1>5, <1>a, GotoKeepsOperation, ReturnKeepsOperation, PlaceNames
       DEF CompleteStep, CompleteWriteManifest, CompleteCommitManifest, CompleteWriteSession,
           CompleteCommitSession, CompleteAck, CompleteIOError, CompleteUndo, CompleteUndoManifest, CompletePlaces
  <2> QED BY <1>b, <2>1 DEF MovePlaces, CompletePlaces
<1>6. CASE FileStart
  <2>1. CASE UsageLoad
    BY <1>b, <2>1, IdleOperation DEF UsageLoad, Serving, MovePlaces
  <2>2. CASE PurgeTrash \/ \E i \in FileIds : Put(i)
    <3>1. op'.pc \in {"purge", "putBody"}
      BY <2>2 DEF PurgeTrash, Put, Idle
    <3> QED BY <1>b, <2>2, <3>1 DEF PurgeTrash, Put, MovePlaces
  <2>3. ASSUME NEW i \in FileIds, Delete(i) \/ Restore(i) PROVE EntryBroken(id)'
    <3>1. i # id /\ op'.file = i
      BY <2>3 DEF Delete, Restore, EntryBroken, Idle
    <3> QED BY <1>a, <1>b, <2>3, <3>1 DEF Delete, Restore
  <2> QED BY <2>1, <2>2, <2>3, <1>6 DEF FileStart
<1>7. CASE UploadStart
  <2>1. UNCHANGED trash
    BY <1>7 DEF UploadStart, SweepUploads, StartUpload, AbortUpload, AppendUpload, CompleteUpload
  <2>2. op'.pc \in {"sweep", "startDir", "drop", "appBody", "cmpTmp"}
    BY <1>7 DEF UploadStart, SweepUploads, StartUpload, AbortUpload, AppendUpload, CompleteUpload, Idle
  <2> QED BY <1>b, <2>1, <2>2 DEF MovePlaces
<1>8. CASE SweepStep \/ SessionStep \/ RecoverStep \/ (\E u \in UploadIds : Age(u)) \/ Restart \/ Crash
  BY <1>b, <1>8, BesideFiles
<1>9. CASE UNCHANGED vars
  BY <1>9 DEF vars, EntryBroken, TrashOK
<1> QED BY <1>1, <1>2, <1>3, <1>4, <1>5, <1>6, <1>7, <1>8, <1>9 DEF Next, Progress

\* Append, Complete and Abort want a readable session, and so does the sweep.
LEMMA BrokenSessionStays ==
  ASSUME TypeInv, ProcInv, SessionInv, proc = "running", [Next]_vars, NEW u \in UploadIds, SessionBroken(u)
  PROVE  SessionBroken(u)'
<1> USE DEF At, Frame, Sessions, fileVars, diskVars
<1>a. op \in Operation /\ OpOK /\ uploads \in [UploadIds -> Session] /\ SessionInv
  BY DEF TypeInv, TypeOK
<1>b. ASSUME uploads'[u] = uploads[u], op'.pc \in OwnPlaces => op'.session # u,
             op'.pc = "sweepDrop" => op'.victim # u
      PROVE  SessionBroken(u)'
  BY <1>b DEF SessionBroken, UploadOK
<1>c. op'.pc \in FilePlaces \cup {"idle", "sweep", "startDir"} \cup RecoverPlaces
        => op'.pc \notin OwnPlaces /\ op'.pc # "sweepDrop"
  BY DEF FilePlaces, RecoverPlaces, OwnPlaces, AppendPlaces, StartPlaces, CompletePlaces
<1>1. CASE PutStep \/ DeleteStep \/ RestoreStep \/ PurgeStep
  BY <1>b, <1>c, <1>1, FileStepPlaces
<1>2. CASE FileStart
  <2>1. op'.pc \in FilePlaces \cup {"idle"} /\ UNCHANGED uploads
    BY <1>2, IdleOperation DEF FileStart, UsageLoad, PurgeTrash, Put, Delete, Restore, Serving, FilePlaces, Idle
  <2> QED BY <1>b, <1>c, <2>1
<1>3. CASE UploadStart
  <2>1. CASE SweepUploads \/ \E v \in UploadIds : StartUpload(v)
    <3>1. op'.pc \in {"sweep", "startDir"} /\ UNCHANGED uploads
      BY <2>1 DEF SweepUploads, StartUpload, Idle
    <3> QED BY <1>b, <1>c, <3>1
  <2>2. ASSUME NEW v \in UploadIds,
               AbortUpload(v) \/ (\E n \in 1 .. UploadSize : AppendUpload(v, n))
                 \/ (\E id \in FileIds : CompleteUpload(v, id))
        PROVE  SessionBroken(u)'
    <3>1. v # u
      BY <2>2 DEF AbortUpload, AppendUpload, CompleteUpload, SessionBroken
    <3>2. op'.session = v /\ op'.pc \in {"drop", "appBody", "cmpTmp"}
      BY <2>2 DEF AbortUpload, AppendUpload, CompleteUpload, Idle
    <3>3. uploads'[u] = uploads[u]
      BY <1>a, <2>2, <3>1 DEF AbortUpload, AppendUpload, CompleteUpload
    <3> QED BY <1>b, <3>1, <3>2, <3>3
  <2> QED BY <2>1, <2>2, <1>3 DEF UploadStart
<1>4. CASE SessionStep \/ CompleteStep
  <2>1. op.session # u /\ op.pc # "sweepDrop"
    <3>1. op.pc \in OwnPlaces \cup {"startDir"}
      BY <1>4, SessionStepPlaces
    <3>2. op.pc = "startDir" => op.session # u
      BY <1>a, ConstantsAssumption DEF OpOK, SessionPlaces, SessionInv, StartInv, Mine, NoSession, SessionBroken, AppendPlaces
    <3> QED BY <3>1, <3>2 DEF SessionBroken, OwnPlaces, AppendPlaces, StartPlaces, CompletePlaces
  <2>2. uploads'[u] = uploads[u]
    <3>1. CASE SessionStep
      BY <1>a, <2>1, <3>1 DEF SessionStep, StartCreateDir, StartRefused, StartCreatePart,
         StartWriteManifest, StartCommitManifest, StartAck, StartIOError, AppendCopy,
         AppendWriteManifest, AppendReject, AppendCommitManifest, AppendAck, AppendIOError,
         AppendUndo, DropUnlink, DropRemoveDir, DropIOError, UnlinkFrom
    <3>2. CASE CompleteStep
      BY <1>a, <2>1, <3>2 DEF CompleteStep, CompleteWriteManifest, CompleteCommitManifest,
         CompleteWriteSession, CompleteCommitSession, CompleteAck, CompleteIOError, CompleteUndo, CompleteUndoManifest
    <3> QED BY <1>4, <3>1, <3>2
  <2>3. op'.pc # "sweepDrop" /\ (op'.pc = "idle" \/ op'.session = op.session)
    <3>1. CASE SessionStep
      BY <1>a, <3>1, GotoKeepsOperation, ReturnKeepsOperation, PlaceNames, SessionStepPlaces
         DEF SessionStep, StartCreateDir, StartRefused, StartCreatePart,
         StartWriteManifest, StartCommitManifest, StartAck, StartIOError, AppendCopy,
         AppendWriteManifest, AppendReject, AppendCommitManifest, AppendAck, AppendIOError,
         AppendUndo, DropUnlink, DropRemoveDir, DropIOError
    <3>2. CASE CompleteStep
      BY <1>a, <3>2, GotoKeepsOperation, ReturnKeepsOperation, PlaceNames
         DEF CompleteStep, CompleteWriteManifest, CompleteCommitManifest,
         CompleteWriteSession, CompleteCommitSession, CompleteAck, CompleteIOError, CompleteUndo, CompleteUndoManifest
    <3> QED BY <1>4, <3>1, <3>2
  <2> QED BY <1>b, <1>c, <2>1, <2>2, <2>3
<1>5. CASE SweepStep
  <2>1. CASE SweepUnlink \/ SweepRemoveDir
    <3>1. op.victim # u
      BY <2>1 DEF SweepUnlink, SweepRemoveDir, SessionBroken
    <3>2. op'.pc = "sweep" \/ op' = op
      BY <1>a, <2>1 DEF SweepUnlink, SweepRemoveDir, Operation
    <3>3. uploads'[u] = uploads[u]
      BY <1>a, <2>1, <3>1 DEF SweepUnlink, SweepRemoveDir, UnlinkFrom
    <3>4. op.pc \notin OwnPlaces
      BY <2>1 DEF SweepUnlink, SweepRemoveDir, OwnPlaces, AppendPlaces, StartPlaces, CompletePlaces
    <3> QED BY <1>b, <1>c, <3>1, <3>2, <3>3, <3>4
  <2>2. CASE SweepDone \/ SweepIOError
    <3>1. op'.pc \in {"rebuild", "startDir", "idle"} /\ UNCHANGED uploads
      BY <1>a, <2>2, GotoKeepsOperation, ReturnKeepsOperation, PlaceNames DEF SweepDone, SweepIOError
    <3> QED BY <1>b, <1>c, <3>1 DEF RecoverPlaces
  <2>3. ASSUME NEW v \in UploadIds, SweepSkip(v) PROVE SessionBroken(u)'
    <3>1. op'.pc = "sweep" /\ UNCHANGED uploads
      BY <1>a, <2>3 DEF SweepSkip, Operation
    <3> QED BY <1>b, <1>c, <3>1
  <2>4. ASSUME NEW v \in UploadIds, SweepEntry(v) PROVE SessionBroken(u)'
    <3>1. op'.pc = "sweepDrop" /\ op'.victim = v /\ v # u /\ UNCHANGED uploads
      BY <1>a, <2>4 DEF SweepEntry, Operation, Expired, SessionBroken
    <3> QED BY <1>b, <3>1 DEF OwnPlaces, AppendPlaces, StartPlaces, CompletePlaces
  <2> QED BY <2>1, <2>2, <2>3, <2>4, <1>5 DEF SweepStep
<1>6. ASSUME NEW v \in UploadIds, Age(v) PROVE SessionBroken(u)'
  <2>1. op' = op /\ op.pc = "idle"
    BY <1>6, IdleOperation DEF Age
  <2>2. /\ uploads'[u].dir = uploads[u].dir /\ uploads'[u].status = uploads[u].status
        /\ uploads'[u].part = uploads[u].part /\ uploads'[u].received = uploads[u].received
    BY <1>6, <1>a DEF Age, Session
  <2> QED BY <1>c, <2>1, <2>2 DEF SessionBroken, UploadOK
<1>7. CASE Crash
  BY <1>7, <1>b, <1>c, IdleOperation DEF Crash
<1>8. ~RecoverStep /\ ~Restart
  BY DEF RecoverStep, RecoverScanned, RecoverDone, RecoverIOError, RecoverPartial, RecoverManifestTmp,
     RecoverUploadTmp, RecoverSession, Restart, ProcInv, RecoverPlaces
<1>9. CASE UNCHANGED vars
  BY <1>9 DEF vars, SessionBroken, UploadOK
<1> QED BY <1>1, <1>2, <1>3, <1>4, <1>5, <1>6, <1>7, <1>8, <1>9 DEF Next, Progress

\* Nothing but a kill, or the end of Recover, takes the process away.
LEMMA RunningStays ==
  ASSUME TypeInv, ProcInv, [Next]_vars, ~Crash, proc = "running"
  PROVE  proc' = "running"
<1> USE DEF At, Frame, Sessions, fileVars, diskVars, procVars
<1>1. CASE PutStep \/ DeleteStep \/ RestoreStep \/ PurgeStep
  BY <1>1, FileStepPlaces
<1>2. CASE SessionStep \/ CompleteStep
  BY <1>2, SessionStepPlaces
<1>3. CASE SweepStep
  BY <1>3 DEF SweepStep, SweepUnlink, SweepRemoveDir, SweepDone, SweepIOError, SweepSkip, SweepEntry
<1>4. CASE FileStart
  BY <1>4 DEF FileStart, UsageLoad, PurgeTrash, Put, Delete, Restore
<1>5. CASE UploadStart
  BY <1>5 DEF UploadStart, SweepUploads, StartUpload, AbortUpload, AppendUpload, CompleteUpload
<1>6. CASE (\E u \in UploadIds : Age(u)) \/ UNCHANGED vars
  BY <1>6 DEF Age, vars
<1>7. ~RecoverStep /\ ~Restart
  BY DEF RecoverStep, RecoverScanned, RecoverDone, RecoverIOError, RecoverPartial, RecoverManifestTmp,
     RecoverUploadTmp, RecoverSession, Restart, ProcInv, RecoverPlaces, Quarantines
<1> QED BY <1>1, <1>2, <1>3, <1>4, <1>5, <1>6, <1>7 DEF Next, Progress

LEMMA NextIndex == StoreInv /\ IndexInv /\ [Next]_vars => IndexInv'
<1> SUFFICES ASSUME StoreInv, IndexInv, [Next]_vars PROVE IndexInv'
  OBVIOUS
<1> DEFINE Broken == (\E id \in FileIds : EntryBroken(id)) \/ (\E u \in UploadIds : SessionBroken(u))
<1>a. TypeInv /\ CreateInv /\ ProcInv /\ SessionInv
  BY DEF StoreInv, FilesInv
<1>1. CASE Crash
  BY <1>1 DEF Crash, IndexInv
<1>2. CASE ~Crash /\ UNCHANGED index
  <2>1. index' # "unloaded" => proc' = "running"
    BY <1>a, <1>2, RunningStays DEF IndexInv
  <2>2. ASSUME index' = "failed", faults' = 0
        PROVE  Broken'
    <3>1. index = "failed" /\ faults = 0 /\ proc = "running"
      BY <1>a, <1>2, <2>2, NextFaults DEF IndexInv
    <3>2. CASE \E id \in FileIds : EntryBroken(id)
      BY <1>a, <3>2, BrokenEntryStays
    <3>3. CASE \E u \in UploadIds : SessionBroken(u)
      BY <1>a, <3>1, <3>3, BrokenSessionStays
    <3> QED BY <3>1, <3>2, <3>3 DEF IndexInv
  <2> QED BY <2>1, <2>2 DEF IndexInv
<1>3. CASE ~Crash /\ ~UNCHANGED index
  <2>1. Serving \/ op.pc = "startDir"
    BY <1>3, <1>a, IndexSteps
  <2>2. proc' = "running"
    BY <1>3, <1>a, <2>1, OperationServes, RunningStays DEF Serving, SweepPlaces, RecoverPlaces
  <2>3. CASE index' = "loaded"
    BY <2>2, <2>3 DEF IndexInv
  <2>4. CASE index' # "loaded"
    <3>1. ~RebuildOK /\ UNCHANGED <<fileVars, uploads>> /\ op' \in {op, Idle}
      BY <1>3, <1>a, <2>4, IndexSteps DEF EnsureUsage
    <3>2. op'.pc \in {"idle", "startDir"}
      BY <2>1, <3>1, IdleOperation DEF Serving
    <3>3. Broken'
      BY <3>1, <3>2 DEF RebuildOK, EntryBroken, SessionBroken, TrashOK, UploadOK, fileVars, MovePlaces,
         OwnPlaces, AppendPlaces, StartPlaces, CompletePlaces
    <3> QED BY <2>2, <3>3 DEF IndexInv
  <2> QED BY <2>3, <2>4
<1> QED BY <1>1, <1>2, <1>3

-----------------------------------------------------------------------------
(* The probes. *)

\* A probe holds s.mu for reading, so no operation runs; what a probe leaves behind comes
\* of a kill or of a failed system call; and two probes know of each other.
ProbeInv ==
  /\ probe \in [Probes -> {"none", "file", "look"}]
  /\ crowded \in [Probes -> BOOLEAN]
  /\ Probing # {} => Serving
  /\ leftovers => faults > 0 \/ crashes > 0
  /\ \A p \in Probing : ~crowded[p] => Probing = {p}

\* A probe changes nothing of the store, but a system call of it may fail.
LEMMA ProbesKeepStore ==
  ASSUME StoreInv, IndexInv, Serving, Looks, UNCHANGED faults \/ IOError
  PROVE  StoreInv' /\ IndexInv'
<1> USE DEF Looks, diskVars, fileVars, procVars, ghostVars
<1>1. CASE UNCHANGED faults
  BY <1>1, NextStore, NextIndex DEF vars
<1>2. CASE IOError
  <2>a. op = Idle /\ op' = Idle /\ op'.pc = "idle" /\ proc = "running"
    BY IdleOperation DEF Serving
  <2>b. TypeInv /\ FilesInv /\ SessionInv /\ faults \in Nat /\ crashes \in Nat
    BY ConstantsAssumption DEF StoreInv, TypeInv, TypeOK
  <2>c. faults' \in 1 .. MaxFaults /\ faults' >= faults
    BY <1>2, <2>b, ConstantsAssumption DEF IOError
  <2>1. TypeInv'
    BY <2>b, <2>c DEF TypeInv, TypeOK, OpOK
  <2>2. FilesInv'
    BY <2>a, <2>b, <2>c, FilesFrame DEF CreatePlaces, MovePlaces
  <2>3. SessionInv'
    BY <2>a, <2>b, <2>c, SessionFrame DEF OwnPlaces, AppendPlaces, StartPlaces, CompletePlaces, SweepPlaces
  <2>4. ProcInv'
    BY DEF StoreInv, ProcInv
  <2>5. TmpInv' /\ QuietInv'
    BY <2>c DEF TmpInv, Clean, QuietInv, Quiet
  <2>6. LifecycleInv'
    BY <2>a DEF LifecycleInv, CreatesManifest, HasManifest, HasTrashManifest, NoTrashManifest
  <2>7. IndexInv'
    BY <2>c DEF IndexInv
  <2> QED BY <2>1, <2>2, <2>3, <2>4, <2>5, <2>6, <2>7 DEF StoreInv
<1> QED BY <1>1, <1>2

\* What a probe's step does to the probes.
LEMMA ProbeSteps ==
  ASSUME ProbeInv, NEW p \in Probes, ProbeStep(p)
  PROVE  Serving /\ Looks /\ (UNCHANGED faults \/ IOError)
BY DEF ProbeStep, ProbeCreate, ProbeCannotCreate, ProbeWorks, ProbeRemove, ProbeCannotRemove,
   ProbeCannotLook, ProbeLook, ProbeInv, Probing

\* Every step of the operation in progress has one.
LEMMA ProgressBusy ==
  ASSUME TypeInv, Progress
  PROVE  op.pc # "idle"
<1> USE DEF At
<1>1. CASE PutStep \/ DeleteStep \/ RestoreStep \/ PurgeStep
  BY <1>1, FileStepPlaces DEF FilePlaces
<1>2. CASE SessionStep \/ CompleteStep
  BY <1>2, SessionStepPlaces DEF OwnPlaces, AppendPlaces, StartPlaces, CompletePlaces
<1>3. CASE SweepStep
  BY <1>3 DEF SweepStep, SweepUnlink, SweepRemoveDir, SweepDone, SweepIOError, SweepSkip, SweepEntry
<1>4. CASE RecoverStep
  BY <1>4 DEF RecoverStep, RecoverScanned, RecoverDone, RecoverIOError, RecoverPartial,
     RecoverManifestTmp, RecoverUploadTmp, RecoverSession
<1> QED BY <1>1, <1>2, <1>3, <1>4 DEF Progress

LEMMA NextCrashes ==
  ASSUME TypeInv, [Next]_vars
  PROVE  UNCHANGED crashes \/ Crash
<1> USE DEF At, Frame, Sessions, Quarantines, fileVars, diskVars, ghostVars, procVars
<1>1. CASE PutStep \/ DeleteStep \/ RestoreStep \/ PurgeStep
  BY <1>1, FileStepPlaces
<1>2. CASE SessionStep \/ CompleteStep
  BY <1>2, SessionStepPlaces
<1>3. CASE SweepStep
  BY <1>3 DEF SweepStep, SweepUnlink, SweepRemoveDir, SweepDone, SweepIOError, SweepSkip, SweepEntry
<1>4. CASE RecoverStep
  BY <1>4 DEF RecoverStep, RecoverScanned, RecoverDone, RecoverIOError, RecoverPartial,
     RecoverManifestTmp, RecoverUploadTmp, RecoverSession
<1>5. CASE FileStart
  BY <1>5 DEF FileStart, UsageLoad, PurgeTrash, Put, Delete, Restore
<1>6. CASE UploadStart
  BY <1>6 DEF UploadStart, SweepUploads, StartUpload, AbortUpload, AppendUpload, CompleteUpload
<1>7. CASE (\E u \in UploadIds : Age(u)) \/ Restart \/ UNCHANGED vars
  BY <1>7 DEF Age, Restart, vars
<1> QED BY <1>1, <1>2, <1>3, <1>4, <1>5, <1>6, <1>7 DEF Next, Progress

LEMMA InitProbes == ReadinessInit => StoreInv /\ IndexInv /\ ProbeInv
<1> SUFFICES ASSUME ReadinessInit PROVE StoreInv /\ IndexInv /\ ProbeInv
  OBVIOUS
<1>1. StoreInv
  BY InitStore DEF ReadinessInit
<1>2. IndexInv
  BY DEF ReadinessInit, Init, IndexInv
<1>3. ProbeInv
  BY DEF ReadinessInit, ProbeInv, Probing
<1> QED BY <1>1, <1>2, <1>3

\* Beside a probe the store only ages.
LEMMA StoreKeepsProbes ==
  ASSUME StoreInv, ProbeInv, StoreBesideProbes
  PROVE  ProbeInv'
<1>a. [Next]_vars /\ UNCHANGED probeVars
  BY DEF StoreBesideProbes, Next
<1>b. TypeInv /\ faults \in Nat /\ crashes \in Nat
  BY ConstantsAssumption DEF StoreInv, TypeInv, TypeOK
<1>c. UNCHANGED <<probe, crowded, leftovers, Probing>>
  BY <1>a DEF probeVars, Probing
<1>1. Probing # {} => Serving'
  <2>1. ASSUME Probing # {}, ~UNCHANGED <<proc, op>> PROVE FALSE
    <3>1. Serving
      BY <2>1 DEF ProbeInv
    <3>2. ~Progress /\ ~Restart
      BY <1>b, <3>1, ProgressBusy, IdleOperation DEF Serving, Restart
    <3>3. PICK u \in UploadIds : Age(u)
      BY <2>1, <3>2 DEF StoreBesideProbes
    <3> QED BY <2>1, <3>3 DEF Age, Sessions, procVars
  <2> QED BY <2>1 DEF ProbeInv, Serving
<1>2. faults > 0 \/ crashes > 0 => faults' > 0 \/ crashes' > 0
  <2>1. faults' \in Nat /\ faults <= faults'
    BY <1>a, <1>b, NextFaults
  <2>2. crashes' = crashes \/ crashes' = crashes + 1
    BY <1>a, <1>b, NextCrashes DEF Crash
  <2> QED BY <1>b, <2>1, <2>2
<1>3. leftovers' => faults' > 0 \/ crashes' > 0
  BY <1>2, <1>c DEF ProbeInv
<1>4. /\ probe' \in [Probes -> {"none", "file", "look"}] /\ crowded' \in [Probes -> BOOLEAN]
      /\ \A p \in Probing' : ~crowded'[p] => Probing' = {p}
  BY <1>c DEF ProbeInv
<1> QED BY <1>1, <1>3, <1>4, <1>c DEF ProbeInv

LEMMA ProbeKeepsProbes ==
  ASSUME StoreInv, ProbeInv, NEW p \in Probes, ProbeStep(p)
  PROVE  ProbeInv'
<1>a. Serving /\ UNCHANGED crashes /\ Serving'
  BY ProbeSteps DEF Looks, procVars, Serving
<1>b. faults \in Nat /\ crashes \in Nat
  BY ConstantsAssumption DEF StoreInv, TypeInv, TypeOK
<1>c. faults > 0 \/ crashes > 0 => faults' > 0 \/ crashes' > 0
  BY <1>a, <1>b, ProbeSteps DEF IOError
<1>1. CASE ProbeCreate(p)
  <2>1. /\ probe' \in [Probes -> {"none", "file", "look"}]
        /\ crowded' \in [Probes -> BOOLEAN]
    BY <1>1 DEF ProbeCreate, Goes, ProbeInv
  <2>2. Probing' = Probing \cup {p}
    BY <1>1 DEF ProbeCreate, Goes, ProbeInv, Probing
  <2>3. \A q \in Probing' : ~crowded'[q] => Probing' = {q}
    BY <1>1, <2>2 DEF ProbeCreate, ProbeInv, Probing
  <2> QED BY <1>1, <1>a, <1>c, <2>1, <2>3 DEF ProbeCreate, ProbeInv
<1>2. CASE ProbeCannotCreate(p)
  BY <1>2, <1>a, <1>c DEF ProbeCannotCreate, probeVars, ProbeInv, Probing
<1>3. CASE ProbeRemove(p)
  <2>1. probe' \in [Probes -> {"none", "file", "look"}] /\ Probing' = Probing
    BY <1>3 DEF ProbeRemove, Goes, ProbeInv, Probing
  <2> QED BY <1>3, <1>a, <1>c, <2>1 DEF ProbeRemove, ProbeInv
<1>4. CASE ProbeCannotRemove(p) \/ ProbeCannotLook(p) \/ \E ready \in BOOLEAN : ProbeLook(p, ready)
  <2>1. Returns(p) /\ leftovers' \in {leftovers, TRUE} /\ (leftovers' = leftovers \/ IOError)
    BY <1>4 DEF ProbeCannotRemove, ProbeCannotLook, ProbeLook
  <2>2. /\ probe' \in [Probes -> {"none", "file", "look"}]
        /\ crowded' \in [Probes -> BOOLEAN]
        /\ Probing' = Probing \ {p}
    BY <2>1 DEF Returns, Goes, ProbeInv, Probing
  <2>3. \A q \in Probing' : ~crowded'[q] => Probing' = {q}
    BY <2>1, <2>2 DEF Returns, ProbeInv
  <2>4. leftovers' => faults' > 0 \/ crashes' > 0
    <3>1. CASE leftovers' = leftovers
      BY <1>c, <3>1 DEF ProbeInv
    <3>2. CASE IOError
      <4>1. faults' > 0
        BY <1>b, <3>2 DEF IOError
      <4> QED BY <4>1
    <3> QED BY <2>1, <3>1, <3>2
  <2> QED BY <1>a, <2>2, <2>3, <2>4 DEF ProbeInv
<1> QED BY <1>1, <1>2, <1>3, <1>4 DEF ProbeStep, ProbeWorks

LEMMA NextProbes ==
  StoreInv /\ IndexInv /\ ProbeInv /\ [ReadinessNext]_allVars => (StoreInv /\ IndexInv /\ ProbeInv)'
<1> SUFFICES ASSUME StoreInv, IndexInv, ProbeInv, [ReadinessNext]_allVars
             PROVE  (StoreInv /\ IndexInv /\ ProbeInv)'
  OBVIOUS
<1>1. CASE StoreBesideProbes
  <2>1. Next
    BY <1>1 DEF StoreBesideProbes, Next
  <2> QED BY <1>1, <2>1, NextStore, NextIndex, StoreKeepsProbes
<1>2. CASE CrashWithProbes
  <2>1. Next /\ crashes' = crashes + 1 /\ crashes \in Nat
    BY <1>2, ConstantsAssumption DEF CrashWithProbes, Next, Crash, StoreInv, TypeInv, TypeOK
  <2>2. ProbeInv'
    BY <1>2, <2>1 DEF CrashWithProbes, ProbeInv, Probing
  <2> QED BY <2>1, <2>2, NextStore, NextIndex
<1>3. ASSUME NEW p \in Probes, ProbeStep(p) PROVE (StoreInv /\ IndexInv /\ ProbeInv)'
  BY <1>3, ProbeSteps, ProbesKeepStore, ProbeKeepsProbes
<1>4. CASE UNCHANGED allVars
  <2>1. UNCHANGED vars /\ UNCHANGED probeVars
    BY <1>4 DEF allVars
  <2>2. ProbeInv'
    BY <2>1 DEF vars, procVars, probeVars, ProbeInv, Probing, Serving
  <2> QED BY <2>1, <2>2, NextStore, NextIndex
<1> QED BY <1>1, <1>2, <1>3, <1>4 DEF ReadinessNext

LEMMA ProbesCorrect == ReadinessSpec => [](StoreInv /\ IndexInv /\ ProbeInv)
BY InitProbes, NextProbes, PTL DEF ReadinessSpec

\* A probe that has the store for itself says 200 (store.go:1233-1330), whatever
\* operations have run before; a 503 takes a failed system call, an earlier kill or
\* another probe.
THEOREM LoneProbesSucceed == ReadinessSpec => LoneProbeReady
<1> DEFINE Says == \A p \in Probes : ProbeLook(p, FALSE) => faults > 0 \/ crashes > 0 \/ crowded[p]
<1>1. StoreInv /\ ProbeInv => Says
  <2> SUFFICES ASSUME StoreInv, ProbeInv, NEW p \in Probes, ProbeLook(p, FALSE),
                      ~(faults > 0 \/ crashes > 0), ~crowded[p]
               PROVE  FALSE
    OBVIOUS
  <2>1. faults = 0 /\ crashes = 0
    BY ConstantsAssumption DEF StoreInv, TypeInv, TypeOK
  <2>2. p \in Probing /\ Probing = {p} /\ ~leftovers /\ Serving
    BY <2>1 DEF ProbeInv, ProbeLook, Probing
  <2>3. ReadyOK
    BY <2>1, <2>2, StoreReady DEF QuietStoreReady, Serving
  <2>4. \A q \in Probes : probe[q] # "file"
    BY <2>2 DEF Probing, ProbeLook
  <2> QED BY <2>2, <2>3, <2>4 DEF ProbeLook
<1>2. ReadinessSpec => [][Says]_allVars
  BY <1>1, ProbesCorrect, PTL
<1> QED BY <1>2 DEF LoneProbeReady

\* A 200 of GET /readyz means a whole store: no operation holds the lock, every session can
\* be read and every deleted file restored, no acknowledged file has lost its bytes (but
\* for two failed system calls), and the usage index, whose first failure sync.Once keeps
\* (store.go:717), admits writes.
THEOREM ReadyAnswersTruthfully == ReadinessSpec => ReadyMeansWhole
<1> DEFINE Says == \A p \in Probes : ProbeLook(p, TRUE) =>
             /\ op = Idle /\ RebuildOK
             /\ faults <= 1 => \A id \in held : HasBytes(id)
             /\ faults = 0 => index # "failed"
<1>1. StoreInv /\ IndexInv /\ ProbeInv => Says
  <2> SUFFICES ASSUME StoreInv, IndexInv, ProbeInv, NEW p \in Probes, ProbeLook(p, TRUE)
               PROVE  /\ op = Idle /\ RebuildOK
                      /\ faults <= 1 => \A id \in held : HasBytes(id)
                      /\ faults = 0 => index # "failed"
    OBVIOUS
  <2>1. ReadyOK /\ op = Idle
    BY DEF ProbeLook, ProbeInv, Probing, Serving
  <2>2. RebuildOK
    BY <2>1 DEF ReadyOK, RebuildOK
  <2>3. faults <= 1 => \A id \in held : HasBytes(id)
    BY DEF StoreInv, FilesInv, HeldBytesKept
  <2>4. faults = 0 => index # "failed"
    BY <2>2 DEF IndexInv, EntryBroken, SessionBroken, RebuildOK
  <2> QED BY <2>1, <2>2, <2>3, <2>4
<1>2. ReadinessSpec => [][Says]_allVars
  BY <1>1, ProbesCorrect, PTL
<1> QED BY <1>2 DEF LoneProbeReady, ReadyMeansWhole
=============================================================================
