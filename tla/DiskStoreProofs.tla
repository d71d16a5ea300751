-------------------------- MODULE DiskStoreProofs --------------------------
(***************************************************************************)
(* What holds of DiskStore for every set of files and sessions, every      *)
(* session size and every bound on faults and crashes: the types, and the  *)
(* bytes and the manifest of a file through every operation, kill and      *)
(* failed system call (HeldBytesKept, ManifestHasBytes, OneCopy).          *)
(***************************************************************************)
EXTENDS DiskStore, TLAPS

-----------------------------------------------------------------------------
(* The operation record ties the control state to the ids it works on. *)

CreatePlaces == {"putBody", "putTmp", "putRename", "putSync", "putUndoManifest", "putUndo",
                 "cmpTmp", "cmpRename", "cmpSession", "cmpSessionRename", "cmpSync",
                 "cmpUndo", "cmpUndoManifest"}
MovePlaces == {"delObject", "delManifest", "delTmp", "delMark", "delSync",
               "undoObject", "undoManifest", "undoDir",
               "resMark", "resObject", "resManifest", "resDir", "resSync", "resUndo",
               "purgeDrop"}
AppendPlaces == {"appBody", "appRename", "appSync", "appUndo"}
SessionPlaces == AppendPlaces \cup
  {"startDir", "startPart", "startTmp", "startRename", "startSync", "drop",
   "cmpTmp", "cmpRename", "cmpSession", "cmpSessionRename", "cmpSync",
   "cmpUndo", "cmpUndoManifest"}

OpOK ==
  /\ op.pc \in CreatePlaces \cup MovePlaces => op.file \in FileIds
  /\ op.pc \in SessionPlaces => op.session \in UploadIds
  /\ op.pc = "sweepDrop" => op.victim \in UploadIds
  /\ op.pc \in AppendPlaces => op.base + op.chunk <= UploadSize

TypeInv == TypeOK /\ OpOK

\* A step to another place of the same operation.
LEMMA GotoKeepsOperation ==
  ASSUME op \in Operation, NEW place \in Places, Goto(place)
  PROVE  /\ op' \in Operation
         /\ op'.pc = place
         /\ op'.file = op.file /\ op'.session = op.session /\ op'.victim = op.victim
         /\ op'.base = op.base /\ op'.chunk = op.chunk
         /\ op'.files = op.files /\ op'.sessions = op.sessions
BY DEF Goto, Operation

LEMMA IdleOperation == Idle \in Operation /\ Idle.pc = "idle"
BY ConstantsAssumption DEF Idle, Operation, Places

\* The lock is free.
LEMMA ReturnKeepsOperation ==
  ASSUME Return
  PROVE  op' \in Operation /\ op'.pc = "idle"
BY ConstantsAssumption DEF Return, Idle, Operation, Places

\* What is in trash/{id} and uploads/{id} once it is removed.
LEMMA EmptyEntries == NoTrash \in TrashItem /\ NoSession \in Session
BY ConstantsAssumption DEF NoTrash, TrashItem, ManifestState, NoSession, Session, Absent

\* What writeUploadManifest's rename, and the loss of a manifest, make of a session.
LEMMA ManifestCommits ==
  ASSUME NEW s \in Session
  PROVE  /\ [s EXCEPT !.tmp = FALSE, !.status = "uploading"] \in Session
         /\ \A n \in 0 .. UploadSize :
              [s EXCEPT !.tmp = FALSE, !.received = n, !.stale = FALSE] \in Session
         /\ \A f \in FileIds :
              [s EXCEPT !.tmp = FALSE, !.status = "completed", !.file = f, !.stale = FALSE] \in Session
         /\ 0 \in 0 .. UploadSize =>
              [s EXCEPT !.status = "none", !.received = 0, !.file = NoFile, !.stale = FALSE] \in Session
BY DEF Session

\* What a change of one field of one session leaves the sessions.
LEMMA SessionFields ==
  ASSUME NEW u \in UploadIds, uploads \in [UploadIds -> Session]
  PROVE  /\ \A b \in BOOLEAN : [uploads EXCEPT ![u].dir = b] \in [UploadIds -> Session]
         /\ \A b \in BOOLEAN : [uploads EXCEPT ![u].tmp = b] \in [UploadIds -> Session]
         /\ \A n \in -1 .. UploadSize + 1 : [uploads EXCEPT ![u].part = n] \in [UploadIds -> Session]
<1>1. \A s \in Session :
        /\ \A b \in BOOLEAN : [s EXCEPT !.dir = b] \in Session /\ [s EXCEPT !.tmp = b] \in Session
        /\ \A n \in -1 .. UploadSize + 1 : [s EXCEPT !.part = n] \in Session
  BY DEF Session
<1>2. \A s \in Session : [uploads EXCEPT ![u] = s] \in [UploadIds -> Session]
  OBVIOUS
<1>3. \A b \in BOOLEAN : [uploads[u] EXCEPT !.dir = b] \in Session /\ [uploads[u] EXCEPT !.tmp = b] \in Session
  BY <1>1
<1>4. \A n \in -1 .. UploadSize + 1 : [uploads[u] EXCEPT !.part = n] \in Session
  BY <1>1
<1>5. \A b \in BOOLEAN : [uploads EXCEPT ![u].dir = b] \in [UploadIds -> Session]
  BY <1>2, <1>3
<1>6. \A b \in BOOLEAN : [uploads EXCEPT ![u].tmp = b] \in [UploadIds -> Session]
  BY <1>2, <1>3
<1>7. \A n \in -1 .. UploadSize + 1 : [uploads EXCEPT ![u].part = n] \in [UploadIds -> Session]
  BY <1>2, <1>4
<1> QED BY <1>5, <1>6, <1>7

\* What RemoveAll's next unlink makes of a trash entry.
LEMMA EntryShrinks ==
  ASSUME NEW t \in TrashItem, NEW name \in {"object", "manifest", "tmp"}
  PROVE  [t EXCEPT ![name] = NoTrash[name]] \in TrashItem
<1>1. CASE name = "object"
  BY <1>1 DEF TrashItem, NoTrash
<1>2. CASE name = "manifest"
  BY <1>2 DEF TrashItem, NoTrash, ManifestState
<1>3. CASE name = "tmp"
  BY <1>3 DEF TrashItem, NoTrash
<1> QED BY <1>1, <1>2, <1>3

\* os.RemoveAll of a session, one file at a time, leaves a session.
LEMMA UnlinkKeepsSessions ==
  ASSUME uploads \in [UploadIds -> Session], NEW u \in UploadIds, UnlinkFrom(u)
  PROVE  uploads' \in [UploadIds -> Session]
<1>1. CASE uploads' = [uploads EXCEPT ![u].part = Absent]
  BY <1>1, ConstantsAssumption DEF Session, Absent
<1>2. CASE uploads' = [uploads EXCEPT ![u].tmp = FALSE]
  BY <1>2 DEF Session
<1>3. CASE uploads' = [uploads EXCEPT ![u].status = "none", ![u].received = 0,
                                      ![u].file = NoFile, ![u].stale = FALSE]
  <2>1. [uploads[u] EXCEPT !.status = "none", !.received = 0,
                           !.file = NoFile, !.stale = FALSE] \in Session
    <3>1. 0 \in 0 .. UploadSize
      BY ConstantsAssumption
    <3> QED BY <3>1, ManifestCommits
  <2>2. uploads' = [uploads EXCEPT ![u] = [uploads[u] EXCEPT !.status = "none", !.received = 0,
                                                             !.file = NoFile, !.stale = FALSE]]
    BY <1>3
  <2> QED BY <2>1, <2>2
<1> QED BY <1>1, <1>2, <1>3 DEF UnlinkFrom

\* The names of the places.
LEMMA PlaceNames ==
  /\ "idle" \in Places /\ "putBody" \in Places /\ "putTmp" \in Places /\ "putRename" \in Places
  /\ "putSync" \in Places /\ "putUndo" \in Places /\ "delObject" \in Places /\ "delManifest" \in Places
  /\ "delTmp" \in Places /\ "delMark" \in Places /\ "delSync" \in Places /\ "undoObject" \in Places
  /\ "undoManifest" \in Places /\ "undoDir" \in Places /\ "resMark" \in Places /\ "resObject" \in Places
  /\ "resManifest" \in Places /\ "resDir" \in Places /\ "resSync" \in Places /\ "resUndo" \in Places
  /\ "purge" \in Places /\ "purgeDrop" \in Places /\ "sweep" \in Places /\ "sweepDrop" \in Places
  /\ "drop" \in Places /\ "startDir" \in Places /\ "startPart" \in Places /\ "startTmp" \in Places
  /\ "startRename" \in Places /\ "startSync" \in Places /\ "appBody" \in Places /\ "appRename" \in Places
  /\ "appSync" \in Places /\ "appUndo" \in Places /\ "cmpTmp" \in Places /\ "cmpRename" \in Places
  /\ "cmpSession" \in Places /\ "cmpSessionRename" \in Places /\ "cmpSync" \in Places /\ "cmpUndo" \in Places
  /\ "putUndoManifest" \in Places /\ "cmpUndoManifest" \in Places
  /\ "recover" \in Places /\ "rebuild" \in Places
BY DEF Places

\* What a guard that asks pathExists may have let pass, and what it costs.
LEMMA GuardPasses ==
  ASSUME faults \in 0 .. MaxFaults, overlooked \subseteq FileIds, NEW id \in FileIds,
         NEW a \in BOOLEAN, NEW b \in BOOLEAN, NEW c \in BOOLEAN,
         Overlooks(id, Missed(a) + Missed(b) + Missed(c))
  PROVE  /\ faults' \in 0 .. MaxFaults /\ overlooked' \subseteq FileIds
         /\ \/ ~a /\ ~b /\ ~c /\ UNCHANGED <<faults, overlooked>>
            \/ /\ overlooked' = overlooked \cup {id}
               /\ \/ faults' = faults + 1 /\ ((a /\ ~b /\ ~c) \/ (~a /\ b /\ ~c) \/ (~a /\ ~b /\ c))
                  \/ faults' >= faults + 2
<1>1. /\ Missed(a) \in {0, 1} /\ (Missed(a) = 0 <=> ~a)
      /\ Missed(b) \in {0, 1} /\ (Missed(b) = 0 <=> ~b)
      /\ Missed(c) \in {0, 1} /\ (Missed(c) = 0 <=> ~c)
  BY DEF Missed
<1> QED BY <1>1, ConstantsAssumption DEF Overlooks

\* Put and Restore work on an id that is free, or that was overlooked at a cost.
LEMMA PutGuard ==
  ASSUME TypeOK, NEW id \in FileIds, Put(id)
  PROVE  /\ faults' \in 0 .. MaxFaults /\ overlooked' \subseteq FileIds
         /\ \/ /\ id \notin objects /\ manifests[id] = "none" /\ ~trash[id].dir
               /\ UNCHANGED <<faults, overlooked>>
            \/ /\ overlooked' = overlooked \cup {id}
               /\ \/ /\ faults' = faults + 1
                     /\ \/ id \in objects /\ manifests[id] = "none" /\ ~trash[id].dir
                        \/ id \notin objects /\ manifests[id] # "none" /\ ~trash[id].dir
                        \/ id \notin objects /\ manifests[id] = "none" /\ trash[id].dir
                  \/ faults' >= faults + 2
<1>1. (id \in objects) \in BOOLEAN /\ (manifests[id] # "none") \in BOOLEAN /\ trash[id].dir \in BOOLEAN
  BY DEF TypeOK, TrashItem
<1>2. faults \in 0 .. MaxFaults /\ overlooked \subseteq FileIds
  BY DEF TypeOK
<1>3. Overlooks(id, Missed(id \in objects) + Missed(manifests[id] # "none") + Missed(trash[id].dir))
  BY DEF Put
<1> QED BY <1>1, <1>2, <1>3, GuardPasses

LEMMA RestoreGuard ==
  ASSUME TypeOK, NEW id \in FileIds, Restore(id)
  PROVE  /\ faults' \in 0 .. MaxFaults /\ overlooked' \subseteq FileIds
         /\ \/ id \notin objects /\ manifests[id] = "none" /\ UNCHANGED <<faults, overlooked>>
            \/ /\ overlooked' = overlooked \cup {id}
               /\ \/ /\ faults' = faults + 1
                     /\ \/ id \in objects /\ manifests[id] = "none"
                        \/ id \notin objects /\ manifests[id] # "none"
                  \/ faults' >= faults + 2
<1>1. (id \in objects) \in BOOLEAN /\ (manifests[id] # "none") \in BOOLEAN /\ FALSE \in BOOLEAN
  OBVIOUS
<1>2. faults \in 0 .. MaxFaults /\ overlooked \subseteq FileIds
  BY DEF TypeOK
<1>3. Overlooks(id, Missed(id \in objects) + Missed(manifests[id] # "none") + Missed(FALSE))
  BY <1>2, ConstantsAssumption DEF Restore, Missed, Overlooks
<1> QED BY <1>1, <1>2, <1>3, GuardPasses

\* The steps of Put.
LEMMA PutTypes == TypeInv /\ PutStep => TypeInv'
<1> SUFFICES ASSUME TypeInv, PutStep PROVE TypeInv'
  OBVIOUS
<1> USE ConstantsAssumption DEF At, Frame, Sessions, fileVars, diskVars, ghostVars, procVars
<1>a. op \in Operation /\ OpOK BY DEF TypeInv, TypeOK
<1>b. trash \in [FileIds -> TrashItem] /\ manifests \in [FileIds -> ManifestState]
  BY DEF TypeInv, TypeOK
<1>c. uploads \in [UploadIds -> Session] /\ confirmed \in [UploadIds -> -1 .. UploadSize]
  BY DEF TypeInv, TypeOK
<1>1. CASE PutAbandon
  <2>1. op.file \in FileIds
    BY <1>1, <1>a DEF PutAbandon, OpOK, CreatePlaces, MovePlaces, AppendPlaces, SessionPlaces
  <2>2. op' \in Operation /\ OpOK'
    BY <1>1, ReturnKeepsOperation DEF PutAbandon, OpOK, CreatePlaces, MovePlaces, AppendPlaces, SessionPlaces
  <2> QED BY <1>1, <2>1, <2>2 DEF PutAbandon, IOError, TypeInv, TypeOK
<1>2. CASE PutCommitObject
  <2>1. op.file \in FileIds
    BY <1>2, <1>a DEF PutCommitObject, OpOK, CreatePlaces, MovePlaces, AppendPlaces, SessionPlaces
  <2>2. op' \in Operation /\ OpOK'
    BY <1>2, <1>a, GotoKeepsOperation, PlaceNames DEF PutCommitObject, OpOK, CreatePlaces, MovePlaces, AppendPlaces, SessionPlaces
  <2> QED BY <1>2, <2>1, <2>2 DEF PutCommitObject, TypeInv, TypeOK
<1>3. CASE PutWriteManifest
  <2>1. op.file \in FileIds
    BY <1>3, <1>a DEF PutWriteManifest, OpOK, CreatePlaces, MovePlaces, AppendPlaces, SessionPlaces
  <2>2. op' \in Operation /\ OpOK'
    BY <1>3, <1>a, GotoKeepsOperation, PlaceNames DEF PutWriteManifest, OpOK, CreatePlaces, MovePlaces, AppendPlaces, SessionPlaces
  <2> QED BY <1>3, <2>1, <2>2 DEF PutWriteManifest, TypeInv, TypeOK
<1>4. CASE PutCommitManifest
  <2>1. op.file \in FileIds
    BY <1>4, <1>a DEF PutCommitManifest, OpOK, CreatePlaces, MovePlaces, AppendPlaces, SessionPlaces
  <2>2. op' \in Operation /\ OpOK'
    BY <1>4, <1>a, GotoKeepsOperation, PlaceNames DEF PutCommitManifest, OpOK, CreatePlaces, MovePlaces, AppendPlaces, SessionPlaces
  <2>3. manifests' \in [FileIds -> ManifestState]
    BY <1>4, <2>1, <1>b DEF PutCommitManifest, ManifestState, TrashItem
  <2> QED BY <1>4, <2>1, <2>2, <2>3 DEF PutCommitManifest, TypeInv, TypeOK
<1>5. CASE PutAck
  <2>1. op.file \in FileIds
    BY <1>5, <1>a DEF PutAck, OpOK, CreatePlaces, MovePlaces, AppendPlaces, SessionPlaces
  <2>2. op' \in Operation /\ OpOK'
    BY <1>5, ReturnKeepsOperation DEF PutAck, OpOK, CreatePlaces, MovePlaces, AppendPlaces, SessionPlaces
  <2> QED BY <1>5, <2>1, <2>2 DEF PutAck, TypeInv, TypeOK
<1>6. CASE PutIOError
  <2>1. op.file \in FileIds
    BY <1>6, <1>a DEF PutIOError, OpOK, CreatePlaces, MovePlaces, AppendPlaces, SessionPlaces
  <2>2. op' \in Operation /\ OpOK'
    BY <1>6, <1>a, GotoKeepsOperation, PlaceNames DEF PutIOError, OpOK, CreatePlaces, MovePlaces, AppendPlaces, SessionPlaces
  <2> QED BY <1>6, <2>1, <2>2 DEF PutIOError, IOError, TypeInv, TypeOK
<1>7. CASE PutUndoManifest
  <2>1. op.file \in FileIds
    BY <1>7, <1>a DEF PutUndoManifest, OpOK, CreatePlaces, MovePlaces, AppendPlaces, SessionPlaces
  <2>2. op' \in Operation /\ OpOK'
    BY <1>7, <1>a, GotoKeepsOperation, PlaceNames DEF PutUndoManifest, OpOK, CreatePlaces, MovePlaces, AppendPlaces, SessionPlaces
  <2>3. manifests' \in [FileIds -> ManifestState]
    BY <1>7, <2>1, <1>b DEF PutUndoManifest, ManifestState, TrashItem
  <2> QED BY <1>7, <2>1, <2>2, <2>3 DEF PutUndoManifest, IOError, TypeInv, TypeOK
<1>8. CASE PutUndo
  <2>1. op' \in Operation /\ OpOK'
    BY <1>8, ReturnKeepsOperation DEF PutUndo, OpOK, CreatePlaces, MovePlaces, AppendPlaces, SessionPlaces
  <2> QED BY <1>8, <2>1 DEF PutUndo, IOError, TypeInv, TypeOK
<1> QED BY <1>1, <1>2, <1>3, <1>4, <1>5, <1>6, <1>7, <1>8 DEF PutStep

\* The steps of Delete.
LEMMA DeleteTypes == TypeInv /\ DeleteStep => TypeInv'
<1> SUFFICES ASSUME TypeInv, DeleteStep PROVE TypeInv'
  OBVIOUS
<1> USE ConstantsAssumption DEF At, Frame, Sessions, fileVars, diskVars, ghostVars, procVars
<1>a. op \in Operation /\ OpOK BY DEF TypeInv, TypeOK
<1>b. trash \in [FileIds -> TrashItem] /\ manifests \in [FileIds -> ManifestState]
  BY DEF TypeInv, TypeOK
<1>c. uploads \in [UploadIds -> Session] /\ confirmed \in [UploadIds -> -1 .. UploadSize]
  BY DEF TypeInv, TypeOK
<1>1. CASE DeleteMoveObject
  <2>1. op.file \in FileIds
    BY <1>1, <1>a DEF DeleteMoveObject, OpOK, CreatePlaces, MovePlaces, AppendPlaces, SessionPlaces
  <2>2. op' \in Operation /\ OpOK'
    BY <1>1, <1>a, GotoKeepsOperation, PlaceNames DEF DeleteMoveObject, OpOK, CreatePlaces, MovePlaces, AppendPlaces, SessionPlaces
  <2>3. trash' \in [FileIds -> TrashItem]
    BY <1>1, <2>1, <1>b DEF DeleteMoveObject, TrashItem
  <2> QED BY <1>1, <2>1, <2>2, <2>3 DEF DeleteMoveObject, TypeInv, TypeOK
<1>2. CASE DeleteMoveFails
  <2>1. op.file \in FileIds
    BY <1>2, <1>a DEF DeleteMoveFails, OpOK, CreatePlaces, MovePlaces, AppendPlaces, SessionPlaces
  <2>2. op' \in Operation /\ OpOK'
    BY <1>2, ReturnKeepsOperation DEF DeleteMoveFails, OpOK, CreatePlaces, MovePlaces, AppendPlaces, SessionPlaces
  <2>3. trash' \in [FileIds -> TrashItem]
    BY <1>2, <2>1, <1>b DEF DeleteMoveFails, TrashItem, NoTrash, ManifestState
  <2> QED BY <1>2, <2>1, <2>2, <2>3 DEF DeleteMoveFails, IOError, TypeInv, TypeOK
<1>3. CASE DeleteMoveManifest
  <2>1. op.file \in FileIds
    BY <1>3, <1>a DEF DeleteMoveManifest, OpOK, CreatePlaces, MovePlaces, AppendPlaces, SessionPlaces
  <2>2. op' \in Operation /\ OpOK'
    BY <1>3, <1>a, GotoKeepsOperation, PlaceNames DEF DeleteMoveManifest, OpOK, CreatePlaces, MovePlaces, AppendPlaces, SessionPlaces
  <2>3. trash' \in [FileIds -> TrashItem]
    BY <1>3, <2>1, <1>b DEF DeleteMoveManifest, TrashItem, ManifestState
  <2>4. manifests' \in [FileIds -> ManifestState]
    BY <1>3, <2>1, <1>b DEF DeleteMoveManifest, ManifestState, TrashItem
  <2> QED BY <1>3, <2>1, <2>2, <2>3, <2>4 DEF DeleteMoveManifest, TypeInv, TypeOK
<1>4. CASE DeleteWriteMark
  <2>1. op.file \in FileIds
    BY <1>4, <1>a DEF DeleteWriteMark, OpOK, CreatePlaces, MovePlaces, AppendPlaces, SessionPlaces
  <2>2. op' \in Operation /\ OpOK'
    BY <1>4, <1>a, GotoKeepsOperation, PlaceNames DEF DeleteWriteMark, OpOK, CreatePlaces, MovePlaces, AppendPlaces, SessionPlaces
  <2>3. trash' \in [FileIds -> TrashItem]
    BY <1>4, <2>1, <1>b DEF DeleteWriteMark, TrashItem
  <2> QED BY <1>4, <2>1, <2>2, <2>3 DEF DeleteWriteMark, TypeInv, TypeOK
<1>5. CASE DeleteCommitMark
  <2>1. op.file \in FileIds
    BY <1>5, <1>a DEF DeleteCommitMark, OpOK, CreatePlaces, MovePlaces, AppendPlaces, SessionPlaces
  <2>2. op' \in Operation /\ OpOK'
    BY <1>5, <1>a, GotoKeepsOperation, PlaceNames DEF DeleteCommitMark, OpOK, CreatePlaces, MovePlaces, AppendPlaces, SessionPlaces
  <2>3. trash' \in [FileIds -> TrashItem]
    BY <1>5, <2>1, <1>b DEF DeleteCommitMark, TrashItem, ManifestState
  <2> QED BY <1>5, <2>1, <2>2, <2>3 DEF DeleteCommitMark, TypeInv, TypeOK
<1>6. CASE DeleteReturn
  <2>1. op' \in Operation /\ OpOK'
    BY <1>6, ReturnKeepsOperation DEF DeleteReturn, OpOK, CreatePlaces, MovePlaces, AppendPlaces, SessionPlaces
  <2> QED BY <1>6, <2>1 DEF DeleteReturn, IOError, TypeInv, TypeOK
<1>7. CASE DeleteIOError
  <2>1. op.file \in FileIds
    BY <1>7, <1>a DEF DeleteIOError, OpOK, CreatePlaces, MovePlaces, AppendPlaces, SessionPlaces
  <2>2. op' \in Operation /\ OpOK'
    BY <1>7, <1>a, GotoKeepsOperation, PlaceNames DEF DeleteIOError, OpOK, CreatePlaces, MovePlaces, AppendPlaces, SessionPlaces
  <2>3. trash' \in [FileIds -> TrashItem]
    BY <1>7, <2>1, <1>b DEF DeleteIOError, TrashItem
  <2> QED BY <1>7, <2>1, <2>2, <2>3 DEF DeleteIOError, IOError, TypeInv, TypeOK
<1>8. CASE UndoDeleteObject
  <2>1. op.file \in FileIds
    BY <1>8, <1>a DEF UndoDeleteObject, OpOK, CreatePlaces, MovePlaces, AppendPlaces, SessionPlaces
  <2>2. op' \in Operation /\ OpOK'
    BY <1>8, <1>a, GotoKeepsOperation, PlaceNames DEF UndoDeleteObject, OpOK, CreatePlaces, MovePlaces, AppendPlaces, SessionPlaces
  <2>3. trash' \in [FileIds -> TrashItem]
    <3>1. CASE trash' = [trash EXCEPT ![op.file].object = FALSE]
      BY <3>1, <2>1, <1>b DEF TrashItem
    <3> QED BY <3>1, <1>8, <1>b DEF UndoDeleteObject
  <2> QED BY <1>8, <2>1, <2>2, <2>3 DEF UndoDeleteObject, IOError, TypeInv, TypeOK
<1>9. CASE UndoDeleteManifest
  <2>1. op.file \in FileIds
    BY <1>9, <1>a DEF UndoDeleteManifest, OpOK, CreatePlaces, MovePlaces, AppendPlaces, SessionPlaces
  <2>2. op' \in Operation /\ OpOK'
    BY <1>9, <1>a, GotoKeepsOperation, PlaceNames DEF UndoDeleteManifest, OpOK, CreatePlaces, MovePlaces, AppendPlaces, SessionPlaces
  <2>3. trash' \in [FileIds -> TrashItem]
    BY <1>9, <2>1, <1>b DEF UndoDeleteManifest, TrashItem, ManifestState
  <2>4. manifests' \in [FileIds -> ManifestState]
    BY <1>9, <2>1, <1>b DEF UndoDeleteManifest, ManifestState, TrashItem
  <2> QED BY <1>9, <2>1, <2>2, <2>3, <2>4 DEF UndoDeleteManifest, IOError, TypeInv, TypeOK
<1>10. CASE UndoDeleteDir
  <2>1. op.file \in FileIds
    BY <1>10, <1>a DEF UndoDeleteDir, OpOK, CreatePlaces, MovePlaces, AppendPlaces, SessionPlaces
  <2>2. op' \in Operation /\ OpOK'
    BY <1>10, ReturnKeepsOperation DEF UndoDeleteDir, OpOK, CreatePlaces, MovePlaces, AppendPlaces, SessionPlaces
  <2>3. trash' \in [FileIds -> TrashItem]
    BY <1>10, <2>1, <1>b, EmptyEntries DEF UndoDeleteDir
  <2> QED BY <1>10, <2>1, <2>2, <2>3 DEF UndoDeleteDir, IOError, TypeInv, TypeOK
<1> QED BY <1>1, <1>2, <1>3, <1>4, <1>5, <1>6, <1>7, <1>8, <1>9, <1>10 DEF DeleteStep

\* The steps of Restore.
LEMMA RestoreTypes == TypeInv /\ RestoreStep => TypeInv'
<1> SUFFICES ASSUME TypeInv, RestoreStep PROVE TypeInv'
  OBVIOUS
<1> USE ConstantsAssumption DEF At, Frame, Sessions, fileVars, diskVars, ghostVars, procVars
<1>a. op \in Operation /\ OpOK BY DEF TypeInv, TypeOK
<1>b. trash \in [FileIds -> TrashItem] /\ manifests \in [FileIds -> ManifestState]
  BY DEF TypeInv, TypeOK
<1>c. uploads \in [UploadIds -> Session] /\ confirmed \in [UploadIds -> -1 .. UploadSize]
  BY DEF TypeInv, TypeOK
<1>1. CASE RestoreCommitMark
  <2>1. op.file \in FileIds
    BY <1>1, <1>a DEF RestoreCommitMark, OpOK, CreatePlaces, MovePlaces, AppendPlaces, SessionPlaces
  <2>2. op' \in Operation /\ OpOK'
    BY <1>1, <1>a, GotoKeepsOperation, PlaceNames DEF RestoreCommitMark, OpOK, CreatePlaces, MovePlaces, AppendPlaces, SessionPlaces
  <2>3. trash' \in [FileIds -> TrashItem]
    BY <1>1, <2>1, <1>b DEF RestoreCommitMark, TrashItem, ManifestState
  <2> QED BY <1>1, <2>1, <2>2, <2>3 DEF RestoreCommitMark, TypeInv, TypeOK
<1>2. CASE RestoreMoveObject
  <2>1. op.file \in FileIds
    BY <1>2, <1>a DEF RestoreMoveObject, OpOK, CreatePlaces, MovePlaces, AppendPlaces, SessionPlaces
  <2>2. op' \in Operation /\ OpOK'
    BY <1>2, <1>a, GotoKeepsOperation, PlaceNames DEF RestoreMoveObject, OpOK, CreatePlaces, MovePlaces, AppendPlaces, SessionPlaces
  <2>3. trash' \in [FileIds -> TrashItem]
    BY <1>2, <2>1, <1>b DEF RestoreMoveObject, TrashItem
  <2> QED BY <1>2, <2>1, <2>2, <2>3 DEF RestoreMoveObject, TypeInv, TypeOK
<1>3. CASE RestoreMoveManifest
  <2>1. op.file \in FileIds
    BY <1>3, <1>a DEF RestoreMoveManifest, OpOK, CreatePlaces, MovePlaces, AppendPlaces, SessionPlaces
  <2>2. op' \in Operation /\ OpOK'
    BY <1>3, <1>a, GotoKeepsOperation, PlaceNames DEF RestoreMoveManifest, OpOK, CreatePlaces, MovePlaces, AppendPlaces, SessionPlaces
  <2>3. trash' \in [FileIds -> TrashItem]
    BY <1>3, <2>1, <1>b DEF RestoreMoveManifest, TrashItem, ManifestState
  <2>4. manifests' \in [FileIds -> ManifestState]
    BY <1>3, <2>1, <1>b DEF RestoreMoveManifest, ManifestState, TrashItem
  <2> QED BY <1>3, <2>1, <2>2, <2>3, <2>4 DEF RestoreMoveManifest, TypeInv, TypeOK
<1>4. CASE RestoreRemoveDir
  <2>1. op.file \in FileIds
    BY <1>4, <1>a DEF RestoreRemoveDir, OpOK, CreatePlaces, MovePlaces, AppendPlaces, SessionPlaces
  <2>2. op' \in Operation /\ OpOK'
    BY <1>4, <1>a, GotoKeepsOperation, PlaceNames DEF RestoreRemoveDir, OpOK, CreatePlaces, MovePlaces, AppendPlaces, SessionPlaces
  <2>3. trash' \in [FileIds -> TrashItem]
    BY <1>4, <2>1, <1>b DEF RestoreRemoveDir, TrashItem, NoTrash, ManifestState
  <2> QED BY <1>4, <2>1, <2>2, <2>3 DEF RestoreRemoveDir, TypeInv, TypeOK
<1>5. CASE RestoreReturn
  <2>1. op' \in Operation /\ OpOK'
    BY <1>5, ReturnKeepsOperation DEF RestoreReturn, OpOK, CreatePlaces, MovePlaces, AppendPlaces, SessionPlaces
  <2> QED BY <1>5, <2>1 DEF RestoreReturn, TypeInv, TypeOK
<1>6. CASE RestoreEarlyIOError
  <2>1. op.file \in FileIds
    BY <1>6, <1>a DEF RestoreEarlyIOError, OpOK, CreatePlaces, MovePlaces, AppendPlaces, SessionPlaces
  <2>2. op' \in Operation /\ OpOK'
    BY <1>6, ReturnKeepsOperation DEF RestoreEarlyIOError, OpOK, CreatePlaces, MovePlaces, AppendPlaces, SessionPlaces
  <2>3. trash' \in [FileIds -> TrashItem]
    BY <1>6, <2>1, <1>b DEF RestoreEarlyIOError, TrashItem
  <2> QED BY <1>6, <2>1, <2>2, <2>3 DEF RestoreEarlyIOError, IOError, TypeInv, TypeOK
<1>7. CASE RestoreIOError
  <2>1. op' \in Operation /\ OpOK'
    BY <1>7, <1>a, GotoKeepsOperation, PlaceNames DEF RestoreIOError, OpOK, CreatePlaces, MovePlaces, AppendPlaces, SessionPlaces
  <2> QED BY <1>7, <2>1 DEF RestoreIOError, IOError, TypeInv, TypeOK
<1>8. CASE RestoreUndo
  <2>1. op.file \in FileIds
    BY <1>8, <1>a DEF RestoreUndo, OpOK, CreatePlaces, MovePlaces, AppendPlaces, SessionPlaces
  <2>2. op' \in Operation /\ OpOK'
    BY <1>8, ReturnKeepsOperation DEF RestoreUndo, OpOK, CreatePlaces, MovePlaces, AppendPlaces, SessionPlaces
  <2>3. trash' \in [FileIds -> TrashItem]
    <3>1. CASE trash' = [trash EXCEPT ![op.file].object = TRUE]
      BY <3>1, <2>1, <1>b DEF TrashItem
    <3> QED BY <3>1, <1>8, <1>b DEF RestoreUndo
  <2> QED BY <1>8, <2>1, <2>2, <2>3 DEF RestoreUndo, IOError, TypeInv, TypeOK
<1> QED BY <1>1, <1>2, <1>3, <1>4, <1>5, <1>6, <1>7, <1>8 DEF RestoreStep

\* The steps of Purge.
LEMMA PurgeTypes == TypeInv /\ PurgeStep => TypeInv'
<1> SUFFICES ASSUME TypeInv, PurgeStep PROVE TypeInv'
  OBVIOUS
<1> USE ConstantsAssumption DEF At, Frame, Sessions, fileVars, diskVars, ghostVars, procVars
<1>a. op \in Operation /\ OpOK BY DEF TypeInv, TypeOK
<1>b. trash \in [FileIds -> TrashItem] /\ manifests \in [FileIds -> ManifestState]
  BY DEF TypeInv, TypeOK
<1>c. uploads \in [UploadIds -> Session] /\ confirmed \in [UploadIds -> -1 .. UploadSize]
  BY DEF TypeInv, TypeOK
<1>1. CASE PurgeStops
  <2>1. op' \in Operation /\ OpOK'
    BY <1>1, ReturnKeepsOperation DEF PurgeStops, OpOK, CreatePlaces, MovePlaces, AppendPlaces, SessionPlaces
  <2> QED BY <1>1, <2>1 DEF PurgeStops, TypeInv, TypeOK
<1>2. CASE PurgeUnlink
  <2>1. op.file \in FileIds
    BY <1>2, <1>a DEF PurgeUnlink, OpOK, CreatePlaces, MovePlaces, AppendPlaces, SessionPlaces
  <2>2. trash' \in [FileIds -> TrashItem]
    <3>1. PICK name \in {"object", "manifest", "tmp"} :
                 trash' = [trash EXCEPT ![op.file][name] = NoTrash[name]]
      BY <1>2 DEF PurgeUnlink
    <3>2. [trash[op.file] EXCEPT ![name] = NoTrash[name]] \in TrashItem
      BY <2>1, <1>b, EntryShrinks
    <3> QED BY <3>1, <3>2, <2>1, <1>b
  <2> QED BY <1>2, <2>1, <2>2 DEF PurgeUnlink, OpOK, TypeInv, TypeOK
<1>3. CASE PurgeRemoveDir
  <2>1. op.file \in FileIds
    BY <1>3, <1>a DEF PurgeRemoveDir, OpOK, CreatePlaces, MovePlaces, AppendPlaces, SessionPlaces
  <2>2. op' \in Operation /\ OpOK'
    BY <1>3, <1>a, PlaceNames DEF PurgeRemoveDir, Operation, OpOK, CreatePlaces, MovePlaces, AppendPlaces, SessionPlaces
  <2>3. trash' \in [FileIds -> TrashItem]
    BY <1>3, <2>1, <1>b DEF PurgeRemoveDir, TrashItem, NoTrash, ManifestState
  <2> QED BY <1>3, <2>1, <2>2, <2>3 DEF PurgeRemoveDir, TypeInv, TypeOK
<1>4. CASE PurgeIOError
  <2>1. op' \in Operation /\ OpOK'
    BY <1>4, ReturnKeepsOperation DEF PurgeIOError, OpOK, CreatePlaces, MovePlaces, AppendPlaces, SessionPlaces
  <2> QED BY <1>4, <2>1 DEF PurgeIOError, IOError, TypeInv, TypeOK
<1>5. CASE PurgeReturn
  <2>1. op' \in Operation /\ OpOK'
    BY <1>5, ReturnKeepsOperation DEF PurgeReturn, OpOK, CreatePlaces, MovePlaces, AppendPlaces, SessionPlaces
  <2> QED BY <1>5, <2>1 DEF PurgeReturn, TypeInv, TypeOK
<1>6. ASSUME NEW id \in FileIds, PurgeKeeps(id) PROVE TypeInv'
  <2>1. op' \in Operation /\ OpOK'
    BY <1>6, <1>a, PlaceNames DEF PurgeKeeps, Operation, OpOK, CreatePlaces, MovePlaces, AppendPlaces, SessionPlaces
  <2> QED BY <1>6, <2>1 DEF PurgeKeeps, TypeInv, TypeOK
<1>7. ASSUME NEW id \in FileIds, PurgeEntry(id) PROVE TypeInv'
  <2>1. op' \in Operation /\ OpOK'
    BY <1>7, <1>a, PlaceNames DEF PurgeEntry, Operation, OpOK, CreatePlaces, MovePlaces, AppendPlaces, SessionPlaces
  <2>2. confirmed' \in [UploadIds -> -1 .. UploadSize]
    BY <1>7, <1>c DEF PurgeEntry, NotOpen
  <2>3. assembled' \in [FileIds -> [from : UploadIds \cup {NoUpload}, bytes : 0 .. UploadSize]]
    BY <1>7, <1>c DEF PurgeEntry, TypeInv, TypeOK, NotAssembled
  <2> QED BY <1>7, <2>1, <2>2, <2>3 DEF PurgeEntry, TypeInv, TypeOK
<1> QED BY <1>1, <1>2, <1>3, <1>4, <1>5, <1>6, <1>7 DEF PurgeStep

\* The steps of Sweep.
LEMMA SweepTypes == TypeInv /\ SweepStep => TypeInv'
<1> SUFFICES ASSUME TypeInv, SweepStep PROVE TypeInv'
  OBVIOUS
<1> USE ConstantsAssumption DEF At, Frame, Sessions, fileVars, diskVars, ghostVars, procVars
<1>a. op \in Operation /\ OpOK BY DEF TypeInv, TypeOK
<1>b. trash \in [FileIds -> TrashItem] /\ manifests \in [FileIds -> ManifestState]
  BY DEF TypeInv, TypeOK
<1>c. uploads \in [UploadIds -> Session] /\ confirmed \in [UploadIds -> -1 .. UploadSize]
  BY DEF TypeInv, TypeOK
<1>1. CASE SweepUnlink
  <2>1. op.victim \in UploadIds
    BY <1>1, <1>a DEF SweepUnlink, OpOK, CreatePlaces, MovePlaces, AppendPlaces, SessionPlaces
  <2>2. uploads' \in [UploadIds -> Session]
    BY <1>1, <2>1, <1>c, UnlinkKeepsSessions DEF SweepUnlink
  <2> QED BY <1>1, <2>1, <2>2 DEF SweepUnlink, OpOK, TypeInv, TypeOK
<1>2. CASE SweepRemoveDir
  <2>1. op.victim \in UploadIds
    BY <1>2, <1>a DEF SweepRemoveDir, OpOK, CreatePlaces, MovePlaces, AppendPlaces, SessionPlaces
  <2>2. op' \in Operation /\ OpOK'
    BY <1>2, <1>a, PlaceNames DEF SweepRemoveDir, Operation, OpOK, CreatePlaces, MovePlaces, AppendPlaces, SessionPlaces
  <2>3. uploads' \in [UploadIds -> Session]
    BY <1>2, <2>1, <1>c, EmptyEntries DEF SweepRemoveDir
  <2> QED BY <1>2, <2>1, <2>2, <2>3 DEF SweepRemoveDir, EmptyDir, TypeInv, TypeOK
<1>3. CASE SweepDone
  <2>1. op' \in Operation /\ OpOK'
    <3>1. CASE Goto("rebuild")
      BY <3>1, <1>a, GotoKeepsOperation, PlaceNames
         DEF OpOK, CreatePlaces, MovePlaces, AppendPlaces, SessionPlaces
    <3>2. CASE op.session # NoUpload /\ Goto("startDir")
      <4>1. op.session \in UploadIds
        BY <3>2, <1>a DEF Operation
      <4> QED BY <4>1, <3>2, <1>a, GotoKeepsOperation, PlaceNames
              DEF OpOK, CreatePlaces, MovePlaces, AppendPlaces, SessionPlaces
    <3>3. CASE Return
      BY <3>3, ReturnKeepsOperation
         DEF OpOK, CreatePlaces, MovePlaces, AppendPlaces, SessionPlaces
    <3> QED BY <3>1, <3>2, <3>3, <1>3 DEF SweepDone
  <2> QED BY <1>3, <2>1 DEF SweepDone, TypeInv, TypeOK
<1>4. CASE SweepIOError
  <2>1. op' \in Operation /\ OpOK'
    BY <1>4, ReturnKeepsOperation DEF SweepIOError, OpOK, CreatePlaces, MovePlaces, AppendPlaces, SessionPlaces
  <2>2. proc' \in {"down", "recovering", "running"} /\ repaired' \in BOOLEAN
    BY <1>4 DEF SweepIOError, TypeInv, TypeOK
  <2>3. faults' \in 0 .. MaxFaults
    BY <1>4 DEF SweepIOError, IOError, TypeInv, TypeOK
  <2>4. UNCHANGED <<objects, manifests, manifestTmps, partials, trash, uploads, crashes, index,
                    held, confirmed, assembled, overlooked>>
    BY <1>4 DEF SweepIOError
  <2> QED BY <2>1, <2>2, <2>3, <2>4 DEF TypeInv, TypeOK
<1>5. ASSUME NEW u \in UploadIds, SweepSkip(u) PROVE TypeInv'
  <2>1. op' \in Operation /\ OpOK'
    BY <1>5, <1>a, PlaceNames DEF SweepSkip, Operation, OpOK, CreatePlaces, MovePlaces, AppendPlaces, SessionPlaces
  <2> QED BY <1>5, <2>1 DEF SweepSkip, TypeInv, TypeOK
<1>6. ASSUME NEW u \in UploadIds, SweepEntry(u) PROVE TypeInv'
  <2>1. op' \in Operation /\ OpOK'
    BY <1>6, <1>a, PlaceNames DEF SweepEntry, Operation, OpOK, CreatePlaces, MovePlaces, AppendPlaces, SessionPlaces
  <2>2. confirmed' \in [UploadIds -> -1 .. UploadSize]
    BY <1>6, <1>c DEF SweepEntry, NotOpen
  <2> QED BY <1>6, <2>1, <2>2 DEF SweepEntry, TypeInv, TypeOK
<1> QED BY <1>1, <1>2, <1>3, <1>4, <1>5, <1>6 DEF SweepStep

\* The steps of Session.
LEMMA SessionTypes == TypeInv /\ SessionStep => TypeInv'
<1> SUFFICES ASSUME TypeInv, SessionStep PROVE TypeInv'
  OBVIOUS
<1> USE ConstantsAssumption DEF At, Frame, Sessions, fileVars, diskVars, ghostVars, procVars
<1>a. op \in Operation /\ OpOK BY DEF TypeInv, TypeOK
<1>b. trash \in [FileIds -> TrashItem] /\ manifests \in [FileIds -> ManifestState]
  BY DEF TypeInv, TypeOK
<1>c. uploads \in [UploadIds -> Session] /\ confirmed \in [UploadIds -> -1 .. UploadSize]
  BY DEF TypeInv, TypeOK
<1>1. CASE StartCreateDir
  <2>1. op.session \in UploadIds
    BY <1>1, <1>a DEF StartCreateDir, OpOK, CreatePlaces, MovePlaces, AppendPlaces, SessionPlaces
  <2>2. op' \in Operation /\ OpOK'
    BY <1>1, <1>a, GotoKeepsOperation, PlaceNames DEF StartCreateDir, OpOK, CreatePlaces, MovePlaces, AppendPlaces, SessionPlaces
  <2>3. uploads' \in [UploadIds -> Session]
    BY <1>1, <2>1, <1>c, SessionFields DEF StartCreateDir
  <2> QED BY <1>1, <2>1, <2>2, <2>3 DEF StartCreateDir, EnsureUsage, TypeInv, TypeOK
<1>2. CASE StartRefused
  <2>1. op' \in Operation /\ OpOK'
    BY <1>2, ReturnKeepsOperation DEF StartRefused, OpOK, CreatePlaces, MovePlaces, AppendPlaces, SessionPlaces
  <2> QED BY <1>2, <2>1 DEF StartRefused, EnsureUsage, TypeInv, TypeOK
<1>3. CASE StartCreatePart
  <2>1. op.session \in UploadIds
    BY <1>3, <1>a DEF StartCreatePart, OpOK, CreatePlaces, MovePlaces, AppendPlaces, SessionPlaces
  <2>2. op' \in Operation /\ OpOK'
    BY <1>3, <1>a, GotoKeepsOperation, PlaceNames DEF StartCreatePart, OpOK, CreatePlaces, MovePlaces, AppendPlaces, SessionPlaces
  <2>3. uploads' \in [UploadIds -> Session]
    BY <1>3, <2>1, <1>c DEF StartCreatePart, Session
  <2> QED BY <1>3, <2>1, <2>2, <2>3 DEF StartCreatePart, TypeInv, TypeOK
<1>4. CASE StartWriteManifest
  <2>1. op.session \in UploadIds
    BY <1>4, <1>a DEF StartWriteManifest, OpOK, CreatePlaces, MovePlaces, AppendPlaces, SessionPlaces
  <2>2. op' \in Operation /\ OpOK'
    BY <1>4, <1>a, GotoKeepsOperation, PlaceNames DEF StartWriteManifest, OpOK, CreatePlaces, MovePlaces, AppendPlaces, SessionPlaces
  <2>3. uploads' \in [UploadIds -> Session]
    BY <1>4, <2>1, <1>c, SessionFields DEF StartWriteManifest
  <2> QED BY <1>4, <2>1, <2>2, <2>3 DEF StartWriteManifest, TypeInv, TypeOK
<1>5. CASE StartCommitManifest
  <2>1. op.session \in UploadIds
    BY <1>5, <1>a DEF StartCommitManifest, OpOK, CreatePlaces, MovePlaces, AppendPlaces, SessionPlaces
  <2>2. op' \in Operation /\ OpOK'
    BY <1>5, <1>a, GotoKeepsOperation, PlaceNames DEF StartCommitManifest, OpOK, CreatePlaces, MovePlaces, AppendPlaces, SessionPlaces
  <2>3. uploads' \in [UploadIds -> Session]
    <3>1. [uploads[op.session] EXCEPT !.tmp = FALSE, !.status = "uploading"] \in Session
      BY <2>1, <1>c, ManifestCommits
    <3>2. uploads' = [uploads EXCEPT ![op.session] = [uploads[op.session] EXCEPT
                        !.tmp = FALSE, !.status = "uploading"]]
      BY <1>5 DEF StartCommitManifest
    <3> QED BY <3>1, <3>2, <2>1, <1>c
  <2> QED BY <1>5, <2>1, <2>2, <2>3 DEF StartCommitManifest, TypeInv, TypeOK
<1>6. CASE StartAck
  <2>1. op.session \in UploadIds
    BY <1>6, <1>a DEF StartAck, OpOK, CreatePlaces, MovePlaces, AppendPlaces, SessionPlaces
  <2>2. op' \in Operation /\ OpOK'
    BY <1>6, ReturnKeepsOperation DEF StartAck, OpOK, CreatePlaces, MovePlaces, AppendPlaces, SessionPlaces
  <2>3. confirmed' \in [UploadIds -> -1 .. UploadSize]
    BY <1>6, <2>1, <1>c DEF StartAck, NotOpen
  <2> QED BY <1>6, <2>1, <2>2, <2>3 DEF StartAck, TypeInv, TypeOK
<1>7. CASE StartIOError
  <2>1. op.session \in UploadIds
    BY <1>7, <1>a DEF StartIOError, OpOK, CreatePlaces, MovePlaces, AppendPlaces, SessionPlaces
  <2>2. op' \in Operation /\ OpOK'
    BY <1>7, <1>a, GotoKeepsOperation, PlaceNames DEF StartIOError, OpOK, CreatePlaces, MovePlaces, AppendPlaces, SessionPlaces
  <2>3. uploads' \in [UploadIds -> Session]
    BY <1>7, <2>1, <1>c, SessionFields DEF StartIOError
  <2> QED BY <1>7, <2>1, <2>2, <2>3 DEF StartIOError, IOError, TypeInv, TypeOK
<1>8. CASE AppendCopy
  <2>1. op.session \in UploadIds
    BY <1>8, <1>a DEF AppendCopy, OpOK, CreatePlaces, MovePlaces, AppendPlaces, SessionPlaces
  <2>2. uploads' \in [UploadIds -> Session]
    BY <1>8, <2>1, <1>c, <1>a DEF AppendCopy, Operation, OpOK, AppendPlaces, Session
  <2> QED BY <1>8, <2>1, <2>2 DEF AppendCopy, OpOK, TypeInv, TypeOK
<1>9. CASE AppendWriteManifest
  <2>1. op.session \in UploadIds
    BY <1>9, <1>a DEF AppendWriteManifest, OpOK, CreatePlaces, MovePlaces, AppendPlaces, SessionPlaces
  <2>2. op' \in Operation /\ OpOK'
    BY <1>9, <1>a, GotoKeepsOperation, PlaceNames DEF AppendWriteManifest, OpOK, CreatePlaces, MovePlaces, AppendPlaces, SessionPlaces
  <2>3. uploads' \in [UploadIds -> Session]
    BY <1>9, <2>1, <1>c, SessionFields DEF AppendWriteManifest
  <2> QED BY <1>9, <2>1, <2>2, <2>3 DEF AppendWriteManifest, TypeInv, TypeOK
<1>10. CASE AppendReject
  <2>1. op' \in Operation /\ OpOK'
    BY <1>10, <1>a, GotoKeepsOperation, PlaceNames DEF AppendReject, OpOK, CreatePlaces, MovePlaces, AppendPlaces, SessionPlaces
  <2> QED BY <1>10, <2>1 DEF AppendReject, TypeInv, TypeOK
<1>11. CASE AppendCommitManifest
  <2>1. op.session \in UploadIds
    BY <1>11, <1>a DEF AppendCommitManifest, OpOK, CreatePlaces, MovePlaces, AppendPlaces, SessionPlaces
  <2>2. op' \in Operation /\ OpOK'
    BY <1>11, <1>a, GotoKeepsOperation, PlaceNames DEF AppendCommitManifest, OpOK, CreatePlaces, MovePlaces, AppendPlaces, SessionPlaces
  <2>3. uploads' \in [UploadIds -> Session]
    <3>0. op.base + op.chunk \in 0 .. UploadSize
      BY <1>11, <1>a DEF AppendCommitManifest, Operation, OpOK, AppendPlaces
    <3>1. [uploads[op.session] EXCEPT !.tmp = FALSE, !.received = op.base + op.chunk, !.stale = FALSE] \in Session
      BY <2>1, <1>c, <3>0, ManifestCommits
    <3>2. uploads' = [uploads EXCEPT ![op.session] = [uploads[op.session] EXCEPT
                        !.tmp = FALSE, !.received = op.base + op.chunk, !.stale = FALSE]]
      BY <1>11 DEF AppendCommitManifest
    <3> QED BY <3>1, <3>2, <2>1, <1>c
  <2> QED BY <1>11, <2>1, <2>2, <2>3 DEF AppendCommitManifest, TypeInv, TypeOK
<1>12. CASE AppendAck
  <2>1. op.session \in UploadIds
    BY <1>12, <1>a DEF AppendAck, OpOK, CreatePlaces, MovePlaces, AppendPlaces, SessionPlaces
  <2>2. op' \in Operation /\ OpOK'
    BY <1>12, ReturnKeepsOperation DEF AppendAck, OpOK, CreatePlaces, MovePlaces, AppendPlaces, SessionPlaces
  <2>3. confirmed' \in [UploadIds -> -1 .. UploadSize]
    BY <1>12, <2>1, <1>c, <1>a DEF AppendAck, Operation, OpOK, AppendPlaces, NotOpen
  <2> QED BY <1>12, <2>1, <2>2, <2>3 DEF AppendAck, TypeInv, TypeOK
<1>13. CASE AppendIOError
  <2>1. op.session \in UploadIds
    BY <1>13, <1>a DEF AppendIOError, OpOK, CreatePlaces, MovePlaces, AppendPlaces, SessionPlaces
  <2>2. op' \in Operation /\ OpOK'
    BY <1>13, <1>a, GotoKeepsOperation, PlaceNames DEF AppendIOError, OpOK, CreatePlaces, MovePlaces, AppendPlaces, SessionPlaces
  <2>3. uploads' \in [UploadIds -> Session]
    BY <1>13, <2>1, <1>c, SessionFields DEF AppendIOError
  <2> QED BY <1>13, <2>1, <2>2, <2>3 DEF AppendIOError, IOError, TypeInv, TypeOK
<1>14. CASE AppendUndo
  <2>1. op.session \in UploadIds
    BY <1>14, <1>a DEF AppendUndo, OpOK, CreatePlaces, MovePlaces, AppendPlaces, SessionPlaces
  <2>2. op' \in Operation /\ OpOK'
    BY <1>14, ReturnKeepsOperation DEF AppendUndo, OpOK, CreatePlaces, MovePlaces, AppendPlaces, SessionPlaces
  <2>3. uploads' \in [UploadIds -> Session]
    BY <1>14, <2>1, <1>c, <1>a DEF AppendUndo, Operation, OpOK, AppendPlaces, Session
  <2> QED BY <1>14, <2>1, <2>2, <2>3 DEF AppendUndo, IOError, TypeInv, TypeOK
<1>15. CASE DropUnlink
  <2>1. op.session \in UploadIds
    BY <1>15, <1>a DEF DropUnlink, OpOK, CreatePlaces, MovePlaces, AppendPlaces, SessionPlaces
  <2>2. uploads' \in [UploadIds -> Session]
    BY <1>15, <2>1, <1>c, UnlinkKeepsSessions DEF DropUnlink
  <2> QED BY <1>15, <2>1, <2>2 DEF DropUnlink, OpOK, TypeInv, TypeOK
<1>16. CASE DropRemoveDir
  <2>1. op.session \in UploadIds
    BY <1>16, <1>a DEF DropRemoveDir, OpOK, CreatePlaces, MovePlaces, AppendPlaces, SessionPlaces
  <2>2. op' \in Operation /\ OpOK'
    BY <1>16, ReturnKeepsOperation DEF DropRemoveDir, OpOK, CreatePlaces, MovePlaces, AppendPlaces, SessionPlaces
  <2>3. uploads' \in [UploadIds -> Session]
    BY <1>16, <2>1, <1>c, EmptyEntries DEF DropRemoveDir
  <2> QED BY <1>16, <2>1, <2>2, <2>3 DEF DropRemoveDir, EmptyDir, IOError, TypeInv, TypeOK
<1>17. CASE DropIOError
  <2>1. op' \in Operation /\ OpOK'
    BY <1>17, ReturnKeepsOperation DEF DropIOError, OpOK, CreatePlaces, MovePlaces, AppendPlaces, SessionPlaces
  <2> QED BY <1>17, <2>1 DEF DropIOError, IOError, TypeInv, TypeOK
<1> QED BY <1>1, <1>2, <1>3, <1>4, <1>5, <1>6, <1>7, <1>8, <1>9, <1>10, <1>11, <1>12, <1>13, <1>14, <1>15, <1>16, <1>17 DEF SessionStep

\* The steps of Complete.
LEMMA CompleteTypes == TypeInv /\ CompleteStep => TypeInv'
<1> SUFFICES ASSUME TypeInv, CompleteStep PROVE TypeInv'
  OBVIOUS
<1> USE ConstantsAssumption DEF At, Frame, Sessions, fileVars, diskVars, ghostVars, procVars
<1>a. op \in Operation /\ OpOK BY DEF TypeInv, TypeOK
<1>b. trash \in [FileIds -> TrashItem] /\ manifests \in [FileIds -> ManifestState]
  BY DEF TypeInv, TypeOK
<1>c. uploads \in [UploadIds -> Session] /\ confirmed \in [UploadIds -> -1 .. UploadSize]
  BY DEF TypeInv, TypeOK
<1>1. CASE CompleteWriteManifest
  <2>1. op.file \in FileIds
    BY <1>1, <1>a DEF CompleteWriteManifest, OpOK, CreatePlaces, MovePlaces, AppendPlaces, SessionPlaces
  <2>2. op' \in Operation /\ OpOK'
    BY <1>1, <1>a, GotoKeepsOperation, PlaceNames DEF CompleteWriteManifest, OpOK, CreatePlaces, MovePlaces, AppendPlaces, SessionPlaces
  <2> QED BY <1>1, <2>1, <2>2 DEF CompleteWriteManifest, TypeInv, TypeOK
<1>2. CASE CompleteCommitManifest
  <2>1. op.file \in FileIds
    BY <1>2, <1>a DEF CompleteCommitManifest, OpOK, CreatePlaces, MovePlaces, AppendPlaces, SessionPlaces
  <2>2. op' \in Operation /\ OpOK'
    BY <1>2, <1>a, GotoKeepsOperation, PlaceNames DEF CompleteCommitManifest, OpOK, CreatePlaces, MovePlaces, AppendPlaces, SessionPlaces
  <2>3. manifests' \in [FileIds -> ManifestState]
    BY <1>2, <2>1, <1>b DEF CompleteCommitManifest, ManifestState, TrashItem
  <2> QED BY <1>2, <2>1, <2>2, <2>3 DEF CompleteCommitManifest, TypeInv, TypeOK
<1>3. CASE CompleteWriteSession
  <2>1. op.session \in UploadIds
    BY <1>3, <1>a DEF CompleteWriteSession, OpOK, CreatePlaces, MovePlaces, AppendPlaces, SessionPlaces
  <2>2. op' \in Operation /\ OpOK'
    BY <1>3, <1>a, GotoKeepsOperation, PlaceNames DEF CompleteWriteSession, OpOK, CreatePlaces, MovePlaces, AppendPlaces, SessionPlaces
  <2>3. uploads' \in [UploadIds -> Session]
    BY <1>3, <2>1, <1>c, SessionFields DEF CompleteWriteSession
  <2> QED BY <1>3, <2>1, <2>2, <2>3 DEF CompleteWriteSession, TypeInv, TypeOK
<1>4. CASE CompleteCommitSession
  <2>1. op.file \in FileIds /\ op.session \in UploadIds
    BY <1>4, <1>a DEF CompleteCommitSession, OpOK, CreatePlaces, MovePlaces, AppendPlaces, SessionPlaces
  <2>2. op' \in Operation /\ OpOK'
    BY <1>4, <1>a, GotoKeepsOperation, PlaceNames DEF CompleteCommitSession, OpOK, CreatePlaces, MovePlaces, AppendPlaces, SessionPlaces
  <2>3. uploads' \in [UploadIds -> Session]
    <3>1. [uploads[op.session] EXCEPT !.tmp = FALSE, !.status = "completed", !.file = op.file, !.stale = FALSE] \in Session
      BY <2>1, <1>c, ManifestCommits
    <3>2. uploads' = [uploads EXCEPT ![op.session] = [uploads[op.session] EXCEPT
                        !.tmp = FALSE, !.status = "completed", !.file = op.file, !.stale = FALSE]]
      BY <1>4 DEF CompleteCommitSession
    <3> QED BY <3>1, <3>2, <2>1, <1>c
  <2> QED BY <1>4, <2>1, <2>2, <2>3 DEF CompleteCommitSession, TypeInv, TypeOK
<1>5. CASE CompleteAck
  <2>1. op.file \in FileIds /\ op.session \in UploadIds
    BY <1>5, <1>a DEF CompleteAck, OpOK, CreatePlaces, MovePlaces, AppendPlaces, SessionPlaces
  <2>2. op' \in Operation /\ OpOK'
    BY <1>5, ReturnKeepsOperation DEF CompleteAck, OpOK, CreatePlaces, MovePlaces, AppendPlaces, SessionPlaces
  <2>3. confirmed' \in [UploadIds -> -1 .. UploadSize]
    BY <1>5, <2>1, <1>c DEF CompleteAck, NotOpen
  <2> QED BY <1>5, <2>1, <2>2, <2>3 DEF CompleteAck, TypeInv, TypeOK
<1>6. CASE CompleteIOError
  <2>1. op.file \in FileIds /\ op.session \in UploadIds
    BY <1>6, <1>a DEF CompleteIOError, OpOK, CreatePlaces, MovePlaces, AppendPlaces, SessionPlaces
  <2>2. op' \in Operation /\ OpOK'
    BY <1>6, <1>a, GotoKeepsOperation, PlaceNames DEF CompleteIOError, OpOK, CreatePlaces, MovePlaces, AppendPlaces, SessionPlaces
  <2>3. uploads' \in [UploadIds -> Session]
    BY <1>6, <2>1, <1>c, SessionFields DEF CompleteIOError
  <2> QED BY <1>6, <2>1, <2>2, <2>3 DEF CompleteIOError, IOError, TypeInv, TypeOK
<1>7. CASE CompleteUndo
  <2>1. op.file \in FileIds
    BY <1>7, <1>a DEF CompleteUndo, OpOK, CreatePlaces, MovePlaces, AppendPlaces, SessionPlaces
  <2>2. op' \in Operation /\ OpOK'
    BY <1>7, <1>a, GotoKeepsOperation, PlaceNames DEF CompleteUndo, OpOK, CreatePlaces, MovePlaces, AppendPlaces, SessionPlaces
  <2>3. assembled' \in [FileIds -> [from : UploadIds \cup {NoUpload}, bytes : 0 .. UploadSize]]
    BY <1>7, <2>1, <1>c DEF CompleteUndo, TypeInv, TypeOK, NotAssembled
  <2> QED BY <1>7, <2>1, <2>2, <2>3 DEF CompleteUndo, IOError, TypeInv, TypeOK
<1>8. CASE CompleteUndoManifest
  <2>1. op.file \in FileIds
    BY <1>8, <1>a DEF CompleteUndoManifest, OpOK, CreatePlaces, MovePlaces, AppendPlaces, SessionPlaces
  <2>2. op' \in Operation /\ OpOK'
    BY <1>8, ReturnKeepsOperation DEF CompleteUndoManifest, OpOK, CreatePlaces, MovePlaces, AppendPlaces, SessionPlaces
  <2>3. manifests' \in [FileIds -> ManifestState]
    BY <1>8, <2>1, <1>b DEF CompleteUndoManifest, ManifestState, TrashItem
  <2> QED BY <1>8, <2>1, <2>2, <2>3 DEF CompleteUndoManifest, IOError, TypeInv, TypeOK
<1> QED BY <1>1, <1>2, <1>3, <1>4, <1>5, <1>6, <1>7, <1>8 DEF CompleteStep

\* The steps of Recover.
LEMMA RecoverTypes == TypeInv /\ RecoverStep => TypeInv'
<1> SUFFICES ASSUME TypeInv, RecoverStep PROVE TypeInv'
  OBVIOUS
<1> USE ConstantsAssumption DEF At, Frame, Sessions, fileVars, diskVars, ghostVars, procVars
<1>a. op \in Operation /\ OpOK BY DEF TypeInv, TypeOK
<1>b. trash \in [FileIds -> TrashItem] /\ manifests \in [FileIds -> ManifestState]
  BY DEF TypeInv, TypeOK
<1>c. uploads \in [UploadIds -> Session] /\ confirmed \in [UploadIds -> -1 .. UploadSize]
  BY DEF TypeInv, TypeOK
<1>1. CASE RecoverScanned
  <2>1. op' \in Operation /\ OpOK'
    BY <1>1, <1>a, PlaceNames DEF RecoverScanned, Operation, SessionDirs, OpOK, CreatePlaces, MovePlaces, AppendPlaces, SessionPlaces
  <2> QED BY <1>1, <2>1 DEF RecoverScanned, SessionDirs, TypeInv, TypeOK
<1>2. CASE RecoverDone
  <2>1. op' \in Operation /\ OpOK'
    BY <1>2, ReturnKeepsOperation DEF RecoverDone, OpOK, CreatePlaces, MovePlaces, AppendPlaces, SessionPlaces
  <2> QED BY <1>2, <2>1 DEF RecoverDone, TypeInv, TypeOK
<1>3. CASE RecoverIOError
  <2>1. op' \in Operation /\ OpOK'
    BY <1>3, ReturnKeepsOperation DEF RecoverIOError, OpOK, CreatePlaces, MovePlaces, AppendPlaces, SessionPlaces
  <2>2. proc' \in {"down", "recovering", "running"} /\ repaired' \in BOOLEAN
    BY <1>3 DEF RecoverIOError, TypeInv, TypeOK
  <2>3. faults' \in 0 .. MaxFaults
    BY <1>3 DEF RecoverIOError, IOError, TypeInv, TypeOK
  <2>4. UNCHANGED <<objects, manifests, manifestTmps, partials, trash, uploads, crashes, index,
                    held, confirmed, assembled, overlooked>>
    BY <1>3 DEF RecoverIOError
  <2> QED BY <2>1, <2>2, <2>3, <2>4 DEF TypeInv, TypeOK
<1>4. ASSUME NEW id \in FileIds, RecoverPartial(id) PROVE TypeInv'
  <2> QED BY <1>4 DEF RecoverPartial, Quarantines, OpOK, TypeInv, TypeOK
<1>5. ASSUME NEW id \in FileIds, RecoverManifestTmp(id) PROVE TypeInv'
  <2> QED BY <1>5 DEF RecoverManifestTmp, Quarantines, OpOK, TypeInv, TypeOK
<1>6. ASSUME NEW u \in UploadIds, RecoverUploadTmp(u) PROVE TypeInv'
  <2>1. uploads' = [uploads EXCEPT ![u].tmp = FALSE] /\ FALSE \in BOOLEAN
    BY <1>6 DEF RecoverUploadTmp
  <2>2. uploads' \in [UploadIds -> Session]
    BY <1>c, <2>1, SessionFields
  <2> QED BY <1>6, <2>2 DEF RecoverUploadTmp, Quarantines, OpOK, TypeInv, TypeOK
<1>7. ASSUME NEW u \in UploadIds, RecoverSession(u) PROVE TypeInv'
  <2>1. uploads' \in [UploadIds -> Session]
    BY <1>7, <1>c, EmptyEntries DEF RecoverSession, Quarantines
  <2> QED BY <1>7, <2>1 DEF RecoverSession, Quarantines, OpOK, TypeInv, TypeOK
<1> QED BY <1>1, <1>2, <1>3, <1>4, <1>5, <1>6, <1>7 DEF RecoverStep

\* The requests that Put, Delete, Restore and PurgeTrash begin with.
LEMMA FileStartTypes == TypeInv /\ FileStart => TypeInv'
<1> SUFFICES ASSUME TypeInv, FileStart PROVE TypeInv'
  OBVIOUS
<1> USE ConstantsAssumption DEF At, Frame, Sessions, fileVars, diskVars, ghostVars, procVars
<1>a. op \in Operation /\ OpOK BY DEF TypeInv, TypeOK
<1>b. trash \in [FileIds -> TrashItem] BY DEF TypeInv, TypeOK
<1>c. op' \in Operation /\ OpOK'
  <2>1. CASE UsageLoad
    BY <2>1, <1>a DEF UsageLoad, OpOK
  <2>2. CASE PurgeTrash
    BY <2>2, PlaceNames, IdleOperation DEF PurgeTrash, Operation, OpOK,
       CreatePlaces, MovePlaces, AppendPlaces, SessionPlaces
  <2>3. ASSUME NEW id \in FileIds, Put(id) \/ Delete(id) \/ Restore(id) PROVE op' \in Operation /\ OpOK'
    <3>1. op'.file = id /\ op' \in Operation
      BY <2>3, PlaceNames, IdleOperation DEF Put, Delete, Restore, Operation
    <3>2. op'.pc \in {"putBody", "delObject", "resMark"}
      BY <2>3, IdleOperation DEF Put, Delete, Restore, Operation
    <3> QED BY <3>1, <3>2 DEF OpOK, AppendPlaces, SessionPlaces
  <2> QED BY <2>1, <2>2, <2>3 DEF FileStart
<1>1. CASE UsageLoad
  BY <1>1, <1>c DEF UsageLoad, EnsureUsage, TypeInv, TypeOK
<1>2. CASE PurgeTrash
  BY <1>2, <1>c DEF PurgeTrash, TypeInv, TypeOK
<1>3. ASSUME NEW id \in FileIds, Put(id) PROVE TypeInv'
  BY <1>3, <1>c, PutGuard DEF Put, EnsureUsage, TypeInv, TypeOK
<1>4. ASSUME NEW id \in FileIds, Delete(id) PROVE TypeInv'
  <2>1. trash' \in [FileIds -> TrashItem]
    BY <1>4, <1>b DEF Delete, TrashItem, NoTrash, ManifestState
  <2> QED BY <1>4, <1>c, <2>1 DEF Delete, TypeInv, TypeOK
<1>5. ASSUME NEW id \in FileIds, Restore(id) PROVE TypeInv'
  <2>1. trash' \in [FileIds -> TrashItem]
    BY <1>5, <1>b DEF Restore, TrashItem
  <2> QED BY <1>5, <1>c, <2>1, RestoreGuard DEF Restore, TypeInv, TypeOK
<1> QED BY <1>1, <1>2, <1>3, <1>4, <1>5 DEF FileStart

\* The requests on resumable uploads.
LEMMA UploadStartTypes == TypeInv /\ UploadStart => TypeInv'
<1> SUFFICES ASSUME TypeInv, UploadStart PROVE TypeInv'
  OBVIOUS
<1> USE ConstantsAssumption DEF Sessions, fileVars, diskVars, ghostVars, procVars
<1>a. op \in Operation /\ OpOK BY DEF TypeInv, TypeOK
<1>b. uploads \in [UploadIds -> Session] /\ confirmed \in [UploadIds -> -1 .. UploadSize]
  BY DEF TypeInv, TypeOK
<1>1. CASE SweepUploads
  <2>1. op' \in Operation /\ OpOK'
    BY <1>1, PlaceNames, IdleOperation DEF SweepUploads, SessionDirs, Operation, OpOK,
       CreatePlaces, MovePlaces, AppendPlaces, SessionPlaces
  <2> QED BY <1>1, <2>1 DEF SweepUploads, TypeInv, TypeOK
<1>2. ASSUME NEW u \in UploadIds, StartUpload(u) PROVE TypeInv'
  <2>1. op' \in Operation
    BY <1>2, PlaceNames, IdleOperation DEF StartUpload, SessionDirs, Operation
  <2>2. OpOK'
    BY <1>2, IdleOperation DEF StartUpload, Operation, OpOK, CreatePlaces, MovePlaces, AppendPlaces, SessionPlaces
  <2> QED BY <1>2, <2>1, <2>2 DEF StartUpload, TypeInv, TypeOK
<1>3. ASSUME NEW u \in UploadIds, AbortUpload(u) PROVE TypeInv'
  <2>1. op' \in Operation /\ OpOK'
    BY <1>3, PlaceNames, IdleOperation DEF AbortUpload, Operation, OpOK,
       CreatePlaces, MovePlaces, AppendPlaces, SessionPlaces
  <2>2. confirmed' \in [UploadIds -> -1 .. UploadSize]
    BY <1>3, <1>b DEF AbortUpload, NotOpen
  <2> QED BY <1>3, <2>1, <2>2 DEF AbortUpload, TypeInv, TypeOK
<1>4. ASSUME NEW u \in UploadIds, NEW n \in 1 .. UploadSize, AppendUpload(u, n) PROVE TypeInv'
  <2>1. uploads[u].received \in 0 .. UploadSize /\ n \in 0 .. UploadSize
    <3>1. uploads[u] \in Session
      BY <1>b
    <3> QED BY <3>1 DEF Session
  <2>2. op' \in Operation
    BY <1>4, <2>1, PlaceNames, IdleOperation DEF AppendUpload, Operation
  <2>3. uploads[u].received + n <= UploadSize
    BY <1>4, <2>1 DEF AppendUpload
  <2>4. OpOK'
    BY <1>4, <2>3, IdleOperation DEF AppendUpload, Operation, OpOK, CreatePlaces, MovePlaces, AppendPlaces, SessionPlaces
  <2> QED BY <1>4, <2>2, <2>4 DEF AppendUpload, TypeInv, TypeOK
<1>5. ASSUME NEW u \in UploadIds, NEW id \in FileIds, CompleteUpload(u, id) PROVE TypeInv'
  <2>1. op' \in Operation /\ OpOK'
    BY <1>5, PlaceNames, IdleOperation DEF CompleteUpload, Operation, OpOK,
       CreatePlaces, MovePlaces, AppendPlaces, SessionPlaces
  <2>2. uploads' \in [UploadIds -> Session]
    BY <1>5, <1>b DEF CompleteUpload, Session, Absent
  <2>3. uploads[u].part \in 0 .. UploadSize
    BY <1>5, <1>b DEF CompleteUpload, UploadOK, Session
  <2>4. assembled' \in [FileIds -> [from : UploadIds \cup {NoUpload}, bytes : 0 .. UploadSize]]
    BY <1>5, <2>3 DEF CompleteUpload, TypeInv, TypeOK
  <2> QED BY <1>5, <2>1, <2>2, <2>4 DEF CompleteUpload, TypeInv, TypeOK
<1> QED BY <1>1, <1>2, <1>3, <1>4, <1>5 DEF UploadStart

\* The clock, the start of a process and its end.
LEMMA ProcessTypes == TypeInv /\ ((\E u \in UploadIds : Age(u)) \/ Restart \/ Crash) => TypeInv'
<1> SUFFICES ASSUME TypeInv, (\E u \in UploadIds : Age(u)) \/ Restart \/ Crash PROVE TypeInv'
  OBVIOUS
<1> USE ConstantsAssumption DEF Sessions, fileVars, diskVars, ghostVars, procVars
<1>1. ASSUME NEW u \in UploadIds, Age(u) PROVE TypeInv'
  <2>1. uploads \in [UploadIds -> Session]
    BY DEF TypeInv, TypeOK
  <2>2. uploads' \in [UploadIds -> Session]
    BY <1>1, <2>1 DEF Age, Session
  <2> QED BY <1>1, <2>2 DEF Age, TypeInv, TypeOK, OpOK
<1>2. CASE Restart
  <2>1. op' \in Operation /\ OpOK'
    BY <1>2, PlaceNames, IdleOperation DEF Restart, Operation, OpOK,
       CreatePlaces, MovePlaces, AppendPlaces, SessionPlaces
  <2> QED BY <1>2, <2>1 DEF Restart, TypeInv, TypeOK
<1>3. CASE Crash
  <2>1. op' \in Operation /\ OpOK'
    BY <1>3, IdleOperation DEF Crash, OpOK,
       CreatePlaces, MovePlaces, AppendPlaces, SessionPlaces
  <2>2. crashes' \in 0 .. MaxCrashes
    BY <1>3 DEF Crash, TypeInv, TypeOK
  <2> QED BY <1>3, <2>1, <2>2 DEF Crash, TypeInv, TypeOK
<1> QED BY <1>1, <1>2, <1>3

\* An empty data root and no process.
LEMMA InitTypes == Init => TypeInv
<1> SUFFICES ASSUME Init PROVE TypeInv
  OBVIOUS
<1>1. op \in Operation /\ OpOK
  BY ConstantsAssumption, PlaceNames, IdleOperation DEF Init, Operation, OpOK,
     CreatePlaces, MovePlaces, AppendPlaces, SessionPlaces
<1>2. trash \in [FileIds -> TrashItem] /\ uploads \in [UploadIds -> Session]
  BY EmptyEntries DEF Init
<1>3. manifests \in [FileIds -> ManifestState] /\ confirmed \in [UploadIds -> -1 .. UploadSize]
  BY ConstantsAssumption DEF Init, ManifestState, NotOpen
<1>4. assembled \in [FileIds -> [from : UploadIds \cup {NoUpload}, bytes : 0 .. UploadSize]]
  BY ConstantsAssumption DEF Init, NotAssembled
<1>5. 0 \in 0 .. MaxFaults /\ 0 \in 0 .. MaxCrashes
  BY ConstantsAssumption
<1> QED BY <1>1, <1>2, <1>3, <1>4, <1>5 DEF Init, TypeInv, TypeOK

LEMMA NextTypes == TypeInv /\ [Next]_vars => TypeInv'
<1> SUFFICES ASSUME TypeInv, [Next]_vars PROVE TypeInv'
  OBVIOUS
<1>1. CASE UNCHANGED vars
  BY <1>1 DEF TypeInv, TypeOK, OpOK, vars, diskVars, fileVars, procVars, ghostVars
<1> QED BY <1>1, PutTypes, DeleteTypes, RestoreTypes, PurgeTypes, SweepTypes, SessionTypes,
           CompleteTypes, RecoverTypes, FileStartTypes, UploadStartTypes, ProcessTypes
        DEF Next, Progress

\* Every step, in every order of requests, faults and kills, leaves every variable a
\* value of its kind; in particular a session never counts more bytes than it declared,
\* because AppendUpload bounds base + chunk before the first byte is read (store.go:501).
THEOREM TypeCorrect == Spec => []TypeOK
<1>1. Spec => []TypeInv
  BY InitTypes, NextTypes, PTL DEF Spec
<1>2. TypeInv => TypeOK
  BY DEF TypeInv
<1> QED BY <1>1, <1>2, PTL

-----------------------------------------------------------------------------
(* None of the three properties is inductive: whether a step keeps them depends  *)
(* on what the operation that holds the lock has done so far.                    *)

\* What a trash entry contains is in a directory.
EntryInv == \A id \in FileIds :
  trash[id].object \/ trash[id].manifest # "none" => trash[id].dir

\* A stat that failed is a failed system call.
OverlookInv == overlooked # {} => faults >= 1

\* An id that was overlooked may have two manifests, but not without an object.
TwiceInv == faults <= 1 => \A id \in FileIds :
  manifests[id] # "none" /\ trash[id].manifest # "none" => id \in objects

\* Put and Complete work on an id that nobody holds and that is not in the trash, unless
\* they overlooked it; then one more failed call is needed for their undo.  Their object
\* is there until that undo.
UndoCreatePlaces == {"putUndoManifest", "putUndo", "cmpUndo", "cmpUndoManifest"}
CreateInv == op.pc \in CreatePlaces =>
  /\ proc # "down"
  /\ ~trash[op.file].dir \/ op.file \in overlooked
  /\ faults = 0 \/ (faults = 1 /\ op.pc \in UndoCreatePlaces)
       => ~trash[op.file].dir /\ op.file \notin held
  /\ (faults = 0 /\ op.pc \in {"putBody", "putTmp", "putRename"})
       \/ (faults = 1 /\ op.pc = "putUndo") => manifests[op.file] = "none"
  /\ op.pc \notin {"putBody", "cmpUndoManifest"} => op.file \in objects

\* Where the object and the manifest are while Delete, Restore and PurgeTrash move them.
Twice == faults >= 2 /\ op.file \in overlooked
MoveInv ==
  /\ op.pc \in {"delObject", "delManifest", "delTmp", "delMark", "resMark"} => trash[op.file].dir
  /\ op.pc \in {"delTmp", "delMark"} => manifests[op.file] = "none"
  /\ op.pc \in {"resMark", "resObject"} => manifests[op.file] = "none" \/ Twice
  /\ op.pc \in {"delObject", "resManifest", "resDir"} => op.file \in objects
  /\ op.pc \in {"undoManifest", "undoDir"} /\ faults <= 1 => op.file \in objects
  /\ op.pc \in MovePlaces \ {"purgeDrop"} => Single(op.file) \/ Twice
  /\ op.pc = "purgeDrop" /\ manifests[op.file] = "none" => op.file \notin held
  /\ op.pc = "purgeDrop" /\ manifests[op.file] # "none" =>
       op.file \in overlooked /\ (faults <= 1 => op.file \in objects)

\* An undo follows a failed system call, so one more failure is the second.
UndoInv == op.pc \in UndoCreatePlaces \cup {"undoObject", "undoManifest", "undoDir"} => faults >= 1

FilesInv == EntryInv /\ OverlookInv /\ TwiceInv /\ CreateInv /\ MoveInv /\ UndoInv
            /\ HeldBytesKept /\ ManifestHasBytes /\ OneCopy

\* A step that leaves the files alone and is not inside an operation on one.
LEMMA FilesFrame ==
  ASSUME TypeInv, FilesInv,
         UNCHANGED <<objects, manifests, trash, held, overlooked>>,
         faults' >= faults, faults' \in Nat, crashes' >= crashes, crashes' \in Nat,
         op.pc = "cmpUndoManifest" => crashes' > crashes,
         op'.pc \notin CreatePlaces \cup MovePlaces
  PROVE  FilesInv'
<1>1. faults \in Nat /\ crashes \in Nat
  BY ConstantsAssumption DEF TypeInv, TypeOK
<1>2. EntryInv' /\ OverlookInv' /\ TwiceInv' /\ CreateInv' /\ MoveInv' /\ UndoInv'
  BY <1>1 DEF FilesInv, EntryInv, OverlookInv, TwiceInv, CreateInv, MoveInv, UndoInv,
     CreatePlaces, MovePlaces, UndoCreatePlaces
<1>3. HeldBytesKept' /\ OneCopy'
  BY <1>1 DEF FilesInv, HeldBytesKept, OneCopy, Single, HasBytes
<1>4. ManifestHasBytes'
  BY <1>1 DEF FilesInv, UndoInv, UndoCreatePlaces, ManifestHasBytes, HasBytes, At
<1> QED BY <1>2, <1>3, <1>4 DEF FilesInv

\* The steps of Put.
LEMMA PutFiles == TypeInv /\ FilesInv /\ PutStep => FilesInv'
<1> SUFFICES ASSUME TypeInv, FilesInv, PutStep PROVE FilesInv'
  OBVIOUS
<1> USE DEF At, Frame, fileVars, diskVars, ghostVars, procVars, Single, Twice, UndoCreatePlaces
<1>a. op \in Operation /\ OpOK BY DEF TypeInv, TypeOK
<1>b. faults \in Nat /\ crashes \in Nat /\ overlooked \subseteq FileIds /\ FilesInv
  BY ConstantsAssumption DEF TypeInv, TypeOK
<1>c. trash \in [FileIds -> TrashItem] /\ manifests \in [FileIds -> ManifestState]
  BY DEF TypeInv, TypeOK
<1>d. held \subseteq FileIds BY DEF TypeInv, TypeOK
<1>1. CASE PutAbandon
  <2>1. op'.pc \notin CreatePlaces \cup MovePlaces
    BY <1>1, ReturnKeepsOperation DEF PutAbandon, CreatePlaces, MovePlaces
  <2> QED BY <1>1, <1>b, <2>1, FilesFrame DEF PutAbandon, IOError
<1>2. CASE PutCommitObject
  <2>1. op.file \in FileIds
    BY <1>2, <1>a DEF PutCommitObject, OpOK, CreatePlaces, MovePlaces
  <2>2. op'.pc = "putTmp" /\ op'.file = op.file
    BY <1>2, <1>a, GotoKeepsOperation, PlaceNames DEF PutCommitObject
  <2> QED BY <1>2, <1>b, <2>1, <2>2
    DEF PutCommitObject, FilesInv, EntryInv, OverlookInv, TwiceInv, CreateInv, MoveInv, UndoInv, HeldBytesKept,
       ManifestHasBytes, OneCopy, HasBytes, CreatePlaces, MovePlaces
<1>3. CASE PutWriteManifest
  <2>1. op.file \in FileIds
    BY <1>3, <1>a DEF PutWriteManifest, OpOK, CreatePlaces, MovePlaces
  <2>2. op'.pc = "putRename" /\ op'.file = op.file
    BY <1>3, <1>a, GotoKeepsOperation, PlaceNames DEF PutWriteManifest
  <2> QED BY <1>3, <1>b, <2>1, <2>2
    DEF PutWriteManifest, FilesInv, EntryInv, OverlookInv, TwiceInv, CreateInv, MoveInv, UndoInv, HeldBytesKept,
       ManifestHasBytes, OneCopy, HasBytes, CreatePlaces, MovePlaces
<1>4. CASE PutCommitManifest
  <2>1. op.file \in FileIds
    BY <1>4, <1>a DEF PutCommitManifest, OpOK, CreatePlaces, MovePlaces
  <2>2. op'.pc = "putSync" /\ op'.file = op.file
    BY <1>4, <1>a, GotoKeepsOperation, PlaceNames DEF PutCommitManifest
  <2> QED BY <1>4, <1>b, <2>1, <2>2
    DEF PutCommitManifest, FilesInv, EntryInv, OverlookInv, TwiceInv, CreateInv, MoveInv, UndoInv, HeldBytesKept,
       ManifestHasBytes, OneCopy, HasBytes, CreatePlaces, MovePlaces
<1>5. CASE PutAck
  <2>1. op.file \in FileIds
    BY <1>5, <1>a DEF PutAck, OpOK, CreatePlaces, MovePlaces
  <2>2. op'.pc = "idle"
    BY <1>5, ReturnKeepsOperation DEF PutAck
  <2> QED BY <1>5, <1>b, <2>1, <2>2
    DEF PutAck, FilesInv, EntryInv, OverlookInv, TwiceInv, CreateInv, MoveInv, UndoInv, HeldBytesKept,
       ManifestHasBytes, OneCopy, HasBytes, CreatePlaces, MovePlaces
<1>6. CASE PutIOError
  <2>1. op.file \in FileIds
    BY <1>6, <1>a DEF PutIOError, OpOK, CreatePlaces, MovePlaces
  <2>2. /\ op'.pc = (IF op.pc = "putSync" THEN "putUndoManifest" ELSE "putUndo")
        /\ op'.file = op.file
    BY <1>6, <1>a, GotoKeepsOperation, PlaceNames DEF PutIOError
  <2>3. faults' = faults + 1 /\ UNCHANGED <<objects, manifests, trash, held, overlooked, crashes, proc>>
    BY <1>6 DEF PutIOError, IOError
  <2>4. op.pc \in {"putTmp", "putRename", "putSync"}
    BY <1>6 DEF PutIOError
  <2>5. CASE op.pc = "putSync"
    BY <1>b, <2>1, <2>2, <2>3, <2>5
      DEF FilesInv, EntryInv, OverlookInv, TwiceInv, CreateInv, MoveInv, UndoInv, HeldBytesKept,
       ManifestHasBytes, OneCopy, HasBytes, CreatePlaces, MovePlaces
  <2>6. CASE op.pc # "putSync"
    BY <1>b, <2>1, <2>2, <2>3, <2>4, <2>6
      DEF FilesInv, EntryInv, OverlookInv, TwiceInv, CreateInv, MoveInv, UndoInv, HeldBytesKept,
       ManifestHasBytes, OneCopy, HasBytes, CreatePlaces, MovePlaces
  <2> QED BY <2>5, <2>6
<1>7. CASE PutUndoManifest
  <2>1. op.file \in FileIds
    BY <1>7, <1>a DEF PutUndoManifest, OpOK, CreatePlaces, MovePlaces
  <2>2. op'.pc = "putUndo" /\ op'.file = op.file
    BY <1>7, <1>a, GotoKeepsOperation, PlaceNames DEF PutUndoManifest
  <2>3. /\ op.pc = "putUndoManifest"
        /\ UNCHANGED <<objects, trash, held, overlooked, crashes, proc>>
        /\ \/ /\ manifests' = [manifests EXCEPT ![op.file] = "none"]
              /\ faults' = faults
           \/ faults' = faults + 1 /\ manifests' = manifests
    BY <1>7 DEF PutUndoManifest, IOError
  <2>4. /\ faults' = faults => manifests'[op.file] = "none"
        /\ \A id \in FileIds : manifests'[id] \in {manifests[id], "none"}
        /\ faults' \in Nat /\ faults <= faults' /\ faults >= 1 /\ (faults' <= 1 => faults' = faults)
    BY <1>b, <1>c, <2>1, <2>3 DEF FilesInv, UndoInv
  <2> QED BY <1>b, <2>1, <2>2, <2>3, <2>4
    DEF FilesInv, EntryInv, OverlookInv, TwiceInv, CreateInv, MoveInv, UndoInv, HeldBytesKept,
       ManifestHasBytes, OneCopy, HasBytes, CreatePlaces, MovePlaces
<1>8. CASE PutUndo
  <2>1. op.file \in FileIds
    BY <1>8, <1>a DEF PutUndo, OpOK, CreatePlaces, MovePlaces
  <2>2. op'.pc = "idle"
    BY <1>8, ReturnKeepsOperation DEF PutUndo
  <2>3. /\ op.pc = "putUndo"
        /\ objects' \subseteq objects /\ objects \subseteq objects' \cup {op.file}
        /\ UNCHANGED <<manifests, trash, held, overlooked, crashes, proc>>
        /\ faults' \in Nat /\ faults <= faults' /\ faults >= 1
    BY <1>8, <1>b DEF PutUndo, IOError, FilesInv, UndoInv
  <2>4. faults <= 1 => op.file \notin held /\ manifests[op.file] = "none"
    BY <1>b, <2>3 DEF FilesInv, CreateInv, CreatePlaces
  <2> QED BY <1>b, <2>1, <2>2, <2>3, <2>4
    DEF FilesInv, EntryInv, OverlookInv, TwiceInv, CreateInv, MoveInv, UndoInv, HeldBytesKept,
       ManifestHasBytes, OneCopy, HasBytes, CreatePlaces, MovePlaces
<1> QED BY <1>1, <1>2, <1>3, <1>4, <1>5, <1>6, <1>7, <1>8 DEF PutStep

\* The steps of Delete.
LEMMA DeleteFiles == TypeInv /\ FilesInv /\ DeleteStep => FilesInv'
<1> SUFFICES ASSUME TypeInv, FilesInv, DeleteStep PROVE FilesInv'
  OBVIOUS
<1> USE DEF At, Frame, fileVars, diskVars, ghostVars, procVars, Single, Twice, UndoCreatePlaces
<1>a. op \in Operation /\ OpOK BY DEF TypeInv, TypeOK
<1>b. faults \in Nat /\ crashes \in Nat /\ overlooked \subseteq FileIds /\ FilesInv
  BY ConstantsAssumption DEF TypeInv, TypeOK
<1>c. trash \in [FileIds -> TrashItem] /\ manifests \in [FileIds -> ManifestState]
  BY DEF TypeInv, TypeOK
<1>d. held \subseteq FileIds BY DEF TypeInv, TypeOK
<1>1. CASE DeleteMoveObject
  <2>1. op.file \in FileIds
    BY <1>1, <1>a DEF DeleteMoveObject, OpOK, CreatePlaces, MovePlaces
  <2>2. op'.pc = "delManifest" /\ op'.file = op.file
    BY <1>1, <1>a, GotoKeepsOperation, PlaceNames DEF DeleteMoveObject
  <2>3. /\ trash'[op.file].dir = trash[op.file].dir
         /\ trash'[op.file].object = TRUE
         /\ trash'[op.file].manifest = trash[op.file].manifest
         /\ \A id \in FileIds \ {op.file} : trash'[id] = trash[id]
    BY <1>1, <1>c, <2>1 DEF DeleteMoveObject, TrashItem
  <2> QED BY <1>1, <1>b, <2>1, <2>2, <2>3
    DEF DeleteMoveObject, FilesInv, EntryInv, OverlookInv, TwiceInv, CreateInv, MoveInv, UndoInv, HeldBytesKept,
       ManifestHasBytes, OneCopy, HasBytes, CreatePlaces, MovePlaces
<1>2. CASE DeleteMoveFails
  <2>1. op.file \in FileIds
    BY <1>2, <1>a DEF DeleteMoveFails, OpOK, CreatePlaces, MovePlaces
  <2>2. op'.pc = "idle"
    BY <1>2, ReturnKeepsOperation DEF DeleteMoveFails
  <2>3. /\ trash'[op.file].dir = FALSE
         /\ trash'[op.file].object = FALSE
         /\ trash'[op.file].manifest = "none"
         /\ \A id \in FileIds \ {op.file} : trash'[id] = trash[id]
    BY <1>2, <1>c, <2>1 DEF DeleteMoveFails, TrashItem, NoTrash
  <2> QED BY <1>2, <1>b, <2>1, <2>2, <2>3
    DEF DeleteMoveFails, IOError, FilesInv, EntryInv, OverlookInv, TwiceInv, CreateInv, MoveInv, UndoInv, HeldBytesKept,
       ManifestHasBytes, OneCopy, HasBytes, CreatePlaces, MovePlaces
<1>3. CASE DeleteMoveManifest
  <2>1. op.file \in FileIds
    BY <1>3, <1>a DEF DeleteMoveManifest, OpOK, CreatePlaces, MovePlaces
  <2>2. op'.pc = "delTmp" /\ op'.file = op.file
    BY <1>3, <1>a, GotoKeepsOperation, PlaceNames DEF DeleteMoveManifest
  <2>3. /\ trash'[op.file].dir = trash[op.file].dir
         /\ trash'[op.file].object = trash[op.file].object
         /\ trash'[op.file].manifest = manifests[op.file]
         /\ \A id \in FileIds \ {op.file} : trash'[id] = trash[id]
    BY <1>3, <1>c, <2>1 DEF DeleteMoveManifest, TrashItem
  <2>4. /\ manifests'[op.file] = "none"
        /\ \A id \in FileIds \ {op.file} : manifests'[id] = manifests[id]
    BY <1>3, <1>c, <2>1 DEF DeleteMoveManifest
  <2>5. EntryInv' /\ OverlookInv' /\ TwiceInv' /\ CreateInv' /\ MoveInv' /\ UndoInv'
    BY <1>3, <1>b, <2>1, <2>2, <2>3, <2>4 DEF DeleteMoveManifest, FilesInv, EntryInv, OverlookInv, TwiceInv, CreateInv, MoveInv, UndoInv, CreatePlaces, MovePlaces
  <2>6. HeldBytesKept'
    BY <1>3, <1>b, <2>1, <2>2, <2>3, <2>4, <1>d DEF DeleteMoveManifest, FilesInv, MoveInv, UndoInv, HeldBytesKept, HasBytes
  <2>7. ManifestHasBytes'
    BY <1>3, <1>b, <2>1, <2>2, <2>3, <2>4 DEF DeleteMoveManifest, FilesInv, MoveInv, UndoInv, HeldBytesKept, ManifestHasBytes, HasBytes
  <2>8. OneCopy'
    BY <1>3, <1>b, <2>1, <2>2, <2>3, <2>4 DEF DeleteMoveManifest, FilesInv, MoveInv, OneCopy
  <2> QED BY <2>5, <2>6, <2>7, <2>8 DEF FilesInv
<1>4. CASE DeleteWriteMark
  <2>1. op.file \in FileIds
    BY <1>4, <1>a DEF DeleteWriteMark, OpOK, CreatePlaces, MovePlaces
  <2>2. op'.pc = "delMark" /\ op'.file = op.file
    BY <1>4, <1>a, GotoKeepsOperation, PlaceNames DEF DeleteWriteMark
  <2>3. /\ trash'[op.file].dir = trash[op.file].dir
         /\ trash'[op.file].object = trash[op.file].object
         /\ trash'[op.file].manifest = trash[op.file].manifest
         /\ \A id \in FileIds \ {op.file} : trash'[id] = trash[id]
    BY <1>4, <1>c, <2>1 DEF DeleteWriteMark, TrashItem
  <2> QED BY <1>4, <1>b, <2>1, <2>2, <2>3
    DEF DeleteWriteMark, FilesInv, EntryInv, OverlookInv, TwiceInv, CreateInv, MoveInv, UndoInv, HeldBytesKept,
       ManifestHasBytes, OneCopy, HasBytes, CreatePlaces, MovePlaces
<1>5. CASE DeleteCommitMark
  <2>1. op.file \in FileIds
    BY <1>5, <1>a DEF DeleteCommitMark, OpOK, CreatePlaces, MovePlaces
  <2>2. op'.pc = "delSync" /\ op'.file = op.file
    BY <1>5, <1>a, GotoKeepsOperation, PlaceNames DEF DeleteCommitMark
  <2>3. /\ trash'[op.file].dir = trash[op.file].dir
         /\ trash'[op.file].object = trash[op.file].object
         /\ trash'[op.file].manifest = "deleted"
         /\ \A id \in FileIds \ {op.file} : trash'[id] = trash[id]
    BY <1>5, <1>c, <2>1 DEF DeleteCommitMark, TrashItem
  <2>4. EntryInv' /\ OverlookInv' /\ TwiceInv' /\ CreateInv' /\ MoveInv' /\ UndoInv'
    BY <1>5, <1>b, <2>1, <2>2, <2>3 DEF DeleteCommitMark, FilesInv, EntryInv, OverlookInv, TwiceInv, CreateInv, MoveInv, UndoInv, CreatePlaces, MovePlaces
  <2>5. HeldBytesKept'
    BY <1>5, <1>b, <2>1, <2>2, <2>3, <1>d DEF DeleteCommitMark, FilesInv, MoveInv, UndoInv, HeldBytesKept, HasBytes
  <2>6. ManifestHasBytes'
    BY <1>5, <1>b, <2>1, <2>2, <2>3 DEF DeleteCommitMark, FilesInv, MoveInv, UndoInv, HeldBytesKept, ManifestHasBytes, HasBytes
  <2>7. OneCopy'
    BY <1>5, <1>b, <2>1, <2>2, <2>3 DEF DeleteCommitMark, FilesInv, MoveInv, OneCopy
  <2> QED BY <2>4, <2>5, <2>6, <2>7 DEF FilesInv
<1>6. CASE DeleteReturn
  <2>1. op'.pc \notin CreatePlaces \cup MovePlaces
    BY <1>6, ReturnKeepsOperation DEF DeleteReturn, CreatePlaces, MovePlaces
  <2> QED BY <1>6, <1>b, <2>1, FilesFrame DEF DeleteReturn, IOError
<1>7. CASE DeleteIOError
  <2>1. op.file \in FileIds
    BY <1>7, <1>a DEF DeleteIOError, OpOK, CreatePlaces, MovePlaces
  <2>2. op'.pc = "undoObject" /\ op'.file = op.file
    BY <1>7, <1>a, GotoKeepsOperation, PlaceNames DEF DeleteIOError
  <2>3. /\ trash'[op.file].dir = trash[op.file].dir
         /\ trash'[op.file].object = trash[op.file].object
         /\ trash'[op.file].manifest = trash[op.file].manifest
         /\ \A id \in FileIds \ {op.file} : trash'[id] = trash[id]
    BY <1>7, <1>c, <2>1 DEF DeleteIOError, TrashItem
  <2> QED BY <1>7, <1>b, <2>1, <2>2, <2>3
    DEF DeleteIOError, IOError, FilesInv, EntryInv, OverlookInv, TwiceInv, CreateInv, MoveInv, UndoInv, HeldBytesKept,
       ManifestHasBytes, OneCopy, HasBytes, CreatePlaces, MovePlaces
<1>8. CASE UndoDeleteObject
  <2>1. op.file \in FileIds
    BY <1>8, <1>a DEF UndoDeleteObject, OpOK, CreatePlaces, MovePlaces
  <2>2. op'.pc = "undoManifest" /\ op'.file = op.file
    BY <1>8, <1>a, GotoKeepsOperation, PlaceNames DEF UndoDeleteObject
  <2>3. /\ trash'[op.file].dir = trash[op.file].dir
        /\ trash'[op.file].manifest = trash[op.file].manifest
        /\ trash'[op.file].object => trash[op.file].object
        /\ \A id \in FileIds \ {op.file} : trash'[id] = trash[id]
        /\ objects \subseteq objects' /\ objects' \subseteq objects \cup {op.file}
        /\ op.file \in objects' /\ op.file \notin objects => ~trash'[op.file].object
        /\ faults' \in Nat /\ faults <= faults'
        /\ faults' <= 1 => op.file \in objects'
    BY <1>8, <1>b, <1>c, <2>1 DEF UndoDeleteObject, TrashItem, IOError, FilesInv, UndoInv
  <2>4. EntryInv' /\ OverlookInv' /\ TwiceInv' /\ CreateInv' /\ MoveInv' /\ UndoInv'
    BY <1>8, <1>b, <2>1, <2>2, <2>3 DEF UndoDeleteObject, FilesInv, EntryInv, OverlookInv, TwiceInv, CreateInv, MoveInv, UndoInv, CreatePlaces, MovePlaces
  <2>5. HeldBytesKept'
    BY <1>8, <1>b, <2>1, <2>2, <2>3, <1>d DEF UndoDeleteObject, FilesInv, MoveInv, UndoInv, HeldBytesKept, HasBytes
  <2>6. ManifestHasBytes'
    BY <1>8, <1>b, <2>1, <2>2, <2>3 DEF UndoDeleteObject, FilesInv, MoveInv, UndoInv, HeldBytesKept, ManifestHasBytes, HasBytes
  <2>7. OneCopy'
    BY <1>8, <1>b, <2>1, <2>2, <2>3 DEF UndoDeleteObject, FilesInv, MoveInv, OneCopy
  <2> QED BY <2>4, <2>5, <2>6, <2>7 DEF FilesInv
<1>9. CASE UndoDeleteManifest
  <2>1. op.file \in FileIds
    BY <1>9, <1>a DEF UndoDeleteManifest, OpOK, CreatePlaces, MovePlaces
  <2>2. op'.pc = "undoDir" /\ op'.file = op.file
    BY <1>9, <1>a, GotoKeepsOperation, PlaceNames DEF UndoDeleteManifest
  <2>3. /\ trash'[op.file].dir = trash[op.file].dir
        /\ trash'[op.file].object = trash[op.file].object
        /\ \A id \in FileIds \ {op.file} : trash'[id] = trash[id]
        /\ \A id \in FileIds \ {op.file} : manifests'[id] = manifests[id]
        /\ \/ trash'[op.file].manifest = "none"
           \/ trash'[op.file].manifest = trash[op.file].manifest /\ manifests'[op.file] = manifests[op.file]
        /\ faults' \in Nat /\ faults <= faults'
    BY <1>9, <1>b, <1>c, <2>1 DEF UndoDeleteManifest, TrashItem, IOError
  <2>4. EntryInv' /\ OverlookInv' /\ TwiceInv' /\ CreateInv' /\ MoveInv' /\ UndoInv'
    BY <1>9, <1>b, <2>1, <2>2, <2>3 DEF UndoDeleteManifest, FilesInv, EntryInv, OverlookInv, TwiceInv, CreateInv, MoveInv, UndoInv, CreatePlaces, MovePlaces
  <2>5. HeldBytesKept'
    BY <1>9, <1>b, <2>1, <2>2, <2>3, <1>d DEF UndoDeleteManifest, FilesInv, MoveInv, UndoInv, HeldBytesKept, HasBytes
  <2>6. ManifestHasBytes'
    BY <1>9, <1>b, <2>1, <2>2, <2>3 DEF UndoDeleteManifest, FilesInv, MoveInv, UndoInv, HeldBytesKept, ManifestHasBytes, HasBytes
  <2>7. OneCopy'
    BY <1>9, <1>b, <2>1, <2>2, <2>3 DEF UndoDeleteManifest, FilesInv, MoveInv, OneCopy
  <2> QED BY <2>4, <2>5, <2>6, <2>7 DEF FilesInv
<1>10. CASE UndoDeleteDir
  <2>1. op.file \in FileIds
    BY <1>10, <1>a DEF UndoDeleteDir, OpOK, CreatePlaces, MovePlaces
  <2>2. op'.pc = "idle"
    BY <1>10, ReturnKeepsOperation DEF UndoDeleteDir
  <2>3. /\ \/ trash'[op.file] = trash[op.file]
           \/ trash'[op.file].object = FALSE /\ trash'[op.file].manifest = "none"
        /\ \A id \in FileIds \ {op.file} : trash'[id] = trash[id]
        /\ faults' \in Nat /\ faults <= faults'
    BY <1>10, <1>b, <1>c, <2>1 DEF UndoDeleteDir, NoTrash, IOError
  <2>4. EntryInv' /\ OverlookInv' /\ TwiceInv' /\ CreateInv' /\ MoveInv' /\ UndoInv'
    BY <1>10, <1>b, <2>1, <2>2, <2>3 DEF UndoDeleteDir, FilesInv, EntryInv, OverlookInv, TwiceInv, CreateInv, MoveInv, UndoInv, CreatePlaces, MovePlaces
  <2>5. HeldBytesKept'
    BY <1>10, <1>b, <2>1, <2>2, <2>3, <1>d DEF UndoDeleteDir, FilesInv, MoveInv, UndoInv, HeldBytesKept, HasBytes
  <2>6. ManifestHasBytes'
    BY <1>10, <1>b, <2>1, <2>2, <2>3 DEF UndoDeleteDir, FilesInv, MoveInv, UndoInv, HeldBytesKept, ManifestHasBytes, HasBytes
  <2>7. OneCopy'
    BY <1>10, <1>b, <2>1, <2>2, <2>3 DEF UndoDeleteDir, FilesInv, MoveInv, OneCopy
  <2> QED BY <2>4, <2>5, <2>6, <2>7 DEF FilesInv
<1> QED BY <1>1, <1>2, <1>3, <1>4, <1>5, <1>6, <1>7, <1>8, <1>9, <1>10 DEF DeleteStep

\* The steps of Restore.
LEMMA RestoreFiles == TypeInv /\ FilesInv /\ RestoreStep => FilesInv'
<1> SUFFICES ASSUME TypeInv, FilesInv, RestoreStep PROVE FilesInv'
  OBVIOUS
<1> USE DEF At, Frame, fileVars, diskVars, ghostVars, procVars, Single, Twice, UndoCreatePlaces
<1>a. op \in Operation /\ OpOK BY DEF TypeInv, TypeOK
<1>b. faults \in Nat /\ crashes \in Nat /\ overlooked \subseteq FileIds /\ FilesInv
  BY ConstantsAssumption DEF TypeInv, TypeOK
<1>c. trash \in [FileIds -> TrashItem] /\ manifests \in [FileIds -> ManifestState]
  BY DEF TypeInv, TypeOK
<1>d. held \subseteq FileIds BY DEF TypeInv, TypeOK
<1>1. CASE RestoreCommitMark
  <2>1. op.file \in FileIds
    BY <1>1, <1>a DEF RestoreCommitMark, OpOK, CreatePlaces, MovePlaces
  <2>2. op'.pc = "resObject" /\ op'.file = op.file
    BY <1>1, <1>a, GotoKeepsOperation, PlaceNames DEF RestoreCommitMark
  <2>3. /\ trash'[op.file].dir = trash[op.file].dir
         /\ trash'[op.file].object = trash[op.file].object
         /\ trash'[op.file].manifest = "live"
         /\ \A id \in FileIds \ {op.file} : trash'[id] = trash[id]
    BY <1>1, <1>c, <2>1 DEF RestoreCommitMark, TrashItem
  <2>4. op.pc = "resMark" /\ UNCHANGED <<objects, manifests, held, overlooked, faults, crashes, proc>>
    BY <1>1 DEF RestoreCommitMark
  <2>5. trash[op.file].dir /\ (manifests[op.file] = "none" \/ Twice)
    BY <1>b, <2>4 DEF FilesInv, MoveInv
  <2>6. EntryInv'
    BY <1>b, <2>1, <2>3, <2>5 DEF FilesInv, EntryInv
  <2>7. TwiceInv'
    BY <1>b, <2>1, <2>3, <2>4, <2>5 DEF FilesInv, TwiceInv
  <2>8. OverlookInv' /\ CreateInv' /\ UndoInv'
    BY <1>b, <2>2, <2>4 DEF FilesInv, OverlookInv, CreateInv, UndoInv, CreatePlaces
  <2>9. MoveInv'
    <3>1. Single(op.file) \/ Twice
      BY <1>b, <2>4 DEF FilesInv, MoveInv, MovePlaces
    <3>2. Single(op.file)' \/ Twice'
      BY <2>1, <2>2, <2>3, <2>4, <2>5, <3>1
    <3> QED BY <2>2, <2>4, <2>5, <3>2 DEF MoveInv
  <2>10. HeldBytesKept' /\ ManifestHasBytes'
    BY <1>b, <1>d, <2>1, <2>2, <2>3, <2>4 DEF FilesInv, HeldBytesKept, ManifestHasBytes, HasBytes
  <2>11. OneCopy'
    BY <1>b, <2>1, <2>3, <2>4, <2>5 DEF FilesInv, OneCopy
  <2> QED BY <2>6, <2>7, <2>8, <2>9, <2>10, <2>11 DEF FilesInv
<1>2. CASE RestoreMoveObject
  <2>1. op.file \in FileIds
    BY <1>2, <1>a DEF RestoreMoveObject, OpOK, CreatePlaces, MovePlaces
  <2>2. op'.pc = "resManifest" /\ op'.file = op.file
    BY <1>2, <1>a, GotoKeepsOperation, PlaceNames DEF RestoreMoveObject
  <2>3. /\ trash'[op.file].dir = trash[op.file].dir
         /\ trash'[op.file].object = FALSE
         /\ trash'[op.file].manifest = trash[op.file].manifest
         /\ \A id \in FileIds \ {op.file} : trash'[id] = trash[id]
    BY <1>2, <1>c, <2>1 DEF RestoreMoveObject, TrashItem
  <2> QED BY <1>2, <1>b, <2>1, <2>2, <2>3
    DEF RestoreMoveObject, FilesInv, EntryInv, OverlookInv, TwiceInv, CreateInv, MoveInv, UndoInv, HeldBytesKept,
       ManifestHasBytes, OneCopy, HasBytes, CreatePlaces, MovePlaces
<1>3. CASE RestoreMoveManifest
  <2>1. op.file \in FileIds
    BY <1>3, <1>a DEF RestoreMoveManifest, OpOK, CreatePlaces, MovePlaces
  <2>2. op'.pc = "resDir" /\ op'.file = op.file
    BY <1>3, <1>a, GotoKeepsOperation, PlaceNames DEF RestoreMoveManifest
  <2>3. /\ trash'[op.file].dir = trash[op.file].dir
         /\ trash'[op.file].object = trash[op.file].object
         /\ trash'[op.file].manifest = "none"
         /\ \A id \in FileIds \ {op.file} : trash'[id] = trash[id]
    BY <1>3, <1>c, <2>1 DEF RestoreMoveManifest, TrashItem
  <2> QED BY <1>3, <1>b, <2>1, <2>2, <2>3
    DEF RestoreMoveManifest, FilesInv, EntryInv, OverlookInv, TwiceInv, CreateInv, MoveInv, UndoInv, HeldBytesKept,
       ManifestHasBytes, OneCopy, HasBytes, CreatePlaces, MovePlaces
<1>4. CASE RestoreRemoveDir
  <2>1. op.file \in FileIds
    BY <1>4, <1>a DEF RestoreRemoveDir, OpOK, CreatePlaces, MovePlaces
  <2>2. op'.pc = "resSync" /\ op'.file = op.file
    BY <1>4, <1>a, GotoKeepsOperation, PlaceNames DEF RestoreRemoveDir
  <2>3. /\ trash'[op.file].dir = FALSE
         /\ trash'[op.file].object = FALSE
         /\ trash'[op.file].manifest = "none"
         /\ \A id \in FileIds \ {op.file} : trash'[id] = trash[id]
    BY <1>4, <1>c, <2>1 DEF RestoreRemoveDir, TrashItem, NoTrash
  <2> QED BY <1>4, <1>b, <2>1, <2>2, <2>3
    DEF RestoreRemoveDir, FilesInv, EntryInv, OverlookInv, TwiceInv, CreateInv, MoveInv, UndoInv, HeldBytesKept,
       ManifestHasBytes, OneCopy, HasBytes, CreatePlaces, MovePlaces
<1>5. CASE RestoreReturn
  <2>1. op'.pc \notin CreatePlaces \cup MovePlaces
    BY <1>5, ReturnKeepsOperation DEF RestoreReturn, CreatePlaces, MovePlaces
  <2> QED BY <1>5, <1>b, <2>1, FilesFrame DEF RestoreReturn
<1>6. CASE RestoreEarlyIOError
  <2>1. op.file \in FileIds
    BY <1>6, <1>a DEF RestoreEarlyIOError, OpOK, CreatePlaces, MovePlaces
  <2>2. op'.pc = "idle"
    BY <1>6, ReturnKeepsOperation DEF RestoreEarlyIOError
  <2>3. /\ trash'[op.file].dir = trash[op.file].dir
         /\ trash'[op.file].object = trash[op.file].object
         /\ trash'[op.file].manifest = trash[op.file].manifest
         /\ \A id \in FileIds \ {op.file} : trash'[id] = trash[id]
    BY <1>6, <1>c, <2>1 DEF RestoreEarlyIOError, TrashItem
  <2> QED BY <1>6, <1>b, <2>1, <2>2, <2>3
    DEF RestoreEarlyIOError, IOError, FilesInv, EntryInv, OverlookInv, TwiceInv, CreateInv, MoveInv, UndoInv, HeldBytesKept,
       ManifestHasBytes, OneCopy, HasBytes, CreatePlaces, MovePlaces
<1>7. CASE RestoreIOError
  <2>1. op.file \in FileIds
    BY <1>7, <1>a DEF RestoreIOError, OpOK, CreatePlaces, MovePlaces
  <2>2. op'.pc = "resUndo" /\ op'.file = op.file
    BY <1>7, <1>a, GotoKeepsOperation, PlaceNames DEF RestoreIOError
  <2> QED BY <1>7, <1>b, <2>1, <2>2
    DEF RestoreIOError, IOError, FilesInv, EntryInv, OverlookInv, TwiceInv, CreateInv, MoveInv, UndoInv, HeldBytesKept,
       ManifestHasBytes, OneCopy, HasBytes, CreatePlaces, MovePlaces
<1>8. CASE RestoreUndo
  <2>1. op.file \in FileIds
    BY <1>8, <1>a DEF RestoreUndo, OpOK, CreatePlaces, MovePlaces
  <2>2. op'.pc = "idle"
    BY <1>8, ReturnKeepsOperation DEF RestoreUndo
  <2>3. /\ trash'[op.file].dir = trash[op.file].dir
        /\ trash'[op.file].manifest = trash[op.file].manifest
        /\ trash'[op.file].object => trash[op.file].dir \/ trash[op.file].object
        /\ \A id \in FileIds \ {op.file} : trash'[id] = trash[id]
        /\ \/ objects' = objects /\ trash'[op.file].object = trash[op.file].object
           \/ objects' = objects \ {op.file} /\ trash'[op.file].object
        /\ faults' \in Nat /\ faults <= faults'
    BY <1>8, <1>b, <1>c, <2>1 DEF RestoreUndo, TrashItem, IOError
  <2>4. EntryInv' /\ OverlookInv' /\ TwiceInv' /\ CreateInv' /\ MoveInv' /\ UndoInv'
    BY <1>8, <1>b, <2>1, <2>2, <2>3 DEF RestoreUndo, FilesInv, EntryInv, OverlookInv, TwiceInv, CreateInv, MoveInv, UndoInv, CreatePlaces, MovePlaces
  <2>5. HeldBytesKept'
    BY <1>8, <1>b, <2>1, <2>2, <2>3, <1>d DEF RestoreUndo, FilesInv, MoveInv, UndoInv, HeldBytesKept, HasBytes
  <2>6. ManifestHasBytes'
    BY <1>8, <1>b, <2>1, <2>2, <2>3 DEF RestoreUndo, FilesInv, MoveInv, UndoInv, HeldBytesKept, ManifestHasBytes, HasBytes
  <2>7. OneCopy'
    BY <1>8, <1>b, <2>1, <2>2, <2>3 DEF RestoreUndo, FilesInv, MoveInv, OneCopy
  <2> QED BY <2>4, <2>5, <2>6, <2>7 DEF FilesInv
<1> QED BY <1>1, <1>2, <1>3, <1>4, <1>5, <1>6, <1>7, <1>8 DEF RestoreStep

\* The steps of Purge.
LEMMA PurgeFiles == TypeInv /\ FilesInv /\ PurgeStep => FilesInv'
<1> SUFFICES ASSUME TypeInv, FilesInv, PurgeStep PROVE FilesInv'
  OBVIOUS
<1> USE DEF At, Frame, fileVars, diskVars, ghostVars, procVars, Single, Twice, UndoCreatePlaces
<1>a. op \in Operation /\ OpOK BY DEF TypeInv, TypeOK
<1>b. faults \in Nat /\ crashes \in Nat /\ overlooked \subseteq FileIds /\ FilesInv
  BY ConstantsAssumption DEF TypeInv, TypeOK
<1>c. trash \in [FileIds -> TrashItem] BY DEF TypeInv, TypeOK
<1>d. held \subseteq FileIds BY DEF TypeInv, TypeOK
<1>1. CASE PurgeStops \/ PurgeReturn \/ PurgeIOError
  <2>1. op'.pc \notin CreatePlaces \cup MovePlaces
    BY <1>1, ReturnKeepsOperation DEF PurgeStops, PurgeReturn, PurgeIOError, CreatePlaces, MovePlaces
  <2> QED BY <1>1, <1>b, <2>1, FilesFrame DEF PurgeStops, PurgeReturn, PurgeIOError, IOError
<1>2. ASSUME NEW id \in FileIds, PurgeKeeps(id) PROVE FilesInv'
  <2>1. op'.pc \notin CreatePlaces \cup MovePlaces
    BY <1>2, <1>a DEF PurgeKeeps, Operation, CreatePlaces, MovePlaces
  <2> QED BY <1>2, <1>b, <2>1, FilesFrame DEF PurgeKeeps
<1>3. ASSUME NEW id \in FileIds, PurgeEntry(id) PROVE FilesInv'
  <2>1. op'.pc = "purgeDrop" /\ op'.file = id
    BY <1>3, <1>a DEF PurgeEntry, Operation
  <2>2. /\ op.pc = "purge" /\ trash[id].object /\ trash[id].manifest # "none"
        /\ UNCHANGED <<objects, manifests, trash, faults, crashes, overlooked>>
        /\ held' \subseteq held
        /\ manifests[id] = "none" => id \notin held'
    BY <1>3 DEF PurgeEntry, TrashOK
  <2>3. manifests[id] # "none" => id \in overlooked /\ (faults <= 1 => id \in objects)
    BY <1>b, <2>2 DEF FilesInv, OneCopy, TwiceInv
  <2>4. EntryInv' /\ OverlookInv' /\ TwiceInv' /\ CreateInv' /\ UndoInv'
    BY <1>b, <2>1, <2>2, <2>3
      DEF FilesInv, EntryInv, OverlookInv, TwiceInv, CreateInv, UndoInv, CreatePlaces
  <2>5. MoveInv'
    BY <2>1, <2>2, <2>3 DEF MoveInv, MovePlaces
  <2>6. HeldBytesKept' /\ ManifestHasBytes' /\ OneCopy'
    BY <1>b, <2>1, <2>2, <2>3
      DEF FilesInv, HeldBytesKept, ManifestHasBytes, OneCopy, HasBytes
  <2> QED BY <2>4, <2>5, <2>6 DEF FilesInv
<1>4. CASE PurgeUnlink \/ PurgeRemoveDir
  <2>1. op.file \in FileIds /\ At("purgeDrop")
    BY <1>4, <1>a DEF PurgeUnlink, PurgeRemoveDir, OpOK, MovePlaces
  <2>2. (op'.pc = "purgeDrop" /\ op'.file = op.file) \/ op'.pc = "purge"
    BY <1>4, <1>a, <2>1 DEF PurgeUnlink, PurgeRemoveDir, Operation
  <2>3. /\ trash'[op.file].object => trash[op.file].object
        /\ trash'[op.file].manifest = trash[op.file].manifest \/ trash'[op.file].manifest = "none"
        /\ trash'[op.file].dir \/ (~trash'[op.file].object /\ trash'[op.file].manifest = "none")
        /\ \A id \in FileIds \ {op.file} : trash'[id] = trash[id]
    <3>1. CASE PurgeRemoveDir
      BY <3>1, <1>c, <2>1 DEF PurgeRemoveDir, NoTrash
    <3>2. CASE PurgeUnlink
      <4>1. PICK name \in {"object", "manifest", "tmp"} :
                   trash' = [trash EXCEPT ![op.file][name] = NoTrash[name]]
        BY <3>2 DEF PurgeUnlink
      <4>2. trash[op.file] \in TrashItem
        BY <1>c, <2>1
      <4>3. trash'[op.file] = [trash[op.file] EXCEPT ![name] = NoTrash[name]]
        BY <4>1, <1>c, <2>1
      <4>4. trash[op.file].object \/ trash[op.file].manifest # "none" => trash[op.file].dir
        BY <1>b, <2>1 DEF FilesInv, EntryInv
      <4>5. /\ trash'[op.file].object => trash[op.file].object
            /\ trash'[op.file].manifest = trash[op.file].manifest \/ trash'[op.file].manifest = "none"
            /\ trash[op.file].dir => trash'[op.file].dir
        <5>1. CASE name = "object" BY <5>1, <4>2, <4>3 DEF TrashItem, NoTrash
        <5>2. CASE name = "manifest" BY <5>2, <4>2, <4>3 DEF TrashItem, NoTrash
        <5>3. CASE name = "tmp" BY <5>3, <4>2, <4>3 DEF TrashItem, NoTrash
        <5> QED BY <5>1, <5>2, <5>3
      <4>6. \A id \in FileIds \ {op.file} : trash'[id] = trash[id]
        BY <4>1, <1>c, <2>1
      <4>7. trash'[op.file].dir \/ (~trash'[op.file].object /\ trash'[op.file].manifest = "none")
        <5>1. CASE trash[op.file].dir
          BY <5>1, <4>5
        <5>2. CASE ~trash[op.file].dir
          <6>1. ~trash[op.file].object /\ trash[op.file].manifest = "none"
            BY <5>2, <4>4
          <6> QED BY Zenon, <6>1, <4>5
        <5> QED BY <5>1, <5>2
      <4> QED BY Zenon, <4>5, <4>6, <4>7
    <3> QED BY <3>1, <3>2, <1>4
  <2>4. UNCHANGED <<objects, manifests, held, overlooked, faults, crashes, proc>>
    BY <1>4 DEF PurgeUnlink, PurgeRemoveDir
  <2>5. EntryInv' /\ OverlookInv' /\ TwiceInv' /\ CreateInv' /\ MoveInv' /\ UndoInv'
    BY <1>b, <2>1, <2>2, <2>3, <2>4
       DEF FilesInv, EntryInv, OverlookInv, TwiceInv, CreateInv, MoveInv, UndoInv, CreatePlaces, MovePlaces
  <2>6. HeldBytesKept' /\ ManifestHasBytes' /\ OneCopy'
    BY <1>b, <1>d, <2>1, <2>3, <2>4
       DEF FilesInv, MoveInv, HeldBytesKept, ManifestHasBytes, OneCopy, HasBytes
  <2> QED BY <2>5, <2>6 DEF FilesInv
<1> QED BY <1>1, <1>2, <1>3, <1>4 DEF PurgeStep

\* The steps of Complete: those of Put, on a file made of a session.
LEMMA CompleteFiles == TypeInv /\ FilesInv /\ CompleteStep => FilesInv'
<1> SUFFICES ASSUME TypeInv, FilesInv, CompleteStep PROVE FilesInv'
  OBVIOUS
<1> USE DEF At, Sessions, fileVars, diskVars, ghostVars, procVars, Single, Twice, UndoCreatePlaces
<1>a. op \in Operation /\ OpOK BY DEF TypeInv, TypeOK
<1>b. faults \in Nat /\ crashes \in Nat /\ overlooked \subseteq FileIds /\ FilesInv
  BY ConstantsAssumption DEF TypeInv, TypeOK
<1>c. manifests \in [FileIds -> ManifestState] BY DEF TypeInv, TypeOK
<1>e. op.file \in FileIds /\ op.pc \in CreatePlaces
  BY <1>a DEF CompleteStep, CompleteWriteManifest, CompleteCommitManifest, CompleteWriteSession,
     CompleteCommitSession, CompleteAck, CompleteIOError, CompleteUndo,
     CompleteUndoManifest, OpOK, CreatePlaces
<1>1. CASE CompleteWriteManifest \/ CompleteWriteSession \/ CompleteCommitSession \/ CompleteIOError
  <2>1. op'.file = op.file /\ op'.pc \in CreatePlaces \ {"putBody", "putTmp", "putRename", "putUndoManifest", "putUndo", "cmpUndoManifest"}
    BY <1>1, <1>a, GotoKeepsOperation, PlaceNames
       DEF CompleteWriteManifest, CompleteWriteSession, CompleteCommitSession, CompleteIOError, CreatePlaces
  <2>2. op.pc \notin {"putBody", "cmpUndoManifest"}
        /\ UNCHANGED <<objects, manifests, trash, held, overlooked, crashes, proc>>
    BY <1>1 DEF CompleteWriteManifest, CompleteWriteSession, CompleteCommitSession, CompleteIOError
  <2>3. (faults' = faults /\ op'.pc # "cmpUndo") \/ faults' = faults + 1
    <3>1. CASE CompleteIOError BY <3>1 DEF CompleteIOError, IOError
    <3> QED BY <3>1, <1>1, <1>a, GotoKeepsOperation, PlaceNames
            DEF CompleteWriteManifest, CompleteWriteSession, CompleteCommitSession
  <2>4. CASE op'.pc = "cmpUndo"
    BY <1>b, <1>e, <2>1, <2>2, <2>3, <2>4
    DEF FilesInv, EntryInv, OverlookInv, TwiceInv, CreateInv, MoveInv, UndoInv, HeldBytesKept,
        ManifestHasBytes, OneCopy, HasBytes, CreatePlaces, MovePlaces
  <2>5. CASE op'.pc # "cmpUndo"
    BY <1>b, <1>e, <2>1, <2>2, <2>3, <2>5
    DEF FilesInv, EntryInv, OverlookInv, TwiceInv, CreateInv, MoveInv, UndoInv, HeldBytesKept,
        ManifestHasBytes, OneCopy, HasBytes, CreatePlaces, MovePlaces
  <2> QED BY <2>4, <2>5
<1>2. CASE CompleteCommitManifest
  <2>1. op'.pc = "cmpSession" /\ op'.file = op.file
    BY <1>2, <1>a, GotoKeepsOperation, PlaceNames DEF CompleteCommitManifest
  <2>2. UNCHANGED <<objects, trash, held, overlooked, faults, crashes, proc>>
    BY <1>2 DEF CompleteCommitManifest
  <2>3. manifests'[op.file] = "live" /\ \A id \in FileIds \ {op.file} : manifests'[id] = manifests[id]
    BY <1>2, <1>c, <1>e DEF CompleteCommitManifest
  <2>4. op.pc = "cmpRename"
    BY <1>2 DEF CompleteCommitManifest
  <2> QED BY <1>b, <1>e, <2>1, <2>2, <2>3, <2>4
    DEF FilesInv, EntryInv, OverlookInv, TwiceInv, CreateInv, MoveInv, UndoInv, HeldBytesKept,
        ManifestHasBytes, OneCopy, HasBytes, CreatePlaces, MovePlaces
<1>3. CASE CompleteAck
  <2>1. op'.pc = "idle"
    BY <1>3, ReturnKeepsOperation DEF CompleteAck
  <2> QED BY <1>3, <1>b, <1>e, <2>1
    DEF CompleteAck, FilesInv, EntryInv, OverlookInv, TwiceInv, CreateInv, MoveInv, UndoInv, HeldBytesKept,
        ManifestHasBytes, OneCopy, HasBytes, CreatePlaces, MovePlaces
<1>4. CASE CompleteUndo
  <2>1. op'.pc = "cmpUndoManifest" /\ op'.file = op.file
    BY <1>4, <1>a, GotoKeepsOperation, PlaceNames DEF CompleteUndo
  <2>2. /\ op.pc = "cmpUndo"
        /\ objects' \subseteq objects /\ objects \subseteq objects' \cup {op.file}
        /\ UNCHANGED <<manifests, trash, held, overlooked, crashes, proc>>
        /\ faults' \in Nat /\ faults <= faults' /\ faults >= 1
    BY <1>4, <1>b DEF CompleteUndo, IOError, FilesInv, UndoInv
  <2>3. faults' <= 1 => op.file \notin held /\ ~trash[op.file].dir
    BY <1>b, <2>2 DEF FilesInv, CreateInv, CreatePlaces
  <2> QED BY <1>b, <1>e, <2>1, <2>2, <2>3
    DEF FilesInv, EntryInv, OverlookInv, TwiceInv, CreateInv, MoveInv, UndoInv, HeldBytesKept,
        ManifestHasBytes, OneCopy, HasBytes, CreatePlaces, MovePlaces
<1>5. CASE CompleteUndoManifest
  <2>1. op'.pc = "idle"
    BY <1>5, ReturnKeepsOperation DEF CompleteUndoManifest
  <2>2. /\ op.pc = "cmpUndoManifest"
        /\ UNCHANGED <<objects, trash, held, overlooked, crashes, proc>>
        /\ \/ /\ manifests' = [manifests EXCEPT ![op.file] = "none"]
              /\ faults' = faults
           \/ faults' = faults + 1 /\ manifests' = manifests
    BY <1>5 DEF CompleteUndoManifest, IOError
  <2>3. /\ \A id \in FileIds : manifests'[id] \in {manifests[id], "none"}
        /\ \A id \in FileIds \ {op.file} : manifests'[id] = manifests[id]
        /\ faults' \in Nat /\ faults <= faults' /\ faults >= 1
        /\ faults' <= 1 => manifests'[op.file] = "none"
    BY <1>b, <1>c, <1>e, <2>2 DEF FilesInv, UndoInv
  <2> QED BY <1>b, <1>e, <2>1, <2>2, <2>3
    DEF FilesInv, EntryInv, OverlookInv, TwiceInv, CreateInv, MoveInv, UndoInv, HeldBytesKept,
        ManifestHasBytes, OneCopy, HasBytes, CreatePlaces, MovePlaces
<1> QED BY <1>1, <1>2, <1>3, <1>4, <1>5 DEF CompleteStep

\* Requests: what Put, Delete, Restore and Complete check is what makes their steps safe.
LEMMA StartFiles == TypeInv /\ FilesInv /\ (FileStart \/ UploadStart) => FilesInv'
<1> SUFFICES ASSUME TypeInv, FilesInv, FileStart \/ UploadStart PROVE FilesInv'
  OBVIOUS
<1> USE DEF At, Frame, Sessions, fileVars, diskVars, ghostVars, procVars, Single, Twice, UndoCreatePlaces
<1>b. faults \in Nat /\ crashes \in Nat /\ overlooked \subseteq FileIds /\ FilesInv
  BY ConstantsAssumption DEF TypeInv, TypeOK
<1>c. trash \in [FileIds -> TrashItem] BY DEF TypeInv, TypeOK
<1>d. held \subseteq FileIds BY DEF TypeInv, TypeOK
<1>1. CASE UsageLoad \/ PurgeTrash \/ SweepUploads
  <2>1. op'.pc \in {"idle", "purge", "sweep"} /\ op.pc = "idle"
    BY <1>1, IdleOperation DEF UsageLoad, PurgeTrash, SweepUploads, Serving, Operation
  <2> QED BY <1>1, <1>b, <2>1, FilesFrame
    DEF UsageLoad, PurgeTrash, SweepUploads, CreatePlaces, MovePlaces
<1>2. ASSUME NEW u \in UploadIds, NEW n \in 1 .. UploadSize,
             StartUpload(u) \/ AbortUpload(u) \/ AppendUpload(u, n)
      PROVE  FilesInv'
  <2>1. op'.pc \in {"sweep", "startDir", "drop", "appBody"} /\ op.pc = "idle"
    BY <1>2, IdleOperation DEF StartUpload, AbortUpload, AppendUpload, Serving, Operation
  <2> QED BY <1>2, <1>b, <2>1, FilesFrame
    DEF StartUpload, AbortUpload, AppendUpload, CreatePlaces, MovePlaces
<1>3. ASSUME NEW id \in FileIds, Put(id) PROVE FilesInv'
  <2>1. op'.pc = "putBody" /\ op'.file = id
    BY <1>3, IdleOperation DEF Put, Operation
  <2>2. /\ op.pc = "idle" /\ proc = "running"
        /\ UNCHANGED <<objects, manifests, trash, held, crashes, proc>>
    BY <1>3, IdleOperation DEF Put, Serving
  <2>3. /\ faults' \in Nat /\ faults' >= faults /\ overlooked' \subseteq FileIds
        /\ overlooked \subseteq overlooked'
        /\ id \in overlooked' \/ (/\ id \notin objects /\ manifests[id] = "none" /\ ~trash[id].dir
                                /\ UNCHANGED <<faults, overlooked>>)
        /\ faults' = faults => UNCHANGED overlooked
    BY <1>3, <1>b, PutGuard, ConstantsAssumption DEF TypeInv
  <2>4. faults' = 0 => manifests[id] = "none" /\ ~trash[id].dir /\ id \notin held
    <3>1. faults' = 0 => id \notin objects /\ manifests[id] = "none" /\ ~trash[id].dir /\ faults = 0
      BY <1>3, <1>b, PutGuard DEF TypeInv
    <3>2. faults = 0 /\ id \notin objects /\ ~trash[id].dir => id \notin held
      BY <1>b DEF FilesInv, EntryInv, HeldBytesKept, HasBytes
    <3> QED BY <3>1, <3>2
  <2>5. EntryInv' /\ OverlookInv' /\ TwiceInv' /\ UndoInv'
    BY <1>b, <2>1, <2>2, <2>3 DEF FilesInv, EntryInv, OverlookInv, TwiceInv, UndoInv
  <2>6. CreateInv' /\ MoveInv'
    BY <2>1, <2>2, <2>3, <2>4 DEF CreateInv, MoveInv, MovePlaces
  <2>7. HeldBytesKept' /\ ManifestHasBytes' /\ OneCopy'
    BY <1>b, <2>1, <2>2, <2>3 DEF FilesInv, HeldBytesKept, ManifestHasBytes, OneCopy, HasBytes
  <2> QED BY <2>5, <2>6, <2>7 DEF FilesInv
<1>4. ASSUME NEW id \in FileIds, Delete(id) PROVE FilesInv'
  <2>1. op'.pc = "delObject" /\ op'.file = id
    BY <1>4, IdleOperation DEF Delete, Operation
  <2>2. /\ trash'[id].dir /\ ~trash'[id].object /\ trash'[id].manifest = "none"
        /\ \A i \in FileIds \ {id} : trash'[i] = trash[i]
    BY <1>4, <1>c DEF Delete, NoTrash
  <2>3. /\ op.pc = "idle" /\ id \in objects /\ ~trash[id].dir
        /\ UNCHANGED <<objects, manifests, held, overlooked, faults, crashes, proc>>
    BY <1>4, IdleOperation DEF Delete, Serving
  <2> QED BY <1>b, <1>d, <2>1, <2>2, <2>3
    DEF FilesInv, EntryInv, OverlookInv, TwiceInv, CreateInv, MoveInv, UndoInv, HeldBytesKept,
        ManifestHasBytes, OneCopy, HasBytes, CreatePlaces, MovePlaces
<1>5. ASSUME NEW id \in FileIds, Restore(id) PROVE FilesInv'
  <2>1. op'.pc = "resMark" /\ op'.file = id
    BY <1>5, IdleOperation DEF Restore, Operation
  <2>2. \A i \in FileIds : /\ trash'[i].dir = trash[i].dir /\ trash'[i].object = trash[i].object
                         /\ trash'[i].manifest = trash[i].manifest
    BY <1>5, <1>c DEF Restore, TrashItem
  <2>3. op.pc = "idle" /\ trash[id].object /\ trash[id].manifest = "deleted"
        /\ UNCHANGED <<objects, manifests, held, crashes>>
    BY <1>5, IdleOperation DEF Restore, Serving, TrashOK
  <2>4. /\ faults' \in Nat /\ faults' >= faults /\ overlooked' \subseteq FileIds
        /\ overlooked \subseteq overlooked'
        /\ faults' = faults => UNCHANGED overlooked
    BY <1>5, <1>b, RestoreGuard, ConstantsAssumption DEF TypeInv
  <2>5. \/ id \notin objects /\ manifests[id] = "none"
        \/ faults' >= 2 /\ id \in overlooked'
    <3>1. CASE id \notin objects /\ manifests[id] = "none"
      BY <3>1
    <3>2. CASE faults' >= faults + 2 /\ id \in overlooked'
      BY <3>2, <1>b, <2>4
    <3>3. CASE /\ faults' = faults + 1 /\ id \in overlooked'
               /\ \/ id \in objects /\ manifests[id] = "none"
                  \/ id \notin objects /\ manifests[id] # "none"
      <4>1. CASE faults = 0
        BY <4>1, <3>3, <1>b, <2>3 DEF FilesInv, OverlookInv, OneCopy
      <4>2. CASE faults # 0
        BY <4>2, <3>3, <1>b
      <4> QED BY <4>1, <4>2
    <3> QED BY <1>5, <1>b, RestoreGuard, <3>1, <3>2, <3>3 DEF TypeInv
  <2>6. EntryInv' /\ OverlookInv' /\ TwiceInv' /\ UndoInv'
    BY <1>b, <2>1, <2>2, <2>3, <2>4 DEF FilesInv, EntryInv, OverlookInv, TwiceInv, UndoInv
  <2>7. CreateInv' /\ MoveInv'
    BY <1>b, <2>1, <2>2, <2>3, <2>4, <2>5 DEF FilesInv, EntryInv, CreateInv, MoveInv, CreatePlaces, MovePlaces
  <2>8. HeldBytesKept'
    BY <1>b, <1>d, <2>2, <2>3, <2>4 DEF FilesInv, HeldBytesKept, HasBytes
  <2>9. ManifestHasBytes'
    BY <1>b, <2>2, <2>3, <2>4 DEF FilesInv, ManifestHasBytes, HasBytes
  <2>10. OneCopy'
    BY <1>b, <2>2, <2>3, <2>4, <2>5 DEF FilesInv, OneCopy
  <2> QED BY <2>6, <2>7, <2>8, <2>9, <2>10 DEF FilesInv
<1>6. ASSUME NEW u \in UploadIds, NEW id \in FileIds, CompleteUpload(u, id) PROVE FilesInv'
  <2>1. op'.pc = "cmpTmp" /\ op'.file = id
    BY <1>6, IdleOperation DEF CompleteUpload, Operation
  <2>2. id \notin objects /\ ~trash[id].dir
    BY <1>6 DEF CompleteUpload, Fresh
  <2>3. /\ op.pc = "idle" /\ proc = "running" /\ objects' = objects \cup {id}
        /\ UNCHANGED <<manifests, trash, held, overlooked, faults, crashes, proc>>
    BY <1>6, IdleOperation DEF CompleteUpload, Serving
  <2>4. faults <= 1 => id \notin held
    BY <1>b, <2>2 DEF FilesInv, HeldBytesKept, HasBytes, EntryInv
  <2> QED BY <1>b, <2>1, <2>2, <2>3, <2>4
    DEF FilesInv, EntryInv, OverlookInv, TwiceInv, CreateInv, MoveInv, UndoInv, HeldBytesKept,
        ManifestHasBytes, OneCopy, HasBytes, CreatePlaces, MovePlaces
<1>7. ASSUME NEW u \in UploadIds, StartUpload(u) \/ AbortUpload(u) PROVE FilesInv'
  <2>1. 1 \in 1 .. UploadSize
    BY ConstantsAssumption
  <2> QED BY <1>2, <1>7, <2>1
<1> QED BY <1>1, <1>2, <1>3, <1>4, <1>5, <1>6, <1>7 DEF FileStart, UploadStart

\* Sessions, sweeps, Recover, the clock, and the process work beside the files.
LEMMA BesideFiles ==
  ASSUME TypeInv, CreateInv,
         SweepStep \/ SessionStep \/ RecoverStep \/ (\E u \in UploadIds : Age(u)) \/ Restart \/ Crash
  PROVE  /\ UNCHANGED <<objects, manifests, trash, held, assembled>>
         /\ faults' = faults \/ IOError
         /\ UNCHANGED overlooked
         /\ crashes' = crashes + 1 \/ (crashes' = crashes /\ op.pc # "cmpUndoManifest")
         /\ op'.pc \notin CreatePlaces \cup MovePlaces
<1> USE DEF At, Sessions, Quarantines, fileVars, diskVars, ghostVars, procVars
<1> DEFINE Outside == op'.pc \notin CreatePlaces \cup MovePlaces
           Beside == UNCHANGED <<objects, manifests, trash, held, assembled, overlooked>>
                     /\ (faults' = faults \/ IOError)
           Kills == crashes' = crashes + 1 \/ (crashes' = crashes /\ op.pc # "cmpUndoManifest")
<1>a. op \in Operation BY DEF TypeInv, TypeOK
<1>1. CASE SweepStep
  <2>1. Beside
    BY <1>1 DEF SweepStep, SweepUnlink, SweepRemoveDir, SweepDone, SweepIOError, SweepSkip, SweepEntry
  <2>2. op'.pc \in {"idle", "sweep", "sweepDrop", "rebuild", "startDir"}
    <3>1. CASE SweepDone
      BY <3>1, <1>a, GotoKeepsOperation, ReturnKeepsOperation, PlaceNames DEF SweepDone
    <3>2. CASE SweepUnlink \/ SweepRemoveDir \/ SweepIOError
      BY <3>2, <1>a, ReturnKeepsOperation DEF SweepUnlink, SweepRemoveDir, SweepIOError, Operation
    <3>3. ASSUME NEW u \in UploadIds, SweepSkip(u) \/ SweepEntry(u)
          PROVE  op'.pc \in {"sweep", "sweepDrop"}
      BY <3>3, <1>a DEF SweepSkip, SweepEntry, Operation
    <3> QED BY <3>1, <3>2, <3>3, <1>1 DEF SweepStep
  <2>3. Outside
    BY <2>2 DEF CreatePlaces, MovePlaces
  <2>4. Kills
    BY <1>1 DEF SweepStep, SweepUnlink, SweepRemoveDir, SweepDone, SweepIOError, SweepSkip, SweepEntry
  <2> QED BY <2>1, <2>3, <2>4
<1>2. CASE SessionStep
  <2>1. Beside
    BY <1>2 DEF SessionStep, StartCreateDir, StartRefused, StartCreatePart, StartWriteManifest,
       StartCommitManifest, StartAck, StartIOError, AppendCopy, AppendWriteManifest, AppendReject,
       AppendCommitManifest, AppendAck, AppendIOError, AppendUndo, DropUnlink, DropRemoveDir, DropIOError
  <2>2. op'.pc \in {"idle", "startPart", "startTmp", "startRename", "startSync", "drop",
                    "appBody", "appRename", "appSync", "appUndo"}
    <3>1. CASE AppendCopy \/ DropUnlink
      BY <3>1 DEF AppendCopy, DropUnlink
    <3>2. CASE StartRefused \/ StartAck \/ AppendAck \/ AppendUndo \/ DropRemoveDir \/ DropIOError
      BY <3>2, ReturnKeepsOperation
         DEF StartRefused, StartAck, AppendAck, AppendUndo, DropRemoveDir, DropIOError
    <3>3. CASE StartCreateDir \/ StartCreatePart \/ StartWriteManifest \/ StartCommitManifest
               \/ StartIOError \/ AppendWriteManifest \/ AppendReject \/ AppendCommitManifest
               \/ AppendIOError
      BY <3>3, <1>a, GotoKeepsOperation, PlaceNames
         DEF StartCreateDir, StartCreatePart, StartWriteManifest, StartCommitManifest, StartIOError,
             AppendWriteManifest, AppendReject, AppendCommitManifest, AppendIOError
    <3> QED BY <3>1, <3>2, <3>3, <1>2 DEF SessionStep
  <2>3. Outside
    BY <2>2 DEF CreatePlaces, MovePlaces
  <2>4. Kills
    BY <1>2 DEF SessionStep, StartCreateDir, StartRefused, StartCreatePart, StartWriteManifest,
       StartCommitManifest, StartAck, StartIOError, AppendCopy, AppendWriteManifest, AppendReject,
       AppendCommitManifest, AppendAck, AppendIOError, AppendUndo, DropUnlink, DropRemoveDir, DropIOError
  <2> QED BY <2>1, <2>3, <2>4
<1>3. CASE RecoverStep
  <2>1. Beside
    BY <1>3 DEF RecoverStep, RecoverScanned, RecoverDone, RecoverIOError, RecoverPartial,
       RecoverManifestTmp, RecoverUploadTmp, RecoverSession
  <2>2. op'.pc \in {"idle", "recover", "sweep", "rebuild"}
    <3>1. CASE RecoverScanned
      BY <3>1, <1>a DEF RecoverScanned, Operation
    <3>2. CASE RecoverDone \/ RecoverIOError
      BY <3>2, ReturnKeepsOperation DEF RecoverDone, RecoverIOError
    <3>3. ASSUME NEW id \in FileIds, RecoverPartial(id) \/ RecoverManifestTmp(id)
          PROVE  op'.pc = "recover"
      BY <3>3 DEF RecoverPartial, RecoverManifestTmp
    <3>4. ASSUME NEW u \in UploadIds, RecoverUploadTmp(u) \/ RecoverSession(u)
          PROVE  op'.pc = "recover"
      BY <3>4 DEF RecoverUploadTmp, RecoverSession
    <3> QED BY <3>1, <3>2, <3>3, <3>4, <1>3 DEF RecoverStep
  <2>3. Outside
    BY <2>2 DEF CreatePlaces, MovePlaces
  <2>4. Kills
    BY <1>3 DEF RecoverStep, RecoverScanned, RecoverDone, RecoverIOError, RecoverPartial,
       RecoverManifestTmp, RecoverUploadTmp, RecoverSession
  <2> QED BY <2>1, <2>3, <2>4
<1>4. CASE (\E u \in UploadIds : Age(u)) \/ Restart \/ Crash
  <2>1. Beside
    BY <1>4 DEF Age, Restart, Crash
  <2>2. op'.pc \in {"idle", "recover"}
    BY <1>4, IdleOperation DEF Age, Restart, Crash, Operation
  <2>3. Outside
    BY <2>2 DEF CreatePlaces, MovePlaces
  <2>4. Kills
    <3>1. proc = "down" => op.pc # "cmpUndoManifest"
      BY DEF CreateInv, CreatePlaces
    <3>2. Idle.pc = "idle"
      BY IdleOperation
    <3> QED BY <1>4, <3>1, <3>2 DEF Age, Restart, Crash
  <2> QED BY <2>1, <2>3, <2>4
<1> QED BY <1>1, <1>2, <1>3, <1>4

LEMMA OtherFiles ==
  TypeInv /\ FilesInv
  /\ (SweepStep \/ SessionStep \/ RecoverStep \/ (\E u \in UploadIds : Age(u)) \/ Restart \/ Crash)
  => FilesInv'
<1>1. TypeInv => faults \in Nat /\ crashes \in Nat
  BY ConstantsAssumption DEF TypeInv, TypeOK
<1>2. FilesInv => CreateInv
  BY DEF FilesInv
<1> QED BY <1>1, <1>2, BesideFiles, FilesFrame DEF IOError

LEMMA InitFiles == Init => FilesInv
BY IdleOperation DEF Init, NoTrash, FilesInv, EntryInv, OverlookInv, TwiceInv, CreateInv, MoveInv, UndoInv, HeldBytesKept,
   ManifestHasBytes, OneCopy, Single, Twice, HasBytes, UndoCreatePlaces, CreatePlaces, MovePlaces

LEMMA NextFiles == TypeInv /\ FilesInv /\ [Next]_vars => FilesInv'
<1> SUFFICES ASSUME TypeInv, FilesInv, [Next]_vars PROVE FilesInv'
  OBVIOUS
<1>1. CASE UNCHANGED vars
  BY <1>1 DEF FilesInv, EntryInv, OverlookInv, TwiceInv, CreateInv, MoveInv, UndoInv, HeldBytesKept, ManifestHasBytes,
     OneCopy, Single, Twice, HasBytes, At, vars, diskVars, fileVars, procVars, ghostVars
<1> QED BY <1>1, PutFiles, DeleteFiles, RestoreFiles, PurgeFiles, CompleteFiles, StartFiles,
           OtherFiles DEF Next, Progress

LEMMA FilesCorrect == Spec => [](TypeInv /\ FilesInv)
<1>1. Init => TypeInv /\ FilesInv
  BY InitTypes, InitFiles
<1>2. (TypeInv /\ FilesInv) /\ [Next]_vars => (TypeInv /\ FilesInv)'
  BY NextTypes, NextFiles
<1> QED BY <1>1, <1>2, PTL DEF Spec

-----------------------------------------------------------------------------
\* No kill and no single failed system call, at any point of any operation or of Recover,
\* loses the bytes of an acknowledged file that nobody asked to purge (store.go:253-355,
\* 1045-1231, recovery.go:49-252).
THEOREM HeldBytesAreKept == Spec => []HeldBytesKept
<1>1. TypeInv /\ FilesInv => HeldBytesKept
  BY DEF FilesInv
<1> QED BY <1>1, FilesCorrect, PTL

\* A manifest in metadata/ stands for bytes, whatever is killed while nothing fails and
\* whatever single call fails while nothing is killed; Complete's own rollback, which
\* removes the object first, is the one moment in between (store.go:597-602).
THEOREM ManifestsHaveBytes == Spec => []ManifestHasBytes
<1>1. TypeInv /\ FilesInv => ManifestHasBytes
  BY DEF FilesInv
<1> QED BY <1>1, FilesCorrect, PTL

\* One id never has two contents or two manifests, whatever is killed and whatever call
\* fails, but for an id whose own entry a failed stat hid from Put or Restore: they look
\* into all the directories (store.go:284, 1190), Delete and Restore move.
THEOREM OneCopyOnly == Spec => []OneCopy
<1>1. TypeInv /\ FilesInv => OneCopy
  BY DEF FilesInv
<1> QED BY <1>1, FilesCorrect, PTL
=============================================================================
