----------------------------- MODULE UploadOps -----------------------------
(***************************************************************************)
(* Resumable uploads of pkg/files.DiskStore: StartUpload, AppendUpload,    *)
(* CompleteUpload, AbortUpload, and the sweep of expired sessions that     *)
(* StartUpload, SweepUploads and Recover share.                            *)
(*                                                                         *)
(* The clock is the flag stale: Age sets it when a session has made no     *)
(* progress for uploadTTL.                                                 *)
(***************************************************************************)
EXTENDS StoreState

\* The steps of this module leave tmp/ and trash/ alone, and but for Complete's
\* also objects/ and metadata/.
Sessions(unchanged) == UNCHANGED <<fileVars, procVars>> /\ UNCHANGED unchanged

Age(u) ==
  /\ UploadTTL
  /\ op = Idle
  /\ uploads[u].status = "uploading" /\ ~uploads[u].stale
  /\ uploads' = [uploads EXCEPT ![u].stale = TRUE]
  /\ Sessions(<<op, index, ghostVars, faults>>)

-----------------------------------------------------------------------------
(* The sweep. *)

SessionDirs == {u \in UploadIds : uploads[u].dir}

\* What sweepUploadsUnlocked removes: completed sessions, whatever their age, and
\* readable sessions that are past the TTL.  A session it cannot read is skipped.
Expired(u) == UploadOK(u) /\ (uploads[u].status = "completed" \/ uploads[u].stale)

\* Mutant: a session that stays is looked at again.
SweepSpin(u) ==
  /\ At("sweep")
  /\ u \in op.sessions /\ ~Expired(u)
  /\ Sessions(<<op, uploads, index, ghostVars, faults>>)

SweepSkip(u) ==
  /\ At("sweep")
  /\ u \in op.sessions /\ ~Expired(u)
  /\ op' = [op EXCEPT !.sessions = @ \ {u}]
  /\ Sessions(<<uploads, index, ghostVars, faults>>)

SweepEntry(u) ==
  /\ At("sweep")
  /\ u \in op.sessions /\ Expired(u)
  /\ op' = [op EXCEPT !.pc = "sweepDrop", !.sessions = @ \ {u}, !.victim = u]
  /\ confirmed' = [confirmed EXCEPT ![u] = NotOpen]
  /\ UNCHANGED <<fileVars, procVars, uploads, index, held, assembled, overlooked, faults>>

\* os.RemoveAll unlinks the files of a session in directory order.
UnlinkFrom(u) ==
  \/ /\ uploads[u].part # Absent
     /\ uploads' = [uploads EXCEPT ![u].part = Absent]
  \/ /\ uploads[u].tmp
     /\ uploads' = [uploads EXCEPT ![u].tmp = FALSE]
  \/ /\ uploads[u].status # "none"
     /\ uploads' = [uploads EXCEPT ![u].status = "none", ![u].received = 0,
                                   ![u].file = NoFile, ![u].stale = FALSE]

EmptyDir(u) == uploads[u] = [NoSession EXCEPT !.dir = TRUE]

SweepUnlink ==
  /\ At("sweepDrop")
  /\ UnlinkFrom(op.victim)
  /\ Sessions(<<op, index, ghostVars, faults>>)

SweepRemoveDir ==
  /\ At("sweepDrop")
  /\ EmptyDir(op.victim)
  /\ uploads' = [uploads EXCEPT ![op.victim] = NoSession]
  /\ op' = [op EXCEPT !.pc = "sweep", !.victim = NoUpload]
  /\ repaired' = (repaired \/ proc = "recovering")
  /\ UNCHANGED <<fileVars, proc, crashes, index, ghostVars, faults>>

\* Back to the caller: Recover goes on to the rebuild, StartUpload to its own work.
SweepDone ==
  /\ At("sweep")
  /\ op.sessions = {}
  /\ IF proc = "recovering" THEN Goto("rebuild")
     ELSE IF op.session # NoUpload THEN Goto("startDir") ELSE Return
  /\ Sessions(<<uploads, index, ghostVars, faults>>)

\* RemoveAll fails: the caller returns the error, and main exits if that is Recover.
SweepIOError ==
  /\ At("sweepDrop")
  /\ IOError
  /\ Return
  /\ proc' = IF proc = "recovering" THEN "down" ELSE proc
  /\ repaired' = FALSE
  /\ UNCHANGED <<diskVars, crashes, index, ghostVars>>

SweepUploads ==
  /\ Serving
  /\ UploadTTL
  /\ op' = [Idle EXCEPT !.pc = "sweep", !.sessions = SessionDirs]
  /\ Sessions(<<uploads, index, ghostVars, faults>>)

-----------------------------------------------------------------------------
(* StartUpload *)

\* u is a fresh uuid.
StartUpload(u) ==
  /\ Serving
  /\ uploads[u] = NoSession
  /\ \A id \in FileIds : assembled[id].from # u
  /\ op' = [Idle EXCEPT !.session = u,
                        !.pc = IF UploadTTL THEN "sweep" ELSE "startDir",
                        !.sessions = IF UploadTTL THEN SessionDirs ELSE {}]
  /\ Sessions(<<uploads, index, ghostVars, faults>>)

StartCreateDir ==
  /\ At("startDir")
  /\ EnsureUsage /\ index' = "loaded"
  /\ uploads' = [uploads EXCEPT ![op.session].dir = TRUE]
  /\ Goto("startPart")
  /\ Sessions(<<ghostVars, faults>>)

\* The index cannot be loaded, or the owner is over quota.
StartRefused ==
  /\ At("startDir")
  /\ EnsureUsage
  /\ Return
  /\ Sessions(<<uploads, ghostVars, faults>>)

StartCreatePart ==
  /\ At("startPart")
  /\ uploads' = [uploads EXCEPT ![op.session].part = 0]
  /\ Goto("startTmp")
  /\ Sessions(<<index, ghostVars, faults>>)

\* writeUploadManifest: manifest.json.tmp, then the rename.
StartWriteManifest ==
  /\ At("startTmp")
  /\ uploads' = [uploads EXCEPT ![op.session].tmp = TRUE]
  /\ Goto("startRename")
  /\ Sessions(<<index, ghostVars, faults>>)

StartCommitManifest ==
  /\ At("startRename")
  /\ uploads' = [uploads EXCEPT ![op.session].tmp = FALSE, ![op.session].status = "uploading"]
  /\ Goto("startSync")
  /\ Sessions(<<index, ghostVars, faults>>)

StartAck ==
  /\ At("startSync")
  /\ confirmed' = [confirmed EXCEPT ![op.session] = 0]
  /\ Return
  /\ Sessions(<<uploads, index, held, assembled, overlooked, faults>>)

\* The temporary manifest is removed, then follows the deferred RemoveAll of the session.
StartIOError ==
  /\ op.pc \in {"startPart", "startTmp", "startRename", "startSync"}
  /\ IOError
  /\ uploads' = [uploads EXCEPT ![op.session].tmp = FALSE]
  /\ Goto("drop")
  /\ Sessions(<<index, ghostVars>>)

-----------------------------------------------------------------------------
(* AppendUpload *)

\* Mutant: the chunk is not compared with the remaining size.
AppendUnbounded(u, n) ==
  /\ Serving
  /\ UploadOK(u) /\ uploads[u].status = "uploading"
  /\ op' = [Idle EXCEPT !.pc = "appBody", !.session = u, !.chunk = n,
                        !.base = uploads[u].received]
  /\ Sessions(<<uploads, index, ghostVars, faults>>)

\* The client sends n bytes from the received offset (any other offset is a conflict).
AppendUpload(u, n) ==
  /\ Serving
  /\ UploadOK(u) /\ uploads[u].status = "uploading"
  /\ n <= UploadSize - uploads[u].received
  /\ op' = [Idle EXCEPT !.pc = "appBody", !.session = u, !.chunk = n,
                        !.base = uploads[u].received]
  /\ Sessions(<<uploads, index, ghostVars, faults>>)

\* io.Copy appends what arrives, in pieces, up to one byte more than the chunk.
AppendCopy ==
  /\ At("appBody")
  /\ \E size \in 1 .. UploadSize + 1 :
       /\ uploads[op.session].part < size /\ size <= op.base + op.chunk + 1
       /\ uploads' = [uploads EXCEPT ![op.session].part = size]
  /\ UNCHANGED op
  /\ Sessions(<<index, ghostVars, faults>>)

\* Mutant: the manifest is written before the data.
AppendManifestFirst ==
  /\ At("appBody")
  /\ uploads' = [uploads EXCEPT ![op.session].tmp = TRUE]
  /\ Goto("appRename")
  /\ Sessions(<<index, ghostVars, faults>>)

\* Exactly the chunk arrived and its checksum is right.
AppendWriteManifest ==
  /\ At("appBody")
  /\ uploads[op.session].part = op.base + op.chunk
  /\ uploads' = [uploads EXCEPT ![op.session].tmp = TRUE]
  /\ Goto("appRename")
  /\ Sessions(<<index, ghostVars, faults>>)

\* A short or long body, a wrong checksum, a client that went away, a failed write.
AppendReject ==
  /\ At("appBody")
  /\ Goto("appUndo")
  /\ Sessions(<<uploads, index, ghostVars, faults>>)

AppendCommitManifest ==
  /\ At("appRename")
  /\ uploads' = [uploads EXCEPT ![op.session].tmp = FALSE,
                                ![op.session].received = op.base + op.chunk,
                                ![op.session].stale = FALSE]
  /\ Goto("appSync")
  /\ Sessions(<<index, ghostVars, faults>>)

AppendAck ==
  /\ At("appSync")
  /\ confirmed' = [confirmed EXCEPT ![op.session] = op.base + op.chunk]
  /\ Return
  /\ Sessions(<<uploads, index, held, assembled, overlooked, faults>>)

AppendIOError ==
  /\ op.pc \in {"appRename", "appSync"}
  /\ IOError
  /\ uploads' = [uploads EXCEPT ![op.session].tmp = FALSE]
  /\ Goto("appUndo")
  /\ Sessions(<<index, ghostVars>>)

\* rollback: truncate the part to its initial size; a failure is only logged.
AppendUndo ==
  /\ At("appUndo")
  /\ \/ uploads' = [uploads EXCEPT ![op.session].part = op.base] /\ UNCHANGED faults
     \/ IOError /\ UNCHANGED uploads
  /\ Return
  /\ Sessions(<<index, ghostVars>>)

-----------------------------------------------------------------------------
(* CompleteUpload *)

\* A fresh uuid is the id of nothing on disk.
Fresh(id) ==
  /\ id \notin objects \cup manifestTmps \cup partials
  /\ manifests[id] = "none" /\ ~trash[id].dir
  /\ \A u \in UploadIds : uploads[u].file # id

\* Mutant: the part is copied, to be removed once the session is marked as completed.
CompleteByCopy(u, id) ==
  /\ Serving
  /\ UploadOK(u) /\ uploads[u].status = "uploading"
  /\ uploads[u].received = UploadSize
  /\ Fresh(id)
  /\ objects' = objects \cup {id}
  /\ assembled' = [assembled EXCEPT ![id] = [from |-> u, bytes |-> uploads[u].part]]
  /\ op' = [Idle EXCEPT !.pc = "cmpTmp", !.session = u, !.file = id]
  /\ UNCHANGED <<manifests, manifestTmps, partials, trash, uploads, procVars, index, held,
                 confirmed, overlooked, faults>>

\* A completed session is answered from its file; here all bytes are received and the
\* checksum of the part is right, and the first change is the rename of the part.
CompleteUpload(u, id) ==
  /\ Serving
  /\ UploadOK(u) /\ uploads[u].status = "uploading"
  /\ uploads[u].received = UploadSize
  /\ Fresh(id)
  /\ objects' = objects \cup {id}
  /\ uploads' = [uploads EXCEPT ![u].part = Absent]
  /\ assembled' = [assembled EXCEPT ![id] = [from |-> u, bytes |-> uploads[u].part]]
  /\ op' = [Idle EXCEPT !.pc = "cmpTmp", !.session = u, !.file = id]
  /\ UNCHANGED <<manifests, manifestTmps, partials, trash, procVars, index, held, confirmed,
                 overlooked, faults>>

\* Mutant: the session is marked as completed before its file has a manifest.
CompleteSessionFirst ==
  /\ At("cmpTmp")
  /\ Goto("cmpSession")
  /\ UNCHANGED <<diskVars, procVars, index, ghostVars, faults>>

CompleteWriteManifest ==
  /\ At("cmpTmp")
  /\ manifestTmps' = manifestTmps \cup {op.file}
  /\ Goto("cmpRename")
  /\ UNCHANGED <<objects, manifests, partials, trash, uploads, procVars, index, ghostVars, faults>>

CompleteCommitManifest ==
  /\ At("cmpRename")
  /\ manifestTmps' = manifestTmps \ {op.file}
  /\ manifests' = [manifests EXCEPT ![op.file] = "live"]
  /\ Goto("cmpSession")
  /\ UNCHANGED <<objects, partials, trash, uploads, procVars, index, ghostVars, faults>>

CompleteWriteSession ==
  /\ At("cmpSession")
  /\ uploads' = [uploads EXCEPT ![op.session].tmp = TRUE]
  /\ Goto("cmpSessionRename")
  /\ Sessions(<<index, ghostVars, faults>>)

CompleteCommitSession ==
  /\ At("cmpSessionRename")
  /\ uploads' = [uploads EXCEPT ![op.session].tmp = FALSE,
                                ![op.session].status = "completed",
                                ![op.session].file = op.file,
                                ![op.session].stale = FALSE]
  /\ Goto("cmpSync")
  /\ Sessions(<<index, ghostVars, faults>>)

\* From the answer on, the file and no longer the session stands for the bytes.
CompleteAck ==
  /\ At("cmpSync")
  /\ held' = held \cup {op.file}
  /\ confirmed' = [confirmed EXCEPT ![op.session] = NotOpen]
  /\ Return
  /\ Sessions(<<uploads, index, assembled, overlooked, faults>>)

CompleteIOError ==
  /\ op.pc \in {"cmpTmp", "cmpRename", "cmpSession", "cmpSessionRename", "cmpSync"}
  /\ IOError
  /\ manifestTmps' = IF At("cmpRename") THEN manifestTmps \ {op.file} ELSE manifestTmps
  /\ uploads' = [uploads EXCEPT ![op.session].tmp = FALSE]
  /\ Goto("cmpUndo")
  /\ UNCHANGED <<objects, manifests, partials, trash, procVars, index, ghostVars>>

\* The deferred removal of the object and then of its manifest, errors ignored.
CompleteUndo ==
  /\ At("cmpUndo")
  /\ \/ /\ objects' = objects \ {op.file}
        /\ assembled' = [assembled EXCEPT ![op.file] = NotAssembled]
        /\ UNCHANGED faults
     \/ /\ IOError
        /\ UNCHANGED <<objects, assembled>>
  /\ Goto("cmpUndoManifest")
  /\ UNCHANGED <<manifests, manifestTmps, partials, trash, uploads, procVars, index, held,
                 confirmed, overlooked>>

CompleteUndoManifest ==
  /\ At("cmpUndoManifest")
  /\ \/ manifests' = [manifests EXCEPT ![op.file] = "none"] /\ UNCHANGED faults
     \/ IOError /\ UNCHANGED manifests
  /\ Return
  /\ UNCHANGED <<objects, manifestTmps, partials, trash, uploads, procVars, index, ghostVars>>

-----------------------------------------------------------------------------
(* AbortUpload *)

AbortUpload(u) ==
  /\ Serving
  /\ UploadOK(u) /\ uploads[u].status = "uploading"
  /\ op' = [Idle EXCEPT !.pc = "drop", !.session = u]
  /\ confirmed' = [confirmed EXCEPT ![u] = NotOpen]
  /\ Sessions(<<uploads, index, held, assembled, overlooked, faults>>)

DropUnlink ==
  /\ At("drop")
  /\ UnlinkFrom(op.session)
  /\ Sessions(<<op, index, ghostVars, faults>>)

\* Abort's last fsync, of uploads/, may fail: an error, but the session is gone.
DropRemoveDir ==
  /\ At("drop")
  /\ EmptyDir(op.session)
  /\ uploads' = [uploads EXCEPT ![op.session] = NoSession]
  /\ UNCHANGED faults \/ IOError
  /\ Return
  /\ Sessions(<<index, ghostVars>>)

DropIOError ==
  /\ At("drop")
  /\ IOError
  /\ Return
  /\ Sessions(<<uploads, index, ghostVars>>)

-----------------------------------------------------------------------------
UploadStart ==
  \/ SweepUploads
  \/ \E u \in UploadIds :
       \/ StartUpload(u)
       \/ AbortUpload(u)
       \/ \E n \in 1 .. UploadSize : AppendUpload(u, n)
       \/ \E id \in FileIds : CompleteUpload(u, id)

SweepStep == SweepUnlink \/ SweepRemoveDir \/ SweepDone \/ SweepIOError
             \/ \E u \in UploadIds : SweepSkip(u) \/ SweepEntry(u)

SessionStep == StartCreateDir \/ StartRefused \/ StartCreatePart \/ StartWriteManifest
               \/ StartCommitManifest \/ StartAck \/ StartIOError
               \/ AppendCopy \/ AppendWriteManifest \/ AppendReject
               \/ AppendCommitManifest \/ AppendAck \/ AppendIOError \/ AppendUndo
               \/ DropUnlink \/ DropRemoveDir \/ DropIOError

CompleteStep == CompleteWriteManifest \/ CompleteCommitManifest \/ CompleteWriteSession
                \/ CompleteCommitSession \/ CompleteAck \/ CompleteIOError \/ CompleteUndo
                \/ CompleteUndoManifest
=============================================================================
