------------------------------ MODULE FileOps ------------------------------
(***************************************************************************)
(* Put, Delete, Restore and PurgeTrash of pkg/files.DiskStore.             *)
(*                                                                         *)
(* The first action of an operation has the guards of the call up to its   *)
(* first change on disk; a call that is refused there changes nothing but, *)
(* possibly, the usage index (UsageLoad).  Then one action per system      *)
(* call.  XIOError is a failure of any of them, followed by the deferred   *)
(* clean-up of the code, whose own calls may fail too (their errors are    *)
(* ignored by the code).                                                   *)
(***************************************************************************)
EXTENDS StoreState

Frame(unchanged) == UNCHANGED unchanged /\ UNCHANGED procVars

\* Put (and StartUpload) refused after ensureUsageLocked, Capacity and Quota: the
\* index is loaded, or its failure is remembered.
UsageLoad ==
  /\ Serving
  /\ index = "unloaded"
  /\ EnsureUsage
  /\ Frame(<<diskVars, op, ghostVars, faults>>)

-----------------------------------------------------------------------------
(* Put *)

\* Mutant: Put does not look into the trash.
PutOverTrash(id) ==
  /\ Serving
  /\ EnsureUsage /\ index' = "loaded"
  /\ Overlooks(id, Missed(id \in objects) + Missed(manifests[id] # "none"))
  /\ id \notin partials
  /\ partials' = partials \cup {id}
  /\ op' = [Idle EXCEPT !.pc = "putBody", !.file = id]
  /\ Frame(<<objects, manifests, manifestTmps, trash, uploads, held, confirmed, assembled>>)

\* The id must look unknown to all three directories, and O_EXCL wants no old part.
Put(id) ==
  /\ Serving
  /\ EnsureUsage /\ index' = "loaded"
  /\ Overlooks(id, Missed(id \in objects) + Missed(manifests[id] # "none") + Missed(trash[id].dir))
  /\ id \notin partials
  /\ partials' = partials \cup {id}
  /\ op' = [Idle EXCEPT !.pc = "putBody", !.file = id]
  /\ Frame(<<objects, manifests, manifestTmps, trash, uploads, held, confirmed, assembled>>)

\* The client goes away, the body cannot be written, or the owner is over quota:
\* the deferred os.Remove deletes the part, unless it fails as well.
PutAbandon ==
  /\ At("putBody")
  /\ \/ partials' = partials \ {op.file} /\ UNCHANGED faults
     \/ IOError /\ UNCHANGED partials
  /\ Return
  /\ Frame(<<objects, manifests, manifestTmps, trash, uploads, index, ghostVars>>)

PutCommitObject ==
  /\ At("putBody")
  /\ partials' = partials \ {op.file}
  /\ objects' = objects \cup {op.file}
  /\ Goto("putTmp")
  /\ Frame(<<manifests, manifestTmps, trash, uploads, index, ghostVars, faults>>)

\* writeManifest creates {id}.json.tmp (O_EXCL: Recover has left no older one) ...
PutWriteManifest ==
  /\ At("putTmp")
  /\ manifestTmps' = manifestTmps \cup {op.file}
  /\ Goto("putRename")
  /\ Frame(<<objects, manifests, partials, trash, uploads, index, ghostVars, faults>>)

\* ... and renames it onto {id}.json.
PutCommitManifest ==
  /\ At("putRename")
  /\ manifestTmps' = manifestTmps \ {op.file}
  /\ manifests' = [manifests EXCEPT ![op.file] = "live"]
  /\ Goto("putSync")
  /\ Frame(<<objects, partials, trash, uploads, index, ghostVars, faults>>)

PutAck ==
  /\ At("putSync")
  /\ held' = held \cup {op.file}
  /\ Return
  /\ Frame(<<diskVars, index, confirmed, assembled, overlooked, faults>>)

\* Mutant: the manifest is left behind.
PutIOErrorKeepsManifest ==
  /\ op.pc \in {"putTmp", "putRename", "putSync"}
  /\ IOError
  /\ manifestTmps' = IF At("putRename") THEN manifestTmps \ {op.file} ELSE manifestTmps
  /\ Goto("putUndo")
  /\ Frame(<<objects, manifests, partials, trash, uploads, index, ghostVars>>)

\* Only after its manifest has been committed does Put take it back too.
PutIOError ==
  /\ op.pc \in {"putTmp", "putRename", "putSync"}
  /\ IOError
  /\ manifestTmps' = IF At("putRename") THEN manifestTmps \ {op.file} ELSE manifestTmps
  /\ Goto(IF At("putSync") THEN "putUndoManifest" ELSE "putUndo")
  /\ Frame(<<objects, manifests, partials, trash, uploads, index, ghostVars>>)

\* os.Remove of the manifest, then of the object, errors ignored.
PutUndoManifest ==
  /\ At("putUndoManifest")
  /\ \/ manifests' = [manifests EXCEPT ![op.file] = "none"] /\ UNCHANGED faults
     \/ IOError /\ UNCHANGED manifests
  /\ Goto("putUndo")
  /\ Frame(<<objects, manifestTmps, partials, trash, uploads, index, ghostVars>>)

PutUndo ==
  /\ At("putUndo")
  /\ \/ objects' = objects \ {op.file} /\ UNCHANGED faults
     \/ IOError /\ UNCHANGED objects
  /\ Return
  /\ Frame(<<manifests, manifestTmps, partials, trash, uploads, index, ghostVars>>)

-----------------------------------------------------------------------------
(* Delete: a soft delete, which moves the object and the manifest to trash/{id}. *)

\* An id without object and manifest is a successful no-op; any other mismatch is
\* ErrCorruptMetadata.  A failed stat can only turn the one into the other, or leave it to
\* os.Mkdir to find the entry: nothing changes on disk.
Delete(id) ==
  /\ Serving
  /\ id \in objects /\ manifests[id] # "none" /\ ~trash[id].dir
  /\ trash' = [trash EXCEPT ![id] = [NoTrash EXCEPT !.dir = TRUE]]
  /\ op' = [Idle EXCEPT !.pc = "delObject", !.file = id]
  /\ Frame(<<objects, manifests, manifestTmps, partials, uploads, index, ghostVars, faults>>)

DeleteMoveObject ==
  /\ At("delObject")
  /\ objects' = objects \ {op.file}
  /\ trash' = [trash EXCEPT ![op.file].object = TRUE]
  /\ Goto("delManifest")
  /\ Frame(<<manifests, manifestTmps, partials, uploads, index, ghostVars, faults>>)

\* The rename failed: os.Remove of the still empty directory.
DeleteMoveFails ==
  /\ At("delObject")
  /\ IOError
  /\ trash' = [trash EXCEPT ![op.file] = NoTrash]
  /\ Return
  /\ Frame(<<objects, manifests, manifestTmps, partials, uploads, index, ghostVars>>)

DeleteMoveManifest ==
  /\ At("delManifest")
  /\ manifests' = [manifests EXCEPT ![op.file] = "none"]
  /\ trash' = [trash EXCEPT ![op.file].manifest = manifests[op.file]]
  /\ Goto("delTmp")
  /\ Frame(<<objects, manifestTmps, partials, uploads, index, ghostVars, faults>>)

DeleteWriteMark ==
  /\ At("delTmp")
  /\ trash' = [trash EXCEPT ![op.file].tmp = TRUE]
  /\ Goto("delMark")
  /\ Frame(<<objects, manifests, manifestTmps, partials, uploads, index, ghostVars, faults>>)

DeleteCommitMark ==
  /\ At("delMark")
  /\ trash' = [trash EXCEPT ![op.file].tmp = FALSE, ![op.file].manifest = "deleted"]
  /\ Goto("delSync")
  /\ Frame(<<objects, manifests, manifestTmps, partials, uploads, index, ghostVars, faults>>)

\* Success, or the last fsync (of trash/) fails: an error, but nothing is undone.
DeleteReturn ==
  /\ At("delSync")
  /\ UNCHANGED faults \/ IOError
  /\ Return
  /\ Frame(<<diskVars, index, ghostVars>>)

DeleteIOError ==
  /\ op.pc \in {"delManifest", "delTmp", "delMark", "delSync"}
  /\ IOError
  /\ trash' = [trash EXCEPT ![op.file].tmp = FALSE]
  /\ Goto("undoObject")
  /\ Frame(<<objects, manifests, manifestTmps, partials, uploads, index, ghostVars>>)

\* Mutant: the rollback forgets the object.
UndoDeleteNothing ==
  /\ At("undoObject")
  /\ Goto("undoManifest")
  /\ Frame(<<diskVars, index, ghostVars, faults>>)

\* The deferred rollback: rename the object back, rename the manifest back, then
\* RemoveAll of the trash entry whatever came of the two renames.
UndoDeleteObject ==
  /\ At("undoObject")
  /\ \/ /\ objects' = objects \cup {op.file}
        /\ trash' = [trash EXCEPT ![op.file].object = FALSE]
        /\ UNCHANGED faults
     \/ /\ IOError
        /\ UNCHANGED <<objects, trash>>
  /\ Goto("undoManifest")
  /\ Frame(<<manifests, manifestTmps, partials, uploads, index, ghostVars>>)

UndoDeleteManifest ==
  /\ At("undoManifest")
  /\ \/ /\ trash[op.file].manifest # "none"
        /\ manifests' = [manifests EXCEPT ![op.file] = trash[op.file].manifest]
        /\ trash' = [trash EXCEPT ![op.file].manifest = "none"]
        /\ UNCHANGED faults
     \/ /\ trash[op.file].manifest = "none"
        /\ UNCHANGED <<manifests, trash, faults>>
     \/ /\ IOError
        /\ UNCHANGED <<manifests, trash>>
  /\ Goto("undoDir")
  /\ Frame(<<objects, manifestTmps, partials, uploads, index, ghostVars>>)

UndoDeleteDir ==
  /\ At("undoDir")
  /\ \/ trash' = [trash EXCEPT ![op.file] = NoTrash] /\ UNCHANGED faults
     \/ IOError /\ UNCHANGED trash
  /\ Return
  /\ Frame(<<objects, manifests, manifestTmps, partials, uploads, index, ghostVars>>)

-----------------------------------------------------------------------------
(* Restore: rewrite the trash manifest without deleted_at, move the object, then *)
(* the manifest, then remove the empty entry.                                    *)

Restore(id) ==
  /\ Serving
  /\ TrashOK(id)
  /\ Overlooks(id, Missed(id \in objects) + Missed(manifests[id] # "none"))
  /\ ~trash[id].tmp
  /\ trash' = [trash EXCEPT ![id].tmp = TRUE]
  /\ op' = [Idle EXCEPT !.pc = "resMark", !.file = id]
  /\ Frame(<<objects, manifests, manifestTmps, partials, uploads, index,
            held, confirmed, assembled>>)

RestoreCommitMark ==
  /\ At("resMark")
  /\ trash' = [trash EXCEPT ![op.file].tmp = FALSE, ![op.file].manifest = "live"]
  /\ Goto("resObject")
  /\ Frame(<<objects, manifests, manifestTmps, partials, uploads, index, ghostVars, faults>>)

\* Mutant: the rename of the manifest is missing.
RestoreMoveObjectOnly ==
  /\ At("resObject")
  /\ objects' = objects \cup {op.file}
  /\ trash' = [trash EXCEPT ![op.file].object = FALSE]
  /\ Goto("resDir")
  /\ Frame(<<manifests, manifestTmps, partials, uploads, index, ghostVars, faults>>)

RestoreMoveObject ==
  /\ At("resObject")
  /\ objects' = objects \cup {op.file}
  /\ trash' = [trash EXCEPT ![op.file].object = FALSE]
  /\ Goto("resManifest")
  /\ Frame(<<manifests, manifestTmps, partials, uploads, index, ghostVars, faults>>)

RestoreMoveManifest ==
  /\ At("resManifest")
  /\ manifests' = [manifests EXCEPT ![op.file] = trash[op.file].manifest]
  /\ trash' = [trash EXCEPT ![op.file].manifest = "none"]
  /\ Goto("resDir")
  /\ Frame(<<objects, manifestTmps, partials, uploads, index, ghostVars, faults>>)

\* Mutant: the empty trash entry is left behind.
RestoreKeepDir ==
  /\ At("resDir")
  /\ Goto("resSync")
  /\ Frame(<<diskVars, index, ghostVars, faults>>)

RestoreRemoveDir ==
  /\ At("resDir")
  /\ trash' = [trash EXCEPT ![op.file] = NoTrash]
  /\ Goto("resSync")
  /\ Frame(<<objects, manifests, manifestTmps, partials, uploads, index, ghostVars, faults>>)

RestoreReturn ==
  /\ At("resSync")
  /\ Return
  /\ Frame(<<diskVars, index, ghostVars, faults>>)

\* Before the object has moved nothing is undone: the trash manifest keeps what
\* writeManifest committed.
RestoreEarlyIOError ==
  /\ op.pc \in {"resMark", "resObject"}
  /\ IOError
  /\ trash' = [trash EXCEPT ![op.file].tmp = FALSE]
  /\ Return
  /\ Frame(<<objects, manifests, manifestTmps, partials, uploads, index, ghostVars>>)

RestoreIOError ==
  /\ op.pc \in {"resManifest", "resDir", "resSync"}
  /\ IOError
  /\ Goto("resUndo")
  /\ Frame(<<diskVars, index, ghostVars>>)

\* The deferred rollback moves the object alone, if there is a directory to move it to.
RestoreUndo ==
  /\ At("resUndo")
  /\ \/ /\ trash[op.file].dir
        /\ objects' = objects \ {op.file}
        /\ trash' = [trash EXCEPT ![op.file].object = TRUE]
        /\ UNCHANGED faults
     \/ /\ ~trash[op.file].dir
        /\ UNCHANGED <<objects, trash, faults>>
     \/ /\ IOError
        /\ UNCHANGED <<objects, trash>>
  /\ Return
  /\ Frame(<<manifests, manifestTmps, partials, uploads, index, ghostVars>>)

-----------------------------------------------------------------------------
(* PurgeTrash: every entry in turn, stopping at the first one that is unusable. *)

PurgeTrash ==
  /\ Serving
  /\ \E id \in FileIds : trash[id].dir
  /\ op' = [Idle EXCEPT !.pc = "purge", !.files = {id \in FileIds : trash[id].dir}]
  /\ Frame(<<diskVars, index, ghostVars, faults>>)

PurgeStops ==
  /\ At("purge")
  /\ \E id \in op.files : ~TrashOK(id)
  /\ Return
  /\ Frame(<<diskVars, index, ghostVars, faults>>)

\* Deleted after the cutoff: kept.
PurgeKeeps(id) ==
  /\ At("purge")
  /\ id \in op.files /\ TrashOK(id)
  /\ op' = [op EXCEPT !.files = @ \ {id}]
  /\ Frame(<<diskVars, index, ghostVars, faults>>)

\* From here on nobody relies on the bytes, nor on those of the session they came from; a
\* second, live file that an overlooked entry let in is still promised.
PurgeEntry(id) ==
  /\ At("purge")
  /\ id \in op.files /\ TrashOK(id)
  /\ op' = [op EXCEPT !.pc = "purgeDrop", !.file = id, !.files = @ \ {id}]
  /\ held' = IF manifests[id] = "none" THEN held \ {id} ELSE held
  /\ confirmed' = [u \in UploadIds |->
                     IF u = assembled[id].from THEN NotOpen ELSE confirmed[u]]
  /\ assembled' = [assembled EXCEPT ![id] = NotAssembled]
  /\ Frame(<<diskVars, index, overlooked, faults>>)

\* os.RemoveAll unlinks what it finds, in directory order, and then the directory.
PurgeUnlink ==
  /\ At("purgeDrop")
  /\ \E name \in {"object", "manifest", "tmp"} :
       /\ trash[op.file][name] # NoTrash[name]
       /\ trash' = [trash EXCEPT ![op.file][name] = NoTrash[name]]
  /\ UNCHANGED op
  /\ Frame(<<objects, manifests, manifestTmps, partials, uploads, index, ghostVars, faults>>)

PurgeRemoveDir ==
  /\ At("purgeDrop")
  /\ trash[op.file] = [NoTrash EXCEPT !.dir = TRUE]
  /\ trash' = [trash EXCEPT ![op.file] = NoTrash]
  /\ op' = [op EXCEPT !.pc = "purge", !.file = NoFile]
  /\ Frame(<<objects, manifests, manifestTmps, partials, uploads, index, ghostVars, faults>>)

PurgeIOError ==
  /\ At("purgeDrop")
  /\ IOError
  /\ Return
  /\ Frame(<<diskVars, index, ghostVars>>)

PurgeReturn ==
  /\ At("purge")
  /\ op.files = {}
  /\ Return
  /\ Frame(<<diskVars, index, ghostVars, faults>>)

-----------------------------------------------------------------------------
FileStart == UsageLoad \/ PurgeTrash \/ \E id \in FileIds : Put(id) \/ Delete(id) \/ Restore(id)

PutStep == PutAbandon \/ PutCommitObject \/ PutWriteManifest \/ PutCommitManifest
           \/ PutAck \/ PutIOError \/ PutUndoManifest \/ PutUndo

DeleteStep == DeleteMoveObject \/ DeleteMoveFails \/ DeleteMoveManifest \/ DeleteWriteMark
              \/ DeleteCommitMark \/ DeleteReturn \/ DeleteIOError
              \/ UndoDeleteObject \/ UndoDeleteManifest \/ UndoDeleteDir

RestoreStep == RestoreCommitMark \/ RestoreMoveObject \/ RestoreMoveManifest
               \/ RestoreRemoveDir \/ RestoreReturn \/ RestoreEarlyIOError
               \/ RestoreIOError \/ RestoreUndo

PurgeStep == PurgeStops \/ PurgeUnlink \/ PurgeRemoveDir \/ PurgeIOError \/ PurgeReturn
             \/ \E id \in FileIds : PurgeKeeps(id) \/ PurgeEntry(id)
=============================================================================
