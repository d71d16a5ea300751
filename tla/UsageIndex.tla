----------------------------- MODULE UsageIndex -----------------------------
(***************************************************************************)
(* The usage index of pkg/files.DiskStore and the owner quota, on top of   *)
(* DiskStore: every step is one of DiskStore, with what the code does to   *)
(* the index in the same call.                                             *)
(*                                                                         *)
(* One owner is modelled.  An index entry is looked up by the owner of the *)
(* record at hand in every call of moveUsage, and the quota of one owner   *)
(* is compared with his own total only, so owners do not meet.  Sizes are  *)
(* far below 2^63: the gateway limits each (handlers.go:469).              *)
(***************************************************************************)
EXTENDS DiskStore

CONSTANTS Quota,     \* XION_OWNER_QUOTA_BYTES, 0 for none
          PutSizes   \* bound: the sizes of files that are put in one piece

ASSUME UsageAssumption ==
  /\ Quota \in Nat
  /\ PutSizes \subseteq Nat
  /\ IsFiniteSet(FileIds) /\ IsFiniteSet(UploadIds)   \* uuids (store.go:26)

VARIABLES
  usage,     \* DiskStore.usage
  valid,     \* DiskStore.usageValid
  size,      \* the size in each file's manifest
  reserved   \* session.Size of the open session that is being removed, else 0

usageVars == <<usage, valid, size, reserved>>

Categories == {"files", "trash", "uploads"}
Entry == [bytes : Nat, records : Nat]
NoEntry == [bytes |-> 0, records |-> 0]
NoUsage == [category \in Categories |-> NoEntry]

UsageTypeOK ==
  /\ usage \in [Categories -> Entry]
  /\ valid \in BOOLEAN
  /\ size \in [FileIds -> PutSizes \cup {0, UploadSize}]
  /\ reserved \in {0, UploadSize}

UsageInit ==
  /\ Init
  /\ usage = NoUsage
  /\ valid = FALSE
  /\ size = [id \in FileIds |-> 0]
  /\ reserved = 0

-----------------------------------------------------------------------------
(* The index. *)

Total(u) == u["files"].bytes + u["trash"].bytes + u["uploads"].bytes

\* Mutant: what is used already is not looked at.
AdmitsAlone(u, n) == Quota > 0 => n <= Quota

\* enforceQuotaUnlocked
Admits(u, n) == Quota > 0 => Total(u) <= Quota /\ n <= Quota - Total(u)

\* The sum of the sizes in the manifests, as the number of all their bytes.
BytesIn(ids) == Cardinality(UNION {{id} \X (1 .. size[id]) : id \in ids})
Counted(bytes, records) == [bytes |-> bytes, records |-> Cardinality(records)]

\* What rebuildUsageLocked finds in metadata/, in trash/ and in uploads/.
Live    == {id \in FileIds : manifests[id] # "none"}
Trashed == {id \in FileIds : TrashOK(id)}
Open    == {u \in UploadIds : UploadOK(u) /\ uploads[u].status = "uploading"}

\* What it counts, if it gets to the end (RebuildOK).
Rescan ==
  [category \in Categories |->
     CASE category = "files"   -> Counted(BytesIn(Live), Live)
       [] category = "trash"   -> Counted(BytesIn(Trashed), Trashed)
       [] category = "uploads" -> Counted(UploadSize * Cardinality(Open), Open)]

\* Mutant: an entry that is used up is not dropped.
LessUnclamped(entry, n) == [bytes |-> entry.bytes - n, records |-> entry.records - 1]

\* The entry of an owner who has nothing left is dropped, its records with it.
Less(entry, n) ==
  IF entry.bytes <= n THEN NoEntry
  ELSE [bytes |-> entry.bytes - n, records |-> IF entry.records = 0 THEN 0 ELSE entry.records - 1]

More(entry, n) == [bytes |-> entry.bytes + n, records |-> entry.records + 1]

Moved(from, to, n) ==
  [category \in Categories |->
     CASE category = from -> Less(usage[category], n)
       [] category = to   -> More(usage[category], n)
       [] OTHER           -> usage[category]]

\* moveUsage: "nowhere" is usageKind(-1).  A record without bytes is not counted.
MoveUsage(from, to, n) ==
  /\ usage' = IF valid /\ n > 0 THEN Moved(from, to, n) ELSE usage
  /\ UNCHANGED <<valid, size>>

\* ensureUsageLocked, in an action that has EnsureUsage: the first caller rescans.
Loads ==
  /\ IF index = "unloaded" /\ index' = "loaded"
     THEN usage' = Rescan /\ valid' = TRUE
     ELSE UNCHANGED <<usage, valid>>
  /\ UNCHANGED <<size, reserved>>

Forgets == usage' = NoUsage /\ valid' = FALSE /\ reserved' = 0 /\ UNCHANGED size

-----------------------------------------------------------------------------
(* The calls that count. *)

LoadUsage ==
  \/ UsageLoad /\ Loads
  \/ \E id \in FileIds : Put(id) /\ Loads
  \/ StartCreateDir /\ Loads /\ Admits(usage', UploadSize)
  \/ StartRefused /\ Loads

\* Bound: a file put over one that is in the trash, for a failed stat, has its size (an id
\* comes back only as a peer's copy of the same file, handlers.go:180).
AdmitPut ==
  /\ PutCommitObject
  /\ \E n \in IF trash[op.file].dir THEN {size[op.file]} ELSE PutSizes :
       Admits(usage, n) /\ size' = [size EXCEPT ![op.file] = n]
  /\ UNCHANGED <<usage, valid, reserved>>

CountPut == PutAck /\ MoveUsage("nowhere", "files", size[op.file]) /\ UNCHANGED reserved

\* Mutant: a deleted file is not counted any more.
CountDeleteFreed ==
  /\ DeleteReturn
  /\ MoveUsage("files", "nowhere", size[op.file])
  /\ UNCHANGED reserved

\* Nothing is moved when the last fsync failed, although the file is in the trash.
CountDelete ==
  /\ DeleteReturn
  /\ IF faults' = faults THEN MoveUsage("files", "trash", size[op.file])
     ELSE UNCHANGED <<usage, valid, size>>
  /\ UNCHANGED reserved

CountRestore == RestoreReturn /\ MoveUsage("trash", "files", size[op.file]) /\ UNCHANGED reserved

CountPurge == PurgeRemoveDir /\ MoveUsage("trash", "nowhere", size[op.file]) /\ UNCHANGED reserved

CountStart == StartAck /\ MoveUsage("nowhere", "uploads", UploadSize) /\ UNCHANGED reserved

Assemble ==
  /\ \E u \in UploadIds, id \in FileIds :
       CompleteUpload(u, id) /\ size' = [size EXCEPT ![id] = UploadSize]
  /\ UNCHANGED <<usage, valid, reserved>>

\* Mutant: the reservation stays beside the file it became.
CountCompleteTwice == CompleteAck /\ MoveUsage("nowhere", "files", UploadSize) /\ UNCHANGED reserved

CountComplete == CompleteAck /\ MoveUsage("uploads", "files", UploadSize) /\ UNCHANGED reserved

\* Abort, and the sweep of an open session, know its size from the manifest they are
\* about to remove; a session that completed, or never started, has no reservation.
ReadReservation ==
  /\ \/ \E u \in UploadIds : AbortUpload(u) /\ reserved' = UploadSize
     \/ \E u \in UploadIds : SweepEntry(u) /\
          reserved' = IF uploads[u].status = "uploading" THEN UploadSize ELSE 0
  /\ UNCHANGED <<usage, valid, size>>

Release ==
  /\ \/ SweepRemoveDir /\ MoveUsage("uploads", "nowhere", reserved)
     \/ DropRemoveDir /\ IF faults' = faults THEN MoveUsage("uploads", "nowhere", reserved)
                         ELSE UNCHANGED <<usage, valid, size>>
  /\ reserved' = 0

ReleaseFails ==
  /\ DropIOError \/ (SweepIOError /\ proc' # "down")
  /\ reserved' = 0
  /\ UNCHANGED <<usage, valid, size>>

\* Recover rescans if it removed anything; load.Do will do so once more.
CountRecovered ==
  /\ RecoverDone
  /\ proc' = "running"
  /\ IF repaired THEN usage' = Rescan /\ valid' = TRUE ELSE UNCHANGED <<usage, valid>>
  /\ UNCHANGED <<size, reserved>>

\* RebuildUsage leaves load.Do to rescan once more.
RebuildUsage ==
  /\ Serving
  /\ RebuildOK
  /\ usage' = Rescan
  /\ valid' = TRUE
  /\ UNCHANGED <<vars, size, reserved>>

\* The process ends: a kill, or Recover returned an error.
Forget ==
  /\ Crash \/ RecoverIOError \/ ((RecoverDone \/ SweepIOError) /\ proc' = "down")
  /\ Forgets

\* All other steps leave the index alone.
Uncounted ==
  /\ \/ PutAbandon \/ PutWriteManifest \/ PutCommitManifest \/ PutIOError
     \/ PutUndoManifest \/ PutUndo
     \/ DeleteMoveObject \/ DeleteMoveFails \/ DeleteMoveManifest \/ DeleteWriteMark
     \/ DeleteCommitMark \/ DeleteIOError
     \/ UndoDeleteObject \/ UndoDeleteManifest \/ UndoDeleteDir
     \/ RestoreCommitMark \/ RestoreMoveObject \/ RestoreMoveManifest \/ RestoreRemoveDir
     \/ RestoreEarlyIOError \/ RestoreIOError \/ RestoreUndo
     \/ PurgeTrash \/ PurgeStops \/ PurgeUnlink \/ PurgeIOError \/ PurgeReturn
     \/ SweepUploads \/ SweepUnlink \/ SweepDone
     \/ StartCreatePart \/ StartWriteManifest \/ StartCommitManifest \/ StartIOError
     \/ AppendCopy \/ AppendWriteManifest \/ AppendReject \/ AppendCommitManifest
     \/ AppendAck \/ AppendIOError \/ AppendUndo \/ DropUnlink
     \/ CompleteWriteManifest \/ CompleteCommitManifest \/ CompleteWriteSession
     \/ CompleteCommitSession \/ CompleteIOError \/ CompleteUndo \/ CompleteUndoManifest
     \/ Restart \/ RecoverScanned
     \/ \E id \in FileIds : Delete(id) \/ Restore(id) \/ PurgeKeeps(id) \/ PurgeEntry(id)
                            \/ RecoverPartial(id) \/ RecoverManifestTmp(id)
     \/ \E u \in UploadIds : Age(u) \/ SweepSkip(u) \/ StartUpload(u)
                             \/ RecoverUploadTmp(u) \/ RecoverSession(u)
                             \/ \E n \in 1 .. UploadSize : AppendUpload(u, n)
  /\ UNCHANGED usageVars

UsageNext ==
  \/ LoadUsage
  \/ AdmitPut \/ CountPut \/ CountDelete \/ CountRestore \/ CountPurge
  \/ CountStart \/ Assemble \/ CountComplete
  \/ ReadReservation \/ Release \/ ReleaseFails
  \/ CountRecovered \/ RebuildUsage \/ Forget
  \/ Uncounted

UsageSpec == UsageInit /\ [][UsageNext]_<<vars, usageVars>>

-----------------------------------------------------------------------------
(* Properties. *)

\* Without a failed call the bytes in the index are those a rescan would count, category
\* by category, whatever was killed, swept or loaded late in between: moveUsage and
\* rebuildUsageLocked agree (recovery_test.go:277, on one path).
BytesMatchRescan ==
  valid /\ op = Idle /\ faults = 0 =>
    \A category \in Categories : usage[category].bytes = Rescan[category].bytes

\* One failed call may leave the index counting what is gone, in Delete's or Abort's last
\* fsync for example, but never less than what is there: an owner cannot get past his
\* quota through a failure.
NeverUndercounts ==
  index = "loaded" /\ op = Idle /\ faults <= 1 => Total(usage) >= Total(Rescan)

\* What an owner has in files, trash and reservations stays within the quota
\* (README.md:131), over kills, restarts and one failed call, although Complete, Delete
\* and Restore do not ask for it.
QuotaKept == Quota > 0 /\ op = Idle /\ faults <= 1 => Total(Rescan) <= Quota

=============================================================================
