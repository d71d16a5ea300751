---------------------------- MODULE StorageNode ----------------------------
(***************************************************************************)
(* pkg/storage.LocalStorageNode: chunks as files of one directory, written *)
(* through {id}.tmp under n.mu, the disk usage that GetStatus counts       *)
(* without that lock, and the goroutine that reports it.  The process may  *)
(* be killed, and a system call may fail.                                  *)
(*                                                                         *)
(* Data is told apart by its size in bytes.  ReadChunk changes nothing and *)
(* waits for the lock: it reads "stored" between two calls.                *)
(***************************************************************************)
EXTENDS Integers, FiniteSets

CONSTANTS Chunks,      \* chunk ids
          Sizes,       \* the sizes of what is written
          NoChunk,     \* no chunk id
          BlockSize,   \* of the file system
          DiskQuota,   \* in bytes; below the size of the file system
          MaxStarts,   \* bound: successful calls of StartHeartbeat
          MaxFaults,   \* bound: failed system calls
          MaxCrashes   \* bound: process kills

ASSUME StorageAssumption ==
  /\ Sizes \subseteq Nat
  /\ NoChunk \notin Chunks
  /\ BlockSize \in Nat \ {0} /\ DiskQuota \in Nat
  /\ MaxStarts \in Nat /\ MaxFaults \in Nat /\ MaxCrashes \in Nat

VARIABLES
  stored,   \* {id}
  tmps,     \* {id}.tmp
  op,       \* the call that holds n.mu, and where it is
  walk,     \* a GetStatus that runs: what it has listed and not seen, its sum, and
            \* (ghost) how many calls had failed when it began
  running, current, cancelled,  \* isRunning, heartbeatCtx, and the contexts that are done
  pc,       \* each heartbeat: "none", "loop", "select", "status", "ended"
  seen,     \* the context each heartbeat read last
  faults, crashes

fileVars == <<stored, tmps>>
heartVars == <<running, current, cancelled, pc, seen>>
boundVars == <<faults, crashes>>
nodeVars == <<fileVars, op, walk, heartVars, boundVars>>

NoData == -1   \* a file that does not exist

NoCall == [at |-> "idle", chunk |-> NoChunk, data |-> NoData]
NoWalk == [on |-> FALSE, left |-> {}, sum |-> 0, since |-> 0]

Starts == 1 .. MaxStarts

Init ==
  /\ stored = [k \in Chunks |-> NoData] /\ tmps = [k \in Chunks |-> NoData]
  /\ op = NoCall
  /\ walk = NoWalk
  /\ running = FALSE /\ current = 0 /\ cancelled = {}
  /\ pc = [r \in Starts |-> "none"] /\ seen = [r \in Starts |-> 0]
  /\ faults = 0 /\ crashes = 0

-----------------------------------------------------------------------------
(* WriteChunk and DeleteChunk, under n.mu. *)

Free == op = NoCall
At(place) == op.at = place
Goto(place) == op' = [op EXCEPT !.at = place]

\* A failed system call, and the error the caller gets.
Fails ==
  /\ faults < MaxFaults
  /\ faults' = faults + 1
  /\ op' = NoCall
  /\ UNCHANGED <<stored, walk, heartVars, crashes>>

\* Files change beside a walk: it reports what it happens to see.
Disturbs == walk' = NoWalk
CallOnly == UNCHANGED <<heartVars, boundVars>>

CallWrite(k, size) ==
  /\ Free
  /\ op' = [at |-> "create", chunk |-> k, data |-> size]
  /\ UNCHANGED <<fileVars, walk>> /\ CallOnly

\* os.Create cuts what an earlier call has left.
WriteCreate ==
  /\ At("create")
  /\ tmps' = [tmps EXCEPT ![op.chunk] = 0]
  /\ Goto("write") /\ Disturbs
  /\ UNCHANGED stored /\ CallOnly

CreateFails == At("create") /\ Fails /\ UNCHANGED tmps

\* The file grows, to the end of the data, and is flushed.
WriteData ==
  /\ At("write")
  /\ \E n \in tmps[op.chunk] .. op.data :
       /\ tmps' = [tmps EXCEPT ![op.chunk] = n]
       /\ IF n = op.data THEN Goto("rename") ELSE UNCHANGED op
  /\ Disturbs
  /\ UNCHANGED stored /\ CallOnly

\* Write, Sync or Rename fails, and the temporary file is removed, unless that fails as well.
WriteFails ==
  /\ op.at \in {"write", "rename"}
  /\ op' = NoCall
  /\ faults < MaxFaults /\ faults' = faults + 1
  /\ tmps' \in {tmps, [tmps EXCEPT ![op.chunk] = NoData]}
  /\ Disturbs
  /\ UNCHANGED <<stored, heartVars, crashes>>

\* Mutant: a failed rename is taken for done.
WriteRenameUnchecked ==
  /\ At("rename")
  /\ \/ stored' = [stored EXCEPT ![op.chunk] = tmps[op.chunk]]
     \/ UNCHANGED stored
  /\ tmps' = [tmps EXCEPT ![op.chunk] = NoData]
  /\ Goto("return") /\ Disturbs
  /\ CallOnly

WriteRename ==
  /\ At("rename")
  /\ stored' = [stored EXCEPT ![op.chunk] = tmps[op.chunk]]
  /\ tmps' = [tmps EXCEPT ![op.chunk] = NoData]
  /\ Goto("return") /\ Disturbs
  /\ CallOnly

CallDelete(k) ==
  /\ Free
  /\ op' = [at |-> "remove", chunk |-> k, data |-> NoData]
  /\ UNCHANGED <<fileVars, walk>> /\ CallOnly

\* A chunk that does not exist is deleted already; {id}.tmp is not looked for.
DeleteRemove ==
  /\ At("remove")
  /\ stored' = [stored EXCEPT ![op.chunk] = NoData]
  /\ Goto("return") /\ Disturbs
  /\ UNCHANGED tmps /\ CallOnly

DeleteFails == At("remove") /\ Fails /\ UNCHANGED tmps

CallReturns ==
  /\ At("return")
  /\ op' = NoCall
  /\ UNCHANGED <<fileVars, walk>> /\ CallOnly

-----------------------------------------------------------------------------
(* GetStatus: filepath.Walk lists the directory and then asks for each file *)
(* in it; what is gone by then is left out.  Calls of GetStatus do not      *)
(* touch each other: one is followed, as long as no file changes beside it. *)

Size(n) == IF n = NoData THEN 0 ELSE n

OnDisk == {<<k, "chunk">> : k \in {j \in Chunks : stored[j] # NoData}}
          \cup {<<k, "tmp">> : k \in {j \in Chunks : tmps[j] # NoData}}

SizeOf(entry) == Size(IF entry[2] = "chunk" THEN stored[entry[1]] ELSE tmps[entry[1]])

\* The sum of the sizes, as the number of all the bytes.
BytesIn(entries) == Cardinality(UNION {{entry} \X (1 .. SizeOf(entry)) : entry \in entries})
BytesOnDisk == BytesIn(OnDisk)

StatusOnly == UNCHANGED <<fileVars, op, heartVars, crashes>>

StatusBegins ==
  /\ ~walk.on
  /\ walk' = [on |-> TRUE, left |-> OnDisk, sum |-> 0, since |-> faults]
  /\ UNCHANGED faults /\ StatusOnly

StatusSees(entry) ==
  /\ entry \in walk.left
  /\ walk' = [walk EXCEPT !.left = @ \ {entry}, !.sum = @ + SizeOf(entry)]
  /\ UNCHANGED faults /\ StatusOnly

\* An error of the walk is ignored.
StatusMisses(entry) ==
  /\ entry \in walk.left
  /\ faults < MaxFaults /\ faults' = faults + 1
  /\ walk' = [walk EXCEPT !.left = @ \ {entry}]
  /\ StatusOnly

\* Mutant: a block that is not full is not counted.
FullBlocks(bytes) == bytes \div BlockSize

Blocks(bytes) == (bytes + BlockSize - 1) \div BlockSize

\* getDiskUsage, in blocks, with a quota below the size of the file system.
QuotaBlocks == DiskQuota \div BlockSize
FreeBlocks(bytes) == IF Blocks(bytes) < QuotaBlocks THEN QuotaBlocks - Blocks(bytes) ELSE 0

\* If the file system does not give its block size, nothing counts as used.
StatusEnds(free) ==
  /\ walk.on /\ walk.left = {}
  /\ \/ free = FreeBlocks(walk.sum) /\ UNCHANGED faults
     \/ free = QuotaBlocks /\ faults < MaxFaults /\ faults' = faults + 1
  /\ walk' = NoWalk
  /\ StatusOnly

-----------------------------------------------------------------------------
(* StartHeartbeat, StopHeartbeat, and the goroutines.  n.heartbeatCtx is      *)
(* written under n.mu and read without it: a goroutine sees any context       *)
(* between the last one it saw and the current one.                           *)

HeartOnly == UNCHANGED <<fileVars, op, walk, boundVars>>

StartHeartbeat ==
  /\ Free /\ ~running /\ current < MaxStarts
  /\ current' = current + 1 /\ running' = TRUE
  /\ pc' = [pc EXCEPT ![current + 1] = "loop"]
  /\ seen' = [seen EXCEPT ![current + 1] = current + 1]
  /\ UNCHANGED cancelled /\ HeartOnly

\* Mutant: the flag alone.
StopFlagOnly ==
  /\ Free /\ running
  /\ running' = FALSE
  /\ UNCHANGED <<current, cancelled, pc, seen>> /\ HeartOnly

StopHeartbeat ==
  /\ Free /\ running
  /\ running' = FALSE
  /\ cancelled' = cancelled \cup {current}
  /\ UNCHANGED <<current, pc, seen>> /\ HeartOnly

\* The context StartHeartbeat was given ends: isRunning stays.
ParentDone ==
  /\ running /\ current \notin cancelled
  /\ cancelled' = cancelled \cup {current}
  /\ UNCHANGED <<running, current, pc, seen>> /\ HeartOnly

Turn(r) ==
  /\ pc[r] = "loop"
  /\ \E c \in seen[r] .. current : seen' = [seen EXCEPT ![r] = c]
  /\ pc' = [pc EXCEPT ![r] = "select"]
  /\ UNCHANGED <<running, current, cancelled>> /\ HeartOnly

Goes(r, from, to) ==
  /\ pc[r] = from
  /\ pc' = [pc EXCEPT ![r] = to]
  /\ UNCHANGED <<running, current, cancelled, seen>> /\ HeartOnly

Tick(r) == Goes(r, "select", "status")
Beat(r) == Goes(r, "status", "loop")

\* Mutant: any stopped heartbeat ends every one.
EndOnAny(r) == cancelled # {} /\ Goes(r, "select", "ended")

End(r) == seen[r] \in cancelled /\ Goes(r, "select", "ended")

Heartbeat(r) == Turn(r) \/ Tick(r) \/ Beat(r) \/ End(r)

-----------------------------------------------------------------------------
\* The process is killed, and another one opens the directory.
Crash ==
  /\ crashes < MaxCrashes /\ crashes' = crashes + 1
  /\ op' = NoCall /\ walk' = NoWalk
  /\ running' = FALSE /\ cancelled' = cancelled \cup 1 .. current
  /\ pc' = [r \in Starts |-> IF pc[r] = "none" THEN "none" ELSE "ended"]
  /\ UNCHANGED <<fileVars, current, seen, faults>>

Call ==
  \/ \E k \in Chunks : CallDelete(k) \/ \E size \in Sizes : CallWrite(k, size)
  \/ WriteCreate \/ CreateFails \/ WriteData \/ WriteFails \/ WriteRename
  \/ DeleteRemove \/ DeleteFails \/ CallReturns

Status ==
  \/ StatusBegins
  \/ \E entry \in walk.left : StatusSees(entry) \/ StatusMisses(entry)
  \/ \E free \in 0 .. QuotaBlocks : StatusEnds(free)

Next ==
  \/ Call \/ Status \/ Crash
  \/ StartHeartbeat \/ StopHeartbeat \/ ParentDone
  \/ \E r \in Starts : Heartbeat(r)

Spec == Init /\ [][Next]_nodeVars

\* A goroutine runs on; a context that stays done is chosen by the select in the end.
FairSpec ==
  /\ Spec
  /\ \A r \in Starts : WF_nodeVars(Heartbeat(r)) /\ SF_nodeVars(End(r))

-----------------------------------------------------------------------------

TypeOK ==
  /\ stored \in [Chunks -> Sizes \cup {NoData}]
  /\ tmps \in [Chunks -> Nat \cup {NoData}]
  /\ op \in [at : {"idle", "create", "write", "rename", "remove", "return"},
             chunk : Chunks \cup {NoChunk}, data : Sizes \cup {NoData}]
  /\ walk \in [on : BOOLEAN, left : SUBSET (Chunks \X {"chunk", "tmp"}), sum : Nat, since : Nat]
  /\ running \in BOOLEAN /\ current \in 0 .. MaxStarts /\ cancelled \subseteq 1 .. current
  /\ pc \in [Starts -> {"none", "loop", "select", "status", "ended"}]
  /\ seen \in [Starts -> 0 .. current]
  /\ faults \in 0 .. MaxFaults /\ crashes \in 0 .. MaxCrashes

Chunk == INSTANCE ChunkStore WITH
  Data <- Sizes,
  chunks <- stored,
  call <- IF op = NoCall THEN [chunk |-> NoChunk, data |-> NoData, done |-> FALSE]
          ELSE [chunk |-> op.chunk, data |-> op.data, done |-> op.at = "return"]

\* However a call fails or is cut off, whatever temporary files earlier ones have left:
\* a chunk is the whole of what one call wrote, and an error means that nothing changed.
FollowsChunkStore == Chunk!Spec

\* What GetStatus reports as free can be written, if nothing is written and no call of
\* its own fails while it counts: leftover temporary files and blocks that are not full
\* count as used.
FreeSpaceIsReal ==
  [][\A free \in 1 .. QuotaBlocks :
       StatusEnds(free) /\ faults' = walk.since
         => BytesOnDisk + free * BlockSize <= DiskQuota]_nodeVars

\* A node that runs its heartbeat has a goroutine for it, whatever was started and
\* stopped before, unless the caller's context has ended.
RunningHasHeartbeat ==
  running /\ current \notin cancelled => pc[current] \notin {"none", "ended"}

\* After the last StopHeartbeat every goroutine ends, also one that took its successor's
\* context for its own.
StoppedHeartbeatsEnd == <>[]~running => <>[](\A r \in Starts : pc[r] \in {"none", "ended"})

=============================================================================
