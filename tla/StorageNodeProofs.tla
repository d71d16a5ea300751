------------------------- MODULE StorageNodeProofs -------------------------
(***************************************************************************)
(* What StorageNode promises, for every set of chunks and sizes and every  *)
(* bound: its types, that a heartbeat that is on runs, that the files      *)
(* implement ChunkStore whatever fails and wherever the process stops, and *)
(* that the space GetStatus reports as free is free.                       *)
(***************************************************************************)
EXTENDS StorageNode, FiniteSetTheorems, TLAPS

\* The call knows its chunk and its data, and what it is about to rename is whole.
CallOK ==
  /\ op.at = "idle" => op = NoCall
  /\ op.at # "idle" => op.chunk \in Chunks
  /\ op.at \in {"create", "write", "rename"} => op.data \in Sizes
  /\ op.at = "remove" => op.data = NoData
  /\ op.at = "write" => tmps[op.chunk] \in Nat
  /\ op.at = "rename" => tmps[op.chunk] = op.data
  /\ op.at = "return" => stored[op.chunk] = op.data

\* A heartbeat that was not started has no goroutine, and one that was has seen no
\* context older than its own.
HeartOK ==
  /\ running => current \in Starts
  /\ \A r \in Starts : r > current => pc[r] = "none"
  /\ \A r \in Starts : pc[r] # "none" => seen[r] >= r

IInv == TypeOK /\ CallOK /\ HeartOK /\ RunningHasHeartbeat

-----------------------------------------------------------------------------

LEMMA SizeIsNat ==
  ASSUME TypeOK, NEW entry \in Chunks \X {"chunk", "tmp"}
  PROVE  SizeOf(entry) \in Nat
<1>1. \A n \in Nat \cup {NoData} : Size(n) \in Nat
  BY StorageAssumption DEF StorageAssumption, Size, NoData
<1>2. entry[1] \in Chunks
  OBVIOUS
<1>3. stored[entry[1]] \in Nat \cup {NoData} /\ tmps[entry[1]] \in Nat \cup {NoData}
  BY <1>2, StorageAssumption DEF StorageAssumption, TypeOK
<1> QED
  BY <1>1, <1>3 DEF SizeOf

LEMMA InitHolds == Init => IInv
<1> SUFFICES ASSUME Init PROVE IInv
  OBVIOUS
<1> USE StorageAssumption
    DEF Init, StorageAssumption, NoCall, NoWalk, NoData, Starts
<1>1. TypeOK
  <2>1. stored \in [Chunks -> Sizes \cup {NoData}] /\ tmps \in [Chunks -> Nat \cup {NoData}]
    OBVIOUS
  <2>2. op \in [at : {"idle", "create", "write", "rename", "remove", "return"},
                chunk : Chunks \cup {NoChunk}, data : Sizes \cup {NoData}]
    OBVIOUS
  <2>3. walk \in [on : BOOLEAN, left : SUBSET (Chunks \X {"chunk", "tmp"}), sum : Nat, since : Nat]
    OBVIOUS
  <2>4. running \in BOOLEAN
    OBVIOUS
  <2>5. current \in 0 .. MaxStarts
    OBVIOUS
  <2>6. cancelled \subseteq 1 .. current
    BY DEF Init
  <2>7. faults \in 0 .. MaxFaults /\ crashes \in 0 .. MaxCrashes
    OBVIOUS
  <2>8. pc \in [Starts -> {"none", "loop", "select", "status", "ended"}]
    OBVIOUS
  <2>9. seen \in [Starts -> 0 .. current]
    OBVIOUS
  <2> HIDE StorageAssumption DEF Init, StorageAssumption, NoCall, NoWalk, NoData, Starts
  <2> QED
    BY <2>1, <2>2, <2>3, <2>4, <2>5, <2>6, <2>7, <2>8, <2>9 DEF TypeOK
<1>2. CallOK /\ HeartOK /\ RunningHasHeartbeat
  BY DEF Init, CallOK, HeartOK, RunningHasHeartbeat, NoCall
<1> QED
  BY <1>1, <1>2 DEF IInv

\* The steps of WriteChunk and DeleteChunk.
LEMMA CallKeeps == ASSUME IInv, Call PROVE IInv'
<1> USE DEF IInv
<1> USE StorageAssumption
    DEF StorageAssumption, NoData, NoCall, NoWalk, CallOnly, Disturbs, Goto, At, Free
<1>1. HeartOK' /\ RunningHasHeartbeat'
  <2>1. UNCHANGED heartVars
    BY DEF Call, CallDelete, CallWrite, WriteCreate, CreateFails, WriteData, WriteFails,
           WriteRename, DeleteRemove, DeleteFails, CallReturns, Fails
  <2> QED
    BY <2>1 DEF heartVars, HeartOK, RunningHasHeartbeat
<1>2. ASSUME NEW k \in Chunks, CallDelete(k) PROVE TypeOK' /\ CallOK'
  BY <1>2 DEF CallDelete, TypeOK, CallOK, fileVars, heartVars, boundVars
<1>3. ASSUME NEW k \in Chunks, NEW size \in Sizes, CallWrite(k, size)
      PROVE  TypeOK' /\ CallOK'
  BY <1>3 DEF CallWrite, TypeOK, CallOK, fileVars, heartVars, boundVars
<1>4. ASSUME WriteCreate PROVE TypeOK' /\ CallOK'
  BY <1>4 DEF WriteCreate, TypeOK, CallOK, heartVars, boundVars
<1>5. ASSUME CreateFails PROVE TypeOK' /\ CallOK'
  BY <1>5 DEF CreateFails, Fails, TypeOK, CallOK, heartVars
<1>6. ASSUME WriteData PROVE TypeOK' /\ CallOK'
  <2>1. PICK n \in tmps[op.chunk] .. op.data :
          /\ tmps' = [tmps EXCEPT ![op.chunk] = n]
          /\ IF n = op.data THEN Goto("rename") ELSE UNCHANGED op
    BY <1>6 DEF WriteData
  <2>2. op.chunk \in Chunks /\ op.at = "write" /\ op.data \in Nat /\ n \in Nat
    BY <1>6, <2>1 DEF WriteData, CallOK
  <2>3. TypeOK'
    BY <1>6, <2>1, <2>2 DEF WriteData, TypeOK, heartVars, boundVars
  <2>4. CallOK'
    BY <1>6, <2>1, <2>2 DEF WriteData, TypeOK, CallOK
  <2> QED
    BY <2>3, <2>4
<1>7. ASSUME WriteFails PROVE TypeOK' /\ CallOK'
  BY <1>7 DEF WriteFails, TypeOK, CallOK, heartVars
<1>8. ASSUME WriteRename PROVE TypeOK' /\ CallOK'
  BY <1>8 DEF WriteRename, TypeOK, CallOK, heartVars, boundVars
<1>9. ASSUME DeleteRemove PROVE TypeOK' /\ CallOK'
  BY <1>9 DEF DeleteRemove, TypeOK, CallOK, heartVars, boundVars
<1>10. ASSUME DeleteFails PROVE TypeOK' /\ CallOK'
  BY <1>10 DEF DeleteFails, Fails, TypeOK, CallOK, heartVars
<1>11. ASSUME CallReturns PROVE TypeOK' /\ CallOK'
  BY <1>11 DEF CallReturns, TypeOK, CallOK, fileVars, heartVars, boundVars
<1> QED
  BY <1>1, <1>2, <1>3, <1>4, <1>5, <1>6, <1>7, <1>8, <1>9, <1>10, <1>11 DEF Call

\* The steps of GetStatus: the sum stays a number.
LEMMA StatusKeeps == ASSUME IInv, Status PROVE IInv'
<1> USE DEF IInv
<1>1. UNCHANGED <<fileVars, op, heartVars, crashes>>
  BY DEF Status, StatusBegins, StatusSees, StatusMisses, StatusEnds, StatusOnly
<1>2. CallOK' /\ HeartOK' /\ RunningHasHeartbeat'
  BY <1>1 DEF fileVars, heartVars, CallOK, HeartOK, RunningHasHeartbeat, NoCall
<1> DEFINE Walks == [on : BOOLEAN, left : SUBSET (Chunks \X {"chunk", "tmp"}),
                     sum : Nat, since : Nat]
<1>3. walk \in Walks /\ faults \in Nat /\ faults \in 0 .. MaxFaults
  BY StorageAssumption DEF StorageAssumption, TypeOK
<1>4. walk' \in Walks
  <2>1. CASE StatusBegins
    <3>1. OnDisk \in SUBSET (Chunks \X {"chunk", "tmp"})
      BY DEF OnDisk
    <3> QED
      BY <1>3, <2>1, <3>1 DEF StatusBegins
  <2>2. ASSUME NEW entry \in walk.left, StatusSees(entry) PROVE walk' \in Walks
    <3>1. SizeOf(entry) \in Nat
      BY <1>3, SizeIsNat
    <3>2. walk' = [walk EXCEPT !.left = @ \ {entry}, !.sum = @ + SizeOf(entry)]
      BY <2>2 DEF StatusSees
    <3>3. /\ walk.sum + SizeOf(entry) \in Nat
          /\ walk.left \ {entry} \in SUBSET (Chunks \X {"chunk", "tmp"})
      BY <1>3, <3>1
    <3> QED
      BY <1>3, <3>2, <3>3
  <2>3. ASSUME NEW entry \in walk.left, StatusMisses(entry) PROVE walk' \in Walks
    <3>1. walk' = [walk EXCEPT !.left = @ \ {entry}]
      BY <2>3 DEF StatusMisses
    <3>2. walk.left \ {entry} \in SUBSET (Chunks \X {"chunk", "tmp"})
      BY <1>3
    <3> QED
      BY <1>3, <3>1, <3>2
  <2>4. ASSUME NEW free, StatusEnds(free) PROVE walk' \in Walks
    BY <2>4 DEF StatusEnds, NoWalk
  <2> QED
    BY <2>1, <2>2, <2>3, <2>4 DEF Status
<1>5. faults' \in 0 .. MaxFaults
  <2>1. faults' = faults \/ (faults < MaxFaults /\ faults' = faults + 1)
    BY DEF Status, StatusBegins, StatusSees, StatusMisses, StatusEnds
  <2> QED
    BY <1>3, <2>1, StorageAssumption DEF StorageAssumption
<1>6. TypeOK'
  BY <1>1, <1>4, <1>5 DEF TypeOK, fileVars, heartVars
<1> QED
  BY <1>2, <1>6

\* The heartbeat: a goroutine ends on a context no older than its own.
LEMMA HeartKeeps ==
  ASSUME IInv,
         StartHeartbeat \/ StopHeartbeat \/ ParentDone \/ \E r \in Starts : Heartbeat(r)
  PROVE  IInv'
<1> USE StorageAssumption DEF StorageAssumption, IInv, HeartOnly, Starts
<1>1. CallOK'
  <2>1. UNCHANGED <<fileVars, op>>
    BY DEF StartHeartbeat, StopHeartbeat, ParentDone, Heartbeat, Turn, Tick, Beat, End, Goes
  <2> QED
    BY <2>1 DEF fileVars, CallOK, NoCall
<1>2. CASE StartHeartbeat
  <2>1. current + 1 \in Starts /\ current \in Nat
    BY <1>2 DEF StartHeartbeat, TypeOK
  <2>2. TypeOK'
    BY <1>2, <2>1 DEF StartHeartbeat, TypeOK, fileVars, boundVars
  <2>3. HeartOK' /\ RunningHasHeartbeat'
    BY <1>2, <2>1 DEF StartHeartbeat, TypeOK, HeartOK, RunningHasHeartbeat
  <2> QED
    BY <1>1, <2>2, <2>3
<1>3. CASE StopHeartbeat \/ ParentDone
  <2>1. running /\ current \in 1 .. current
    BY <1>3 DEF StopHeartbeat, ParentDone, TypeOK, HeartOK
  <2>2. TypeOK'
    BY <1>3, <2>1 DEF StopHeartbeat, ParentDone, TypeOK, fileVars, boundVars
  <2>3. HeartOK' /\ RunningHasHeartbeat'
    BY <1>3, <2>1 DEF StopHeartbeat, ParentDone, HeartOK, RunningHasHeartbeat
  <2> QED
    BY <1>1, <2>2, <2>3
<1>4. ASSUME NEW r \in Starts, Turn(r) PROVE IInv'
  <2>1. PICK c \in seen[r] .. current : seen' = [seen EXCEPT ![r] = c]
    BY <1>4 DEF Turn
  <2>2. seen[r] \in Nat /\ c \in 0 .. current /\ c >= seen[r]
    BY <2>1 DEF TypeOK
  <2>3. TypeOK'
    BY <1>4, <2>1, <2>2 DEF Turn, TypeOK, fileVars, boundVars
  <2>4. HeartOK' /\ RunningHasHeartbeat'
    BY <1>4, <2>1, <2>2 DEF Turn, TypeOK, HeartOK, RunningHasHeartbeat
  <2> QED
    BY <1>1, <2>3, <2>4
<1>5. ASSUME NEW r \in Starts, Tick(r) \/ Beat(r) \/ End(r) PROVE IInv'
  <2>1. TypeOK'
    BY <1>5 DEF Tick, Beat, End, Goes, TypeOK, fileVars, boundVars
  <2>2. pc[r] # "none" /\ UNCHANGED <<running, current, cancelled, seen>>
    BY <1>5 DEF Tick, Beat, End, Goes
  <2>3. HeartOK'
    BY <1>5, <2>2 DEF Tick, Beat, End, Goes, TypeOK, HeartOK
  <2>4. End(r) /\ r = current => current \in cancelled
    BY <2>2 DEF End, TypeOK, HeartOK
  <2>5. RunningHasHeartbeat'
    BY <1>5, <2>2, <2>4 DEF Tick, Beat, End, Goes, TypeOK, HeartOK, RunningHasHeartbeat
  <2> QED
    BY <1>1, <2>1, <2>3, <2>5
<1> QED
  BY <1>2, <1>3, <1>4, <1>5 DEF Heartbeat

LEMMA CrashKeeps == ASSUME IInv, Crash PROVE IInv'
<1> USE StorageAssumption DEF StorageAssumption, IInv, Crash, NoCall, NoWalk, NoData
<1>1. TypeOK'
  <2>1. /\ stored' \in [Chunks -> Sizes \cup {NoData}]
        /\ tmps' \in [Chunks -> Nat \cup {NoData}]
    BY DEF TypeOK, fileVars
  <2>2. op' \in [at : {"idle", "create", "write", "rename", "remove", "return"},
                 chunk : Chunks \cup {NoChunk}, data : Sizes \cup {NoData}]
    OBVIOUS
  <2>3. walk' \in [on : BOOLEAN, left : SUBSET (Chunks \X {"chunk", "tmp"}), sum : Nat, since : Nat]
    OBVIOUS
  <2>4. running' \in BOOLEAN /\ current' \in 0 .. MaxStarts /\ cancelled' \subseteq 1 .. current'
    BY DEF TypeOK
  <2>5. pc' \in [Starts -> {"none", "loop", "select", "status", "ended"}]
    OBVIOUS
  <2>6. seen' \in [Starts -> 0 .. current']
    BY DEF TypeOK
  <2>7. faults' \in 0 .. MaxFaults /\ crashes' \in 0 .. MaxCrashes
    BY DEF TypeOK
  <2> QED
    BY <2>1, <2>2, <2>3, <2>4, <2>5, <2>6, <2>7 DEF TypeOK
<1>2. CallOK'
  BY DEF CallOK, fileVars
<1>3. HeartOK' /\ RunningHasHeartbeat'
  BY DEF TypeOK, HeartOK, RunningHasHeartbeat
<1> QED
  BY <1>1, <1>2, <1>3

LEMMA StepKeeps == IInv /\ [Next]_nodeVars => IInv'
<1> SUFFICES ASSUME IInv, [Next]_nodeVars PROVE IInv'
  OBVIOUS
<1>1. CASE UNCHANGED nodeVars
  BY <1>1 DEF IInv, TypeOK, CallOK, HeartOK, RunningHasHeartbeat, NoCall,
              nodeVars, fileVars, heartVars, boundVars
<1> QED
  BY <1>1, CallKeeps, StatusKeeps, HeartKeeps, CrashKeeps DEF Next

\* The inductive invariant, for every execution with and without faults.
THEOREM NodeInvariant == Spec => []IInv
BY InitHolds, StepKeeps, PTL DEF Spec

\* Every execution keeps the types of the files, the call, the status and the heartbeats.
THEOREM NodeTypes == Spec => []TypeOK
BY NodeInvariant, PTL DEF IInv

\* StartHeartbeat and StopHeartbeat in any order: a heartbeat that is on has its goroutine.
THEOREM HeartbeatRuns == Spec => []RunningHasHeartbeat
BY NodeInvariant, PTL DEF IInv

-----------------------------------------------------------------------------
(* The files implement ChunkStore. *)

LEMMA InitImplements == Init => Chunk!Init
BY DEF Init, Chunk!Init, NoCall, Chunk!NoCall

LEMMA SameCall ==
  ASSUME NEW K, NEW D,
         NEW x \in [chunk : K, data : D, done : BOOLEAN],
         NEW y \in [chunk : K, data : D, done : BOOLEAN],
         x.chunk = y.chunk, x.data = y.data, x.done <=> y.done
  PROVE  x = y
OBVIOUS

LEMMA CallBecomesDone ==
  ASSUME NEW k, NEW d
  PROVE  [[chunk |-> k, data |-> d, done |-> FALSE] EXCEPT !.done = TRUE]
         = [chunk |-> k, data |-> d, done |-> TRUE]
<1> DEFINE Calls == [chunk : {k}, data : {d}, done : BOOLEAN]
<1> DEFINE asked == [chunk |-> k, data |-> d, done |-> FALSE]
           marked == [asked EXCEPT !.done = TRUE]
           did == [chunk |-> k, data |-> d, done |-> TRUE]
<1>1. asked \in Calls
  OBVIOUS
<1>2. asked.chunk = k /\ asked.data = d
  OBVIOUS
<1>3. did \in Calls /\ did.chunk = k /\ did.data = d /\ did.done
  OBVIOUS
<1> HIDE DEF asked, did
<1>4. marked \in Calls /\ marked.done /\ marked.chunk = k /\ marked.data = d
  BY <1>1, <1>2
<1> HIDE DEF marked
<1>5. marked = did
  BY <1>3, <1>4, SameCall
<1> QED
  BY <1>5 DEF asked, marked, did

LEMMA StepImplements ==
  ASSUME IInv, [Next]_nodeVars
  PROVE  [Chunk!Next]_<<stored, IF op = NoCall
                                THEN [chunk |-> NoChunk, data |-> NoData, done |-> FALSE]
                                ELSE [chunk |-> op.chunk, data |-> op.data,
                                      done |-> op.at = "return"]>>
<1> DEFINE call == IF op = NoCall
                   THEN [chunk |-> NoChunk, data |-> NoData, done |-> FALSE]
                   ELSE [chunk |-> op.chunk, data |-> op.data, done |-> op.at = "return"]
<1> SUFFICES [Chunk!Next]_<<stored, call>>
  OBVIOUS
<1> USE DEF IInv, Goto, At, Free, Fails
<1>1. ASSUME UNCHANGED <<stored, op>> PROVE UNCHANGED <<stored, call>>
  BY <1>1
<1>2. ASSUME op' = NoCall, UNCHANGED stored PROVE Chunk!CutOff
  BY <1>2 DEF Chunk!CutOff, Chunk!NoCall
<1>3. ASSUME NEW k \in Chunks, CallDelete(k) PROVE Chunk!Called(k, NoData)
  BY <1>3 DEF CallDelete, Chunk!Called, Chunk!NoCall, NoCall, fileVars
<1>4. ASSUME NEW k \in Chunks, NEW size \in Sizes, CallWrite(k, size)
      PROVE  Chunk!Called(k, size)
  BY <1>4 DEF CallWrite, Chunk!Called, Chunk!NoCall, NoCall, fileVars
<1>5. ASSUME WriteCreate \/ WriteData PROVE UNCHANGED <<stored, call>>
  BY <1>5, StorageAssumption
  DEF WriteCreate, WriteData, TypeOK, CallOK, NoCall, StorageAssumption
<1>6. ASSUME WriteRename \/ DeleteRemove PROVE Chunk!Done
  <2>1. op.chunk \in Chunks /\ op # NoCall /\ op.at # "return"
    BY <1>6 DEF WriteRename, DeleteRemove, CallOK, NoCall
  <2>2. op' = [op EXCEPT !.at = "return"] /\ op'.at = "return" /\ op' # NoCall
    BY <1>6 DEF WriteRename, DeleteRemove, TypeOK, NoCall
  <2>3. stored' = [stored EXCEPT ![op.chunk] = op.data]
    BY <1>6 DEF WriteRename, DeleteRemove, CallOK
  <2>4. call = [chunk |-> op.chunk, data |-> op.data, done |-> FALSE]
    BY <2>1
  <2>5. call' = [chunk |-> op.chunk, data |-> op.data, done |-> TRUE]
    BY <2>2 DEF TypeOK
  <2>6. call # [chunk |-> NoChunk, data |-> NoData, done |-> FALSE]
    BY <2>1, <2>4, StorageAssumption DEF StorageAssumption
  <2>7. ~call.done /\ call.chunk = op.chunk /\ call.data = op.data
    BY <2>4
  <2>8. call' = [call EXCEPT !.done = TRUE]
    <3> HIDE DEF call
    <3> QED
      BY <2>4, <2>5, CallBecomesDone
  <2>9. stored' = [stored EXCEPT ![call.chunk] = call.data]
    BY <2>3, <2>7
  <2> QED
    BY <2>6, <2>7, <2>8, <2>9 DEF Chunk!Done, Chunk!NoCall
<1>7. ASSUME CreateFails \/ WriteFails \/ DeleteFails \/ CallReturns \/ Crash
      PROVE  Chunk!CutOff
  BY <1>2, <1>7 DEF CreateFails, WriteFails, DeleteFails, CallReturns, Crash, fileVars
<1>8. ASSUME Status \/ StartHeartbeat \/ StopHeartbeat \/ ParentDone
             \/ \E r \in Starts : Heartbeat(r)
      PROVE  UNCHANGED <<stored, call>>
  BY <1>1, <1>8
  DEF Status, StatusBegins, StatusSees, StatusMisses, StatusEnds, StatusOnly,
      StartHeartbeat, StopHeartbeat, ParentDone, Heartbeat, Turn, Tick, Beat, End, Goes, HeartOnly, fileVars
<1>9. CASE UNCHANGED nodeVars
  BY <1>1, <1>9 DEF nodeVars, fileVars
<1> HIDE DEF call
<1>10. CASE Call
  BY <1>3, <1>4, <1>5, <1>6, <1>7, <1>10 DEF Call, Chunk!Next
<1> QED
  BY <1>7, <1>8, <1>9, <1>10 DEF Next, Chunk!Next

\* WriteChunk and DeleteChunk change a chunk at once and as a whole, and not at all when
\* they answer an error: every execution, with faults and kills, is one of ChunkStore.
THEOREM FilesAreChunks == Spec => FollowsChunkStore
BY InitImplements, StepImplements, NodeInvariant, PTL
DEF Spec, FollowsChunkStore, Chunk!Spec

-----------------------------------------------------------------------------
(* GetStatus counts what is there. *)

\* What a walk has summed up and what it has still to see are all the bytes on disk, as long
\* as no call has failed since it began.
WalkInv ==
  /\ IsFiniteSet(OnDisk)
  /\ walk.on =>
       /\ walk.left \subseteq OnDisk
       /\ walk.since <= faults
       /\ walk.since = faults => walk.sum + BytesIn(walk.left) = BytesOnDisk

LEMMA EntriesAreTyped == OnDisk \in SUBSET (Chunks \X {"chunk", "tmp"})
BY DEF OnDisk

LEMMA BytesAreFinite ==
  ASSUME TypeOK, NEW S \in SUBSET (Chunks \X {"chunk", "tmp"}), IsFiniteSet(S)
  PROVE  IsFiniteSet(UNION {{entry} \X (1 .. SizeOf(entry)) : entry \in S})
<1> DEFINE bytes == [entry \in S |-> {entry} \X (1 .. SizeOf(entry))]
           T == {bytes[entry] : entry \in S}
<1>1. bytes \in Surjection(S, T)
  BY DEF Surjection
<1>2. IsFiniteSet(T)
  BY <1>1, FS_Surjection
<1>3. ASSUME NEW entry \in S PROVE IsFiniteSet({entry} \X (1 .. SizeOf(entry)))
  <2>1. SizeOf(entry) \in Int /\ 1 \in Int
    BY SizeIsNat
  <2>2. IsFiniteSet(1 .. SizeOf(entry)) /\ IsFiniteSet({entry})
    BY <2>1, FS_Singleton, FS_Interval
  <2> QED BY <2>2, FS_Product
<1>4. \A b \in T : IsFiniteSet(b)
  BY <1>3
<1>5. UNION {{entry} \X (1 .. SizeOf(entry)) : entry \in S} = UNION T
  OBVIOUS
<1> HIDE DEF T
<1> QED BY <1>2, <1>4, <1>5, FS_UNION

LEMMA BytesType ==
  ASSUME TypeOK, NEW S \in SUBSET (Chunks \X {"chunk", "tmp"}), IsFiniteSet(S)
  PROVE  BytesIn(S) \in Nat
BY BytesAreFinite, FS_CardinalityType DEF BytesIn

LEMMA BytesOfOne ==
  ASSUME NEW x, NEW n \in Nat
  PROVE  Cardinality({x} \X (1 .. n)) = n
<1>1. IsFiniteSet(1 .. n) /\ Cardinality(1 .. n) = n
  BY FS_Interval
<1>2. IsFiniteSet({x}) /\ Cardinality({x}) = 1
  BY FS_Singleton
<1>3. Cardinality({x} \X (1 .. n)) = 1 * n
  BY <1>1, <1>2, FS_Product
<1> QED BY <1>3

\* One entry less to see.
LEMMA BytesWithout ==
  ASSUME TypeOK, NEW S \in SUBSET (Chunks \X {"chunk", "tmp"}), IsFiniteSet(S), NEW x \in S
  PROVE  BytesIn(S) = BytesIn(S \ {x}) + SizeOf(x)
<1> DEFINE Bytes(R) == UNION {{entry} \X (1 .. SizeOf(entry)) : entry \in R}
<1>1. Bytes(S) = Bytes(S \ {x}) \cup Bytes({x}) /\ Bytes(S \ {x}) \cap Bytes({x}) = {}
  OBVIOUS
<1>2. IsFiniteSet(S \ {x}) /\ S \ {x} \in SUBSET (Chunks \X {"chunk", "tmp"})
      /\ IsFiniteSet({x}) /\ {x} \in SUBSET (Chunks \X {"chunk", "tmp"})
  BY FS_Subset, FS_Singleton
<1>3. IsFiniteSet(Bytes(S \ {x})) /\ IsFiniteSet(Bytes({x}))
  BY <1>2, BytesAreFinite
<1>4. Cardinality(Bytes({x})) = SizeOf(x)
  <2>1. SizeOf(x) \in Nat
    BY SizeIsNat
  <2>2. Cardinality({x} \X (1 .. SizeOf(x))) = SizeOf(x)
    BY <2>1, BytesOfOne
  <2>3. Bytes({x}) = {x} \X (1 .. SizeOf(x))
    <3>1. {{entry} \X (1 .. SizeOf(entry)) : entry \in {x}} = {{x} \X (1 .. SizeOf(x))}
      OBVIOUS
    <3> QED BY <3>1
  <2> HIDE DEF Bytes
  <2> QED BY <2>2, <2>3, Zenon
<1>5. Cardinality(Bytes(S \ {x})) \in Nat /\ SizeOf(x) \in Nat
  BY <1>3, FS_CardinalityType, SizeIsNat
<1> HIDE DEF Bytes
<1>6. Cardinality(Bytes(S \ {x}) \cup Bytes({x}))
        = Cardinality(Bytes(S \ {x})) + Cardinality(Bytes({x})) - Cardinality({})
  BY <1>1, <1>3, FS_Union
<1>7. Cardinality(Bytes(S)) = Cardinality(Bytes(S \ {x})) + SizeOf(x) - 0
  BY <1>1, <1>4, <1>6, FS_EmptySet, Zenon
<1>8. BytesIn(S) = Cardinality(Bytes(S)) /\ BytesIn(S \ {x}) = Cardinality(Bytes(S \ {x}))
  BY DEF BytesIn, Bytes
<1> QED BY <1>5, <1>7, <1>8

LEMMA FilesSame ==
  ASSUME UNCHANGED <<stored, tmps>>
  PROVE  /\ OnDisk' = OnDisk /\ BytesOnDisk' = BytesOnDisk
         /\ \A S : BytesIn(S)' = BytesIn(S)
<1>1. OnDisk' = OnDisk
  BY DEF OnDisk
<1>2. \A entry : SizeOf(entry)' = SizeOf(entry)
  BY DEF SizeOf
<1>3. \A S : BytesIn(S)' = BytesIn(S)
  BY <1>2 DEF BytesIn
<1> QED BY <1>1, <1>3 DEF BytesOnDisk

LEMMA StatusCounts == ASSUME IInv, WalkInv, Status PROVE WalkInv'
<1>1. UNCHANGED <<stored, tmps>>
  BY DEF Status, StatusBegins, StatusSees, StatusMisses, StatusEnds, StatusOnly, fileVars
<1>2. OnDisk' = OnDisk /\ IsFiniteSet(OnDisk) /\ BytesOnDisk' = BytesOnDisk
  BY <1>1, FilesSame DEF WalkInv
<1>3. BytesIn(walk.left)' = BytesIn(walk'.left)
  BY <1>1 DEF BytesIn, SizeOf
<1>a. /\ TypeOK /\ faults \in Nat
      /\ walk \in [on : BOOLEAN, left : SUBSET (Chunks \X {"chunk", "tmp"}), sum : Nat, since : Nat]
  BY StorageAssumption DEF IInv, TypeOK, StorageAssumption
<1>4. CASE StatusBegins
  <2>1. BytesOnDisk \in Nat
    BY <1>2, <1>a, EntriesAreTyped, BytesType DEF BytesOnDisk
  <2>2. /\ walk'.left = OnDisk /\ walk'.sum = 0 /\ walk'.since = faults /\ faults' = faults
    BY <1>4 DEF StatusBegins
  <2>3. walk'.sum + BytesIn(walk'.left) = BytesOnDisk'
    BY <1>2, <2>1, <2>2 DEF BytesOnDisk
  <2> QED BY <1>2, <1>3, <1>a, <2>2, <2>3 DEF WalkInv
<1>5. ASSUME NEW entry \in walk.left, StatusSees(entry) PROVE WalkInv'
  <2>1. /\ walk'.left = walk.left \ {entry} /\ walk'.sum = walk.sum + SizeOf(entry)
        /\ walk'.since = walk.since /\ walk'.on = walk.on /\ faults' = faults
    BY <1>5, <1>a DEF StatusSees
  <2> SUFFICES ASSUME walk.on
               PROVE  /\ walk'.left \subseteq OnDisk /\ walk'.since <= faults'
                      /\ walk'.since = faults' => walk'.sum + BytesIn(walk'.left) = BytesOnDisk
    BY <1>2, <1>3, <2>1 DEF WalkInv
  <2>2. walk.left \subseteq OnDisk /\ walk.since <= faults
    BY DEF WalkInv
  <2>3. IsFiniteSet(walk.left) /\ IsFiniteSet(walk.left \ {entry})
    BY <1>2, <2>2, FS_Subset
  <2>4. BytesIn(walk.left) = BytesIn(walk.left \ {entry}) + SizeOf(entry)
    BY <1>a, <2>3, BytesWithout
  <2>5. BytesIn(walk.left \ {entry}) \in Nat /\ SizeOf(entry) \in Nat /\ walk.sum \in Nat
    BY <1>a, <2>3, BytesType, SizeIsNat
  <2>6. walk.since = faults => walk.sum + BytesIn(walk.left) = BytesOnDisk
    BY DEF WalkInv
  <2>7. walk'.since = faults' => walk'.sum + BytesIn(walk'.left) = BytesOnDisk
    BY <2>1, <2>4, <2>5, <2>6
  <2> QED BY <2>1, <2>2, <2>7
<1>6. ASSUME NEW entry \in walk.left, StatusMisses(entry) PROVE WalkInv'
  <2>1. /\ walk'.left = walk.left \ {entry} /\ walk'.since = walk.since /\ walk'.on = walk.on
        /\ faults' = faults + 1
    BY <1>6, <1>a DEF StatusMisses
  <2>2. walk.on => walk'.left \subseteq OnDisk /\ walk'.since <= faults' /\ walk'.since # faults'
    BY <1>a, <2>1 DEF WalkInv
  <2> QED BY <1>2, <2>1, <2>2 DEF WalkInv
<1>7. ASSUME NEW free, StatusEnds(free) PROVE WalkInv'
  BY <1>2, <1>7 DEF StatusEnds, NoWalk, WalkInv
<1> QED BY <1>4, <1>5, <1>6, <1>7 DEF Status

LEMMA NextCounts == IInv /\ WalkInv /\ [Next]_nodeVars => WalkInv'
<1> SUFFICES ASSUME IInv, WalkInv, [Next]_nodeVars PROVE WalkInv'
  OBVIOUS
<1>a. faults \in Nat /\ tmps \in [Chunks -> Nat \cup {NoData}]
      /\ stored \in [Chunks -> Sizes \cup {NoData}]
  BY StorageAssumption DEF IInv, TypeOK, StorageAssumption
<1>n. IsFiniteSet(OnDisk)
  BY DEF WalkInv
<1>1. CASE UNCHANGED <<stored, tmps, walk, faults>>
  BY <1>1, FilesSame DEF WalkInv
<1>2. CASE UNCHANGED <<stored, tmps, walk>> /\ faults' = faults + 1
  <2>1. OnDisk' = OnDisk
    BY <1>2, FilesSame
  <2>2. walk.on => walk.since <= faults' /\ walk.since # faults'
    <3>1. walk.on => walk.since <= faults /\ walk.since \in Nat
      BY DEF WalkInv, IInv, TypeOK
    <3> QED BY <1>2, <1>a, <3>1
  <2> QED BY <1>2, <2>1, <2>2 DEF WalkInv
<1>3. ASSUME NEW k, walk' = NoWalk,
             \A j \in Chunks \ {k} : stored'[j] = stored[j] /\ tmps'[j] = tmps[j]
      PROVE  WalkInv'
  <2>1. OnDisk' \subseteq OnDisk \cup {<<k, "chunk">>} \cup {<<k, "tmp">>}
    BY <1>3 DEF OnDisk
  <2>2. IsFiniteSet(OnDisk \cup {<<k, "chunk">>} \cup {<<k, "tmp">>})
    BY <1>n, FS_AddElement
  <2>3. IsFiniteSet(OnDisk')
    BY <2>1, <2>2, FS_Subset
  <2> QED BY <1>3, <2>3 DEF WalkInv, NoWalk
<1>4. CASE Call
  <2>1. CASE (\E k \in Chunks : CallDelete(k) \/ \E size \in Sizes : CallWrite(k, size)) \/ CallReturns
    <3>1. UNCHANGED <<stored, tmps, walk, faults>>
      BY <2>1 DEF CallDelete, CallWrite, CallReturns, CallOnly, fileVars, boundVars
    <3> QED BY <1>1, <3>1
  <2>2. CASE CreateFails \/ DeleteFails
    <3>1. UNCHANGED <<stored, tmps, walk>> /\ faults' = faults + 1
      BY <2>2 DEF CreateFails, DeleteFails, Fails
    <3> QED BY <1>2, <3>1
  <2>3. CASE WriteCreate \/ WriteData \/ WriteFails \/ WriteRename \/ DeleteRemove
    <3>1. walk' = NoWalk
      BY <2>3 DEF WriteCreate, WriteData, WriteFails, WriteRename, DeleteRemove, Disturbs
    <3>2. \A j \in Chunks \ {op.chunk} : stored'[j] = stored[j] /\ tmps'[j] = tmps[j]
      BY <1>a, <2>3 DEF WriteCreate, WriteData, WriteFails, WriteRename, DeleteRemove
    <3> QED BY <1>3, <3>1, <3>2
  <2> QED BY <1>4, <2>1, <2>2, <2>3 DEF Call
<1>5. CASE Crash
  <2>1. UNCHANGED <<stored, tmps>> /\ walk' = NoWalk
    BY <1>5 DEF Crash, fileVars
  <2> QED BY <1>3, <2>1
<1>6. CASE StartHeartbeat \/ StopHeartbeat \/ ParentDone \/ (\E r \in Starts : Heartbeat(r)) \/ UNCHANGED nodeVars
  <2>1. UNCHANGED <<stored, tmps, walk, faults>>
    BY <1>6 DEF StartHeartbeat, StopHeartbeat, ParentDone, Heartbeat, Turn, Tick, Beat, End, Goes,
       HeartOnly, nodeVars, fileVars, boundVars
  <2> QED BY <1>1, <2>1
<1> QED BY <1>4, <1>5, <1>6, StatusCounts DEF Next

LEMMA InitCounts == Init => WalkInv
<1> SUFFICES ASSUME Init PROVE WalkInv
  OBVIOUS
<1>1. OnDisk = {}
  BY DEF Init, OnDisk, NoData
<1> QED BY <1>1, FS_EmptySet DEF Init, NoWalk, WalkInv

LEMMA DivBounds ==
  ASSUME NEW a \in Nat, NEW b \in Nat \ {0}
  PROVE  a \div b \in Nat /\ (a \div b) * b <= a /\ a < (a \div b) * b + b
OBVIOUS

\* The blocks that are free are whole blocks of the quota.
LEMMA FreeBlocksFit ==
  ASSUME NEW bytes \in Nat, FreeBlocks(bytes) >= 1
  PROVE  bytes + FreeBlocks(bytes) * BlockSize <= DiskQuota
<1> DEFINE b == BlockSize  used == Blocks(bytes)  all == QuotaBlocks
<1>1. b \in Nat \ {0} /\ DiskQuota \in Nat /\ bytes + b - 1 \in Nat
  BY StorageAssumption DEF StorageAssumption
<1>2. used \in Nat /\ bytes + b - 1 < used * b + b
  BY <1>1, DivBounds DEF Blocks
<1>3. all \in Nat /\ all * b <= DiskQuota
  BY <1>1, DivBounds DEF QuotaBlocks
<1>4. used < all /\ FreeBlocks(bytes) = all - used
  BY DEF FreeBlocks
<1> HIDE DEF b, used, all
<1>5. (all - used) * b = all * b - used * b
  BY <1>1, <1>2, <1>3
<1>6. bytes <= used * b
  <2>1. used * b \in Nat
    BY <1>1, <1>2
  <2> QED BY <1>1, <1>2, <2>1
<1>7. all * b \in Nat /\ used * b \in Nat
  BY <1>1, <1>2, <1>3
<1>8. bytes + (all - used) * b <= DiskQuota
  BY <1>1, <1>3, <1>5, <1>6, <1>7
<1> QED BY <1>4, <1>8 DEF b

\* What GetStatus reports as free, when nothing was written while it counted and no call of
\* its own failed, can be written: getUsedBlocks (local_storage.go:245-271) counts every
\* file, temporary ones too, and rounds what is used up to whole blocks.
THEOREM FreeSpaceReported == Spec => FreeSpaceIsReal
<1> DEFINE Real == \A free \in 1 .. QuotaBlocks :
                     StatusEnds(free) /\ faults' = walk.since
                       => BytesOnDisk + free * BlockSize <= DiskQuota
<1>1. IInv /\ WalkInv => Real
  <2> SUFFICES ASSUME IInv, WalkInv, NEW free \in 1 .. QuotaBlocks, StatusEnds(free),
                      faults' = walk.since
               PROVE  BytesOnDisk + free * BlockSize <= DiskQuota
    OBVIOUS
  <2>1. /\ walk.on /\ walk.left = {} /\ walk.since <= faults /\ faults \in Nat /\ walk.sum \in Nat
        /\ walk.since \in Nat
    BY DEF StatusEnds, WalkInv, IInv, TypeOK
  <2>2. free = FreeBlocks(walk.sum) /\ walk.since = faults
    BY <2>1 DEF StatusEnds
  <2>3. BytesIn({}) = 0
    BY FS_EmptySet DEF BytesIn
  <2>4. BytesOnDisk = walk.sum
    BY <2>1, <2>2, <2>3 DEF WalkInv
  <2>5. free >= 1
    BY <2>1, StorageAssumption, DivBounds DEF StorageAssumption, QuotaBlocks
  <2> QED BY <2>1, <2>2, <2>4, <2>5, FreeBlocksFit
<1>2. Spec => [](IInv /\ WalkInv)
  BY InitHolds, InitCounts, StepKeeps, NextCounts, PTL DEF Spec
<1>3. Spec => [][Real]_nodeVars
  BY <1>1, <1>2, PTL DEF Spec
<1> QED BY <1>3 DEF FreeSpaceIsReal
=============================================================================
