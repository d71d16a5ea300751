-------------------------- MODULE UsageIndexProofs --------------------------
(***************************************************************************)
(* Accounting does not disturb what it counts: a step of UsageIndex is a   *)
(* step of DiskStore or leaves it alone, so all that is proved about       *)
(* DiskStore holds with quotas too.  And it counts right: UsageInv says    *)
(* what the index has while an operation is under way, from which          *)
(* BytesMatchRescan, NeverUndercounts and QuotaKept follow once it is over.*)
(* Sums of sizes are cardinalities of sets of bytes, so that the facts of  *)
(* FiniteSetTheorems stand for an induction over the files.                *)
(***************************************************************************)
EXTENDS UsageIndex, DiskStoreSessionProofs, FiniteSetTheorems

LEMMA UsageStepIsStoreStep == [UsageNext]_<<vars, usageVars>> => [Next]_vars
<1> SUFFICES ASSUME [UsageNext]_<<vars, usageVars>> PROVE [Next]_vars
  OBVIOUS
<1>1. CASE LoadUsage
  BY <1>1 DEF LoadUsage, Next, Progress, FileStart, SessionStep
<1>2. CASE AdmitPut \/ CountPut
  BY <1>2 DEF AdmitPut, CountPut, Next, Progress, PutStep
<1>3. CASE CountDelete \/ CountRestore \/ CountPurge
  BY <1>3 DEF CountDelete, CountRestore, CountPurge, Next, Progress,
       DeleteStep, RestoreStep, PurgeStep
<1>4. CASE CountStart \/ Assemble \/ CountComplete
  BY <1>4 DEF CountStart, Assemble, CountComplete, Next, Progress,
       SessionStep, UploadStart, CompleteStep
<1>5. CASE ReadReservation \/ Release \/ ReleaseFails
  BY <1>5 DEF ReadReservation, Release, ReleaseFails, Next, Progress,
       UploadStart, SweepStep, SessionStep
<1>6. CASE CountRecovered \/ Forget
  BY <1>6 DEF CountRecovered, Forget, Next, Progress, RecoverStep, SweepStep
<1>7. CASE RebuildUsage
  BY <1>7 DEF RebuildUsage
<1>8. CASE Uncounted
  <2>1. CASE \E id \in FileIds : Delete(id) \/ Restore(id)
    BY <2>1 DEF Next, FileStart
  <2>2. CASE \E id \in FileIds : PurgeKeeps(id) \/ PurgeEntry(id)
    BY <2>2 DEF Next, Progress, PurgeStep
  <2>3. CASE \E id \in FileIds : RecoverPartial(id) \/ RecoverManifestTmp(id)
    BY <2>3 DEF Next, Progress, RecoverStep
  <2>4. CASE \E u \in UploadIds : StartUpload(u) \/ \E n \in 1 .. UploadSize : AppendUpload(u, n)
    BY <2>4 DEF Next, UploadStart
  <2>5. CASE \E u \in UploadIds : Age(u) \/ SweepSkip(u)
    BY <2>5 DEF Next, Progress, SweepStep
  <2>6. CASE \E u \in UploadIds : RecoverUploadTmp(u) \/ RecoverSession(u)
    BY <2>6 DEF Next, Progress, RecoverStep
  <2>7. CASE \/ PutAbandon \/ PutWriteManifest \/ PutCommitManifest \/ PutIOError
             \/ PutUndoManifest \/ PutUndo
             \/ DeleteMoveObject \/ DeleteMoveFails \/ DeleteMoveManifest \/ DeleteWriteMark
             \/ DeleteCommitMark \/ DeleteIOError
             \/ UndoDeleteObject \/ UndoDeleteManifest \/ UndoDeleteDir
    BY <2>7 DEF Next, Progress, PutStep, DeleteStep
  <2>8. CASE \/ RestoreCommitMark \/ RestoreMoveObject \/ RestoreMoveManifest \/ RestoreRemoveDir
             \/ RestoreEarlyIOError \/ RestoreIOError \/ RestoreUndo
             \/ PurgeTrash \/ PurgeStops \/ PurgeUnlink \/ PurgeIOError \/ PurgeReturn
    BY <2>8 DEF Next, Progress, FileStart, RestoreStep, PurgeStep
  <2>9. CASE \/ SweepUploads \/ SweepUnlink \/ SweepDone
             \/ StartCreatePart \/ StartWriteManifest \/ StartCommitManifest \/ StartIOError
             \/ AppendCopy \/ AppendWriteManifest \/ AppendReject \/ AppendCommitManifest
             \/ AppendAck \/ AppendIOError \/ AppendUndo \/ DropUnlink
    BY <2>9 DEF Next, Progress, UploadStart, SweepStep, SessionStep
  <2>10. CASE \/ CompleteWriteManifest \/ CompleteCommitManifest \/ CompleteWriteSession
              \/ CompleteCommitSession \/ CompleteIOError \/ CompleteUndo \/ CompleteUndoManifest
              \/ Restart \/ RecoverScanned
    BY <2>10 DEF Next, Progress, CompleteStep, RecoverStep
  <2> QED BY <1>8, <2>1, <2>2, <2>3, <2>4, <2>5, <2>6, <2>7, <2>8, <2>9, <2>10 DEF Uncounted
<1>9. CASE UNCHANGED <<vars, usageVars>>
  BY <1>9
<1> QED BY <1>1, <1>2, <1>3, <1>4, <1>5, <1>6, <1>7, <1>8, <1>9 DEF UsageNext

\* The index and the quota are beside the store: they refuse a request or count it, and no
\* step of the store is lost or added by them (store.go:310-317, 346-355, 696-713).
THEOREM UsageImplementsStore == UsageSpec => Spec
<1>1. UsageInit => Init
  BY DEF UsageInit
<1> QED BY <1>1, UsageStepIsStoreStep, PTL DEF UsageSpec, Spec

\* With quotas and accounting too, no kill and no single failed call loses the bytes of an
\* acknowledged file nobody asked to purge.
THEOREM CountedBytesAreKept == UsageSpec => []HeldBytesKept
BY UsageImplementsStore, HeldBytesAreKept, PTL

\* "records never appear twice and never disappear silently" (store.go:822-824), for bytes:
\* moving between categories leaves what the owner is charged as it was, provided the
\* category it comes from has that much.  QuotaKept rests on it where Delete, Restore and
\* CompleteUpload ask for no quota.
THEOREM MoveKeepsTotal ==
  ASSUME usage \in [Categories -> Entry],
         NEW from \in Categories, NEW to \in Categories, from # to,
         NEW n \in Nat, n <= usage[from].bytes
  PROVE  Total(Moved(from, to, n)) = Total(usage)
<1>1. \A c \in Categories : usage[c].bytes \in Nat
  BY DEF Entry
<1>2. Less(usage[from], n).bytes = usage[from].bytes - n
  BY <1>1 DEF Less, NoEntry
<1>3. More(usage[to], n).bytes = usage[to].bytes + n
  BY DEF More
<1>4. \A c \in Categories : Moved(from, to, n)[c].bytes =
        IF c = from THEN usage[c].bytes - n ELSE IF c = to THEN usage[c].bytes + n ELSE usage[c].bytes
  BY <1>2, <1>3 DEF Moved
<1> QED BY <1>1, <1>4 DEF Total, Categories

-----------------------------------------------------------------------------
(* Sums of sizes, counted byte by byte. *)

BytesOf(f, S) == UNION {{id} \X (1 .. f[id]) : id \in S}
SumOf(f, S) == Cardinality(BytesOf(f, S))

LEMMA BytesAreFinite ==
  ASSUME NEW f \in [FileIds -> Nat], NEW S \in SUBSET FileIds
  PROVE  IsFiniteSet(BytesOf(f, S))
<1> DEFINE bytes == [id \in S |-> {id} \X (1 .. f[id])]
           T == {bytes[id] : id \in S}
<1>1. IsFiniteSet(S)
  BY UsageAssumption, FS_Subset
<1>2. bytes \in Surjection(S, T)
  BY DEF Surjection
<1>3. IsFiniteSet(T)
  BY <1>1, <1>2, FS_Surjection
<1>4. ASSUME NEW id \in S PROVE IsFiniteSet({id} \X (1 .. f[id]))
  <2>1. f[id] \in Int /\ 1 \in Int
    OBVIOUS
  <2>2. IsFiniteSet(1 .. f[id]) /\ IsFiniteSet({id})
    BY <2>1, FS_Singleton, FS_Interval
  <2> QED BY <2>2, FS_Product
<1>5. \A b \in T : IsFiniteSet(b)
  BY <1>4
<1>6. BytesOf(f, S) = UNION T
  BY DEF BytesOf
<1> HIDE DEF T
<1> QED BY <1>3, <1>5, <1>6, FS_UNION

LEMMA SumType ==
  ASSUME NEW f \in [FileIds -> Nat], NEW S \in SUBSET FileIds
  PROVE  SumOf(f, S) \in Nat
BY BytesAreFinite, FS_CardinalityType DEF SumOf

LEMMA SumUnion ==
  ASSUME NEW f \in [FileIds -> Nat], NEW S \in SUBSET FileIds, NEW T \in SUBSET FileIds,
         S \cap T = {}
  PROVE  SumOf(f, S \cup T) = SumOf(f, S) + SumOf(f, T)
<1>1. BytesOf(f, S \cup T) = BytesOf(f, S) \cup BytesOf(f, T)
  BY DEF BytesOf
<1>2. BytesOf(f, S) \cap BytesOf(f, T) = {}
  BY DEF BytesOf
<1>3. IsFiniteSet(BytesOf(f, S)) /\ IsFiniteSet(BytesOf(f, T))
  BY BytesAreFinite
<1>4. SumOf(f, S) \in Nat /\ SumOf(f, T) \in Nat
  BY SumType
<1>5. Cardinality(BytesOf(f, S) \cup BytesOf(f, T))
        = Cardinality(BytesOf(f, S)) + Cardinality(BytesOf(f, T)) - Cardinality({})
  BY <1>2, <1>3, FS_Union
<1>6. Cardinality({}) = 0
  BY FS_EmptySet
<1>7. Cardinality(BytesOf(f, S \cup T)) = Cardinality(BytesOf(f, S)) + Cardinality(BytesOf(f, T)) - 0
  BY <1>1, <1>5, <1>6, Zenon
<1>8. SumOf(f, S \cup T) = SumOf(f, S) + SumOf(f, T) - 0
  BY <1>7, Zenon DEF SumOf
<1> QED BY <1>4, <1>8

LEMMA SumOfOne ==
  ASSUME NEW f \in [FileIds -> Nat], NEW x \in FileIds
  PROVE  SumOf(f, {x}) = f[x]
<1>1. BytesOf(f, {x}) = {x} \X (1 .. f[x])
  BY DEF BytesOf
<1>2. f[x] \in Nat
  OBVIOUS
<1>3. IsFiniteSet(1 .. f[x]) /\ Cardinality(1 .. f[x]) = f[x]
  BY <1>2, FS_Interval
<1>4. IsFiniteSet({x}) /\ Cardinality({x}) = 1
  BY FS_Singleton
<1>5. Cardinality({x} \X (1 .. f[x])) = 1 * f[x]
  BY <1>3, <1>4, FS_Product
<1> QED BY <1>1, <1>2, <1>5 DEF SumOf

\* One file more, and one less.
LEMMA SumWith ==
  ASSUME NEW f \in [FileIds -> Nat], NEW S \in SUBSET FileIds, NEW x \in FileIds
  PROVE  SumOf(f, S \cup {x}) = SumOf(f, S \ {x}) + f[x]
<1>1. S \cup {x} = (S \ {x}) \cup {x}
  OBVIOUS
<1>2. S \ {x} \in SUBSET FileIds /\ {x} \in SUBSET FileIds /\ (S \ {x}) \cap {x} = {}
  OBVIOUS
<1>3. SumOf(f, (S \ {x}) \cup {x}) = SumOf(f, S \ {x}) + SumOf(f, {x})
  BY <1>2, SumUnion
<1> QED BY <1>1, <1>3, SumOfOne

LEMMA SumOfPart ==
  ASSUME NEW f \in [FileIds -> Nat], NEW S \in SUBSET FileIds, NEW T \in SUBSET S
  PROVE  SumOf(f, T) <= SumOf(f, S)
<1>1. BytesOf(f, T) \subseteq BytesOf(f, S)
  BY DEF BytesOf
<1> QED BY <1>1, BytesAreFinite, FS_Subset DEF SumOf

\* What two places have, where a file may be in both.
Held(f, S, T) == SumOf(f, S) + SumOf(f, T)

LEMMA HeldPair ==
  ASSUME NEW f \in [FileIds -> Nat], NEW S \in SUBSET FileIds, NEW T \in SUBSET FileIds
  PROVE  Held(f, S, T) = SumOf(f, S \cup T) + SumOf(f, S \cap T) /\ Held(f, S, T) \in Nat
<1> DEFINE rest == T \ S  both == S \cap T
<1>1. rest \in SUBSET FileIds /\ both \in SUBSET FileIds
  OBVIOUS
<1>2. SumOf(f, S \cup T) = SumOf(f, S) + SumOf(f, rest)
  <2>1. S \cap rest = {} /\ S \cup rest = S \cup T
    OBVIOUS
  <2>2. SumOf(f, S \cup rest) = SumOf(f, S) + SumOf(f, rest)
    BY <1>1, <2>1, SumUnion
  <2> QED BY <2>1, <2>2, Zenon
<1>3. SumOf(f, T) = SumOf(f, rest) + SumOf(f, both)
  <2>1. rest \cap both = {} /\ rest \cup both = T
    OBVIOUS
  <2>2. SumOf(f, rest \cup both) = SumOf(f, rest) + SumOf(f, both)
    BY <1>1, <2>1, SumUnion
  <2> QED BY <2>1, <2>2, Zenon
<1>4. SumOf(f, S) \in Nat /\ SumOf(f, rest) \in Nat /\ SumOf(f, both) \in Nat /\ SumOf(f, T) \in Nat
  BY <1>1, SumType
<1> HIDE DEF rest, both
<1>5. Held(f, S, T) = SumOf(f, S \cup T) + SumOf(f, both) /\ Held(f, S, T) \in Nat
  BY <1>2, <1>3, <1>4 DEF Held
<1> QED BY <1>5 DEF both

\* From F and S to G and T no file is counted more often, though it may be counted elsewhere.
Shrinks(F, S, G, T) == G \cup T \subseteq F \cup S /\ G \cap T \subseteq F \cap S

LEMMA HeldShrinks ==
  ASSUME NEW f \in [FileIds -> Nat], NEW F \in SUBSET FileIds, NEW S \in SUBSET FileIds,
         NEW G \in SUBSET FileIds, NEW T \in SUBSET FileIds, Shrinks(F, S, G, T)
  PROVE  Held(f, G, T) <= Held(f, F, S)
<1> DEFINE a == F \cup S  b == F \cap S  c == G \cup T  d == G \cap T
<1>1. a \in SUBSET FileIds /\ b \in SUBSET FileIds /\ c \in SUBSET a /\ d \in SUBSET b
  BY DEF Shrinks
<1>2. Held(f, F, S) = SumOf(f, a) + SumOf(f, b) /\ Held(f, G, T) = SumOf(f, c) + SumOf(f, d)
  BY HeldPair
<1> HIDE DEF a, b, c, d
<1>3. SumOf(f, c) <= SumOf(f, a) /\ SumOf(f, d) <= SumOf(f, b)
  BY <1>1, SumOfPart
<1>4. SumOf(f, a) \in Nat /\ SumOf(f, b) \in Nat /\ SumOf(f, c) \in Nat /\ SumOf(f, d) \in Nat
  <2>1. c \in SUBSET FileIds /\ d \in SUBSET FileIds
    BY <1>1
  <2> QED BY <1>1, <2>1, SumType
<1> QED BY <1>2, <1>3, <1>4

\* A sum depends on the sizes of its files only.
LEMMA SumSame ==
  ASSUME NEW f, NEW g, NEW S, \A x \in S : f[x] = g[x]
  PROVE  SumOf(f, S) = SumOf(g, S)
<1>1. BytesOf(f, S) = BytesOf(g, S)
  BY DEF BytesOf
<1> QED BY <1>1 DEF SumOf

-----------------------------------------------------------------------------
(* Types, what a rescan counts, and what moveUsage does. *)

LEMMA StoredSets ==
  /\ Live \in SUBSET FileIds /\ Trashed \in SUBSET FileIds /\ Open \in SUBSET UploadIds
  /\ IsFiniteSet(Live) /\ IsFiniteSet(Trashed) /\ IsFiniteSet(Open)
<1>1. Live \in SUBSET FileIds /\ Trashed \in SUBSET FileIds /\ Open \in SUBSET UploadIds
  BY DEF Live, Trashed, Open
<1> QED BY <1>1, UsageAssumption, FS_Subset

LEMMA SizesAreNat ==
  ASSUME UsageTypeOK
  PROVE  size \in [FileIds -> Nat] /\ UploadSize \in Nat \ {0}
<1>1. PutSizes \cup {0, UploadSize} \subseteq Nat /\ UploadSize \in Nat \ {0}
  BY ConstantsAssumption, UsageAssumption
<1> QED BY <1>1 DEF UsageTypeOK

LEMMA RescanCounts ==
  ASSUME UsageTypeOK
  PROVE  /\ Rescan \in [Categories -> Entry]
         /\ Rescan["files"].bytes = SumOf(size, Live)
         /\ Rescan["trash"].bytes = SumOf(size, Trashed)
         /\ Rescan["uploads"].bytes = UploadSize * Cardinality(Open)
<1>1. /\ BytesIn(Live) = SumOf(size, Live) /\ BytesIn(Trashed) = SumOf(size, Trashed)
  BY DEF BytesIn, SumOf, BytesOf
<1>2. SumOf(size, Live) \in Nat /\ SumOf(size, Trashed) \in Nat
  BY SizesAreNat, StoredSets, SumType
<1>3. Cardinality(Live) \in Nat /\ Cardinality(Trashed) \in Nat /\ Cardinality(Open) \in Nat
  BY StoredSets, FS_CardinalityType
<1>4. UploadSize * Cardinality(Open) \in Nat
  BY <1>3, ConstantsAssumption
<1>5. /\ Rescan["files"] = [bytes |-> SumOf(size, Live), records |-> Cardinality(Live)]
      /\ Rescan["trash"] = [bytes |-> SumOf(size, Trashed), records |-> Cardinality(Trashed)]
      /\ Rescan["uploads"] = [bytes |-> UploadSize * Cardinality(Open), records |-> Cardinality(Open)]
  BY <1>1 DEF Rescan, Counted, Categories
<1>6. Rescan \in [Categories -> Entry]
  <2> DEFINE e(category) ==
               CASE category = "files"   -> Counted(BytesIn(Live), Live)
                 [] category = "trash"   -> Counted(BytesIn(Trashed), Trashed)
                 [] category = "uploads" -> Counted(UploadSize * Cardinality(Open), Open)
  <2>1. Rescan = [category \in Categories |-> e(category)]
    BY DEF Rescan
  <2>2. \A c \in Categories : Rescan[c] \in Entry
    BY <1>2, <1>3, <1>4, <1>5 DEF Categories, Entry
  <2> HIDE DEF e
  <2> QED BY <2>1, <2>2
<1> QED BY <1>5, <1>6

Kinds == Categories \cup {"nowhere"}

\* What an index entry has when n bytes are taken from one kind and given to another.
After(u, from, to, n, c) ==
  IF c = from THEN IF u[c].bytes <= n THEN 0 ELSE u[c].bytes - n
  ELSE IF c = to THEN u[c].bytes + n ELSE u[c].bytes

LEMMA MoveCounts ==
  ASSUME UsageTypeOK, NEW from \in Kinds, NEW to \in Kinds, from # to,
         NEW n \in Nat, MoveUsage(from, to, n)
  PROVE  /\ usage' \in [Categories -> Entry] /\ valid' = valid /\ size' = size
         /\ valid => \A c \in Categories : usage'[c].bytes = After(usage, from, to, n, c)
<1>1. usage \in [Categories -> Entry] /\ \A c \in Categories :
        usage[c] \in Entry /\ usage[c].bytes \in Nat /\ usage[c].records \in Nat
  BY DEF UsageTypeOK, Entry
<1>2. \A c \in Categories : Moved(from, to, n)[c] =
        IF c = from THEN Less(usage[c], n) ELSE IF c = to THEN More(usage[c], n) ELSE usage[c]
  BY DEF Moved
<1>3. \A c \in Categories :
        /\ Less(usage[c], n) \in Entry
        /\ Less(usage[c], n).bytes = IF usage[c].bytes <= n THEN 0 ELSE usage[c].bytes - n
  BY <1>1 DEF Less, Entry, NoEntry
<1>4. \A c \in Categories : More(usage[c], n) \in Entry /\ More(usage[c], n).bytes = usage[c].bytes + n
  BY <1>1 DEF More, Entry
<1>5. Moved(from, to, n) \in [Categories -> Entry]
  <2>1. \A c \in Categories : Moved(from, to, n)[c] \in Entry
    BY <1>1, <1>2, <1>3, <1>4
  <2>2. Moved(from, to, n) = [c \in Categories |-> Moved(from, to, n)[c]]
    BY DEF Moved
  <2> QED BY <2>1, <2>2
<1>6. CASE valid /\ n > 0
  <2>1. usage' = Moved(from, to, n)
    BY <1>6 DEF MoveUsage
  <2> QED BY <1>2, <1>3, <1>4, <1>5, <2>1 DEF MoveUsage, After
<1>7. CASE ~(valid /\ n > 0)
  <2>1. usage' = usage
    BY <1>7 DEF MoveUsage
  <2>2. valid => \A c \in Categories : After(usage, from, to, n, c) = usage[c].bytes
    BY <1>1, <1>7 DEF After
  <2> QED BY <1>1, <2>1, <2>2 DEF MoveUsage
<1> QED BY <1>6, <1>7

LEMMA InitUsageTypes == UsageInit => UsageTypeOK
<1>1. NoUsage \in [Categories -> Entry]
  BY DEF NoUsage, NoEntry, Entry
<1> QED BY <1>1 DEF UsageInit, UsageTypeOK

\* A call of moveUsage moves sizes between kinds.
LEMMA MoveTypes ==
  ASSUME UsageTypeOK, NEW from \in Kinds, NEW to \in Kinds, from # to, NEW n \in Nat,
         MoveUsage(from, to, n), reserved' \in {0, UploadSize}
  PROVE  UsageTypeOK'
<1>1. usage' \in [Categories -> Entry] /\ valid' = valid /\ size' = size
  BY MoveCounts
<1> QED BY <1>1 DEF UsageTypeOK

LEMMA NextUsageTypes ==
  TypeInv /\ UsageTypeOK /\ [UsageNext]_<<vars, usageVars>> => UsageTypeOK'
<1> SUFFICES ASSUME TypeInv, UsageTypeOK, [UsageNext]_<<vars, usageVars>> PROVE UsageTypeOK'
  OBVIOUS
<1>a. size \in [FileIds -> Nat] /\ UploadSize \in Nat /\ reserved \in Nat /\ reserved \in {0, UploadSize}
  BY SizesAreNat, ConstantsAssumption DEF UsageTypeOK
<1>b. Rescan \in [Categories -> Entry] /\ NoUsage \in [Categories -> Entry]
  BY RescanCounts DEF NoUsage, NoEntry, Entry
<1>c. "files" \in Kinds /\ "trash" \in Kinds /\ "uploads" \in Kinds /\ "nowhere" \in Kinds
  BY DEF Kinds, Categories
<1>d. op.pc \in CreatePlaces \cup MovePlaces => op.file \in FileIds /\ size[op.file] \in Nat
  BY <1>a DEF TypeInv, OpOK
<1> USE DEF At, CreatePlaces, MovePlaces
<1>1. CASE LoadUsage
  BY <1>1, <1>b DEF LoadUsage, Loads, UsageTypeOK
<1>2. CASE AdmitPut
  BY <1>2, <1>d DEF AdmitPut, UsageTypeOK
<1>3. CASE CountPut
  BY <1>3, <1>a, <1>c, <1>d, MoveTypes DEF CountPut, PutAck
<1>4. CASE CountDelete
  <2>1. CASE MoveUsage("files", "trash", size[op.file])
    BY <1>4, <2>1, <1>a, <1>c, <1>d, MoveTypes DEF CountDelete, DeleteReturn
  <2> QED BY <1>4, <2>1 DEF CountDelete, UsageTypeOK
<1>5. CASE CountRestore
  BY <1>5, <1>a, <1>c, <1>d, MoveTypes DEF CountRestore, RestoreReturn
<1>6. CASE CountPurge
  BY <1>6, <1>a, <1>c, <1>d, MoveTypes DEF CountPurge, PurgeRemoveDir
<1>7. CASE CountStart
  BY <1>7, <1>a, <1>c, MoveTypes DEF CountStart
<1>8. CASE Assemble
  BY <1>8 DEF Assemble, UsageTypeOK
<1>9. CASE CountComplete
  BY <1>9, <1>a, <1>c, MoveTypes DEF CountComplete
<1>10. CASE ReadReservation
  BY <1>10 DEF ReadReservation, UsageTypeOK
<1>11. CASE Release
  <2>1. CASE MoveUsage("uploads", "nowhere", reserved)
    <3>1. reserved' \in {0, UploadSize}
      BY <1>11 DEF Release
    <3> QED BY <2>1, <3>1, <1>a, <1>c, MoveTypes
  <2> QED BY <1>11, <2>1 DEF Release, UsageTypeOK
<1>12. CASE ReleaseFails
  BY <1>12 DEF ReleaseFails, UsageTypeOK
<1>13. CASE CountRecovered \/ RebuildUsage
  BY <1>13, <1>b DEF CountRecovered, RebuildUsage, UsageTypeOK
<1>14. CASE Forget
  BY <1>14, <1>b DEF Forget, Forgets, UsageTypeOK
<1>15. CASE Uncounted \/ UNCHANGED <<vars, usageVars>>
  BY <1>15 DEF Uncounted, usageVars, UsageTypeOK
<1> QED BY <1>1, <1>2, <1>3, <1>4, <1>5, <1>6, <1>7, <1>8, <1>9, <1>10, <1>11, <1>12, <1>13,
           <1>14, <1>15 DEF UsageNext

\* usage[c] is an entry for every category, valid or not, and a file's size is one that was
\* admitted or the size of a session (store.go:696-735, 746-800).
THEOREM UsageTypesCorrect == UsageSpec => []UsageTypeOK
<1>1. Spec => []TypeInv
  BY SessionsCorrect, PTL
<1>2. UsageSpec => []TypeInv
  BY <1>1, UsageImplementsStore, PTL
<1> QED BY <1>2, InitUsageTypes, NextUsageTypes, PTL DEF UsageSpec

-----------------------------------------------------------------------------
(* The invariant: the index has what is there but for what the operation under way  *)
(* has already moved, or has not yet counted.                                        *)

PutPlaces == {"putTmp", "putRename", "putSync", "putUndoManifest", "putUndo"}
DeletePlaces == {"delObject", "delManifest", "delTmp", "delMark", "delSync",
                 "undoObject", "undoManifest", "undoDir"}
RestorePlaces == {"resMark", "resObject", "resManifest", "resDir", "resSync", "resUndo"}

\* What the index has, category by category, while an operation is under way.
CountedFiles ==
  IF op.pc \in PutPlaces \cup CompletePlaces \cup RestorePlaces THEN Live \ {op.file}
  ELSE IF op.pc \in DeletePlaces THEN Live \cup {op.file} ELSE Live

CountedTrash ==
  IF op.pc \in DeletePlaces THEN Trashed \ {op.file}
  ELSE IF op.pc \in RestorePlaces \cup {"purgeDrop"} THEN Trashed \cup {op.file} ELSE Trashed

CountedSessions ==
  IF op.pc \in StartPlaces \/ (op.pc = "drop" /\ reserved = 0) THEN Open \ {op.session}
  ELSE IF op.pc \in AppendPlaces \cup CompletePlaces \cup {"drop"} THEN Open \cup {op.session}
  ELSE IF op.pc = "sweepDrop" /\ reserved # 0 THEN Open \cup {op.victim} ELSE Open

\* What the owner has, or may have when the operation under way is over.
ClaimedFiles == CountedFiles \cup IF op.pc \in PutPlaces \cup CompletePlaces THEN {op.file} ELSE {}

ClaimedSessions ==
  IF op.pc \in StartPlaces \cup AppendPlaces \cup {"drop"} THEN Open \cup {op.session}
  ELSE IF op.pc \in CompletePlaces THEN Open
  ELSE CountedSessions

ExactInv == valid /\ faults = 0 =>
  /\ usage["files"].bytes = BytesIn(CountedFiles)
  /\ usage["trash"].bytes = BytesIn(CountedTrash)
  /\ usage["uploads"].bytes = UploadSize * Cardinality(CountedSessions)

CoverInv == valid /\ faults <= 1 =>
  BytesIn(CountedFiles) + BytesIn(CountedTrash) + UploadSize * Cardinality(CountedSessions) <= Total(usage)

QuotaInv == Quota > 0 /\ faults <= 1 =>
  BytesIn(ClaimedFiles) + BytesIn(CountedTrash) + UploadSize * Cardinality(ClaimedSessions) <= Quota

ValidInv ==
  /\ index = "loaded" => valid
  /\ valid => proc = "running"
  /\ op.pc = "putBody" => index = "loaded"

ReservedInv ==
  /\ reserved # 0 => op.pc \in {"drop", "sweepDrop"}
  /\ op.pc = "sweepDrop" /\ reserved = 0 => uploads[op.victim].status # "uploading"
  /\ op.pc = "drop" /\ reserved = 0 => faults >= 1
  /\ op.pc \in CompletePlaces => size[op.file] = UploadSize

DoneInv ==
  /\ op.pc = "resUndo" => faults >= 1
  /\ op.pc \in {"putSync", "cmpSession", "cmpSessionRename", "cmpSync"} => manifests[op.file] # "none"
  /\ op.pc \in {"delManifest", "delTmp", "delMark", "delSync"} => trash[op.file].object
  /\ op.pc = "delSync" => trash[op.file].manifest = "deleted"
  /\ op.pc \in {"resObject", "resManifest"} => trash[op.file].manifest = "live"
  /\ op.pc \in {"resDir", "resSync"} => manifests[op.file] # "none"

UsageInv == ValidInv /\ ReservedInv /\ DoneInv /\ ExactInv /\ CoverInv /\ QuotaInv
StoreInv == TypeInv /\ FilesInv /\ ProcInv /\ SessionInv /\ (faults <= 1 => LifecycleInv)

\* What the steps of the store have completed so far is theirs alone to change.
LEMMA NextDone == StoreInv /\ DoneInv /\ [Next]_vars => DoneInv'
<1> SUFFICES ASSUME StoreInv, DoneInv, [Next]_vars PROVE DoneInv'
  OBVIOUS
<1>a. /\ op \in Operation /\ OpOK /\ faults \in Nat /\ TypeInv
      /\ manifests \in [FileIds -> ManifestState] /\ trash \in [FileIds -> TrashItem]
  BY DEF StoreInv, TypeInv, TypeOK
<1>p. op.pc \in CreatePlaces \cup MovePlaces => op.file \in FileIds
  BY <1>a DEF OpOK
<1>i. op'.pc = "idle" => DoneInv'
  BY DEF DoneInv
<1> USE DEF At, Frame, Goto, Sessions, IOError, fileVars, diskVars, ghostVars, procVars
<1>1. CASE PutStep
  <2>1. CASE PutAbandon \/ PutAck \/ PutUndo
    BY <2>1, <1>i, ReturnKeepsOperation DEF PutAbandon, PutAck, PutUndo
  <2>2. CASE PutCommitObject \/ PutWriteManifest \/ PutIOError \/ PutUndoManifest
    <3>1. op'.pc \in {"putTmp", "putRename", "putUndoManifest", "putUndo"}
      BY <2>2, <1>a, GotoKeepsOperation, PlaceNames
         DEF PutCommitObject, PutWriteManifest, PutIOError, PutUndoManifest
    <3> QED BY <3>1 DEF DoneInv
  <2>3. CASE PutCommitManifest
    <3>1. op'.pc = "putSync" /\ op'.file = op.file /\ op.file \in FileIds
      BY <2>3, <1>a, <1>p, GotoKeepsOperation, PlaceNames DEF PutCommitManifest, CreatePlaces
    <3>2. manifests'[op.file] = "live"
      BY <2>3, <3>1, <1>a DEF PutCommitManifest
    <3> QED BY <3>1, <3>2 DEF DoneInv
  <2> QED BY <1>1, <2>1, <2>2, <2>3 DEF PutStep
<1>2. CASE DeleteStep
  <2>1. CASE DeleteMoveFails \/ DeleteReturn \/ UndoDeleteDir
    BY <2>1, <1>i, ReturnKeepsOperation DEF DeleteMoveFails, DeleteReturn, UndoDeleteDir
  <2>2. CASE DeleteIOError \/ UndoDeleteObject \/ UndoDeleteManifest
    <3>1. op'.pc \in {"undoObject", "undoManifest", "undoDir"}
      BY <2>2, <1>a, GotoKeepsOperation, PlaceNames DEF DeleteIOError, UndoDeleteObject, UndoDeleteManifest
    <3> QED BY <3>1 DEF DoneInv
  <2>3. CASE DeleteMoveObject \/ DeleteMoveManifest \/ DeleteWriteMark \/ DeleteCommitMark
    <3>1. op.file \in FileIds
      BY <2>3, <1>p DEF DeleteMoveObject, DeleteMoveManifest, DeleteWriteMark, DeleteCommitMark, MovePlaces
    <3>2. op'.pc \in {"delManifest", "delTmp", "delMark", "delSync"} /\ op'.file = op.file
      BY <2>3, <1>a, GotoKeepsOperation, PlaceNames
         DEF DeleteMoveObject, DeleteMoveManifest, DeleteWriteMark, DeleteCommitMark
    <3>3. trash'[op.file].object
      BY <2>3, <3>1, <1>a DEF DeleteMoveObject, DeleteMoveManifest, DeleteWriteMark, DeleteCommitMark,
         DoneInv, TrashItem
    <3>4. op'.pc = "delSync" => trash'[op.file].manifest = "deleted"
      <4>1. op'.pc = "delSync" => DeleteCommitMark
        BY <2>3, <1>a, GotoKeepsOperation, PlaceNames
           DEF DeleteMoveObject, DeleteMoveManifest, DeleteWriteMark
      <4> QED BY <4>1, <3>1, <1>a DEF DeleteCommitMark, TrashItem
    <3> QED BY <3>2, <3>3, <3>4 DEF DoneInv
  <2> QED BY <1>2, <2>1, <2>2, <2>3 DEF DeleteStep
<1>3. CASE RestoreStep
  <2>1. CASE RestoreReturn \/ RestoreEarlyIOError \/ RestoreUndo
    BY <2>1, <1>i, ReturnKeepsOperation DEF RestoreReturn, RestoreEarlyIOError, RestoreUndo
  <2>2. CASE RestoreIOError
    <3>1. op'.pc = "resUndo" /\ faults' >= 1
      BY <2>2, <1>a, GotoKeepsOperation, PlaceNames DEF RestoreIOError
    <3> QED BY <3>1 DEF DoneInv
  <2>3. CASE RestoreCommitMark \/ RestoreMoveObject
    <3>1. op.file \in FileIds
      BY <2>3, <1>p DEF RestoreCommitMark, RestoreMoveObject, MovePlaces
    <3>2. op'.pc \in {"resObject", "resManifest"} /\ op'.file = op.file
      BY <2>3, <1>a, GotoKeepsOperation, PlaceNames DEF RestoreCommitMark, RestoreMoveObject
    <3>3. trash'[op.file].manifest = "live"
      BY <2>3, <3>1, <1>a DEF RestoreCommitMark, RestoreMoveObject, DoneInv, TrashItem
    <3> QED BY <3>2, <3>3 DEF DoneInv
  <2>4. CASE RestoreMoveManifest \/ RestoreRemoveDir
    <3>1. op.file \in FileIds
      BY <2>4, <1>p DEF RestoreMoveManifest, RestoreRemoveDir, MovePlaces
    <3>2. op'.pc \in {"resDir", "resSync"} /\ op'.file = op.file
      BY <2>4, <1>a, GotoKeepsOperation, PlaceNames DEF RestoreMoveManifest, RestoreRemoveDir
    <3>3. manifests'[op.file] # "none"
      BY <2>4, <3>1, <1>a DEF RestoreMoveManifest, RestoreRemoveDir, DoneInv
    <3> QED BY <3>2, <3>3 DEF DoneInv
  <2> QED BY <1>3, <2>1, <2>2, <2>3, <2>4 DEF RestoreStep
<1>4. CASE PurgeStep
  <2>1. op'.pc \in {"idle", "purge", "purgeDrop"}
    <3>1. CASE PurgeStops \/ PurgeUnlink \/ PurgeRemoveDir \/ PurgeIOError \/ PurgeReturn
      BY <3>1, <1>a, ReturnKeepsOperation
         DEF PurgeStops, PurgeUnlink, PurgeRemoveDir, PurgeIOError, PurgeReturn, Operation
    <3>2. ASSUME NEW id \in FileIds, PurgeKeeps(id) \/ PurgeEntry(id)
          PROVE  op'.pc \in {"idle", "purge", "purgeDrop"}
      BY <3>2, <1>a DEF PurgeKeeps, PurgeEntry, Operation
    <3> QED BY <3>1, <3>2, <1>4 DEF PurgeStep
  <2> QED BY <2>1 DEF DoneInv
<1>5. CASE CompleteStep
  <2>1. CASE CompleteAck \/ CompleteUndoManifest
    BY <2>1, <1>i, ReturnKeepsOperation DEF CompleteAck, CompleteUndoManifest
  <2>2. CASE CompleteWriteManifest \/ CompleteIOError \/ CompleteUndo
    <3>1. op'.pc \in {"cmpRename", "cmpUndo", "cmpUndoManifest"}
      BY <2>2, <1>a, GotoKeepsOperation, PlaceNames
         DEF CompleteWriteManifest, CompleteIOError, CompleteUndo
    <3> QED BY <3>1 DEF DoneInv
  <2>3. CASE CompleteCommitManifest \/ CompleteWriteSession \/ CompleteCommitSession
    <3>1. op.file \in FileIds
      BY <2>3, <1>p DEF CompleteCommitManifest, CompleteWriteSession, CompleteCommitSession, CreatePlaces
    <3>2. op'.pc \in {"cmpSession", "cmpSessionRename", "cmpSync"} /\ op'.file = op.file
      BY <2>3, <1>a, GotoKeepsOperation, PlaceNames
         DEF CompleteCommitManifest, CompleteWriteSession, CompleteCommitSession
    <3>3. manifests'[op.file] # "none"
      BY <2>3, <3>1, <1>a DEF CompleteCommitManifest, CompleteWriteSession, CompleteCommitSession, DoneInv
    <3> QED BY <3>2, <3>3 DEF DoneInv
  <2> QED BY <1>5, <2>1, <2>2, <2>3 DEF CompleteStep
<1>6. CASE SweepStep \/ SessionStep \/ RecoverStep \/ (\E u \in UploadIds : Age(u)) \/ Restart \/ Crash
  <2>1. op'.pc \notin CreatePlaces \cup MovePlaces
    BY <1>6, <1>a, BesideFiles DEF StoreInv, FilesInv
  <2> QED BY <2>1 DEF DoneInv, CreatePlaces, MovePlaces
<1>7. CASE FileStart \/ UploadStart
  <2>1. ASSUME NEW id \in FileIds, Put(id) PROVE DoneInv'
    <3>1. op'.pc = "putBody"
      BY <2>1 DEF Put, Idle
    <3> QED BY <3>1 DEF DoneInv
  <2>2. ASSUME NEW id \in FileIds, Delete(id) \/ Restore(id) PROVE DoneInv'
    <3>1. op'.pc \in {"delObject", "resMark"}
      BY <2>2 DEF Delete, Restore, Idle
    <3> QED BY <3>1 DEF DoneInv
  <2>3. CASE PurgeTrash \/ UploadStart
    <3>1. op'.pc \in {"purge", "sweep", "startDir", "drop", "appBody", "cmpTmp"}
      BY <2>3 DEF PurgeTrash, UploadStart, SweepUploads, StartUpload, AbortUpload, AppendUpload,
         CompleteUpload, Idle
    <3> QED BY <3>1 DEF DoneInv
  <2>4. CASE UsageLoad
    BY <2>4 DEF UsageLoad, DoneInv
  <2> QED BY <1>7, <2>1, <2>2, <2>3, <2>4 DEF FileStart
<1>8. CASE UNCHANGED vars
  BY <1>8 DEF DoneInv, vars
<1> QED BY <1>1, <1>2, <1>3, <1>4, <1>5, <1>6, <1>7, <1>8 DEF Next, Progress

-----------------------------------------------------------------------------
(* The steps that count nothing, operation by operation. *)

QuietPut == PutAbandon \/ PutWriteManifest \/ PutCommitManifest \/ PutIOError
            \/ PutUndoManifest \/ PutUndo
QuietDelete == DeleteMoveObject \/ DeleteMoveFails \/ DeleteMoveManifest \/ DeleteWriteMark
               \/ DeleteCommitMark \/ DeleteIOError \/ UndoDeleteObject \/ UndoDeleteManifest
               \/ UndoDeleteDir
QuietRestore == RestoreCommitMark \/ RestoreMoveObject \/ RestoreMoveManifest \/ RestoreRemoveDir
                \/ RestoreEarlyIOError \/ RestoreIOError \/ RestoreUndo
QuietPurge == PurgeStops \/ PurgeUnlink \/ PurgeIOError \/ PurgeReturn
              \/ \E id \in FileIds : PurgeKeeps(id) \/ PurgeEntry(id)
QuietStart == StartCreatePart \/ StartWriteManifest \/ StartCommitManifest \/ StartIOError
QuietAppend == AppendCopy \/ AppendWriteManifest \/ AppendReject \/ AppendCommitManifest
               \/ AppendAck \/ AppendIOError \/ AppendUndo
QuietComplete == CompleteWriteManifest \/ CompleteCommitManifest \/ CompleteWriteSession
                 \/ CompleteCommitSession \/ CompleteIOError \/ CompleteUndo
                 \/ CompleteUndoManifest
QuietSweep == SweepUnlink \/ SweepDone \/ \E u \in UploadIds : SweepSkip(u)
QuietRequest == \/ PurgeTrash \/ SweepUploads
                \/ \E id \in FileIds : Delete(id) \/ Restore(id)
                \/ \E u \in UploadIds : StartUpload(u) \/ \E n \in 1 .. UploadSize : AppendUpload(u, n)
QuietRecover == \/ RecoverScanned
                \/ \E id \in FileIds : RecoverPartial(id) \/ RecoverManifestTmp(id)
                \/ \E u \in UploadIds : RecoverUploadTmp(u) \/ RecoverSession(u)

LEMMA QuietSteps ==
  ASSUME Uncounted
  PROVE  /\ UNCHANGED usageVars
         /\ \/ QuietPut \/ QuietDelete \/ QuietRestore \/ QuietPurge
            \/ QuietStart \/ QuietAppend \/ DropUnlink \/ QuietComplete \/ QuietSweep
            \/ QuietRequest \/ QuietRecover \/ Restart \/ (\E u \in UploadIds : Age(u))
BY DEF Uncounted, QuietPut, QuietDelete, QuietRestore, QuietPurge, QuietStart, QuietAppend,
       QuietComplete, QuietSweep, QuietRequest, QuietRecover

\* Where they lead.
LEMMA QuietFiles ==
  ASSUME TypeInv, QuietPut \/ QuietDelete \/ QuietRestore \/ QuietPurge
  PROVE  /\ op.pc \in FilePlaces /\ op'.pc \in (FilePlaces \cup {"idle"}) \ {"putBody"}
         /\ UNCHANGED <<uploads, proc, index>>
<1>a. op \in Operation
  BY DEF TypeInv, TypeOK
<1>1. PutStep \/ DeleteStep \/ RestoreStep \/ PurgeStep
  BY DEF QuietPut, QuietDelete, QuietRestore, QuietPurge, PutStep, DeleteStep, RestoreStep, PurgeStep
<1>2. op.pc \in FilePlaces /\ op'.pc \in FilePlaces \cup {"idle"} /\ UNCHANGED <<uploads, proc, index>>
  BY <1>1, FileStepPlaces
<1>3. CASE QuietPut
  <2>1. op'.pc \in {"idle", "putRename", "putSync", "putUndoManifest", "putUndo"}
    BY <1>3, <1>a, GotoKeepsOperation, ReturnKeepsOperation, PlaceNames
       DEF QuietPut, PutAbandon, PutWriteManifest, PutCommitManifest, PutIOError, PutUndoManifest, PutUndo
  <2> QED BY <1>2, <2>1
<1>4. CASE QuietDelete
  <2>1. op'.pc \in {"idle", "delManifest", "delTmp", "delMark", "delSync", "undoObject",
                    "undoManifest", "undoDir"}
    BY <1>4, <1>a, GotoKeepsOperation, ReturnKeepsOperation, PlaceNames
       DEF QuietDelete, DeleteMoveObject, DeleteMoveFails, DeleteMoveManifest, DeleteWriteMark,
           DeleteCommitMark, DeleteIOError, UndoDeleteObject, UndoDeleteManifest, UndoDeleteDir
  <2> QED BY <1>2, <2>1
<1>5. CASE QuietRestore
  <2>1. op'.pc \in {"idle", "resObject", "resManifest", "resDir", "resSync", "resUndo"}
    BY <1>5, <1>a, GotoKeepsOperation, ReturnKeepsOperation, PlaceNames
       DEF QuietRestore, RestoreCommitMark, RestoreMoveObject, RestoreMoveManifest,
           RestoreRemoveDir, RestoreEarlyIOError, RestoreIOError, RestoreUndo
  <2> QED BY <1>2, <2>1
<1>6. CASE QuietPurge
  <2>1. CASE PurgeStops \/ PurgeUnlink \/ PurgeIOError \/ PurgeReturn
    <3>1. op'.pc \in {"idle", "purgeDrop"}
      BY <2>1, <1>a, ReturnKeepsOperation
         DEF PurgeStops, PurgeUnlink, PurgeIOError, PurgeReturn, At
    <3> QED BY <1>2, <3>1
  <2>2. ASSUME NEW id \in FileIds, PurgeKeeps(id) \/ PurgeEntry(id)
        PROVE  op'.pc \in {"purge", "purgeDrop"}
    BY <2>2, <1>a DEF PurgeKeeps, PurgeEntry, Operation, At
  <2> QED BY <1>2, <1>6, <2>1, <2>2 DEF QuietPurge
<1> QED BY <1>3, <1>4, <1>5, <1>6

SessionMoves == QuietStart \/ QuietAppend \/ DropUnlink \/ QuietComplete
LEMMA QuietSessions ==
  ASSUME TypeInv, SessionMoves
  PROVE  /\ op.pc \in OwnPlaces /\ op'.pc \in OwnPlaces \cup {"idle"}
         /\ op'.pc # "idle" => op'.file = op.file /\ op'.session = op.session
         /\ op.session \in UploadIds
         /\ UNCHANGED <<proc, index, trash>>
<1>a. op \in Operation
  BY DEF TypeInv, TypeOK
<1>1. SessionStep \/ CompleteStep
  BY DEF SessionMoves, QuietStart, QuietAppend, QuietComplete, SessionStep, CompleteStep
<1>2. op.pc \in OwnPlaces \cup {"startDir"} /\ op'.pc \in OwnPlaces \cup {"idle"} /\ UNCHANGED proc
  BY <1>1, SessionStepPlaces
<1> DEFINE Same == (op'.pc # "idle" => op'.file = op.file /\ op'.session = op.session)
                   /\ UNCHANGED <<index, trash>>
<1>b. op' = op \/ Return \/ (\E place \in Places : Goto(place))
        => (op'.pc # "idle" => op'.file = op.file /\ op'.session = op.session)
  BY <1>a, GotoKeepsOperation, ReturnKeepsOperation
<1> USE DEF At, Sessions, fileVars, procVars
<1>3. QuietStart => Same
  <2>1. QuietStart => UNCHANGED <<index, trash>>
    BY DEF QuietStart, StartCreatePart, StartWriteManifest, StartCommitManifest, StartIOError
  <2>2. QuietStart => \E place \in {"startTmp", "startRename", "startSync", "drop"} : Goto(place)
    BY DEF QuietStart, StartCreatePart, StartWriteManifest, StartCommitManifest, StartIOError
  <2> QED BY <2>1, <2>2, <1>b, PlaceNames
<1>4. QuietAppend => Same
  <2>1. QuietAppend => UNCHANGED <<index, trash>>
    BY DEF QuietAppend, AppendCopy, AppendWriteManifest, AppendReject, AppendCommitManifest,
       AppendAck, AppendIOError, AppendUndo
  <2>2. QuietAppend => op' = op \/ Return \/ \E place \in {"appRename", "appSync", "appUndo"} : Goto(place)
    BY DEF QuietAppend, AppendCopy, AppendWriteManifest, AppendReject, AppendCommitManifest,
       AppendAck, AppendIOError, AppendUndo
  <2> QED BY <2>1, <2>2, <1>b, PlaceNames
<1>5. DropUnlink => Same
  BY <1>a DEF DropUnlink
<1>6. QuietComplete => Same
  <2>1. QuietComplete => UNCHANGED <<index, trash>>
    BY DEF QuietComplete, CompleteWriteManifest, CompleteCommitManifest, CompleteWriteSession,
       CompleteCommitSession, CompleteIOError, CompleteUndo, CompleteUndoManifest
  <2>2. QuietComplete => Return \/ 
         \E place \in {"cmpRename", "cmpSession", "cmpSessionRename", "cmpSync", "cmpUndo", "cmpUndoManifest"} :
           Goto(place)
    BY DEF QuietComplete, CompleteWriteManifest, CompleteCommitManifest, CompleteWriteSession,
       CompleteCommitSession, CompleteIOError, CompleteUndo, CompleteUndoManifest
  <2> QED BY <2>1, <2>2, <1>b, PlaceNames
<1>7. op.pc \in OwnPlaces
  <2>1. op.pc # "startDir"
    BY DEF SessionMoves, QuietStart, QuietAppend, DropUnlink, QuietComplete, StartCreatePart,
       StartWriteManifest, StartCommitManifest, StartIOError, AppendCopy, AppendWriteManifest,
       AppendReject, AppendCommitManifest, AppendAck, AppendIOError, AppendUndo,
       CompleteWriteManifest, CompleteCommitManifest, CompleteWriteSession,
       CompleteCommitSession, CompleteIOError, CompleteUndo, CompleteUndoManifest
  <2> QED BY <1>2, <2>1
<1>8. Same
  BY <1>3, <1>4, <1>5, <1>6 DEF SessionMoves
<1>9. op.session \in UploadIds
  BY <1>7 DEF TypeInv, OpOK, SessionPlaces, OwnPlaces, StartPlaces, CompletePlaces
<1> QED BY <1>2, <1>7, <1>8, <1>9

LEMMA QuietOthers ==
  ASSUME TypeInv, ProcInv, QuietSweep \/ QuietRequest \/ QuietRecover \/ Restart \/ (\E u \in UploadIds : Age(u))
  PROVE  /\ op.pc \notin {"putBody", "drop"} /\ op'.pc \notin {"putBody", "drop"} \cup CompletePlaces
         /\ op.pc = "sweepDrop" => SweepUnlink
         /\ op'.pc = "sweepDrop" => UNCHANGED op
         /\ UNCHANGED index /\ (proc' = proc \/ proc = "down")
<1>a. op \in Operation
  BY DEF TypeInv, TypeOK
<1> USE DEF At, Sessions, Frame, fileVars, procVars, diskVars, CompletePlaces
<1>1. CASE QuietSweep
  <2>1. CASE SweepUnlink
    <3>1. op.pc = "sweepDrop" /\ op' = op /\ UNCHANGED <<index, proc>>
      BY <2>1 DEF SweepUnlink
    <3> QED BY <2>1, <3>1
  <2>2. CASE SweepDone
    <3>1. op.pc = "sweep" /\ (Return \/ Goto("rebuild") \/ Goto("startDir")) /\ UNCHANGED <<index, proc>>
      BY <2>2 DEF SweepDone
    <3>2. op'.pc \in {"idle", "rebuild", "startDir"}
      BY <3>1, <1>a, ReturnKeepsOperation, GotoKeepsOperation, PlaceNames
    <3> QED BY <3>1, <3>2
  <2>3. ASSUME NEW u \in UploadIds, SweepSkip(u)
        PROVE  op.pc = "sweep" /\ op'.pc = "sweep" /\ UNCHANGED <<index, proc>>
    BY <2>3, <1>a DEF SweepSkip, Operation
  <2> QED BY <1>1, <2>1, <2>2, <2>3 DEF QuietSweep
<1>2. CASE QuietRequest
  <2>1. op = Idle /\ op'.pc \in {"purge", "sweep", "delObject", "resMark", "startDir", "appBody"}
        /\ UNCHANGED <<index, proc>>
    BY <1>2 DEF QuietRequest, PurgeTrash, SweepUploads, Delete, Restore, StartUpload, AppendUpload,
       Serving, Idle
  <2> QED BY <2>1, IdleOperation
<1>3. CASE QuietRecover
  <2>1. op.pc = "recover" /\ op'.pc \in {"recover", "sweep", "rebuild"} /\ UNCHANGED <<index, proc>>
    BY <1>3, <1>a DEF QuietRecover, RecoverScanned, RecoverPartial, RecoverManifestTmp,
       RecoverUploadTmp, RecoverSession, Quarantines, Operation
  <2> QED BY <2>1
<1>4. CASE Restart
  BY <1>4, IdleOperation DEF Restart, Idle, ProcInv
<1>5. ASSUME NEW u \in UploadIds, Age(u) PROVE op = Idle /\ UNCHANGED <<op, index, proc>>
  BY <1>5 DEF Age
<1> QED BY <1>1, <1>2, <1>3, <1>4, <1>5, IdleOperation

\* A reservation is read by the operation that releases it, and the index is valid from
\* when it is loaded until the process ends.
LEMMA QuietLedger ==
  ASSUME StoreInv, ValidInv, ReservedInv, Uncounted
  PROVE  ValidInv' /\ ReservedInv'
<1>a. /\ TypeInv /\ ProcInv /\ op \in Operation /\ faults \in Nat
      /\ UNCHANGED <<valid, size, reserved>>
  BY QuietSteps DEF StoreInv, TypeInv, TypeOK, usageVars
<1>1. CASE QuietPut \/ QuietDelete \/ QuietRestore \/ QuietPurge
  <2>1. /\ op.pc \in FilePlaces /\ op'.pc \in (FilePlaces \cup {"idle"}) \ {"putBody"}
        /\ UNCHANGED <<uploads, proc, index>>
    BY <1>1, <1>a, QuietFiles
  <2>2. ValidInv'
    BY <1>a, <2>1 DEF ValidInv
  <2>3. ReservedInv'
    BY <1>a, <2>1 DEF ReservedInv, CompletePlaces, FilePlaces
  <2> QED BY <2>2, <2>3
<1>2. CASE SessionMoves
  <2>1. /\ op.pc \in OwnPlaces /\ op'.pc \in OwnPlaces \cup {"idle"}
        /\ op'.pc # "idle" => op'.file = op.file /\ op'.session = op.session
        /\ UNCHANGED <<proc, index>>
    BY <1>2, <1>a, QuietSessions
  <2>2. ValidInv'
    BY <1>a, <2>1 DEF ValidInv, OwnPlaces, AppendPlaces, StartPlaces, CompletePlaces
  <2>3. op.pc = "drop" => op' = op /\ faults' = faults
    BY <1>2 DEF SessionMoves, At, Sessions, QuietStart, StartCreatePart, StartWriteManifest, StartCommitManifest,
       StartIOError, QuietAppend, AppendCopy, AppendWriteManifest, AppendReject, AppendCommitManifest,
       AppendAck, AppendIOError, AppendUndo, QuietComplete, CompleteWriteManifest, CompleteCommitManifest,
       CompleteWriteSession, CompleteCommitSession, CompleteIOError, CompleteUndo, CompleteUndoManifest, DropUnlink
  <2>4. op'.pc = "drop" => op.pc = "drop" \/ faults' >= 1
    <3>1. StartIOError => faults' >= 1
      BY <1>a DEF StartIOError, IOError
    <3>2. QuietStart => StartIOError \/ op'.pc # "drop"
      BY <1>a, GotoKeepsOperation, PlaceNames
         DEF QuietStart, StartCreatePart, StartWriteManifest, StartCommitManifest
    <3>3. QuietAppend => UNCHANGED op \/ op'.pc # "drop"
      BY <1>a, GotoKeepsOperation, ReturnKeepsOperation, PlaceNames
         DEF QuietAppend, AppendCopy, AppendWriteManifest, AppendReject, AppendCommitManifest,
             AppendAck, AppendIOError, AppendUndo
    <3>4. QuietComplete => op'.pc # "drop"
      BY <1>a, GotoKeepsOperation, ReturnKeepsOperation, PlaceNames
         DEF QuietComplete, CompleteWriteManifest, CompleteCommitManifest, CompleteWriteSession,
             CompleteCommitSession, CompleteIOError, CompleteUndo, CompleteUndoManifest
    <3> QED BY <3>1, <3>2, <3>3, <3>4, <1>2 DEF SessionMoves, DropUnlink, At
  <2>5. op'.pc \in CompletePlaces => op.pc \in CompletePlaces
    <3>1. QuietStart => op'.pc \notin CompletePlaces
      BY <1>a, GotoKeepsOperation, PlaceNames
         DEF QuietStart, StartCreatePart, StartWriteManifest, StartCommitManifest, StartIOError, CompletePlaces
    <3>2. QuietAppend => UNCHANGED op \/ op'.pc \notin CompletePlaces
      BY <1>a, GotoKeepsOperation, ReturnKeepsOperation, PlaceNames
         DEF QuietAppend, AppendCopy, AppendWriteManifest, AppendReject, AppendCommitManifest,
             AppendAck, AppendIOError, AppendUndo, CompletePlaces
    <3>3. QuietComplete => op.pc \in CompletePlaces
      BY DEF QuietComplete, CompleteWriteManifest, CompleteCommitManifest, CompleteWriteSession,
             CompleteCommitSession, CompleteIOError, CompleteUndo, CompleteUndoManifest, At, CompletePlaces
    <3> QED BY <3>1, <3>2, <3>3, <1>2 DEF SessionMoves, DropUnlink, Sessions
  <2>6. op.pc # "sweepDrop" /\ op'.pc # "sweepDrop"
    BY <2>1 DEF OwnPlaces, AppendPlaces, StartPlaces, CompletePlaces
  <2>7. ReservedInv'
    BY <1>a, <2>1, <2>3, <2>4, <2>5, <2>6 DEF ReservedInv, CompletePlaces
  <2> QED BY <2>2, <2>7
<1>3. CASE QuietSweep \/ QuietRequest \/ QuietRecover \/ Restart \/ (\E u \in UploadIds : Age(u))
  <2>1. /\ op.pc \notin {"putBody", "drop"} /\ op'.pc \notin {"putBody", "drop"} \cup CompletePlaces
        /\ op.pc = "sweepDrop" => SweepUnlink
        /\ op'.pc = "sweepDrop" => UNCHANGED op
        /\ UNCHANGED index /\ (proc' = proc \/ proc = "down")
    BY <1>3, <1>a, QuietOthers
  <2>2. ValidInv'
    BY <1>a, <2>1 DEF ValidInv
  <2>3. op.pc = "sweepDrop" => op' = op /\ uploads'[op.victim].status \in {uploads[op.victim].status, "none"}
    <3> SUFFICES ASSUME op.pc = "sweepDrop" PROVE op' = op /\ uploads'[op.victim].status \in {uploads[op.victim].status, "none"}
      OBVIOUS
    <3>1. UnlinkFrom(op.victim) /\ op' = op /\ op.victim \in UploadIds /\ uploads \in [UploadIds -> Session]
      BY <2>1, <1>a DEF SweepUnlink, Sessions, TypeInv, TypeOK, OpOK
    <3> QED BY <3>1, UnlinkedFields
  <2>4. ReservedInv'
    BY <1>a, <2>1, <2>3 DEF ReservedInv
  <2> QED BY <2>2, <2>4
<1> QED BY <1>1, <1>2, <1>3, QuietSteps DEF SessionMoves

LEMMA NextLedger ==
  StoreInv /\ ValidInv /\ ReservedInv /\ UsageTypeOK /\ [UsageNext]_<<vars, usageVars>>
    => ValidInv' /\ ReservedInv'
<1> SUFFICES ASSUME StoreInv, ValidInv, ReservedInv, UsageTypeOK, [UsageNext]_<<vars, usageVars>>
             PROVE  ValidInv' /\ ReservedInv'
  OBVIOUS
<1>a. /\ TypeInv /\ ProcInv /\ op \in Operation /\ faults \in Nat
      /\ UploadSize # 0 /\ size \in [FileIds -> PutSizes \cup {0, UploadSize}]
  BY ConstantsAssumption DEF StoreInv, TypeInv, TypeOK, UsageTypeOK
<1>b. op.pc \notin SweepPlaces \cup RecoverPlaces \cup {"idle"} => proc = "running"
  BY <1>a, OperationServes
<1>c. proc = "down" => op.pc = "idle"
  BY <1>a, IdleOperation DEF ProcInv
<1> USE DEF At, Frame, Sessions, Serving, fileVars, diskVars, procVars, ghostVars
<1>1. CASE LoadUsage
  <2>1. proc = "running" /\ proc' = proc
    <3>1. Serving \/ op.pc = "startDir"
      BY <1>1 DEF LoadUsage, UsageLoad, Put, StartCreateDir, StartRefused
    <3>2. proc' = proc
      BY <1>1 DEF LoadUsage, UsageLoad, Put, StartCreateDir, StartRefused
    <3> QED BY <3>1, <3>2, <1>b DEF SweepPlaces, RecoverPlaces
  <2>2. (index' = "loaded" => index \in {"unloaded", "loaded"}) /\ UNCHANGED <<size, reserved>>
    BY <1>1 DEF LoadUsage, UsageLoad, Put, StartCreateDir, StartRefused, EnsureUsage, Loads
  <2>3. IF index = "unloaded" /\ index' = "loaded" THEN valid' = TRUE ELSE UNCHANGED valid
    BY <1>1 DEF LoadUsage, Loads
  <2>4. /\ op'.pc \in {"idle", "putBody", "startPart"}
        /\ op'.pc = "putBody" => index' = "loaded"
        /\ op.pc \in {"idle", "startDir"}
    <3>1. CASE UsageLoad
      BY <3>1, IdleOperation DEF UsageLoad
    <3>2. ASSUME NEW id \in FileIds, Put(id)
          PROVE  op.pc = "idle" /\ op'.pc = "putBody" /\ index' = "loaded"
      BY <3>2, IdleOperation DEF Put, Idle
    <3>3. CASE StartCreateDir
      BY <3>3, <1>a, GotoKeepsOperation, PlaceNames DEF StartCreateDir
    <3>4. CASE StartRefused
      BY <3>4, ReturnKeepsOperation DEF StartRefused
    <3> QED BY <3>1, <3>2, <3>3, <3>4, <1>1 DEF LoadUsage
  <2>5. ValidInv'
    BY <2>1, <2>2, <2>3, <2>4 DEF ValidInv
  <2>6. ReservedInv'
    BY <2>2, <2>4 DEF ReservedInv, CompletePlaces
  <2> QED BY <2>5, <2>6
<1>2. CASE AdmitPut
  <2>1. op.pc = "putBody" /\ op'.pc = "putTmp" /\ UNCHANGED <<valid, reserved, index, proc>>
    BY <1>2, <1>a, GotoKeepsOperation, PlaceNames DEF AdmitPut, PutCommitObject
  <2> QED BY <2>1 DEF ValidInv, ReservedInv, CompletePlaces
<1>3. CASE CountPut \/ CountDelete \/ CountRestore \/ CountPurge \/ CountStart \/ CountComplete
  <2>1. /\ op.pc \in {"putSync", "delSync", "resSync", "purgeDrop", "startSync", "cmpSync"}
        /\ UNCHANGED <<valid, reserved, index, proc>>
    BY <1>3 DEF CountPut, CountDelete, CountRestore, CountPurge, CountStart, CountComplete, PutAck,
       DeleteReturn, RestoreReturn, PurgeRemoveDir, StartAck, CompleteAck, MoveUsage
  <2>2. op'.pc \in {"idle", "purge"}
    <3>1. CASE CountPurge
      BY <3>1, <1>a DEF CountPurge, PurgeRemoveDir, Operation
    <3>2. CASE ~CountPurge
      BY <3>2, <1>3, ReturnKeepsOperation DEF CountPut, CountDelete, CountRestore, CountStart,
         CountComplete, PutAck, DeleteReturn, RestoreReturn, StartAck, CompleteAck
    <3> QED BY <3>1, <3>2
  <2> QED BY <2>1, <2>2 DEF ValidInv, ReservedInv, CompletePlaces
<1>4. CASE Assemble
  <2>1. PICK u \in UploadIds, id \in FileIds : CompleteUpload(u, id) /\ size' = [size EXCEPT ![id] = UploadSize]
    BY <1>4 DEF Assemble
  <2>2. op.pc = "idle" /\ op'.pc = "cmpTmp" /\ op'.file = id /\ UNCHANGED <<index, proc>>
    BY <2>1, IdleOperation DEF CompleteUpload, Idle
  <2>3. size'[id] = UploadSize /\ UNCHANGED <<valid, reserved>>
    BY <2>1, <1>a, <1>4 DEF Assemble
  <2> QED BY <2>2, <2>3 DEF ValidInv, ReservedInv
<1>5. CASE ReadReservation
  <2>1. CASE \E u \in UploadIds : AbortUpload(u) /\ reserved' = UploadSize
    <3>1. op'.pc = "drop" /\ UNCHANGED <<index, proc>> /\ reserved' # 0 /\ UNCHANGED valid
      BY <2>1, <1>5, <1>a DEF AbortUpload, Idle, ReadReservation
    <3> QED BY <3>1 DEF ValidInv, ReservedInv, CompletePlaces
  <2>2. ASSUME NEW u \in UploadIds, SweepEntry(u),
               reserved' = IF uploads[u].status = "uploading" THEN UploadSize ELSE 0
        PROVE  ValidInv' /\ ReservedInv'
    <3>1. op'.pc = "sweepDrop" /\ op'.victim = u /\ UNCHANGED <<index, proc, uploads>>
      BY <2>2, <1>a DEF SweepEntry, Operation
    <3>2. UNCHANGED valid
      BY <1>5 DEF ReadReservation
    <3> QED BY <3>1, <3>2, <2>2, <1>a DEF ValidInv, ReservedInv, CompletePlaces
  <2> QED BY <1>5, <2>1, <2>2 DEF ReadReservation
<1>6. CASE Release \/ ReleaseFails
  <2>1. reserved' = 0 /\ valid' = valid /\ UNCHANGED index
    BY <1>6 DEF Release, ReleaseFails, MoveUsage, SweepRemoveDir, DropRemoveDir, DropIOError, SweepIOError
  <2>2. op'.pc \in {"idle", "sweep"}
    <3>1. CASE SweepRemoveDir
      BY <3>1, <1>a DEF SweepRemoveDir, Operation
    <3>2. CASE ~SweepRemoveDir
      BY <3>2, <1>6, ReturnKeepsOperation DEF Release, ReleaseFails, DropRemoveDir, DropIOError, SweepIOError
    <3> QED BY <3>1, <3>2
  <2>3. proc' = proc \/ proc = "recovering"
    BY <1>6 DEF Release, ReleaseFails, SweepRemoveDir, DropRemoveDir, DropIOError, SweepIOError
  <2> QED BY <2>1, <2>2, <2>3 DEF ValidInv, ReservedInv, CompletePlaces
<1>7. CASE CountRecovered
  <2>1. op.pc = "rebuild" /\ op'.pc = "idle" /\ proc' = "running" /\ UNCHANGED <<index, reserved>>
    BY <1>7, ReturnKeepsOperation DEF CountRecovered, RecoverDone
  <2>2. valid' = TRUE \/ valid' = valid
    BY <1>7 DEF CountRecovered
  <2>3. proc = "recovering"
    BY <1>a, <2>1 DEF ProcInv, RecoverPlaces
  <2> QED BY <2>1, <2>2, <2>3 DEF ValidInv, ReservedInv, CompletePlaces
<1>8. CASE RebuildUsage
  <2>1. valid' = TRUE /\ UNCHANGED <<op, index, proc, reserved, uploads, size, faults>> /\ proc = "running"
    BY <1>8 DEF RebuildUsage, vars
  <2> QED BY <2>1 DEF ValidInv, ReservedInv
<1>9. CASE Forget
  <2>1. valid' = FALSE /\ reserved' = 0 /\ op'.pc = "idle"
    BY <1>9, ReturnKeepsOperation, IdleOperation DEF Forget, Forgets, Crash, RecoverIOError, RecoverDone, SweepIOError
  <2>2. index' # "loaded"
    <3>1. CASE Crash
      BY <3>1 DEF Crash
    <3>2. CASE ~Crash
      <4>1. UNCHANGED index /\ op.pc \in {"recover", "rebuild", "sweepDrop"}
        BY <1>9, <3>2 DEF Forget, RecoverIOError, RecoverDone, SweepIOError
      <4>2. proc = "recovering"
        BY <1>9, <3>2, <4>1, <1>a, <1>c DEF Forget, ProcInv, RecoverPlaces, SweepIOError, RecoverDone, RecoverIOError
      <4> QED BY <4>1, <4>2 DEF ValidInv
    <3> QED BY <3>1, <3>2
  <2> QED BY <2>1, <2>2 DEF ValidInv, ReservedInv, CompletePlaces
<1>10. CASE Uncounted
  BY <1>10, QuietLedger
<1>11. CASE UNCHANGED <<vars, usageVars>>
  BY <1>11 DEF ValidInv, ReservedInv, vars, usageVars
<1> QED BY <1>1, <1>2, <1>3, <1>4, <1>5, <1>6, <1>7, <1>8, <1>9, <1>10, <1>11 DEF UsageNext

-----------------------------------------------------------------------------
(* What the quiet steps leave of what the index has. *)

FilesSettle ==
  /\ faults' = 0 => CountedFiles' = CountedFiles /\ CountedTrash' = CountedTrash
  /\ faults' <= 1 => /\ Shrinks(CountedFiles, CountedTrash, CountedFiles', CountedTrash')
                     /\ Shrinks(ClaimedFiles, CountedTrash, ClaimedFiles', CountedTrash')
SessionsSettle ==
  /\ faults' = 0 => CountedSessions' = CountedSessions
  /\ faults' <= 1 => CountedSessions' \subseteq CountedSessions /\ ClaimedSessions' \subseteq ClaimedSessions

OwnFilePlaces == PutPlaces \cup CompletePlaces \cup DeletePlaces \cup RestorePlaces \cup {"purgeDrop"}
OwnSessionPlaces == OwnPlaces \cup {"sweepDrop"}

LEMMA FilesAside ==
  ASSUME UNCHANGED <<manifests, trash>>, op.pc \notin OwnFilePlaces, op'.pc \notin OwnFilePlaces
  PROVE  /\ FilesSettle
         /\ CountedFiles' = CountedFiles /\ CountedTrash' = CountedTrash /\ ClaimedFiles' = ClaimedFiles
<1>1. Live' = Live /\ Trashed' = Trashed
  BY DEF Live, Trashed, TrashOK
<1>2. CountedFiles' = CountedFiles /\ CountedTrash' = CountedTrash
  BY <1>1 DEF CountedFiles, CountedTrash, OwnFilePlaces
<1>3. ClaimedFiles' = ClaimedFiles
  BY <1>2 DEF ClaimedFiles, OwnFilePlaces
<1> QED BY <1>2, <1>3 DEF FilesSettle, Shrinks

\* Inside an operation only its own file changes, which is counted or not whatever it is.
LEMMA FilesWithin ==
  ASSUME op.file \in FileIds, op'.file = op.file,
         \A id \in FileIds \ {op.file} : manifests'[id] = manifests[id] /\ trash'[id] = trash[id],
         \/ /\ op.pc \in PutPlaces \cup CompletePlaces /\ op'.pc \in PutPlaces \cup CompletePlaces
            /\ UNCHANGED trash
         \/ op.pc \in DeletePlaces /\ op'.pc \in DeletePlaces
         \/ op.pc \in RestorePlaces /\ op'.pc \in RestorePlaces
         \/ op.pc = "purgeDrop" /\ op'.pc = "purgeDrop" /\ UNCHANGED manifests
  PROVE  FilesSettle
<1>1. Live' \ {op.file} = Live \ {op.file} /\ Live' \cup {op.file} = Live \cup {op.file}
  BY DEF Live
<1>2. Trashed' \ {op.file} = Trashed \ {op.file} /\ Trashed' \cup {op.file} = Trashed \cup {op.file}
  BY DEF Trashed, TrashOK
<1>3. UNCHANGED trash => Trashed' = Trashed
  BY DEF Trashed, TrashOK
<1>4. UNCHANGED manifests => Live' = Live
  BY DEF Live
<1>5. CountedFiles' = CountedFiles /\ CountedTrash' = CountedTrash
  BY <1>1, <1>2, <1>3, <1>4 DEF CountedFiles, CountedTrash, PutPlaces, CompletePlaces, DeletePlaces, RestorePlaces
<1>6. ClaimedFiles' = ClaimedFiles
  BY <1>5 DEF ClaimedFiles, PutPlaces, CompletePlaces, DeletePlaces, RestorePlaces
<1> QED BY <1>5, <1>6 DEF FilesSettle, Shrinks

\* An operation that is given up after a failed system call leaves its file in one of the
\* two places or in none.
LEMMA FilesLetGo ==
  ASSUME op.file \in FileIds, faults' >= 1, op'.pc = "idle",
         faults' <= 1 => op.file \notin Live' \cap Trashed',
         \A id \in FileIds \ {op.file} : manifests'[id] = manifests[id] /\ trash'[id] = trash[id],
         op.pc \in DeletePlaces \cup RestorePlaces \cup {"purgeDrop"}
  PROVE  FilesSettle
<1>1. Live' \subseteq Live \cup {op.file} /\ Trashed' \subseteq Trashed \cup {op.file}
  BY DEF Live, Trashed, TrashOK
<1>2. op.file \in CountedFiles \cup CountedTrash /\ Live \cup Trashed \subseteq CountedFiles \cup CountedTrash
  BY DEF CountedFiles, CountedTrash, PutPlaces, CompletePlaces, DeletePlaces, RestorePlaces
<1>3. CountedFiles' = Live' /\ CountedTrash' = Trashed' /\ ClaimedFiles' = Live'
  BY DEF CountedFiles, CountedTrash, ClaimedFiles, PutPlaces, CompletePlaces, DeletePlaces, RestorePlaces
<1>4. ClaimedFiles = CountedFiles
  BY DEF ClaimedFiles, PutPlaces, CompletePlaces, DeletePlaces, RestorePlaces
<1>5. Live' \ {op.file} \subseteq CountedFiles /\ Trashed' \ {op.file} \subseteq CountedTrash
  BY <1>1 DEF CountedFiles, CountedTrash, PutPlaces, CompletePlaces, DeletePlaces, RestorePlaces
<1> QED BY <1>1, <1>2, <1>3, <1>4, <1>5 DEF FilesSettle, Shrinks

LEMMA SessionsAside ==
  ASSUME UNCHANGED uploads, op.pc \notin OwnSessionPlaces, op'.pc \notin OwnSessionPlaces
  PROVE  SessionsSettle
<1>1. Open' = Open
  BY DEF Open, UploadOK
<1>2. CountedSessions' = CountedSessions /\ ClaimedSessions' = ClaimedSessions
  BY <1>1 DEF CountedSessions, ClaimedSessions, OwnSessionPlaces, OwnPlaces
<1> QED BY <1>2 DEF SessionsSettle

LEMMA SessionsWithin ==
  ASSUME op.session \in UploadIds, op'.session = op.session, UNCHANGED reserved,
         \A u \in UploadIds \ {op.session} : uploads'[u] = uploads[u],
         \/ op.pc \in StartPlaces /\ op'.pc \in StartPlaces
         \/ op.pc \in StartPlaces /\ op'.pc = "drop" /\ reserved = 0
         \/ op.pc \in AppendPlaces /\ op'.pc \in AppendPlaces
         \/ /\ op.pc \in CompletePlaces /\ op'.pc \in CompletePlaces
            /\ op.session \notin Open /\ op.session \notin Open'
         \/ op.pc = "drop" /\ op'.pc = "drop"
  PROVE  SessionsSettle
<1>1. Open' \ {op.session} = Open \ {op.session} /\ Open' \cup {op.session} = Open \cup {op.session}
  BY DEF Open, UploadOK
<1>2. op.session \notin Open /\ op.session \notin Open' => Open' = Open
  BY <1>1
<1>3. CountedSessions' = CountedSessions /\ ClaimedSessions' = ClaimedSessions
  BY <1>1, <1>2 DEF CountedSessions, ClaimedSessions, StartPlaces, AppendPlaces, CompletePlaces
<1> QED BY <1>3 DEF SessionsSettle

LEMMA FileOperationsSettle ==
  ASSUME StoreInv, StoreInv', DoneInv, QuietPut \/ QuietDelete \/ QuietRestore \/ QuietPurge
  PROVE  FilesSettle /\ SessionsSettle
<1>a. /\ TypeInv /\ op \in Operation /\ faults \in Nat /\ faults' \in Nat
      /\ manifests \in [FileIds -> ManifestState] /\ trash \in [FileIds -> TrashItem]
  BY DEF StoreInv, TypeInv, TypeOK
<1>b. /\ op.pc \in FilePlaces /\ op'.pc \in (FilePlaces \cup {"idle"}) \ {"putBody"}
      /\ UNCHANGED <<uploads, proc, index>>
  BY <1>a, QuietFiles
<1>c. SessionsSettle
  BY <1>b, SessionsAside DEF FilePlaces, OwnSessionPlaces, OwnPlaces, AppendPlaces, StartPlaces, CompletePlaces
<1>p. op.pc \in CreatePlaces \cup MovePlaces => op.file \in FileIds
  BY <1>a DEF TypeInv, OpOK
<1>f. UndoInv /\ OneCopy /\ EntryInv /\ CreateInv /\ MoveInv /\ OverlookInv
  BY DEF StoreInv, FilesInv
<1> USE DEF At, Frame, IOError, fileVars, diskVars, ghostVars, procVars
<1>1. CASE QuietPut
  <2>a. op.file \in FileIds
    BY <1>1, <1>p DEF QuietPut, PutAbandon, PutWriteManifest, PutCommitManifest, PutIOError, PutUndoManifest, PutUndo, CreatePlaces
  <2>1. CASE PutAbandon
    <3>1. UNCHANGED <<manifests, trash>> /\ op.pc = "putBody" /\ op'.pc = "idle"
      BY <2>1, ReturnKeepsOperation DEF PutAbandon
    <3> QED BY <3>1, <1>c, FilesAside DEF OwnFilePlaces, PutPlaces, CompletePlaces, DeletePlaces, RestorePlaces
  <2>2. CASE PutWriteManifest \/ PutCommitManifest \/ PutIOError \/ PutUndoManifest
    <3>1. op.pc \in PutPlaces /\ UNCHANGED trash
      BY <2>2 DEF PutWriteManifest, PutCommitManifest, PutIOError, PutUndoManifest, PutPlaces
    <3>2. op'.pc \in PutPlaces /\ op'.file = op.file
      BY <2>2, <1>a, GotoKeepsOperation, PlaceNames
         DEF PutWriteManifest, PutCommitManifest, PutIOError, PutUndoManifest, PutPlaces
    <3>3. \A id \in FileIds \ {op.file} : manifests'[id] = manifests[id]
      BY <2>2, <1>a DEF PutWriteManifest, PutCommitManifest, PutIOError, PutUndoManifest
    <3> QED BY <3>1, <3>2, <3>3, <2>a, <1>c, FilesWithin
  <2>3. CASE PutUndo
    <3>1. op.pc = "putUndo" /\ op'.pc = "idle" /\ UNCHANGED <<manifests, trash>> /\ faults >= 1
      BY <2>3, ReturnKeepsOperation, <1>f DEF PutUndo, UndoInv, UndoCreatePlaces
    <3>2. faults' >= 1 /\ faults <= faults'
      BY <2>3, <3>1, <1>a DEF PutUndo
    <3>3. faults' <= 1 => op.file \notin Live
      BY <3>1, <3>2, <1>a, <1>f DEF CreateInv, CreatePlaces, Live
    <3>4. Live' = Live /\ Trashed' = Trashed
      BY <3>1 DEF Live, Trashed, TrashOK
    <3> QED BY <3>1, <3>2, <3>3, <3>4, <1>c DEF FilesSettle, Shrinks, CountedFiles, CountedTrash, ClaimedFiles,
               PutPlaces, CompletePlaces, DeletePlaces, RestorePlaces
  <2> QED BY <1>1, <2>1, <2>2, <2>3 DEF QuietPut
<1>2. CASE QuietDelete
  <2>a. op.file \in FileIds /\ op.pc \in DeletePlaces /\ op.pc # "idle"
    BY <1>2, <1>p DEF QuietDelete, DeleteMoveObject, DeleteMoveFails, DeleteMoveManifest, DeleteWriteMark,
       DeleteCommitMark, DeleteIOError, UndoDeleteObject, UndoDeleteManifest, UndoDeleteDir, MovePlaces, DeletePlaces
  <2>b. \A id \in FileIds \ {op.file} : manifests'[id] = manifests[id] /\ trash'[id] = trash[id]
    BY <1>2, <1>a DEF QuietDelete, DeleteMoveObject, DeleteMoveFails, DeleteMoveManifest, DeleteWriteMark,
       DeleteCommitMark, DeleteIOError, UndoDeleteObject, UndoDeleteManifest, UndoDeleteDir
  <2>1. CASE DeleteMoveFails \/ UndoDeleteDir
    <3>1. op'.pc = "idle"
      BY <2>1, ReturnKeepsOperation DEF DeleteMoveFails, UndoDeleteDir
    <3>2. faults' >= 1
      BY <2>1, <1>a, <1>f DEF DeleteMoveFails, UndoDeleteDir, UndoInv
    <3>3. faults' <= 1 => trash'[op.file] = NoTrash
      BY <2>1, <2>a, <1>a, <1>f DEF DeleteMoveFails, UndoDeleteDir, UndoInv
    <3>4. faults' <= 1 => op.file \notin Trashed'
      BY <3>3 DEF Trashed, TrashOK, NoTrash
    <3> QED BY <3>1, <3>2, <3>4, <2>a, <2>b, <1>c, FilesLetGo
  <2>2. CASE ~(DeleteMoveFails \/ UndoDeleteDir)
    <3>1. \E place \in {"delManifest", "delTmp", "delMark", "delSync", "undoObject", "undoManifest", "undoDir"} :
            Goto(place)
      BY <1>2, <2>2 DEF QuietDelete, DeleteMoveObject, DeleteMoveManifest, DeleteWriteMark,
         DeleteCommitMark, DeleteIOError, UndoDeleteObject, UndoDeleteManifest
    <3>2. op'.pc \in DeletePlaces /\ op'.file = op.file
      BY <3>1, <1>a, GotoKeepsOperation, PlaceNames DEF DeletePlaces
    <3> QED BY <3>2, <2>a, <2>b, <1>c, FilesWithin
  <2> QED BY <2>1, <2>2
<1>3. CASE QuietRestore
  <2>a. op.file \in FileIds /\ op.pc \in RestorePlaces
    BY <1>3, <1>p DEF QuietRestore, RestoreCommitMark, RestoreMoveObject, RestoreMoveManifest, RestoreRemoveDir,
       RestoreEarlyIOError, RestoreIOError, RestoreUndo, MovePlaces, RestorePlaces
  <2>b. \A id \in FileIds \ {op.file} : manifests'[id] = manifests[id] /\ trash'[id] = trash[id]
    BY <1>3, <1>a DEF QuietRestore, RestoreCommitMark, RestoreMoveObject, RestoreMoveManifest, RestoreRemoveDir,
       RestoreEarlyIOError, RestoreIOError, RestoreUndo
  <2>1. CASE RestoreEarlyIOError \/ RestoreUndo
    <3>1. op'.pc = "idle"
      BY <2>1, ReturnKeepsOperation DEF RestoreEarlyIOError, RestoreUndo
    <3>2. faults' >= 1
      BY <2>1, <1>a DEF RestoreEarlyIOError, RestoreUndo, DoneInv
    <3>3. faults <= faults' /\ manifests' = manifests /\ trash'[op.file].manifest = trash[op.file].manifest
      BY <2>1, <2>a, <1>a DEF RestoreEarlyIOError, RestoreUndo, TrashItem
    <3>4. faults' <= 1 => Single(op.file)
      BY <3>3, <2>a, <1>a, <1>f DEF MoveInv, MovePlaces, RestorePlaces, Twice
    <3>5. faults' <= 1 => op.file \notin Live' \cap Trashed'
      BY <3>3, <3>4 DEF Single, Live, Trashed, TrashOK
    <3> QED BY <3>1, <3>2, <3>5, <2>a, <2>b, <1>c, FilesLetGo
  <2>2. CASE ~(RestoreEarlyIOError \/ RestoreUndo)
    <3>1. \E place \in {"resObject", "resManifest", "resDir", "resSync", "resUndo"} : Goto(place)
      BY <1>3, <2>2 DEF QuietRestore, RestoreCommitMark, RestoreMoveObject, RestoreMoveManifest,
         RestoreRemoveDir, RestoreIOError
    <3>2. op'.pc \in RestorePlaces /\ op'.file = op.file
      BY <3>1, <1>a, GotoKeepsOperation, PlaceNames DEF RestorePlaces
    <3> QED BY <3>2, <2>a, <2>b, <1>c, FilesWithin
  <2> QED BY <2>1, <2>2
<1>4. CASE QuietPurge
  <2>1. CASE PurgeStops \/ PurgeReturn
    <3>1. op.pc = "purge" /\ op'.pc = "idle" /\ UNCHANGED <<manifests, trash>>
      BY <2>1, ReturnKeepsOperation DEF PurgeStops, PurgeReturn
    <3> QED BY <3>1, <1>c, FilesAside DEF OwnFilePlaces, PutPlaces, CompletePlaces, DeletePlaces, RestorePlaces
  <2>2. CASE PurgeUnlink
    <3>1. op.pc = "purgeDrop" /\ op' = op /\ UNCHANGED manifests
      BY <2>2 DEF PurgeUnlink
    <3>2. op.file \in FileIds
      BY <3>1, <1>p DEF MovePlaces
    <3>3. \A id \in FileIds \ {op.file} : trash'[id] = trash[id]
      BY <2>2, <1>a DEF PurgeUnlink
    <3> QED BY <3>1, <3>2, <3>3, <1>c, FilesWithin
  <2>3. CASE PurgeIOError
    <3>1. op.pc = "purgeDrop" /\ op'.pc = "idle" /\ UNCHANGED <<manifests, trash>> /\ faults' >= 1
      BY <2>3, <1>a, ReturnKeepsOperation DEF PurgeIOError
    <3>2. op.file \in FileIds
      BY <3>1, <1>p DEF MovePlaces
    <3>3. faults' <= 1 => Single(op.file)
      BY <2>3, <3>2, <1>a, <1>f DEF PurgeIOError, OverlookInv, OneCopy
    <3>4. faults' <= 1 => op.file \notin Live' \cap Trashed'
      BY <3>1, <3>3 DEF Single, Live, Trashed, TrashOK
    <3> QED BY <3>1, <3>2, <3>4, <1>c, FilesLetGo
  <2>4. ASSUME NEW id \in FileIds, PurgeKeeps(id) PROVE FilesSettle
    <3>1. op.pc = "purge" /\ op'.pc = "purge" /\ UNCHANGED <<manifests, trash>>
      BY <2>4, <1>a DEF PurgeKeeps, Operation
    <3> QED BY <3>1, FilesAside DEF OwnFilePlaces, PutPlaces, CompletePlaces, DeletePlaces, RestorePlaces
  <2>5. ASSUME NEW id \in FileIds, PurgeEntry(id) PROVE FilesSettle
    <3>1. op.pc = "purge" /\ op'.pc = "purgeDrop" /\ op'.file = id /\ UNCHANGED <<manifests, trash>> /\ TrashOK(id)
      BY <2>5, <1>a DEF PurgeEntry, Operation
    <3>2. Live' = Live /\ Trashed' = Trashed /\ id \in Trashed
      BY <3>1 DEF Live, Trashed, TrashOK
    <3> QED BY <3>1, <3>2 DEF FilesSettle, Shrinks, CountedFiles, CountedTrash, ClaimedFiles,
               PutPlaces, CompletePlaces, DeletePlaces, RestorePlaces
  <2> QED BY <1>4, <1>c, <2>1, <2>2, <2>3, <2>4, <2>5 DEF QuietPurge
<1> QED BY <1>1, <1>2, <1>3, <1>4

\* A session whose part Complete has renamed counts no more among the open ones.
LEMMA CompletingIsNotOpen ==
  ASSUME TypeInv, SessionInv, op.pc \in CompletePlaces
  PROVE  op.session \notin Open
BY ConstantsAssumption DEF SessionInv, CompleteInv, Mine, Open, UploadOK, Absent

LEMMA SessionOperationsSettle ==
  ASSUME StoreInv, StoreInv', ReservedInv, UNCHANGED usageVars, SessionMoves
  PROVE  FilesSettle /\ SessionsSettle
<1>a. /\ TypeInv /\ SessionInv /\ op \in Operation /\ faults \in Nat /\ faults' \in Nat
      /\ manifests \in [FileIds -> ManifestState] /\ uploads \in [UploadIds -> Session]
      /\ UNCHANGED reserved /\ UploadSize \in Nat
  BY ConstantsAssumption DEF StoreInv, TypeInv, TypeOK, usageVars
<1>b. /\ op.pc \in OwnPlaces /\ op'.pc \in OwnPlaces \cup {"idle"}
      /\ op'.pc # "idle" => op'.file = op.file /\ op'.session = op.session
      /\ op.session \in UploadIds
      /\ UNCHANGED <<proc, index, trash>>
  BY <1>a, QuietSessions
<1> USE DEF At, Sessions, IOError, fileVars, diskVars, ghostVars, procVars
<1>1. CASE QuietStart
  <2>1. op.pc \in StartPlaces /\ UNCHANGED manifests /\ \A u \in UploadIds \ {op.session} : uploads'[u] = uploads[u]
    BY <1>1, <1>a DEF QuietStart, StartCreatePart, StartWriteManifest, StartCommitManifest, StartIOError, StartPlaces
  <2>2. \E place \in {"startTmp", "startRename", "startSync", "drop"} : Goto(place)
    BY <1>1 DEF QuietStart, StartCreatePart, StartWriteManifest, StartCommitManifest, StartIOError
  <2>3. op'.pc \in StartPlaces \cup {"drop"} /\ op'.session = op.session
    BY <2>2, <1>a, GotoKeepsOperation, PlaceNames DEF StartPlaces
  <2>4. reserved = 0
    BY <2>1 DEF ReservedInv, StartPlaces
  <2>5. SessionsSettle
    BY <2>1, <2>3, <2>4, <1>a, <1>b, SessionsWithin
  <2>6. FilesSettle
    BY <1>b, <2>1, <2>3, FilesAside DEF OwnFilePlaces, PutPlaces, CompletePlaces, DeletePlaces, RestorePlaces, StartPlaces
  <2> QED BY <2>5, <2>6
<1>2. CASE QuietAppend
  <2>1. op.pc \in AppendPlaces /\ UNCHANGED manifests /\ \A u \in UploadIds \ {op.session} : uploads'[u] = uploads[u]
    BY <1>2, <1>a DEF QuietAppend, AppendCopy, AppendWriteManifest, AppendReject, AppendCommitManifest,
         AppendAck, AppendIOError, AppendUndo, AppendPlaces
  <2>2. op' = op \/ Return \/ \E place \in {"appRename", "appSync", "appUndo"} : Goto(place)
    BY <1>2 DEF QuietAppend, AppendCopy, AppendWriteManifest, AppendReject, AppendCommitManifest,
         AppendAck, AppendIOError, AppendUndo
  <2>3. op'.pc \in AppendPlaces \cup {"idle"}
    BY <2>1, <2>2, <1>a, GotoKeepsOperation, ReturnKeepsOperation, PlaceNames DEF AppendPlaces
  <2>4. FilesSettle
    BY <1>b, <2>1, <2>3, FilesAside DEF OwnFilePlaces, PutPlaces, CompletePlaces, DeletePlaces, RestorePlaces, AppendPlaces
  <2>5. CASE op'.pc \in AppendPlaces
    <3>1. op'.session = op.session
      BY <2>5, <1>b DEF AppendPlaces
    <3> QED BY <3>1, <2>1, <2>4, <2>5, <1>a, <1>b, SessionsWithin
  <2>6. CASE op'.pc = "idle"
    <3>1. Open' \subseteq Open \cup {op.session}
      BY <2>1 DEF Open, UploadOK
    <3>2. AppendAck \/ AppendUndo
      <4>1. ~(AppendCopy \/ AppendWriteManifest \/ AppendReject \/ AppendCommitManifest \/ AppendIOError)
        BY <2>6, <1>a, GotoKeepsOperation, PlaceNames DEF AppendCopy, AppendWriteManifest, AppendReject,
           AppendCommitManifest, AppendIOError
      <4> QED BY <4>1, <1>2 DEF QuietAppend
    <3>3. faults' = 0 => op.session \in Open'
      <4>1. AppendInv
        BY <1>a DEF SessionInv
      <4>2. op.base \in Nat /\ op.chunk \in Nat
        BY <1>a DEF Operation
      <4>3. CASE AppendAck
        <5>1. op.pc = "appSync" /\ uploads' = uploads
          BY <4>3 DEF AppendAck
        <5>2. /\ uploads[op.session].status = "uploading" /\ uploads[op.session].part = op.base + op.chunk
              /\ uploads[op.session].received = op.base + op.chunk
          BY <4>1, <5>1 DEF AppendInv, AppendPlaces, Mine
        <5> QED BY <5>1, <5>2, <1>b DEF Open, UploadOK
      <4>4. CASE AppendUndo
        <5> SUFFICES ASSUME faults' = 0 PROVE op.session \in Open'
          OBVIOUS
        <5>1. op.pc = "appUndo" /\ faults = 0 /\ uploads' = [uploads EXCEPT ![op.session].part = op.base]
          BY <4>4, <1>a DEF AppendUndo
        <5>2. uploads[op.session].status = "uploading" /\ uploads[op.session].received = op.base
          BY <4>1, <5>1 DEF AppendInv, AppendPlaces, Mine
        <5>3. /\ uploads'[op.session].status = "uploading" /\ uploads'[op.session].received = op.base
              /\ uploads'[op.session].part = op.base
          BY <5>1, <5>2, <1>a, <1>b DEF Session
        <5> QED BY <5>3, <1>b DEF Open, UploadOK
      <4> QED BY <3>2, <4>3, <4>4
    <3>4. Open \subseteq Open' \cup {op.session}
      BY <2>1 DEF Open, UploadOK
    <3>5. /\ CountedSessions = Open \cup {op.session} /\ ClaimedSessions = Open \cup {op.session}
          /\ CountedSessions' = Open' /\ ClaimedSessions' = Open'
      BY <2>1, <2>6 DEF CountedSessions, ClaimedSessions, StartPlaces, AppendPlaces, CompletePlaces
    <3> QED BY <3>1, <3>3, <3>4, <3>5, <2>4 DEF SessionsSettle
  <2> QED BY <2>3, <2>5, <2>6
<1>3. CASE DropUnlink
  <2>1. op.pc = "drop" /\ op' = op /\ UNCHANGED manifests /\ UnlinkFrom(op.session)
    BY <1>3 DEF DropUnlink
  <2>2. \A u \in UploadIds \ {op.session} : uploads'[u] = uploads[u]
    BY <2>1, <1>a, <1>b, UnlinkedFields
  <2>3. SessionsSettle
    BY <2>1, <2>2, <1>a, <1>b, SessionsWithin
  <2>4. FilesSettle
    BY <1>b, <2>1, FilesAside DEF OwnFilePlaces, PutPlaces, CompletePlaces, DeletePlaces, RestorePlaces
  <2> QED BY <2>3, <2>4
<1>4. CASE QuietComplete
  <2>a. op.pc \in CompletePlaces /\ \A u \in UploadIds \ {op.session} : uploads'[u] = uploads[u]
    BY <1>4, <1>a DEF QuietComplete, CompleteWriteManifest, CompleteCommitManifest, CompleteWriteSession,
       CompleteCommitSession, CompleteIOError, CompleteUndo, CompleteUndoManifest, CompletePlaces
  <2>b. op.file \in FileIds /\ \A id \in FileIds \ {op.file} : manifests'[id] = manifests[id]
    <3>1. op.file \in FileIds
      BY <2>a, <1>a DEF TypeInv, OpOK, CreatePlaces, CompletePlaces
    <3> QED BY <1>4, <1>a, <3>1 DEF QuietComplete, CompleteWriteManifest, CompleteCommitManifest, CompleteWriteSession,
       CompleteCommitSession, CompleteIOError, CompleteUndo, CompleteUndoManifest
  <2>c. op.session \notin Open
    BY <1>a, <2>a, CompletingIsNotOpen
  <2>1. CASE CompleteUndoManifest
    <3>1. op.pc = "cmpUndoManifest" /\ op'.pc = "idle" /\ UNCHANGED uploads
      BY <2>1, ReturnKeepsOperation DEF CompleteUndoManifest
    <3>2. faults >= 1
      BY <3>1 DEF StoreInv, FilesInv, UndoInv, UndoCreatePlaces
    <3>3. faults' >= 1 /\ (faults' <= 1 => manifests' = [manifests EXCEPT ![op.file] = "none"])
      BY <2>1, <3>2, <1>a DEF CompleteUndoManifest
    <3>4. faults' <= 1 => Live' = Live \ {op.file}
      BY <3>3, <1>a, <2>b DEF Live
    <3>5. Trashed' = Trashed /\ Open' = Open
      BY <3>1, <1>b DEF Trashed, TrashOK, Open, UploadOK
    <3>6. FilesSettle
      BY <3>1, <3>3, <3>4, <3>5 DEF FilesSettle, Shrinks, CountedFiles, CountedTrash, ClaimedFiles,
               PutPlaces, CompletePlaces, DeletePlaces, RestorePlaces
    <3>7. SessionsSettle
      BY <3>1, <3>3, <3>5 DEF SessionsSettle, CountedSessions, ClaimedSessions,
               StartPlaces, AppendPlaces, CompletePlaces
    <3> QED BY <3>6, <3>7
  <2>2. CASE ~CompleteUndoManifest
    <3>1. \E place \in {"cmpRename", "cmpSession", "cmpSessionRename", "cmpSync", "cmpUndo", "cmpUndoManifest"} :
            Goto(place)
      BY <1>4, <2>2 DEF QuietComplete, CompleteWriteManifest, CompleteCommitManifest, CompleteWriteSession,
         CompleteCommitSession, CompleteIOError, CompleteUndo
    <3>2. op'.pc \in CompletePlaces /\ op'.file = op.file /\ op'.session = op.session
      BY <3>1, <1>a, GotoKeepsOperation, PlaceNames DEF CompletePlaces
    <3>3. op.session \notin Open'
      <4>1. TypeInv' /\ SessionInv'
        BY DEF StoreInv
      <4>2. CompleteInv' /\ UploadSize \in Nat \ {0}
        BY <4>1, ConstantsAssumption DEF SessionInv
      <4> QED BY <4>2, <3>2 DEF CompleteInv, Mine, Open, UploadOK, Absent
    <3>4. FilesSettle
      BY <1>b, <2>a, <2>b, <3>2, FilesWithin
    <3>5. SessionsSettle
      BY <1>a, <1>b, <2>a, <2>c, <3>2, <3>3, SessionsWithin
    <3> QED BY <3>4, <3>5
  <2> QED BY <2>1, <2>2
<1> QED BY <1>1, <1>2, <1>3, <1>4 DEF SessionMoves

LEMMA OtherStepsSettle ==
  ASSUME StoreInv, StoreInv', ReservedInv, UNCHANGED usageVars,
         QuietSweep \/ QuietRequest \/ QuietRecover \/ Restart \/ (\E u \in UploadIds : Age(u))
  PROVE  FilesSettle /\ SessionsSettle
<1>a. /\ TypeInv /\ TypeOK /\ ProcInv /\ EntryInv /\ OneCopy /\ OverlookInv
      /\ op \in Operation /\ UNCHANGED reserved /\ faults \in Nat /\ faults' \in Nat
      /\ manifests \in [FileIds -> ManifestState] /\ uploads \in [UploadIds -> Session]
      /\ trash \in [FileIds -> TrashItem]
  BY ConstantsAssumption DEF StoreInv, FilesInv, TypeInv, TypeOK, usageVars
<1> USE DEF At, Sessions, Frame, fileVars, diskVars, ghostVars, procVars
<1>f. ASSUME UNCHANGED <<manifests, trash>>, op.pc \notin OwnFilePlaces, op'.pc \notin OwnFilePlaces
      PROVE  FilesSettle
  BY <1>f, FilesAside
<1>s. ASSUME Open' = Open, op.pc \notin OwnSessionPlaces, op'.pc \notin OwnSessionPlaces
      PROVE  SessionsSettle
  <2>1. CountedSessions' = CountedSessions /\ ClaimedSessions' = ClaimedSessions
    BY <1>s DEF CountedSessions, ClaimedSessions, OwnSessionPlaces, OwnPlaces
  <2> QED BY <2>1 DEF SessionsSettle
<1>o. UNCHANGED uploads => Open' = Open
  BY DEF Open, UploadOK
<1>n. ASSUME NEW place \in {"idle", "purge", "sweep", "sweepDrop", "startDir", "recover", "rebuild", "appBody"}
      PROVE  place \notin OwnFilePlaces /\ (place \notin {"sweepDrop", "appBody"} => place \notin OwnSessionPlaces)
  BY DEF OwnFilePlaces, PutPlaces, CompletePlaces, DeletePlaces, RestorePlaces, OwnSessionPlaces, OwnPlaces,
     AppendPlaces, StartPlaces
<1>1. CASE QuietSweep
  <2>1. CASE SweepUnlink
    <3>1. op.pc = "sweepDrop" /\ op' = op /\ UNCHANGED <<manifests, trash>> /\ UnlinkFrom(op.victim)
      BY <2>1 DEF SweepUnlink
    <3>2. op.victim \in UploadIds
      BY <3>1, <1>a DEF TypeInv, OpOK
    <3>3. /\ \A u \in UploadIds \ {op.victim} : uploads'[u] = uploads[u]
          /\ uploads'[op.victim].status \in {uploads[op.victim].status, "none"}
      BY <3>1, <3>2, <1>a, UnlinkedFields
    <3>4. Open' \cup {op.victim} = Open \cup {op.victim}
      BY <3>3 DEF Open, UploadOK
    <3>5. reserved = 0 => Open' = Open
      <4>1. reserved = 0 => uploads[op.victim].status # "uploading"
        BY <3>1 DEF ReservedInv
      <4>2. reserved = 0 => op.victim \notin Open /\ op.victim \notin Open'
        BY <4>1, <3>3 DEF Open
      <4> QED BY <3>4, <4>2
    <3>6. CountedSessions' = CountedSessions /\ ClaimedSessions' = ClaimedSessions
      BY <1>a, <3>1, <3>4, <3>5 DEF CountedSessions, ClaimedSessions, StartPlaces, AppendPlaces, CompletePlaces
    <3> QED BY <3>1, <3>6, <1>f, <1>n DEF SessionsSettle
  <2>2. CASE SweepDone
    <3>1. op.pc = "sweep" /\ (Return \/ Goto("rebuild") \/ Goto("startDir")) /\ UNCHANGED <<manifests, trash, uploads>>
      BY <2>2 DEF SweepDone
    <3>2. op'.pc \in {"idle", "rebuild", "startDir"}
      BY <3>1, <1>a, ReturnKeepsOperation, GotoKeepsOperation, PlaceNames
    <3> QED BY <3>1, <3>2, <1>f, <1>s, <1>o, <1>n
  <2>3. ASSUME NEW u \in UploadIds, SweepSkip(u) PROVE FilesSettle /\ SessionsSettle
    <3>1. op.pc = "sweep" /\ op'.pc = "sweep" /\ UNCHANGED <<manifests, trash, uploads>>
      BY <2>3, <1>a DEF SweepSkip, Operation
    <3> QED BY <3>1, <1>f, <1>s, <1>o, <1>n
  <2> QED BY <1>1, <2>1, <2>2, <2>3 DEF QuietSweep
<1>2. CASE QuietRequest
  <2>a. op.pc = "idle"
    BY <1>2, IdleOperation DEF QuietRequest, PurgeTrash, SweepUploads, Delete, Restore, StartUpload, AppendUpload, Serving
  <2>1. CASE PurgeTrash \/ SweepUploads \/ \E u \in UploadIds : StartUpload(u)
    <3>1. op'.pc \in {"purge", "sweep", "startDir"} /\ UNCHANGED <<manifests, trash, uploads>>
      BY <2>1 DEF PurgeTrash, SweepUploads, StartUpload, Idle
    <3> QED BY <2>a, <3>1, <1>f, <1>s, <1>o, <1>n
  <2>2. ASSUME NEW id \in FileIds, Delete(id) PROVE FilesSettle /\ SessionsSettle
    <3>1. /\ op'.pc = "delObject" /\ op'.file = id /\ manifests[id] # "none" /\ ~trash[id].dir
          /\ trash' = [trash EXCEPT ![id] = [NoTrash EXCEPT !.dir = TRUE]]
          /\ UNCHANGED <<manifests, uploads>>
      BY <2>2 DEF Delete, Idle
    <3>2. Live' = Live /\ id \in Live
      BY <3>1 DEF Live
    <3>3. id \notin Trashed
      BY <3>1, <1>a DEF Trashed, TrashOK, EntryInv
    <3>4. Trashed' \ {id} = Trashed
      BY <3>1, <3>3, <1>a DEF Trashed, TrashOK
    <3>5. FilesSettle
      BY <2>a, <3>1, <3>2, <3>4 DEF FilesSettle, Shrinks, CountedFiles, CountedTrash, ClaimedFiles,
               PutPlaces, CompletePlaces, DeletePlaces, RestorePlaces
    <3>6. op'.pc \notin OwnSessionPlaces
      BY <3>1 DEF OwnSessionPlaces, OwnPlaces, AppendPlaces, StartPlaces, CompletePlaces
    <3> QED BY <2>a, <3>1, <3>5, <3>6, <1>s, <1>o, <1>n
  <2>3. ASSUME NEW id \in FileIds, Restore(id) PROVE FilesSettle /\ SessionsSettle
    <3>1. /\ op'.pc = "resMark" /\ op'.file = id /\ TrashOK(id)
          /\ trash' = [trash EXCEPT ![id].tmp = TRUE]
          /\ UNCHANGED <<manifests, uploads>>
      BY <2>3 DEF Restore, Idle
    <3>2. Live' = Live /\ (faults' <= 1 => id \notin Live)
      <4>1. manifests[id] = "none" \/ faults' >= 2 \/ (faults' = faults + 1 /\ id \notin objects)
        BY <2>3, <1>a, RestoreGuard
      <4>2. faults = 0 => Single(id)
        BY <1>a DEF OverlookInv, OneCopy
      <4> QED BY <3>1, <4>1, <4>2, <1>a DEF Live, Single, TrashOK
    <3>3. Trashed' = Trashed /\ id \in Trashed
      BY <3>1, <1>a DEF Trashed, TrashOK, TrashItem
    <3>5. FilesSettle
      BY <2>a, <3>1, <3>2, <3>3, <1>a DEF FilesSettle, Shrinks, CountedFiles, CountedTrash, ClaimedFiles,
               PutPlaces, CompletePlaces, DeletePlaces, RestorePlaces
    <3>6. op'.pc \notin OwnSessionPlaces
      BY <3>1 DEF OwnSessionPlaces, OwnPlaces, AppendPlaces, StartPlaces, CompletePlaces
    <3> QED BY <2>a, <3>1, <3>5, <3>6, <1>s, <1>o, <1>n
  <2>4. ASSUME NEW u \in UploadIds, NEW n \in 1 .. UploadSize, AppendUpload(u, n)
        PROVE  FilesSettle /\ SessionsSettle
    <3>1. /\ op'.pc = "appBody" /\ op'.session = u /\ u \in Open
          /\ UNCHANGED <<manifests, trash, uploads>>
      BY <2>4 DEF AppendUpload, Idle, Open
    <3>2. CountedSessions' = CountedSessions /\ ClaimedSessions' = ClaimedSessions
      BY <2>a, <3>1, <1>o DEF CountedSessions, ClaimedSessions, StartPlaces, AppendPlaces, CompletePlaces
    <3> QED BY <2>a, <3>1, <3>2, <1>f, <1>n DEF SessionsSettle
  <2> QED BY <1>2, <2>1, <2>2, <2>3, <2>4 DEF QuietRequest
<1>3. CASE QuietRecover
  <2>1. op.pc = "recover" /\ op'.pc \in {"recover", "sweep", "rebuild"} /\ UNCHANGED <<manifests, trash>>
    BY <1>3, <1>a DEF QuietRecover, RecoverScanned, RecoverPartial, RecoverManifestTmp,
       RecoverUploadTmp, RecoverSession, Quarantines, Operation
  <2>2. Open' = Open
    <3>1. CASE UNCHANGED uploads
      BY <3>1, <1>o
    <3>2. ASSUME NEW u \in UploadIds, RecoverUploadTmp(u) PROVE Open' = Open
      <4>1. uploads' = [uploads EXCEPT ![u].tmp = FALSE]
        BY <3>2 DEF RecoverUploadTmp
      <4> QED BY <4>1, <1>a DEF Open, UploadOK, Session
    <3>3. ASSUME NEW u \in UploadIds, RecoverSession(u) PROVE Open' = Open
      <4>1. uploads' = [uploads EXCEPT ![u] = NoSession] /\ uploads[u].status = "none"
        BY <3>3 DEF RecoverSession
      <4> QED BY <4>1, <1>a DEF Open, UploadOK, NoSession
    <3> QED BY <3>1, <3>2, <3>3, <1>3 DEF QuietRecover, RecoverScanned, RecoverPartial, RecoverManifestTmp, Quarantines
  <2> QED BY <2>1, <2>2, <1>f, <1>s, <1>n
<1>4. CASE Restart
  <2>1. op.pc = "idle" /\ op'.pc = "recover" /\ UNCHANGED <<manifests, trash, uploads>>
    BY <1>4, <1>a, IdleOperation DEF Restart, ProcInv, Idle
  <2> QED BY <2>1, <1>f, <1>s, <1>o, <1>n
<1>5. ASSUME NEW u \in UploadIds, Age(u) PROVE FilesSettle /\ SessionsSettle
  <2>1. op.pc = "idle" /\ op' = op /\ UNCHANGED <<manifests, trash>> /\ uploads' = [uploads EXCEPT ![u].stale = TRUE]
    BY <1>5, IdleOperation DEF Age
  <2>2. Open' = Open
    BY <2>1, <1>a DEF Open, UploadOK, Session
  <2> QED BY <2>1, <2>2, <1>f, <1>s, <1>n
<1> QED BY <1>1, <1>2, <1>3, <1>4, <1>5

-----------------------------------------------------------------------------
(* The three conditions, in sums. *)

Kept(S) == UploadSize * Cardinality(S)

LEMMA KeptSums ==
  ASSUME NEW S \in SUBSET UploadIds
  PROVE  /\ Kept(S) \in Nat
         /\ \A T \in SUBSET S : Kept(T) <= Kept(S)
         /\ \A u \in UploadIds : Kept(S \cup {u}) = Kept(S \ {u}) + UploadSize
<1>1. UploadSize \in Nat /\ IsFiniteSet(S) /\ Cardinality(S) \in Nat
  BY ConstantsAssumption, UsageAssumption, FS_Subset, FS_CardinalityType
<1>2. \A k, a, b \in Nat : a <= b => k * a <= k * b
  OBVIOUS
<1>3. \A k, a \in Nat : k * a \in Nat /\ k * (a + 1) = k * a + k
  OBVIOUS
<1>4. \A T \in SUBSET S : Kept(T) <= Kept(S)
  <2> TAKE T \in SUBSET S
  <2>1. IsFiniteSet(T) /\ Cardinality(T) <= Cardinality(S)
    BY <1>1, FS_Subset
  <2>2. Cardinality(T) \in Nat
    BY <2>1, FS_CardinalityType
  <2> QED BY <1>1, <1>2, <2>1, <2>2 DEF Kept
<1>5. \A u \in UploadIds : Kept(S \cup {u}) = Kept(S \ {u}) + UploadSize
  <2> TAKE u \in UploadIds
  <2>1. IsFiniteSet(S \ {u})
    BY <1>1, FS_Subset
  <2>2. Cardinality(S \ {u}) \in Nat
    BY <2>1, FS_CardinalityType
  <2>3. S \cup {u} = (S \ {u}) \cup {u} /\ u \notin S \ {u}
    OBVIOUS
  <2>4. Cardinality((S \ {u}) \cup {u}) = Cardinality(S \ {u}) + 1
    BY <2>1, <2>3, FS_AddElement
  <2> QED BY <1>1, <1>3, <2>2, <2>3, <2>4 DEF Kept
<1>6. Kept(S) \in Nat
  BY <1>1, <1>3 DEF Kept
<1> QED BY <1>4, <1>5, <1>6

CountedSets ==
  /\ CountedFiles \in SUBSET FileIds /\ CountedTrash \in SUBSET FileIds
  /\ ClaimedFiles \in SUBSET FileIds
  /\ CountedSessions \in SUBSET UploadIds /\ ClaimedSessions \in SUBSET UploadIds

LEMMA CountedTypes == TypeInv => CountedSets
<1> SUFFICES ASSUME TypeInv PROVE CountedSets
  OBVIOUS
<1>1. /\ op.pc \in PutPlaces \cup CompletePlaces \cup DeletePlaces \cup RestorePlaces \cup {"purgeDrop"}
           => op.file \in FileIds
      /\ op.pc \in AppendPlaces \cup StartPlaces \cup CompletePlaces \cup {"drop"} => op.session \in UploadIds
      /\ op.pc = "sweepDrop" => op.victim \in UploadIds
  BY DEF TypeInv, OpOK, CreatePlaces, MovePlaces, SessionPlaces, PutPlaces, CompletePlaces, DeletePlaces,
     RestorePlaces, StartPlaces
<1>2. CountedFiles \in SUBSET FileIds /\ CountedTrash \in SUBSET FileIds
  BY <1>1, StoredSets DEF CountedFiles, CountedTrash
<1>3. CountedSessions \in SUBSET UploadIds
  BY <1>1, StoredSets DEF CountedSessions
<1> QED BY <1>1, <1>2, <1>3, StoredSets DEF CountedSets, ClaimedFiles, ClaimedSessions

LEMMA CountedTypesAfter == TypeInv' => CountedSets'
BY CountedTypes, PTL

Exact(f, u, files, bin, sessions) ==
  /\ u["files"].bytes = SumOf(f, files) /\ u["trash"].bytes = SumOf(f, bin)
  /\ u["uploads"].bytes = Kept(sessions)
Cover(f, u, files, bin, sessions) == Held(f, files, bin) + Kept(sessions) <= Total(u)
Within(f, files, bin, sessions) == Held(f, files, bin) + Kept(sessions) <= Quota

LEMMA InSums ==
  /\ ExactInv <=> (valid /\ faults = 0 => Exact(size, usage, CountedFiles, CountedTrash, CountedSessions))
  /\ CoverInv <=> (valid /\ faults <= 1 => Cover(size, usage, CountedFiles, CountedTrash, CountedSessions))
  /\ QuotaInv <=> (Quota > 0 /\ faults <= 1 => Within(size, ClaimedFiles, CountedTrash, ClaimedSessions))
BY DEF ExactInv, CoverInv, QuotaInv, Exact, Cover, Within, Held, BytesIn, SumOf, BytesOf, Kept

LEMMA InSumsAfter ==
  /\ ExactInv' <=> (valid' /\ faults' = 0 => Exact(size', usage', CountedFiles', CountedTrash', CountedSessions'))
  /\ CoverInv' <=> (valid' /\ faults' <= 1 => Cover(size', usage', CountedFiles', CountedTrash', CountedSessions'))
  /\ QuotaInv' <=> (Quota > 0 /\ faults' <= 1 => Within(size', ClaimedFiles', CountedTrash', ClaimedSessions'))
BY DEF ExactInv, CoverInv, QuotaInv, Exact, Cover, Within, Held, BytesIn, SumOf, BytesOf, Kept, Total

\* What every step of the usage index may rely on.
Sound == StoreInv /\ StoreInv' /\ UsageTypeOK /\ UsageTypeOK' /\ UsageInv
         /\ ValidInv' /\ ReservedInv' /\ faults <= faults'

LEMMA SoundTypes ==
  ASSUME Sound
  PROVE  /\ CountedSets /\ CountedSets'
         /\ size \in [FileIds -> Nat] /\ size' \in [FileIds -> Nat]
         /\ UploadSize \in Nat \ {0} /\ Quota \in Nat /\ faults \in Nat /\ faults' \in Nat /\ faults <= faults'
         /\ \A c \in Categories : usage[c].bytes \in Nat /\ usage'[c].bytes \in Nat
         /\ op \in Operation /\ TypeInv /\ SessionInv /\ EntryInv /\ MoveInv
         /\ ExactInv /\ CoverInv /\ QuotaInv
<1>1. CountedSets /\ CountedSets' /\ TypeInv /\ TypeInv'
  BY CountedTypes, CountedTypesAfter DEF Sound, StoreInv
<1>2. size \in [FileIds -> Nat] /\ size' \in [FileIds -> Nat] /\ UploadSize \in Nat \ {0} /\ Quota \in Nat
  <2>1. PutSizes \cup {0, UploadSize} \subseteq Nat /\ UploadSize \in Nat \ {0} /\ Quota \in Nat
    BY ConstantsAssumption, UsageAssumption
  <2> QED BY <2>1 DEF Sound, UsageTypeOK
<1>3. faults \in Nat
  BY <1>1, ConstantsAssumption DEF TypeInv, TypeOK
<1>4. faults' \in Nat /\ faults <= faults'
  BY <1>1, ConstantsAssumption DEF Sound, TypeInv, TypeOK
<1>5. \A c \in Categories : usage[c].bytes \in Nat /\ usage'[c].bytes \in Nat
  BY DEF Sound, UsageTypeOK, Entry
<1>6. op \in Operation /\ SessionInv /\ EntryInv /\ MoveInv
      /\ ExactInv /\ CoverInv /\ QuotaInv
  BY <1>1 DEF Sound, StoreInv, FilesInv, TypeInv, TypeOK, UsageInv
<1> QED BY <1>1, <1>2, <1>3, <1>4, <1>5, <1>6

CountsHold == ExactInv' /\ CoverInv' /\ QuotaInv'

\* Nothing is promised of the index once a second call has failed.
LEMMA CountsOfMany ==
  ASSUME Sound, faults' <= 1 => CountsHold
  PROVE  CountsHold
<1>1. faults' \in Nat
  BY SoundTypes
<1> QED BY <1>1, InSumsAfter DEF CountsHold

\* What is claimed only shrinks in most steps.
LEMMA QuotaStays ==
  ASSUME Sound, size' = size,
         faults' <= 1 => /\ Shrinks(ClaimedFiles, CountedTrash, ClaimedFiles', CountedTrash')
                         /\ ClaimedSessions' \subseteq ClaimedSessions
  PROVE  QuotaInv'
<1>a. /\ CountedSets /\ CountedSets' /\ size \in [FileIds -> Nat]
      /\ faults \in Nat /\ faults' \in Nat /\ faults <= faults' /\ Quota \in Nat
      /\ QuotaInv
  BY SoundTypes
<1> SUFFICES ASSUME Quota > 0, faults' <= 1
             PROVE  Within(size', ClaimedFiles', CountedTrash', ClaimedSessions')
  BY InSumsAfter
<1>1. Within(size, ClaimedFiles, CountedTrash, ClaimedSessions)
  BY <1>a, InSums
<1>2. Held(size, ClaimedFiles', CountedTrash') <= Held(size, ClaimedFiles, CountedTrash)
  BY <1>a, HeldShrinks DEF CountedSets
<1>3. Held(size, ClaimedFiles', CountedTrash') \in Nat /\ Held(size, ClaimedFiles, CountedTrash) \in Nat
  BY <1>a, HeldPair DEF CountedSets
<1>4. /\ Kept(ClaimedSessions') <= Kept(ClaimedSessions)
      /\ Kept(ClaimedSessions) \in Nat /\ Kept(ClaimedSessions') \in Nat
  BY <1>a, KeptSums DEF CountedSets
<1> QED BY <1>a, <1>1, <1>2, <1>3, <1>4 DEF Within

LEMMA SettledCounts ==
  ASSUME Sound, FilesSettle, SessionsSettle, size' = size, usage' = usage, valid' => valid
  PROVE  CountsHold
<1>a. /\ CountedSets /\ CountedSets' /\ size \in [FileIds -> Nat]
      /\ faults \in Nat /\ faults' \in Nat /\ faults <= faults'
      /\ \A c \in Categories : usage[c].bytes \in Nat
      /\ ExactInv /\ CoverInv
  BY SoundTypes
<1>1. ExactInv'
  BY <1>a, InSums, InSumsAfter DEF FilesSettle, SessionsSettle
<1>2. CoverInv'
  <2> SUFFICES ASSUME valid', faults' <= 1
               PROVE  Cover(size', usage', CountedFiles', CountedTrash', CountedSessions')
    BY InSumsAfter
  <2>1. Cover(size, usage, CountedFiles, CountedTrash, CountedSessions)
    BY <1>a, InSums
  <2>2. Held(size, CountedFiles', CountedTrash') <= Held(size, CountedFiles, CountedTrash)
    BY <1>a, HeldShrinks DEF CountedSets, FilesSettle
  <2>3. Held(size, CountedFiles', CountedTrash') \in Nat /\ Held(size, CountedFiles, CountedTrash) \in Nat
    BY <1>a, HeldPair DEF CountedSets
  <2>4. /\ Kept(CountedSessions') <= Kept(CountedSessions)
        /\ Kept(CountedSessions) \in Nat /\ Kept(CountedSessions') \in Nat
    BY <1>a, KeptSums DEF CountedSets, SessionsSettle
  <2>5. Total(usage) \in Nat
    BY <1>a DEF Total, Categories
  <2> QED BY <2>1, <2>2, <2>3, <2>4, <2>5 DEF Cover
<1>3. QuotaInv'
  BY QuotaStays DEF FilesSettle, SessionsSettle
<1> QED BY <1>1, <1>2, <1>3 DEF CountsHold

LEMMA QuietCounts ==
  ASSUME Sound, Uncounted
  PROVE  CountsHold
<1>1. FilesSettle /\ SessionsSettle
  BY QuietSteps, FileOperationsSettle, SessionOperationsSettle, OtherStepsSettle
     DEF Sound, UsageInv, SessionMoves
<1>2. size' = size /\ usage' = usage /\ valid' = valid
  BY QuietSteps DEF usageVars
<1> QED BY <1>1, <1>2, SettledCounts

-----------------------------------------------------------------------------
(* The steps that count. *)

\* A fresh scan is exact.
LEMMA RescanExact ==
  ASSUME UsageTypeOK
  PROVE  /\ Exact(size, Rescan, Live, Trashed, Open) /\ Cover(size, Rescan, Live, Trashed, Open)
         /\ Total(Rescan) = Held(size, Live, Trashed) + Kept(Open)
<1>1. /\ Rescan["files"].bytes = SumOf(size, Live)
      /\ Rescan["trash"].bytes = SumOf(size, Trashed)
      /\ Rescan["uploads"].bytes = Kept(Open)
  BY RescanCounts DEF Kept
<1>2. SumOf(size, Live) \in Nat /\ SumOf(size, Trashed) \in Nat /\ Kept(Open) \in Nat
  BY SizesAreNat, StoredSets, SumType, KeptSums
<1> QED BY <1>1, <1>2 DEF Exact, Cover, Held, Total

\* moveUsage takes no more from the owner's total than it is told to.
LEMMA MoveTotals ==
  ASSUME UsageTypeOK, valid, NEW from \in Kinds, NEW to \in Kinds, from # to, NEW n \in Nat,
         MoveUsage(from, to, n)
  PROVE  /\ Total(usage) \in Nat /\ Total(usage') \in Nat
         /\ to # "nowhere" => Total(usage') >= Total(usage)
         /\ from = "nowhere" => Total(usage') = Total(usage) + n
         /\ Total(usage') + n >= Total(usage)
<1>1. usage' \in [Categories -> Entry]
      /\ \A c \in Categories : usage'[c].bytes = After(usage, from, to, n, c)
  BY MoveCounts
<1>2. \A c \in Categories : usage[c].bytes \in Nat /\ usage'[c].bytes \in Nat
  BY <1>1 DEF UsageTypeOK, Entry
<1> QED BY <1>1, <1>2 DEF Total, After, Categories, Kinds

LEMMA LoadCounts ==
  ASSUME Sound, LoadUsage
  PROVE  CountsHold
<1>a. /\ CountedSets /\ CountedSets' /\ size \in [FileIds -> Nat]
      /\ faults \in Nat /\ faults' \in Nat /\ faults <= faults' /\ Quota \in Nat /\ UploadSize \in Nat \ {0}
      /\ \A c \in Categories : usage[c].bytes \in Nat /\ usage'[c].bytes \in Nat
      /\ op \in Operation /\ TypeInv /\ SessionInv
      /\ ExactInv /\ CoverInv /\ QuotaInv
  BY SoundTypes
<1>b. UsageTypeOK /\ UNCHANGED <<size, manifests, trash>>
  BY DEF Sound, LoadUsage, Loads, UsageLoad, Put, StartCreateDir, StartRefused, Frame, Sessions,
         diskVars, fileVars
<1>l. IF index = "unloaded" /\ index' = "loaded" THEN usage' = Rescan /\ valid' = TRUE
      ELSE UNCHANGED <<usage, valid>>
  BY DEF LoadUsage, Loads
<1> USE DEF At, Frame, Sessions, Serving, diskVars, fileVars
<1>1. /\ op.pc \in {"idle", "startDir"}
      /\ \/ op'.pc \in {"idle", "putBody"} /\ uploads' = uploads
         \/ /\ op.pc = "startDir" /\ op'.pc = "startPart" /\ op'.session = op.session
            /\ uploads' = [uploads EXCEPT ![op.session].dir = TRUE]
            /\ index' = "loaded" /\ Admits(usage', UploadSize)
  <2>1. CASE UsageLoad
    BY <2>1, IdleOperation DEF UsageLoad
  <2>2. ASSUME NEW id \in FileIds, Put(id) PROVE op.pc = "idle" /\ op'.pc = "putBody" /\ uploads' = uploads
    BY <2>2, IdleOperation DEF Put, Idle
  <2>3. CASE StartCreateDir /\ Admits(usage', UploadSize)
    <3>1. Goto("startPart") /\ op.pc = "startDir"
      BY <2>3 DEF StartCreateDir
    <3>2. op'.pc = "startPart" /\ op'.session = op.session
      BY <3>1, <1>a, GotoKeepsOperation, PlaceNames
    <3> QED BY <2>3, <3>1, <3>2 DEF StartCreateDir
  <2>4. CASE StartRefused
    BY <2>4, ReturnKeepsOperation DEF StartRefused
  <2> QED BY <2>1, <2>2, <2>3, <2>4 DEF LoadUsage
<1>2. Live' = Live /\ Trashed' = Trashed
  BY <1>b DEF Live, Trashed, TrashOK
<1>3. /\ CountedFiles = Live /\ CountedTrash = Trashed /\ CountedFiles' = Live /\ CountedTrash' = Trashed
      /\ ClaimedFiles = Live /\ ClaimedFiles' = Live
  BY <1>1, <1>2 DEF CountedFiles, CountedTrash, ClaimedFiles, PutPlaces, CompletePlaces, DeletePlaces, RestorePlaces
<1>4. CountedSessions = Open /\ ClaimedSessions = Open
  BY <1>1 DEF CountedSessions, ClaimedSessions, StartPlaces, AppendPlaces, CompletePlaces
<1>5. op'.pc = "startPart" => op.session \in UploadIds /\ op.session \notin Open /\ Open' = Open
  <2> SUFFICES ASSUME op'.pc = "startPart"
               PROVE  op.session \in UploadIds /\ op.session \notin Open /\ Open' = Open
    OBVIOUS
  <2>1. op.pc = "startDir" /\ uploads' = [uploads EXCEPT ![op.session].dir = TRUE]
    BY <1>1
  <2>2. op.session \in UploadIds /\ uploads \in [UploadIds -> Session]
    BY <2>1, <1>a DEF TypeInv, TypeOK, OpOK, SessionPlaces
  <2>3. uploads[op.session] = NoSession
    BY <2>1, <2>2, <1>a, ConstantsAssumption DEF SessionInv, StartInv, Mine
  <2>4. op.session \notin Open
    BY <2>3 DEF Open, UploadOK, NoSession
  <2>5. Open' = Open
    BY <2>1, <2>2 DEF Open, UploadOK, Session
  <2> QED BY <2>2, <2>4, <2>5
<1>6. CountedSessions' = Open
  <2>1. CASE op'.pc = "startPart"
    BY <2>1, <1>1, <1>5 DEF CountedSessions, StartPlaces
  <2>2. CASE op'.pc # "startPart"
    <3>1. Open' = Open
      BY <2>2, <1>1 DEF Open, UploadOK
    <3> QED BY <2>2, <3>1, <1>1 DEF CountedSessions, StartPlaces, AppendPlaces, CompletePlaces
  <2> QED BY <2>1, <2>2
<1>7. ExactInv' /\ CoverInv'
  <2>1. CASE index = "unloaded" /\ index' = "loaded"
    BY <2>1, <1>a, <1>b, <1>l, <1>3, <1>6, RescanExact, InSumsAfter
  <2>2. CASE ~(index = "unloaded" /\ index' = "loaded")
    BY <2>2, <1>a, <1>b, <1>l, <1>3, <1>4, <1>6, InSums, InSumsAfter
  <2> QED BY <2>1, <2>2
<1>8. QuotaInv'
  <2>1. CASE op'.pc = "startPart"
    <3> SUFFICES ASSUME Quota > 0, faults' <= 1 PROVE Within(size', ClaimedFiles', CountedTrash', ClaimedSessions')
      BY InSumsAfter
    <3>1. ClaimedSessions' = Open \cup {op.session}
      BY <2>1, <1>1, <1>5 DEF ClaimedSessions, StartPlaces
    <3>2. valid'
      BY <2>1, <1>1 DEF Sound, ValidInv
    <3>3. Held(size, Live, Trashed) + Kept(Open) <= Total(usage')
      BY <3>2, <1>7, <1>b, <1>3, <1>6, InSumsAfter DEF Cover
    <3>4. Total(usage') <= Quota /\ UploadSize <= Quota - Total(usage')
      BY <2>1, <1>1 DEF Admits
    <3>5. Open \ {op.session} = Open /\ Kept(Open \cup {op.session}) = Kept(Open) + UploadSize /\ Kept(Open) \in Nat
      <4>1. Open \ {op.session} = Open
        BY <2>1, <1>5
      <4> QED BY <4>1, <2>1, <1>5, StoredSets, KeptSums
    <3>6. Total(usage') \in Nat
      BY <1>a DEF Total, Categories
    <3>7. Held(size, Live, Trashed) \in Nat
      BY <1>a, StoredSets, HeldPair
    <3> QED BY <1>a, <1>b, <1>3, <3>1, <3>3, <3>4, <3>5, <3>6, <3>7 DEF Within
  <2>2. CASE op'.pc # "startPart"
    <3>1. Open' = Open
      BY <2>2, <1>1 DEF Open, UploadOK
    <3>2. ClaimedSessions' = Open
      BY <2>2, <3>1, <1>1 DEF ClaimedSessions, CountedSessions, StartPlaces, AppendPlaces, CompletePlaces
    <3> QED BY <1>b, <1>3, <1>4, <3>2, QuotaStays DEF Shrinks
  <2> QED BY <2>1, <2>2
<1> QED BY <1>7, <1>8 DEF CountsHold

\* One file is put, deleted, restored or purged: who has it before and after.
Given(S, kind, from, to, f) ==
  IF kind = from THEN S \ {f} ELSE IF kind = to THEN S \cup {f} ELSE S

LEMMA GivenSums ==
  ASSUME NEW g \in [FileIds -> Nat], NEW S \in SUBSET FileIds, NEW f \in FileIds,
         NEW kind, NEW from, NEW to, from # to,
         kind = from => f \in S, kind = to => f \notin S
  PROVE  /\ SumOf(g, S) \in Nat /\ SumOf(g, Given(S, kind, from, to, f)) \in Nat
         /\ kind = from => SumOf(g, S) = SumOf(g, Given(S, kind, from, to, f)) + g[f]
         /\ kind = to => SumOf(g, Given(S, kind, from, to, f)) = SumOf(g, S) + g[f]
         /\ kind # from /\ kind # to => SumOf(g, Given(S, kind, from, to, f)) = SumOf(g, S)
<1>1. SumOf(g, S \cup {f}) = SumOf(g, S \ {f}) + g[f]
  BY SumWith
<1>2. SumOf(g, S) \in Nat /\ SumOf(g, S \cup {f}) \in Nat /\ SumOf(g, S \ {f}) \in Nat
  BY SumType
<1>3. CASE kind = from
  <2>1. S \cup {f} = S /\ Given(S, kind, from, to, f) = S \ {f}
    BY <1>3 DEF Given
  <2> QED BY <1>1, <1>2, <1>3, <2>1
<1>4. CASE kind = to
  <2>1. S \ {f} = S /\ Given(S, kind, from, to, f) = S \cup {f}
    BY <1>4 DEF Given
  <2> QED BY <1>1, <1>2, <1>4, <2>1
<1>5. CASE kind # from /\ kind # to
  BY <1>2, <1>5 DEF Given
<1> QED BY <1>3, <1>4, <1>5

LEMMA FileCounts ==
  ASSUME Sound, NEW f \in FileIds, NEW from \in {"files", "trash", "nowhere"},
         NEW to \in {"files", "trash", "nowhere"}, from # to, faults' <= 1,
         \/ MoveUsage(from, to, size[f])
         \/ faults' # 0 /\ from # "nowhere" /\ to # "nowhere" /\ UNCHANGED <<usage, valid, size>>,
         from = "files" => f \in CountedFiles, to = "files" => f \notin CountedFiles,
         from = "trash" => f \in CountedTrash, to = "trash" => f \notin CountedTrash,
         CountedFiles' = Given(CountedFiles, "files", from, to, f),
         CountedTrash' = Given(CountedTrash, "trash", from, to, f),
         CountedSessions' = CountedSessions,
         Shrinks(ClaimedFiles, CountedTrash, ClaimedFiles', CountedTrash'),
         ClaimedSessions' \subseteq ClaimedSessions
  PROVE  CountsHold
<1>a. /\ CountedSets /\ CountedSets' /\ size \in [FileIds -> Nat]
      /\ faults \in Nat /\ faults' \in Nat /\ faults <= faults'
      /\ \A c \in Categories : usage[c].bytes \in Nat /\ usage'[c].bytes \in Nat
      /\ ExactInv /\ CoverInv /\ UsageTypeOK
  BY SoundTypes DEF Sound
<1>k. from \in Kinds /\ to \in Kinds /\ size[f] \in Nat
  BY <1>a DEF Kinds, Categories
<1>b. size' = size /\ valid' = valid
  BY DEF MoveUsage
<1> DEFINE n == size[f]
<1>1. /\ SumOf(size, CountedFiles) \in Nat /\ SumOf(size, CountedFiles') \in Nat
      /\ from = "files" => SumOf(size, CountedFiles) = SumOf(size, CountedFiles') + n
      /\ to = "files" => SumOf(size, CountedFiles') = SumOf(size, CountedFiles) + n
      /\ from # "files" /\ to # "files" => SumOf(size, CountedFiles') = SumOf(size, CountedFiles)
  BY <1>a, GivenSums DEF CountedSets
<1>2. /\ SumOf(size, CountedTrash) \in Nat /\ SumOf(size, CountedTrash') \in Nat
      /\ from = "trash" => SumOf(size, CountedTrash) = SumOf(size, CountedTrash') + n
      /\ to = "trash" => SumOf(size, CountedTrash') = SumOf(size, CountedTrash) + n
      /\ from # "trash" /\ to # "trash" => SumOf(size, CountedTrash') = SumOf(size, CountedTrash)
  BY <1>a, GivenSums DEF CountedSets
<1>3. ExactInv'
  <2> SUFFICES ASSUME valid, faults' = 0
               PROVE  Exact(size', usage', CountedFiles', CountedTrash', CountedSessions')
    BY <1>b, InSumsAfter
  <2>1. MoveUsage(from, to, n) /\ faults = 0
    BY <1>a
  <2>2. \A c \in Categories : usage'[c].bytes = After(usage, from, to, n, c)
    BY <1>a, <1>k, <2>1, MoveCounts
  <2>3. Exact(size, usage, CountedFiles, CountedTrash, CountedSessions)
    BY <1>a, <2>1, InSums
  <2> HIDE DEF n
  <2>4. /\ usage'["files"].bytes = SumOf(size, CountedFiles')
        /\ usage'["trash"].bytes = SumOf(size, CountedTrash')
        /\ usage'["uploads"].bytes = usage["uploads"].bytes
    BY <1>1, <1>2, <1>k, <1>a, <2>2, <2>3 DEF n, Exact, After, Categories
  <2> QED BY <1>b, <2>3, <2>4 DEF Exact
<1>4. CoverInv'
  <2> SUFFICES ASSUME valid
               PROVE  Cover(size', usage', CountedFiles', CountedTrash', CountedSessions')
    BY <1>b, InSumsAfter
  <2>1. Cover(size, usage, CountedFiles, CountedTrash, CountedSessions)
    BY <1>a, InSums
  <2>2. /\ Held(size, CountedFiles, CountedTrash) \in Nat /\ Held(size, CountedFiles', CountedTrash') \in Nat
        /\ from # "nowhere" /\ to # "nowhere" =>
             Held(size, CountedFiles', CountedTrash') = Held(size, CountedFiles, CountedTrash)
        /\ from = "nowhere" =>
             Held(size, CountedFiles', CountedTrash') = Held(size, CountedFiles, CountedTrash) + n
        /\ to = "nowhere" =>
             Held(size, CountedFiles, CountedTrash) = Held(size, CountedFiles', CountedTrash') + n
    <3> HIDE DEF n
    <3> QED BY <1>1, <1>2, <1>k DEF n, Held
  <2>3. Kept(CountedSessions) \in Nat
    BY <1>a, KeptSums DEF CountedSets
  <2>4. Total(usage) \in Nat
    BY <1>a DEF Total, Categories
  <2>6. CASE MoveUsage(from, to, n)
    <3>1. /\ Total(usage') \in Nat
          /\ to # "nowhere" => Total(usage') >= Total(usage)
          /\ from = "nowhere" => Total(usage') = Total(usage) + n
          /\ Total(usage') + n >= Total(usage)
      BY <1>a, <1>k, <2>6, MoveTotals
    <3> HIDE DEF n
    <3> QED BY <1>b, <1>k, <2>1, <2>2, <2>3, <2>4, <3>1 DEF n, Cover
  <2>7. CASE from # "nowhere" /\ to # "nowhere" /\ UNCHANGED <<usage, valid, size>>
    BY <2>1, <2>2, <2>7 DEF Cover
  <2> QED BY <2>6, <2>7
<1>5. QuotaInv'
  BY <1>b, QuotaStays
<1> QED BY <1>3, <1>4, <1>5 DEF CountsHold

LEMMA KeptMoves ==
  ASSUME NEW S \in SUBSET UploadIds, NEW s \in UploadIds
  PROVE  /\ Kept(S \ {s}) \in Nat
         /\ s \in S => Kept(S) = Kept(S \ {s}) + UploadSize
         /\ s \notin S => Kept(S) = Kept(S \ {s})
<1>1. s \in S => S \cup {s} = S
  OBVIOUS
<1>2. s \notin S => S \ {s} = S
  OBVIOUS
<1>3. Kept(S \cup {s}) = Kept(S \ {s}) + UploadSize /\ Kept(S \ {s}) \in Nat
  BY KeptSums
<1> QED BY <1>1, <1>2, <1>3, Zenon

\* A reservation is made or released.
LEMMA ReservationCounts ==
  ASSUME Sound, NEW s \in UploadIds, NEW from \in {"uploads", "nowhere"},
         NEW to \in {"uploads", "nowhere"}, from # to,
         MoveUsage(from, to, UploadSize),
         CountedSessions \ {s} = CountedSessions' \ {s},
         s \in CountedSessions <=> from = "uploads", s \in CountedSessions' <=> to = "uploads",
         CountedFiles' = CountedFiles, CountedTrash' = CountedTrash,
         ClaimedFiles' = ClaimedFiles, ClaimedSessions' \subseteq ClaimedSessions
  PROVE  CountsHold
<1>a. /\ CountedSets /\ CountedSets' /\ size \in [FileIds -> Nat]
      /\ faults \in Nat /\ faults' \in Nat /\ faults <= faults' /\ UploadSize \in Nat \ {0}
      /\ \A c \in Categories : usage[c].bytes \in Nat /\ usage'[c].bytes \in Nat
      /\ ExactInv /\ CoverInv /\ UsageTypeOK
  BY SoundTypes DEF Sound
<1>k. from \in Kinds /\ to \in Kinds
  BY DEF Kinds, Categories
<1>b. size' = size /\ valid' = valid
  BY DEF MoveUsage
<1> DEFINE rest == Kept(CountedSessions \ {s})
<1>1. /\ rest \in Nat
      /\ Kept(CountedSessions) = rest + (IF from = "uploads" THEN UploadSize ELSE 0)
  <2>1. /\ rest \in Nat
        /\ s \in CountedSessions => Kept(CountedSessions) = rest + UploadSize
        /\ s \notin CountedSessions => Kept(CountedSessions) = rest
    BY <1>a, KeptMoves DEF CountedSets
  <2> HIDE DEF rest
  <2> QED BY <2>1
<1>2. Kept(CountedSessions') = rest + (IF to = "uploads" THEN UploadSize ELSE 0)
  <2>1. /\ s \in CountedSessions' => Kept(CountedSessions') = Kept(CountedSessions' \ {s}) + UploadSize
        /\ s \notin CountedSessions' => Kept(CountedSessions') = Kept(CountedSessions' \ {s})
    BY <1>a, KeptMoves DEF CountedSets
  <2>2. Kept(CountedSessions' \ {s}) = rest
    BY Zenon
  <2> HIDE DEF rest
  <2> QED BY <1>1, <2>1, <2>2
<1> HIDE DEF rest
<1>3. ExactInv'
  <2> SUFFICES ASSUME valid, faults' = 0
               PROVE  Exact(size', usage', CountedFiles', CountedTrash', CountedSessions')
    BY <1>b, InSumsAfter
  <2>1. \A c \in Categories : usage'[c].bytes = After(usage, from, to, UploadSize, c)
    BY <1>a, <1>k, MoveCounts
  <2>2. Exact(size, usage, CountedFiles, CountedTrash, CountedSessions)
    BY <1>a, InSums
  <2> QED BY <1>a, <1>b, <1>1, <1>2, <2>1, <2>2 DEF Exact, After, Categories
<1>4. CoverInv'
  <2> SUFFICES ASSUME valid, faults' <= 1
               PROVE  Cover(size', usage', CountedFiles', CountedTrash', CountedSessions')
    BY <1>b, InSumsAfter
  <2>1. Cover(size, usage, CountedFiles, CountedTrash, CountedSessions)
    BY <1>a, InSums
  <2>2. Held(size, CountedFiles, CountedTrash) \in Nat
    BY <1>a, HeldPair DEF CountedSets
  <2>3. /\ Total(usage) \in Nat /\ Total(usage') \in Nat
        /\ to # "nowhere" => Total(usage') >= Total(usage)
        /\ from = "nowhere" => Total(usage') = Total(usage) + UploadSize
        /\ Total(usage') + UploadSize >= Total(usage)
    BY <1>a, <1>k, MoveTotals
  <2> QED BY <1>a, <1>b, <1>1, <1>2, <2>1, <2>2, <2>3 DEF Cover
<1>5. QuotaInv'
  BY <1>b, QuotaStays DEF Shrinks
<1> QED BY <1>3, <1>4, <1>5 DEF CountsHold

\* A reservation becomes a file.
LEMMA CompleteCounts ==
  ASSUME Sound, NEW s \in UploadIds, NEW f \in FileIds, size[f] = UploadSize,
         MoveUsage("uploads", "files", UploadSize),
         s \in CountedSessions, CountedSessions' = CountedSessions \ {s},
         f \notin CountedFiles, CountedFiles' = CountedFiles \cup {f},
         CountedTrash' = CountedTrash,
         ClaimedFiles' = ClaimedFiles, ClaimedSessions' \subseteq ClaimedSessions
  PROVE  CountsHold
<1>a. /\ CountedSets /\ CountedSets' /\ size \in [FileIds -> Nat]
      /\ faults \in Nat /\ faults' \in Nat /\ faults <= faults' /\ UploadSize \in Nat \ {0}
      /\ \A c \in Categories : usage[c].bytes \in Nat /\ usage'[c].bytes \in Nat
      /\ ExactInv /\ CoverInv /\ UsageTypeOK
  BY SoundTypes DEF Sound
<1>k. "uploads" \in Kinds /\ "files" \in Kinds
  BY DEF Kinds, Categories
<1>b. size' = size /\ valid' = valid
  BY DEF MoveUsage
<1>1. Kept(CountedSessions') \in Nat /\ Kept(CountedSessions) = Kept(CountedSessions') + UploadSize
  BY <1>a, KeptMoves DEF CountedSets
<1>2. /\ SumOf(size, CountedFiles') = SumOf(size, CountedFiles) + UploadSize
      /\ SumOf(size, CountedFiles') \in Nat /\ SumOf(size, CountedFiles) \in Nat
  <2>1. SumOf(size, CountedFiles \cup {f}) = SumOf(size, CountedFiles \ {f}) + size[f]
    BY <1>a, SumWith DEF CountedSets
  <2>2. CountedFiles \ {f} = CountedFiles
    OBVIOUS
  <2>3. SumOf(size, CountedFiles') = SumOf(size, CountedFiles) + UploadSize
    BY <2>1, <2>2, Zenon
  <2>4. SumOf(size, CountedFiles') \in Nat /\ SumOf(size, CountedFiles) \in Nat
    BY <1>a, SumType DEF CountedSets
  <2> QED BY <2>3, <2>4
<1>3. ExactInv'
  <2> SUFFICES ASSUME valid, faults' = 0
               PROVE  Exact(size', usage', CountedFiles', CountedTrash', CountedSessions')
    BY <1>b, InSumsAfter
  <2>1. \A c \in Categories : usage'[c].bytes = After(usage, "uploads", "files", UploadSize, c)
    BY <1>a, <1>k, MoveCounts
  <2>2. Exact(size, usage, CountedFiles, CountedTrash, CountedSessions)
    BY <1>a, InSums
  <2> QED BY <1>a, <1>b, <1>1, <1>2, <2>1, <2>2 DEF Exact, After, Categories
<1>4. CoverInv'
  <2> SUFFICES ASSUME valid, faults' <= 1
               PROVE  Cover(size', usage', CountedFiles', CountedTrash', CountedSessions')
    BY <1>b, InSumsAfter
  <2>1. Held(size, CountedFiles, CountedTrash) + Kept(CountedSessions) <= Total(usage)
    BY <1>a, InSums DEF Cover
  <2>2. SumOf(size, CountedTrash) \in Nat
    BY <1>a, SumType DEF CountedSets
  <2>3. Total(usage) \in Nat /\ Total(usage') \in Nat /\ Total(usage') >= Total(usage)
    BY <1>a, <1>k, MoveTotals
  <2>4. Held(size, CountedFiles', CountedTrash') + Kept(CountedSessions') <= Total(usage')
    BY <1>a, <1>1, <1>2, <2>1, <2>2, <2>3 DEF Held
  <2> QED BY <1>b, <2>4 DEF Cover
<1>5. QuotaInv'
  BY <1>b, QuotaStays DEF Shrinks
<1> QED BY <1>3, <1>4, <1>5 DEF CountsHold

LEMMA FileStepsCount ==
  ASSUME Sound, CountPut \/ CountDelete \/ CountRestore \/ CountPurge
  PROVE  CountsHold
<1> SUFFICES ASSUME faults' <= 1 PROVE CountsHold
  BY CountsOfMany
<1>a. /\ op \in Operation /\ TypeInv /\ MoveInv /\ DoneInv
      /\ faults \in Nat /\ faults' \in Nat /\ faults <= 1 /\ faults <= faults'
      /\ trash \in [FileIds -> TrashItem]
  BY SoundTypes DEF Sound, UsageInv, TypeInv, TypeOK
<1>p. op.pc \in CreatePlaces \cup MovePlaces => op.file \in FileIds
  BY <1>a DEF TypeInv, OpOK
<1> USE DEF At, Frame, diskVars, fileVars
<1>u. uploads' = uploads
  BY DEF CountPut, CountDelete, CountRestore, CountPurge, PutAck, DeleteReturn, RestoreReturn, PurgeRemoveDir
<1>s. CountedSessions' = CountedSessions /\ ClaimedSessions' = ClaimedSessions
  <2>1. op.pc \in {"putSync", "delSync", "resSync", "purgeDrop"}
    BY DEF CountPut, CountDelete, CountRestore, CountPurge, PutAck, DeleteReturn, RestoreReturn, PurgeRemoveDir
  <2>2. op'.pc \in {"idle", "purge"}
    <3>1. CASE CountPurge
      BY <3>1, <1>a DEF CountPurge, PurgeRemoveDir, Operation
    <3>2. CASE ~CountPurge
      BY <3>2, ReturnKeepsOperation DEF CountPut, CountDelete, CountRestore, PutAck, DeleteReturn, RestoreReturn
    <3> QED BY <3>1, <3>2
  <2>3. Open' = Open
    BY <1>u DEF Open, UploadOK
  <2> QED BY <2>1, <2>2, <2>3 DEF CountedSessions, ClaimedSessions, StartPlaces, AppendPlaces, CompletePlaces
<1> DEFINE f == op.file
<1> USE DEF PutPlaces, CompletePlaces, DeletePlaces, RestorePlaces
<1>1. CASE CountPut
  <2>1. /\ op.pc = "putSync" /\ op'.pc = "idle" /\ UNCHANGED <<manifests, trash>>
        /\ MoveUsage("nowhere", "files", size[f])
    BY <1>1, ReturnKeepsOperation DEF CountPut, PutAck
  <2>2. f \in FileIds /\ f \in Live
    BY <2>1, <1>a, <1>p DEF CreatePlaces, DoneInv, Live
  <2>3. Live' = Live /\ Trashed' = Trashed
    BY <2>1 DEF Live, Trashed, TrashOK
  <2>4. CountedFiles = Live \ {f} /\ CountedTrash = Trashed /\ ClaimedFiles = (Live \ {f}) \cup {f}
    BY <2>1 DEF CountedFiles, CountedTrash, ClaimedFiles
  <2>5. CountedFiles' = Live /\ CountedTrash' = Trashed /\ ClaimedFiles' = Live
    BY <2>1, <2>3 DEF CountedFiles, CountedTrash, ClaimedFiles
  <2> HIDE DEF f
  <2> QED BY <1>s, <2>1, <2>2, <2>4, <2>5, FileCounts DEF Given, Shrinks
<1>2. CASE CountDelete
  <2>1. /\ op.pc = "delSync" /\ op'.pc = "idle" /\ UNCHANGED <<manifests, trash>>
        /\ \/ MoveUsage("files", "trash", size[f])
           \/ faults' # 0 /\ UNCHANGED <<usage, valid, size>>
    BY <1>2, <1>a, ReturnKeepsOperation DEF CountDelete, DeleteReturn
  <2>2. f \in FileIds /\ f \notin Live /\ f \in Trashed
    BY <2>1, <1>a, <1>p DEF MovePlaces, MoveInv, Twice, Single, DoneInv, Live, Trashed, TrashOK
  <2>3. Live' = Live /\ Trashed' = Trashed
    BY <2>1 DEF Live, Trashed, TrashOK
  <2>4. /\ CountedFiles = Live \cup {f} /\ CountedTrash = Trashed \ {f}
        /\ ClaimedFiles = Live \cup {f}
    BY <2>1 DEF CountedFiles, CountedTrash, ClaimedFiles
  <2>5. CountedFiles' = Live /\ CountedTrash' = Trashed /\ ClaimedFiles' = Live
    BY <2>1, <2>3 DEF CountedFiles, CountedTrash, ClaimedFiles
  <2> HIDE DEF f
  <2> QED BY <1>s, <2>1, <2>2, <2>4, <2>5, FileCounts DEF Given, Shrinks
<1>3. CASE CountRestore
  <2>1. /\ op.pc = "resSync" /\ op'.pc = "idle" /\ UNCHANGED <<manifests, trash>>
        /\ MoveUsage("trash", "files", size[f])
    BY <1>3, ReturnKeepsOperation DEF CountRestore, RestoreReturn
  <2>2. f \in FileIds /\ f \in Live /\ f \notin Trashed
    BY <2>1, <1>a, <1>p DEF MovePlaces, MoveInv, Twice, Single, DoneInv, Live, Trashed, TrashOK
  <2>3. Live' = Live /\ Trashed' = Trashed
    BY <2>1 DEF Live, Trashed, TrashOK
  <2>4. /\ CountedFiles = Live \ {f} /\ CountedTrash = Trashed \cup {f}
        /\ ClaimedFiles = Live \ {f}
    BY <2>1 DEF CountedFiles, CountedTrash, ClaimedFiles
  <2>5. CountedFiles' = Live /\ CountedTrash' = Trashed /\ ClaimedFiles' = Live
    BY <2>1, <2>3 DEF CountedFiles, CountedTrash, ClaimedFiles
  <2> HIDE DEF f
  <2> QED BY <1>s, <2>1, <2>2, <2>4, <2>5, FileCounts DEF Given, Shrinks
<1>4. CASE CountPurge
  <2>1. /\ op.pc = "purgeDrop" /\ op'.pc = "purge" /\ UNCHANGED manifests
        /\ trash' = [trash EXCEPT ![f] = NoTrash]
        /\ MoveUsage("trash", "nowhere", size[f])
    BY <1>4, <1>a DEF CountPurge, PurgeRemoveDir, Operation
  <2>2. f \in FileIds
    BY <2>1, <1>p DEF MovePlaces
  <2>3. Live' = Live /\ Trashed' = Trashed \ {f}
    BY <2>1, <2>2, <1>a DEF Live, Trashed, TrashOK, NoTrash
  <2>4. CountedFiles = Live /\ CountedTrash = Trashed \cup {f} /\ ClaimedFiles = Live
    BY <2>1 DEF CountedFiles, CountedTrash, ClaimedFiles
  <2>5. CountedFiles' = Live /\ CountedTrash' = Trashed \ {f} /\ ClaimedFiles' = Live
    BY <2>1, <2>3 DEF CountedFiles, CountedTrash, ClaimedFiles
  <2> HIDE DEF f
  <2> QED BY <1>s, <2>1, <2>2, <2>4, <2>5, FileCounts DEF Given, Shrinks
<1> QED BY <1>1, <1>2, <1>3, <1>4

\* A new file gets a size before it counts, and one that was in the trash keeps its own.
LEMMA NewFile ==
  ASSUME Sound, NEW f \in FileIds, f \notin Live, f \in Trashed => size'[f] = size[f],
         \A id \in FileIds \ {f} : size'[id] = size[id],
         CountedFiles = Live, CountedFiles' = Live, CountedTrash = Trashed, CountedTrash' = Trashed,
         CountedSessions' = CountedSessions, UNCHANGED <<usage, valid>>
  PROVE  /\ ExactInv' /\ CoverInv'
         /\ Held(size', Live \cup {f}, Trashed) = Held(size, Live, Trashed) + size'[f]
         /\ Held(size, Live, Trashed) \in Nat
<1>a. /\ size \in [FileIds -> Nat] /\ size' \in [FileIds -> Nat] /\ ExactInv /\ CoverInv
      /\ faults \in Nat /\ faults' \in Nat /\ faults <= faults'
  BY SoundTypes
<1>1. /\ \A id \in Live : size'[id] = size[id]
      /\ \A id \in Trashed : size'[id] = size[id]
  BY StoredSets
<1>2. /\ SumOf(size', Live) = SumOf(size, Live) /\ SumOf(size', Trashed) = SumOf(size, Trashed)
  BY <1>1, SumSame
<1>3. ExactInv'
  BY <1>a, <1>2, InSums, InSumsAfter DEF Exact
<1>4. CoverInv'
  BY <1>a, <1>2, InSums, InSumsAfter DEF Cover, Held
<1>5. SumOf(size', Live \cup {f}) = SumOf(size', Live) + size'[f]
  <2>1. Live \ {f} = Live
    OBVIOUS
  <2>2. SumOf(size', Live \cup {f}) = SumOf(size', Live \ {f}) + size'[f]
    BY <1>a, StoredSets, SumWith
  <2> QED BY <2>1, <2>2, Zenon
<1>6. SumOf(size, Live) \in Nat /\ SumOf(size, Trashed) \in Nat /\ size'[f] \in Nat
  BY <1>a, StoredSets, SumType
<1>7. /\ Held(size', Live \cup {f}, Trashed) = Held(size, Live, Trashed) + size'[f]
      /\ Held(size, Live, Trashed) \in Nat
  BY <1>2, <1>5, <1>6 DEF Held
<1> QED BY <1>3, <1>4, <1>7

LEMMA AdmitCounts ==
  ASSUME Sound, AdmitPut
  PROVE  CountsHold
<1> SUFFICES ASSUME faults' <= 1 PROVE CountsHold
  BY CountsOfMany
<1>a. /\ size \in [FileIds -> Nat] /\ size' \in [FileIds -> Nat] /\ Quota \in Nat
      /\ \A c \in Categories : usage[c].bytes \in Nat
      /\ op \in Operation /\ TypeInv /\ EntryInv /\ ValidInv /\ CoverInv
      /\ faults \in Nat /\ faults' \in Nat /\ faults <= 1 /\ LifecycleInv
  BY SoundTypes DEF Sound, UsageInv, StoreInv
<1> USE DEF At, Frame, diskVars, fileVars
<1> DEFINE f == op.file
<1>1. /\ op.pc = "putBody" /\ op'.pc = "putTmp" /\ op'.file = f
      /\ UNCHANGED <<manifests, trash, uploads, faults, usage, valid, reserved>>
      /\ \E n \in IF trash[f].dir THEN {size[f]} ELSE PutSizes :
           Admits(usage, n) /\ size' = [size EXCEPT ![f] = n]
  BY <1>a, GotoKeepsOperation, PlaceNames DEF AdmitPut, PutCommitObject
<1>2. f \in FileIds
  BY <1>a, <1>1 DEF TypeInv, OpOK, CreatePlaces
<1>3. f \notin Live /\ (f \in Trashed => trash[f].dir)
  BY <1>a, <1>1, <1>2 DEF LifecycleInv, CreatesManifest, EntryInv, Live, Trashed, TrashOK
<1>4. PICK n \in IF trash[f].dir THEN {size[f]} ELSE PutSizes : Admits(usage, n) /\ size' = [size EXCEPT ![f] = n]
  BY <1>1
<1>5. size'[f] = n /\ \A id \in FileIds \ {f} : size'[id] = size[id]
  BY <1>a, <1>2, <1>4
<1>6. Live' = Live /\ Trashed' = Trashed /\ Open' = Open
  BY <1>1 DEF Live, Trashed, TrashOK, Open, UploadOK
<1> HIDE DEF f
<1>7. /\ CountedFiles = Live /\ CountedTrash = Trashed
      /\ CountedSessions = Open /\ CountedSessions' = Open /\ ClaimedSessions' = Open
  BY <1>1, <1>6 DEF CountedFiles, CountedTrash, CountedSessions, ClaimedSessions,
     PutPlaces, CompletePlaces, DeletePlaces, RestorePlaces, StartPlaces, AppendPlaces
<1>8. CountedFiles' = Live /\ CountedTrash' = Trashed /\ ClaimedFiles' = Live \cup {f}
  BY <1>1, <1>3, <1>6 DEF f, CountedFiles, CountedTrash, ClaimedFiles,
     PutPlaces, CompletePlaces, DeletePlaces, RestorePlaces
<1>9. /\ ExactInv' /\ CoverInv'
      /\ Held(size', Live \cup {f}, Trashed) = Held(size, Live, Trashed) + size'[f]
      /\ Held(size, Live, Trashed) \in Nat
  <2>1. f \in Trashed => size'[f] = size[f]
    BY <1>3, <1>4, <1>5
  <2> QED BY <2>1, <1>1, <1>2, <1>3, <1>5, <1>7, <1>8, NewFile
<1>10. QuotaInv'
  <2> SUFFICES ASSUME Quota > 0, faults' <= 1 PROVE Within(size', ClaimedFiles', CountedTrash', ClaimedSessions')
    BY InSumsAfter
  <2>1. valid
    BY <1>a, <1>1 DEF ValidInv
  <2>2. Held(size, Live, Trashed) + Kept(Open) <= Total(usage)
    BY <1>a, <1>1, <1>7, <2>1, InSums DEF Cover
  <2>3. Total(usage) <= Quota /\ n <= Quota - Total(usage)
    BY <1>4 DEF Admits
  <2>4. Kept(Open) \in Nat
    BY StoredSets, KeptSums
  <2>5. Total(usage) \in Nat
    BY <1>a DEF Total, Categories
  <2>6. n \in Nat
    BY <1>2, <1>4, <1>a, UsageAssumption
  <2>7. Held(size', Live \cup {f}, Trashed) + Kept(Open) <= Quota
    BY <1>a, <1>5, <1>9, <2>2, <2>3, <2>4, <2>5, <2>6
  <2> QED BY <1>7, <1>8, <2>7, Zenon DEF Within
<1> QED BY <1>9, <1>10 DEF CountsHold

\* CompleteUpload asks for no quota: what its file takes is what the session had reserved.
LEMMA AssembleCounts ==
  ASSUME Sound, Assemble
  PROVE  CountsHold
<1>a. /\ size \in [FileIds -> Nat] /\ size' \in [FileIds -> Nat] /\ Quota \in Nat /\ UploadSize \in Nat
      /\ TypeInv /\ EntryInv /\ QuotaInv
      /\ uploads \in [UploadIds -> Session]
  BY SoundTypes DEF TypeInv, TypeOK
<1>p. PICK u \in UploadIds, f \in FileIds : CompleteUpload(u, f) /\ size' = [size EXCEPT ![f] = UploadSize]
  BY DEF Assemble
<1>1. /\ op.pc = "idle" /\ op'.pc = "cmpTmp" /\ op'.file = f /\ op'.session = u
      /\ UNCHANGED <<manifests, trash, faults, usage, valid, reserved>>
      /\ uploads' = [uploads EXCEPT ![u].part = Absent]
  BY <1>p, IdleOperation DEF CompleteUpload, Idle, Serving, Assemble
<1>2. f \notin Live /\ f \notin Trashed
  BY <1>p, <1>a DEF CompleteUpload, Fresh, EntryInv, Live, Trashed, TrashOK
<1>3. size'[f] = UploadSize /\ \A id \in FileIds \ {f} : size'[id] = size[id]
  BY <1>a, <1>p
<1>4. Live' = Live /\ Trashed' = Trashed
  BY <1>1 DEF Live, Trashed, TrashOK
<1>5. u \in Open /\ Open' = Open \ {u}
  <2>1. u \in Open
    BY <1>p DEF CompleteUpload, Open
  <2>2. /\ uploads'[u].status = "uploading" /\ uploads'[u].part = Absent
        /\ uploads'[u].received = uploads[u].received /\ uploads[u].received \in Nat
        /\ \A v \in UploadIds \ {u} : uploads'[v] = uploads[v]
    BY <2>1, <1>1, <1>a, ConstantsAssumption DEF Open, Session
  <2>3. Absent \notin Nat
    BY DEF Absent
  <2>4. ~(UploadOK(u))'
    BY <2>2, <2>3 DEF UploadOK
  <2> QED BY <2>1, <2>2, <2>4 DEF Open, UploadOK
<1>6. /\ CountedFiles = Live /\ CountedTrash = Trashed /\ ClaimedFiles = Live
      /\ CountedSessions = Open /\ ClaimedSessions = Open
  BY <1>1 DEF CountedFiles, CountedTrash, ClaimedFiles, CountedSessions, ClaimedSessions,
     PutPlaces, CompletePlaces, DeletePlaces, RestorePlaces, StartPlaces, AppendPlaces
<1>7. CountedFiles' = Live /\ CountedTrash' = Trashed /\ ClaimedFiles' = Live \cup {f}
  BY <1>1, <1>2, <1>4 DEF CountedFiles, CountedTrash, ClaimedFiles,
     PutPlaces, CompletePlaces, DeletePlaces, RestorePlaces
<1>8. CountedSessions' = Open /\ ClaimedSessions' = Open \ {u}
  BY <1>1, <1>5 DEF CountedSessions, ClaimedSessions, CompletePlaces, StartPlaces, AppendPlaces
<1>9. /\ ExactInv' /\ CoverInv'
      /\ Held(size', Live \cup {f}, Trashed) = Held(size, Live, Trashed) + size'[f]
      /\ Held(size, Live, Trashed) \in Nat
  BY <1>1, <1>2, <1>3, <1>6, <1>7, <1>8, NewFile
<1>10. QuotaInv'
  <2> SUFFICES ASSUME Quota > 0, faults' <= 1 PROVE Within(size', ClaimedFiles', CountedTrash', ClaimedSessions')
    BY InSumsAfter
  <2>1. Held(size, Live, Trashed) + Kept(Open) <= Quota
    BY <1>a, <1>1, <1>6, InSums DEF Within
  <2>2. Kept(Open) = Kept(Open \ {u}) + UploadSize /\ Kept(Open \ {u}) \in Nat
    BY <1>5, StoredSets, KeptMoves
  <2>3. Held(size', Live \cup {f}, Trashed) + Kept(Open \ {u}) <= Quota
    BY <1>a, <1>3, <1>9, <2>1, <2>2
  <2> QED BY <1>7, <1>8, <2>3, Zenon DEF Within
<1> QED BY <1>9, <1>10 DEF CountsHold

\* A session is reserved for when it starts, and its reservation becomes a file's bytes.
LEMMA SessionStepsCount ==
  ASSUME Sound, CountStart \/ CountComplete
  PROVE  CountsHold
<1>a. /\ op \in Operation /\ TypeInv /\ SessionInv /\ DoneInv /\ ReservedInv
      /\ UploadSize \in Nat \ {0}
  BY SoundTypes DEF Sound, UsageInv
<1>0. /\ op.pc \in {"startSync", "cmpSync"} /\ op'.pc = "idle"
      /\ UNCHANGED <<manifests, trash, uploads, reserved>>
  BY ReturnKeepsOperation DEF CountStart, CountComplete, StartAck, CompleteAck, Sessions, At, fileVars
<1>1. Live' = Live /\ Trashed' = Trashed /\ Open' = Open
  BY <1>0 DEF Live, Trashed, TrashOK, Open, UploadOK
<1> DEFINE s == op.session  f == op.file
<1>2. s \in UploadIds /\ (op.pc = "cmpSync" => f \in FileIds)
  BY <1>0, <1>a DEF TypeInv, OpOK, SessionPlaces, CreatePlaces
<1>3. /\ CountedFiles' = Live /\ CountedTrash' = Trashed /\ ClaimedFiles' = Live
      /\ CountedSessions' = Open /\ ClaimedSessions' = Open
  BY <1>0, <1>1 DEF CountedFiles, CountedTrash, ClaimedFiles, CountedSessions, ClaimedSessions,
     PutPlaces, CompletePlaces, DeletePlaces, RestorePlaces, StartPlaces, AppendPlaces
<1>4. CASE CountStart
  <2>1. op.pc = "startSync" /\ MoveUsage("nowhere", "uploads", UploadSize)
    BY <1>4 DEF CountStart, StartAck, At
  <2>2. s \in Open
    BY <2>1, <1>2, <1>a DEF SessionInv, StartInv, Mine, StartPlaces, Open, UploadOK
  <2>3. /\ CountedFiles = Live /\ CountedTrash = Trashed /\ ClaimedFiles = Live
        /\ CountedSessions = Open \ {s} /\ ClaimedSessions = Open \cup {s}
    BY <2>1 DEF CountedFiles, CountedTrash, ClaimedFiles, CountedSessions, ClaimedSessions,
       PutPlaces, CompletePlaces, DeletePlaces, RestorePlaces, StartPlaces, AppendPlaces
  <2> HIDE DEF s, f
  <2> QED BY <1>2, <1>3, <2>1, <2>2, <2>3, ReservationCounts
<1>5. CASE CountComplete
  <2>1. op.pc = "cmpSync" /\ MoveUsage("uploads", "files", UploadSize)
    BY <1>5 DEF CountComplete, CompleteAck, At
  <2>2. s \notin Open
    BY <2>1, <1>a, CompletingIsNotOpen DEF CompletePlaces
  <2>3. f \in FileIds /\ f \in Live /\ size[f] = UploadSize
    BY <2>1, <1>2, <1>a DEF DoneInv, ReservedInv, CompletePlaces, Live
  <2>4. /\ CountedFiles = Live \ {f} /\ CountedTrash = Trashed
        /\ ClaimedFiles = (Live \ {f}) \cup {f}
        /\ CountedSessions = Open \cup {s} /\ ClaimedSessions = Open
    BY <2>1 DEF CountedFiles, CountedTrash, ClaimedFiles, CountedSessions, ClaimedSessions,
       PutPlaces, CompletePlaces, DeletePlaces, RestorePlaces, StartPlaces, AppendPlaces
  <2> HIDE DEF s, f
  <2> QED BY <1>2, <1>3, <2>1, <2>2, <2>3, <2>4, CompleteCounts
<1> QED BY <1>4, <1>5

LEMMA ReadReservationCounts ==
  ASSUME Sound, ReadReservation
  PROVE  CountsHold
<1>a. /\ op \in Operation /\ UploadSize \in Nat \ {0} /\ UNCHANGED <<usage, valid, size>>
  BY SoundTypes DEF ReadReservation
<1>1. ASSUME NEW u \in UploadIds, AbortUpload(u), reserved' = UploadSize
      PROVE  CountsHold
  <2>1. /\ op.pc = "idle" /\ op'.pc = "drop" /\ op'.session = u /\ u \in Open
        /\ UNCHANGED <<manifests, trash, uploads>>
    BY <1>1, IdleOperation DEF AbortUpload, Serving, Sessions, fileVars, Idle, Open
  <2>2. Open' = Open
    BY <2>1 DEF Open, UploadOK
  <2>3. CountedSessions' = CountedSessions /\ ClaimedSessions' = ClaimedSessions
    BY <1>1, <1>a, <2>1, <2>2 DEF CountedSessions, ClaimedSessions, StartPlaces, AppendPlaces, CompletePlaces
  <2>4. FilesSettle
    BY <2>1, FilesAside DEF OwnFilePlaces, PutPlaces, CompletePlaces, DeletePlaces, RestorePlaces
  <2> QED BY <1>a, <2>3, <2>4, SettledCounts DEF SessionsSettle
<1>2. ASSUME NEW u \in UploadIds, SweepEntry(u),
             reserved' = IF uploads[u].status = "uploading" THEN UploadSize ELSE 0
      PROVE  CountsHold
  <2>1. /\ op.pc = "sweep" /\ op'.pc = "sweepDrop" /\ op'.victim = u
        /\ UNCHANGED <<manifests, trash, uploads>>
    BY <1>2, <1>a DEF SweepEntry, At, fileVars, Operation
  <2>2. Open' = Open /\ (reserved' # 0 => u \in Open)
    BY <1>2, <2>1 DEF Open, UploadOK, SweepEntry, Expired
  <2>3. CountedSessions' = CountedSessions /\ ClaimedSessions' = ClaimedSessions
    BY <1>a, <2>1, <2>2 DEF CountedSessions, ClaimedSessions, StartPlaces, AppendPlaces, CompletePlaces
  <2>4. FilesSettle
    BY <2>1, FilesAside DEF OwnFilePlaces, PutPlaces, CompletePlaces, DeletePlaces, RestorePlaces
  <2> QED BY <1>a, <2>3, <2>4, SettledCounts DEF SessionsSettle
<1> QED BY <1>1, <1>2 DEF ReadReservation

\* The index moves nothing when there was no reservation.
LEMMA MoveNothing ==
  ASSUME NEW from, NEW to, MoveUsage(from, to, 0)
  PROVE  UNCHANGED <<usage, valid, size>>
BY DEF MoveUsage

LEMMA ReleaseCounts ==
  ASSUME Sound, Release \/ ReleaseFails
  PROVE  CountsHold
<1>a. /\ op \in Operation /\ TypeInv /\ UploadSize \in Nat \ {0} /\ reserved \in {0, UploadSize}
      /\ ReservedInv /\ uploads \in [UploadIds -> Session] /\ faults \in Nat
  BY SoundTypes DEF Sound, UsageInv, UsageTypeOK, TypeInv, TypeOK
<1> USE DEF At, Sessions, fileVars, diskVars, ghostVars, procVars
<1>0. op.pc \in {"sweepDrop", "drop"} /\ op'.pc \in {"idle", "sweep"} /\ UNCHANGED <<manifests, trash>>
  <2>1. CASE SweepRemoveDir
    BY <2>1, <1>a DEF SweepRemoveDir, Operation
  <2>2. CASE ~SweepRemoveDir
    BY <2>2, ReturnKeepsOperation DEF Release, ReleaseFails, DropRemoveDir, DropIOError, SweepIOError
  <2> QED BY <2>1, <2>2
<1>f. FilesSettle /\ CountedFiles' = CountedFiles /\ CountedTrash' = CountedTrash /\ ClaimedFiles' = ClaimedFiles
  BY <1>0, FilesAside DEF OwnFilePlaces, PutPlaces, CompletePlaces, DeletePlaces, RestorePlaces
<1> DEFINE s == IF op.pc = "drop" THEN op.session ELSE op.victim
<1>s. s \in UploadIds
  BY <1>0, <1>a DEF TypeInv, OpOK, SessionPlaces
<1>t. CountedSessions' = Open' /\ ClaimedSessions' = Open'
  BY <1>0 DEF CountedSessions, ClaimedSessions, StartPlaces, AppendPlaces, CompletePlaces
<1>u. /\ CountedSessions = IF reserved # 0 THEN Open \cup {s}
                           ELSE IF op.pc = "drop" THEN Open \ {s} ELSE Open
      /\ Open \subseteq ClaimedSessions /\ CountedSessions \subseteq ClaimedSessions
  BY <1>0, <1>a DEF CountedSessions, ClaimedSessions, StartPlaces, AppendPlaces, CompletePlaces, ReservedInv
<1>1. CASE Release
  <2>1. EmptyDir(s) /\ uploads' = [uploads EXCEPT ![s] = NoSession]
    BY <1>1 DEF Release, SweepRemoveDir, DropRemoveDir
  <2>2. s \notin Open /\ Open' = Open
    <3>1. uploads[s].status = "none" /\ uploads'[s].status = "none"
      BY <2>1, <1>s, <1>a DEF EmptyDir, NoSession
    <3>2. \A u \in UploadIds \ {s} : uploads'[u] = uploads[u]
      BY <2>1, <1>s, <1>a
    <3> QED BY <3>1, <3>2 DEF Open, UploadOK
  <2>3. MoveUsage("uploads", "nowhere", reserved) \/ (faults' # faults /\ UNCHANGED <<usage, valid, size>>)
    BY <1>1 DEF Release
  <2> HIDE DEF s
  <2>4. CASE UNCHANGED <<usage, valid, size>> /\ (reserved = 0 \/ faults' # faults)
    <3>1. SessionsSettle
      <4>1. faults' # faults => faults' # 0
        BY <1>a DEF Sound
      <4> QED BY <4>1, <2>4, <2>2, <1>t, <1>u DEF SessionsSettle
    <3> QED BY <2>4, <3>1, <1>f, SettledCounts
  <2>5. CASE MoveUsage("uploads", "nowhere", reserved) /\ reserved = UploadSize
    BY <2>5, <2>2, <1>a, <1>s, <1>t, <1>u, <1>f, ReservationCounts
  <2> QED BY <2>3, <2>4, <2>5, <1>a, MoveNothing
<1>2. CASE ReleaseFails
  <2>1. faults' = faults + 1 /\ UNCHANGED <<uploads, usage, valid, size>>
    BY <1>2 DEF ReleaseFails, DropIOError, SweepIOError, IOError
  <2>2. Open' = Open
    BY <2>1 DEF Open, UploadOK
  <2>3. op.pc = "drop" /\ reserved = 0 => faults >= 1
    BY <1>a DEF ReservedInv
  <2>4. faults' # 0 /\ (faults' <= 1 => ~(op.pc = "drop" /\ reserved = 0))
    BY <2>1, <2>3, <1>a
  <2> HIDE DEF s
  <2>5. SessionsSettle
    BY <2>2, <2>4, <1>t, <1>u DEF SessionsSettle
  <2> QED BY <2>1, <2>5, <1>f, SettledCounts
<1> QED BY <1>1, <1>2

LEMMA AtRest ==
  ASSUME UNCHANGED <<manifests, trash, uploads>>
  PROVE  /\ op.pc \in {"idle", "rebuild"} =>
              /\ CountedFiles = Live /\ CountedTrash = Trashed /\ ClaimedFiles = Live
              /\ CountedSessions = Open /\ ClaimedSessions = Open
         /\ op'.pc = "idle" =>
              /\ CountedFiles' = Live /\ CountedTrash' = Trashed /\ ClaimedFiles' = Live
              /\ CountedSessions' = Open /\ ClaimedSessions' = Open
<1>1. Live' = Live /\ Trashed' = Trashed /\ Open' = Open
  BY DEF Live, Trashed, TrashOK, Open, UploadOK
<1> USE DEF CountedFiles, CountedTrash, ClaimedFiles, CountedSessions, ClaimedSessions,
    PutPlaces, CompletePlaces, DeletePlaces, RestorePlaces, StartPlaces, AppendPlaces
<1>2. op.pc \in {"idle", "rebuild"} =>
        /\ CountedFiles = Live /\ CountedTrash = Trashed /\ ClaimedFiles = Live
        /\ CountedSessions = Open /\ ClaimedSessions = Open
  OBVIOUS
<1>3. op'.pc = "idle" =>
        /\ CountedFiles' = Live /\ CountedTrash' = Trashed /\ ClaimedFiles' = Live
        /\ CountedSessions' = Open /\ ClaimedSessions' = Open
  BY <1>1
<1> QED BY <1>2, <1>3

\* A file that Delete or Restore moves is in one place, so what is there counts no more
\* than what was claimed, wherever the process is killed.
LEMMA StoredIsClaimed ==
  ASSUME TypeInv, MoveInv, faults <= 1
  PROVE  Shrinks(ClaimedFiles, CountedTrash, Live, Trashed) /\ Open \subseteq ClaimedSessions
<1> DEFINE f == op.file
<1>1. op.pc \in DeletePlaces \cup RestorePlaces => f \notin Live \cap Trashed
  <2>1. faults \in Nat
    BY DEF TypeInv, TypeOK
  <2>2. op.pc \in DeletePlaces \cup RestorePlaces => Single(f)
    <3>1. DeletePlaces \cup RestorePlaces \subseteq MovePlaces \ {"purgeDrop"}
      BY DEF DeletePlaces, RestorePlaces, MovePlaces
    <3> QED BY <2>1, <3>1 DEF MoveInv, Twice
  <2> QED BY <2>2 DEF Single, Live, Trashed, TrashOK
<1> HIDE DEF f
<1>2. Shrinks(ClaimedFiles, CountedTrash, Live, Trashed)
  BY <1>1 DEF f, Shrinks, ClaimedFiles, CountedFiles, CountedTrash, PutPlaces, CompletePlaces, DeletePlaces, RestorePlaces
<1>3. Open \subseteq ClaimedSessions
  BY DEF ClaimedSessions, CountedSessions
<1> QED BY <1>2, <1>3

\* The index is scanned again, or it is lost with the process.
LEMMA ScanCounts ==
  ASSUME Sound, CountRecovered \/ RebuildUsage \/ Forget \/ UNCHANGED <<vars, usageVars>>
  PROVE  CountsHold
<1>a. /\ ProcInv /\ ValidInv /\ ExactInv /\ CoverInv /\ UsageTypeOK
  BY SoundTypes DEF Sound, StoreInv, UsageInv
<1>1. CASE CountRecovered \/ RebuildUsage
  <2>1. /\ op.pc \in {"idle", "rebuild"} /\ op'.pc = "idle"
        /\ UNCHANGED <<manifests, trash, uploads, size, faults>>
    <3>1. CASE CountRecovered
      BY <3>1, ReturnKeepsOperation DEF CountRecovered, RecoverDone, At, diskVars, fileVars
    <3>2. CASE RebuildUsage
      BY <3>2, IdleOperation DEF RebuildUsage, Serving, vars, diskVars, fileVars
    <3> QED BY <1>1, <3>1, <3>2
  <2>2. usage' = Rescan \/ UNCHANGED <<usage, valid>>
    BY <1>1 DEF CountRecovered, RebuildUsage
  <2>3. ExactInv' /\ CoverInv'
    <3>1. CASE usage' = Rescan
      BY <3>1, <2>1, <1>a, AtRest, RescanExact, InSumsAfter
    <3>2. CASE UNCHANGED <<usage, valid>>
      BY <3>2, <2>1, <1>a, AtRest, InSums, InSumsAfter
    <3> QED BY <2>2, <3>1, <3>2
  <2>4. QuotaInv'
    BY <2>1, AtRest, QuotaStays DEF Shrinks
  <2> QED BY <2>3, <2>4 DEF CountsHold
<1>2. CASE Forget
  <2>1. /\ op'.pc = "idle" /\ UNCHANGED <<manifests, trash, uploads, size>> /\ ~valid'
    BY <1>2, ReturnKeepsOperation, IdleOperation
       DEF Forget, Forgets, Crash, RecoverIOError, RecoverDone, SweepIOError, diskVars, fileVars
  <2>2. ExactInv' /\ CoverInv'
    BY <2>1, InSumsAfter
  <2>3. QuotaInv'
    <3>1. faults' <= 1 => Shrinks(ClaimedFiles, CountedTrash, Live, Trashed) /\ Open \subseteq ClaimedSessions
      BY StoredIsClaimed, SoundTypes
    <3> QED BY <2>1, <3>1, AtRest, QuotaStays
  <2> QED BY <2>2, <2>3 DEF CountsHold
<1>3. CASE UNCHANGED <<vars, usageVars>>
  <2>1. UNCHANGED <<manifests, trash, uploads, op, faults, usage, valid, size, reserved>>
    BY <1>3 DEF vars, usageVars, diskVars, fileVars
  <2>2. Live' = Live /\ Trashed' = Trashed /\ Open' = Open
    BY <2>1 DEF Live, Trashed, TrashOK, Open, UploadOK
  <2>3. CountedFiles' = CountedFiles /\ CountedTrash' = CountedTrash /\ CountedSessions' = CountedSessions
    BY <2>1, <2>2 DEF CountedFiles, CountedTrash, CountedSessions
  <2>4. ClaimedFiles' = ClaimedFiles /\ ClaimedSessions' = ClaimedSessions
    BY <2>1, <2>2, <2>3 DEF ClaimedFiles, ClaimedSessions
  <2> QED BY <2>1, <2>3, <2>4, SettledCounts DEF FilesSettle, SessionsSettle, Shrinks
<1> QED BY <1>1, <1>2, <1>3

-----------------------------------------------------------------------------
(* The invariant holds. *)

LEMMA NextUsage ==
  StoreInv /\ StoreInv' /\ UsageTypeOK /\ UsageInv /\ [UsageNext]_<<vars, usageVars>>
    => UsageTypeOK' /\ UsageInv'
<1> SUFFICES ASSUME StoreInv, StoreInv', UsageTypeOK, UsageInv, [UsageNext]_<<vars, usageVars>>
             PROVE  UsageTypeOK' /\ UsageInv'
  OBVIOUS
<1>1. UsageTypeOK'
  BY NextUsageTypes DEF StoreInv
<1>2. ValidInv' /\ ReservedInv'
  BY NextLedger DEF UsageInv
<1>3. [Next]_vars
  BY UsageStepIsStoreStep
<1>4. DoneInv'
  BY <1>3, NextDone DEF UsageInv
<1>5. faults <= faults'
  BY <1>3, NextFaults DEF StoreInv
<1>6. Sound
  BY <1>1, <1>2, <1>5 DEF Sound
<1>7. CountsHold
  BY <1>6, LoadCounts, AdmitCounts, FileStepsCount, AssembleCounts, SessionStepsCount,
     ReadReservationCounts, ReleaseCounts, ScanCounts, QuietCounts DEF UsageNext
<1> QED BY <1>1, <1>2, <1>4, <1>7 DEF UsageInv, CountsHold

LEMMA InitUsage == UsageInit => UsageInv
<1> SUFFICES ASSUME UsageInit PROVE UsageInv
  OBVIOUS
<1>1. /\ op.pc = "idle" /\ index = "unloaded" /\ ~valid /\ reserved = 0
      /\ manifests = [id \in FileIds |-> "none"] /\ trash = [id \in FileIds |-> NoTrash]
      /\ uploads = [u \in UploadIds |-> NoSession]
  BY IdleOperation DEF UsageInit, Init
<1>2. Live = {} /\ Trashed = {} /\ Open = {}
  BY <1>1 DEF Live, Trashed, TrashOK, NoTrash, Open, UploadOK, NoSession
<1>3. ClaimedFiles = {} /\ CountedTrash = {} /\ ClaimedSessions = {}
  BY <1>1, <1>2 DEF ClaimedFiles, ClaimedSessions, CountedFiles, CountedTrash, CountedSessions,
     PutPlaces, CompletePlaces, DeletePlaces, RestorePlaces, StartPlaces, AppendPlaces
<1>4. SumOf(size, {}) = 0
  <2>1. BytesOf(size, {}) = {}
    BY DEF BytesOf
  <2> QED BY <2>1, FS_EmptySet DEF SumOf
<1>5. Kept({}) = 0
  BY FS_EmptySet, ConstantsAssumption DEF Kept
<1>6. QuotaInv
  BY <1>3, <1>4, <1>5, InSums, UsageAssumption DEF Within, Held
<1>7. ValidInv /\ ReservedInv /\ DoneInv /\ ExactInv /\ CoverInv
  BY <1>1 DEF ValidInv, ReservedInv, DoneInv, ExactInv, CoverInv, CompletePlaces
<1> QED BY <1>6, <1>7 DEF UsageInv

LEMMA UsageCorrect == UsageSpec => [](StoreInv /\ UsageTypeOK /\ UsageInv)
<1>1. UsageSpec => []StoreInv
  <2>1. Spec => []StoreInv
    BY SessionsCorrect, LifecycleCorrect, PTL DEF StoreInv
  <2> QED BY <2>1, UsageImplementsStore, PTL
<1>2. UsageInit => UsageTypeOK /\ UsageInv
  BY InitUsageTypes, InitUsage
<1> QED BY <1>1, <1>2, NextUsage, PTL DEF UsageSpec

\* Between two operations the index is counted against what is there, and nothing else.
LEMMA RestCounts ==
  ASSUME StoreInv, UsageTypeOK, UsageInv, op = Idle
  PROVE  /\ valid /\ faults = 0 => Exact(size, usage, Live, Trashed, Open)
         /\ valid /\ faults <= 1 => Cover(size, usage, Live, Trashed, Open)
         /\ Quota > 0 /\ faults <= 1 => Within(size, Live, Trashed, Open)
<1>1. /\ CountedFiles = Live /\ CountedTrash = Trashed /\ ClaimedFiles = Live
      /\ CountedSessions = Open /\ ClaimedSessions = Open
  BY IdleOperation DEF CountedFiles, CountedTrash, ClaimedFiles, CountedSessions, ClaimedSessions,
     PutPlaces, CompletePlaces, DeletePlaces, RestorePlaces, StartPlaces, AppendPlaces
<1> QED BY <1>1, InSums DEF UsageInv

\* moveUsage and rebuildUsageLocked agree (store.go:734-813, 822-851): as long as no system call
\* failed, the bytes of each category of the index are those a scan of the directories
\* would find, for any number of files and sessions and however often the process was
\* killed and recovered between, or inside, the operations that moved them.
THEOREM IndexMatchesRescan == UsageSpec => []BytesMatchRescan
<1>1. StoreInv /\ UsageTypeOK /\ UsageInv => BytesMatchRescan
  <2> SUFFICES ASSUME StoreInv, UsageTypeOK, UsageInv, valid, op = Idle, faults = 0,
                      NEW category \in Categories
               PROVE  usage[category].bytes = Rescan[category].bytes
    BY DEF BytesMatchRescan
  <2> QED BY RestCounts, RescanExact DEF Exact, Categories
<1> QED BY <1>1, UsageCorrect, PTL

\* A failed call in Delete, Restore, Abort or the sweep may leave the index with what is
\* gone, but it never lacks what is there: enforceQuotaUnlocked (store.go:696-713) refuses
\* on the safe side.
THEOREM IndexNeverUndercounts == UsageSpec => []NeverUndercounts
<1>1. StoreInv /\ UsageTypeOK /\ UsageInv => NeverUndercounts
  <2> SUFFICES ASSUME StoreInv, UsageTypeOK, UsageInv, index = "loaded", op = Idle, faults <= 1
               PROVE  Total(usage) >= Total(Rescan)
    BY DEF NeverUndercounts
  <2>1. valid
    BY DEF UsageInv, ValidInv
  <2>2. Cover(size, usage, Live, Trashed, Open) /\ Total(Rescan) = Held(size, Live, Trashed) + Kept(Open)
    BY <2>1, RestCounts, RescanExact
  <2>3. Total(usage) \in Nat /\ Total(Rescan) \in Nat
    BY RescanCounts DEF UsageTypeOK, Entry, Total, Categories
  <2> QED BY <2>2, <2>3 DEF Cover
<1> QED BY <1>1, UsageCorrect, PTL

\* The quota is asked for when a put commits (store.go:311) and when a session starts (:403),
\* and never when CompleteUpload, Delete or Restore move what was admitted; yet
\* what an owner has in files, in the trash and in reservations stays within it, over
\* kills, restarts and one failed system call.
THEOREM OwnerWithinQuota == UsageSpec => []QuotaKept
<1>1. StoreInv /\ UsageTypeOK /\ UsageInv => QuotaKept
  <2> SUFFICES ASSUME StoreInv, UsageTypeOK, UsageInv, Quota > 0, op = Idle, faults <= 1
               PROVE  Total(Rescan) <= Quota
    BY DEF QuotaKept
  <2> QED BY RestCounts, RescanExact DEF Within
<1> QED BY <1>1, UsageCorrect, PTL
=============================================================================
