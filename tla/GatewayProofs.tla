--------------------------- MODULE GatewayProofs ----------------------------
(***************************************************************************)
(* The invariants of Gateway for any number of clients, files and          *)
(* sessions, and any page size.                                            *)
(***************************************************************************)
EXTENDS Gateway, FiniteSetTheorems, SequenceTheorems, TLAPS

-----------------------------------------------------------------------------
(* The inductive invariant. *)

Uploading(c) == req[c].at \in {"trailer", "cleanup"}

\* s.mu: one body at a time.
OneHolder == \A c, d \in Clients :
  req[c].at \in {"put", "append"} /\ req[d].at \in {"put", "append"} => c = d

\* What a handler that appends has found under the lock still holds.
Ranges == \A c \in Clients :
  /\ req[c].at \in {"range", "append"} =>
       req[c].session \in UploadIds /\ req[c].base + req[c].len <= UploadSize
  /\ At(c, "append") => /\ sessions[req[c].session].status = "uploading"
                        /\ Len(sessions[req[c].session].data) = req[c].base

\* A session that became a file, or was reported aborted, cannot be completed any more.
SessionsSpent ==
  /\ \A f \in FileIds : made[f].from # NoUpload =>
       sessions[made[f].from].status \in {"completed", "swept"}
  /\ \A u \in aborted : sessions[u].status \in {"aborted", "swept"}

\* The word on a file and what the store has of it.
Words == \A f \in FileIds :
  /\ files[f] = "purged" => word[f] = "void"
  /\ files[f] = "none" => word[f] = "none" /\ made[f].from = NoUpload

\* A handler between Put and its answer is the only one that has the file, and nothing
\* has been promised of it.  Only uploads have a file.
Slots ==
  /\ \A c \in Clients :
       /\ ~At(c, "put") /\ ~Uploading(c) => req[c].file = NoFile
       /\ At(c, "put") => req[c].file \in FileIds /\ files[req[c].file] \in {"none", "purged"}
       /\ Uploading(c) => /\ req[c].file \in FileIds /\ files[req[c].file] # "none"
                          /\ word[req[c].file] # "acked"
                          /\ word[req[c].file] = "void" \/ made[req[c].file].from = NoUpload
  /\ \A c, d \in Clients :
       Uploading(c) /\ Uploading(d) /\ req[c].file = req[d].file =>
         c = d \/ word[req[c].file] = "void"

CompletedFiles == \A u \in UploadIds : sessions[u].status = "completed" =>
  /\ sessions[u].file \in FileIds
  /\ word[sessions[u].file] = "void" \/ made[sessions[u].file].from = u

\* What a list has not shown yet of the files it has to show lies behind its offset.
Unread(c, offset) == \A f \in req[c].since :
  f \in Live /\ (f \in req[c].seen \/ offset <= Cardinality(Newer(f)))

ListRow(c) ==
  /\ req[c].at \in {"total", "page"} => req[c].limit \in 1 .. MaxPage
  /\ At(c, "total") /\ ~req[c].spoiled => Unread(c, req[c].next + req[c].limit)
  /\ At(c, "page") /\ ~req[c].spoiled => Unread(c, req[c].next)
  /\ At(c, "listed") /\ ~req[c].spoiled => req[c].since \subseteq req[c].seen

Lists == \A c \in Clients : ListRow(c)

Inv ==
  /\ TypeOK /\ OneHolder /\ Ranges /\ ContentInOrder
  /\ SessionsSpent /\ OneFilePerSession
  /\ Words /\ Slots /\ CompletedFiles /\ NoOrphans
  /\ Lists
-----------------------------------------------------------------------------
(* Types. *)

\* A run of bytes is a sequence.
LEMMA BytesSeq ==
  ASSUME NEW m \in Nat, NEW n \in Nat, NEW S, \A i \in 1 .. n : m + i \in S
  PROVE  /\ Bytes(m, m + n) \in Seq(S)
         /\ Len(Bytes(m, m + n)) = n
         /\ \A i \in 1 .. n : Bytes(m, m + n)[i] = m + i
<1>1. (m + n) - m = n
  OBVIOUS
<1>2. Bytes(m, m + n) = [i \in 1 .. n |-> m + i]
  BY <1>1 DEF Bytes
<1>3. Bytes(m, m + n) \in [1 .. n -> S]
  BY <1>2
<1>4. Bytes(m, m + n) \in Seq(S)
  BY <1>3, SeqDef
<1>5. DOMAIN Bytes(m, m + n) = 1 .. n
  BY <1>2
<1>6. Len(Bytes(m, m + n)) = n
  BY <1>4, <1>5, LenProperties
<1> QED
  BY <1>2, <1>4, <1>6

\* The first bytes of an upload.
LEMMA BytesType ==
  ASSUME NEW n \in 0 .. UploadSize
  PROVE  /\ Bytes(0, n) \in Data
         /\ Len(Bytes(0, n)) = n
<1>1. n \in Nat /\ \A i \in 1 .. n : 0 + i \in 1 .. UploadSize
  BY GatewayAssumption
<1>2. Bytes(0, 0 + n) \in Seq(1 .. UploadSize) /\ Len(Bytes(0, 0 + n)) = n
  BY <1>1, BytesSeq
<1>3. 0 + n = n
  BY <1>1
<1> QED
  BY <1>2, <1>3 DEF Data

\* A chunk that begins where the data ends continues it.
LEMMA BytesContinue ==
  ASSUME NEW m \in Nat, NEW n \in Nat
  PROVE  Bytes(0, m) \o Bytes(m, m + n) = Bytes(0, m + n)
<1> DEFINE both == Bytes(0, m) \o Bytes(m, m + n)
<1>1. /\ Bytes(0, m) \in Seq(Nat) /\ Len(Bytes(0, m)) = m
      /\ \A i \in 1 .. m : Bytes(0, m)[i] = i
  <2>1. 0 + m = m /\ \A i \in 1 .. m : 0 + i \in Nat /\ 0 + i = i
    OBVIOUS
  <2>2. /\ Bytes(0, 0 + m) \in Seq(Nat) /\ Len(Bytes(0, 0 + m)) = m
        /\ \A i \in 1 .. m : Bytes(0, 0 + m)[i] = 0 + i
    BY <2>1, BytesSeq
  <2> QED
    BY <2>1, <2>2
<1>2. /\ Bytes(m, m + n) \in Seq(Nat) /\ Len(Bytes(m, m + n)) = n
      /\ \A i \in 1 .. n : Bytes(m, m + n)[i] = m + i
  <2>1. \A i \in 1 .. n : m + i \in Nat
    OBVIOUS
  <2> QED
    BY <2>1, BytesSeq
<1>3. /\ Bytes(0, m + n) \in Seq(Nat) /\ Len(Bytes(0, m + n)) = m + n
      /\ \A i \in 1 .. m + n : Bytes(0, m + n)[i] = i
  <2>1. m + n \in Nat
    OBVIOUS
  <2>2. 0 + (m + n) = m + n /\ \A i \in 1 .. m + n : 0 + i \in Nat /\ 0 + i = i
    OBVIOUS
  <2>3. /\ Bytes(0, 0 + (m + n)) \in Seq(Nat) /\ Len(Bytes(0, 0 + (m + n))) = m + n
        /\ \A i \in 1 .. m + n : Bytes(0, 0 + (m + n))[i] = 0 + i
    BY <2>1, <2>2, BytesSeq
  <2> QED
    BY <2>2, <2>3
<1>4. /\ both \in Seq(Nat) /\ Len(both) = m + n
      /\ \A i \in 1 .. m + n : both[i] =
           IF i <= m THEN Bytes(0, m)[i] ELSE Bytes(m, m + n)[i - m]
  <2> DEFINE s1 == Bytes(0, m)
             s2 == Bytes(m, m + n)
  <2>1. s1 \in Seq(Nat) /\ s2 \in Seq(Nat)
    BY <1>1, <1>2
  <2>2. Len(s1) = m /\ Len(s2) = n
    BY <1>1, <1>2
  <2> HIDE DEF s1, s2
  <2>3. /\ s1 \o s2 \in Seq(Nat) /\ Len(s1 \o s2) = Len(s1) + Len(s2)
        /\ \A i \in 1 .. Len(s1) + Len(s2) : (s1 \o s2)[i] =
             IF i <= Len(s1) THEN s1[i] ELSE s2[i - Len(s1)]
    BY <2>1, ConcatProperties
  <2>4. /\ s1 \o s2 \in Seq(Nat) /\ Len(s1 \o s2) = m + n
        /\ \A i \in 1 .. m + n : (s1 \o s2)[i] = IF i <= m THEN s1[i] ELSE s2[i - m]
    BY <2>2, <2>3
  <2> QED
    BY <2>4 DEF s1, s2
<1>5. ASSUME NEW i \in 1 .. m + n
      PROVE  both[i] = Bytes(0, m + n)[i]
  <2>1. i \in Nat /\ 1 <= i /\ i <= m + n
    OBVIOUS
  <2>2. CASE i <= m
    <3>1. i \in 1 .. m
      BY <2>1, <2>2
    <3> QED
      BY <2>2, <3>1, <1>1, <1>3, <1>4
  <2>3. CASE ~(i <= m)
    <3>1. i - m \in 1 .. n /\ m + (i - m) = i
      BY <2>1, <2>3
    <3> QED
      BY <2>3, <3>1, <1>2, <1>3, <1>4
  <2> QED
    BY <2>2, <2>3
<1> QED
  BY <1>3, <1>4, <1>5, SeqEqual

\* What the helpers of the actions assign has the right type.
LEMMA HelperTypes ==
  ASSUME TypeOK
  PROVE  /\ NoRequest \in Request /\ NoSession \in Session /\ NotMade \in [from : UploadIds \cup {NoUpload}, bytes : Data]
         /\ \A c \in Clients : Return(c) => req' \in [Clients -> Request]
         /\ \A c \in Clients, place \in Places : Goto(c, place) => req' \in [Clients -> Request]
         /\ Spoiled \in [Clients -> Request]
         /\ \A told, ids : Says(told, ids) => word' \in [FileIds -> {"none", "acked", "loose", "void"}]
         /\ \A expired : Swept(expired) \in [UploadIds -> Session]
<1>1. <<>> \in Data
  <2>1. <<>> \in Seq(1 .. UploadSize) /\ Len(<<>>) = 0
    BY EmptySeq
  <2> QED
    BY <2>1, GatewayAssumption DEF Data
<1>2. NoRequest \in Request
  BY DEF NoRequest, Request, Places
<1>3. NoSession \in Session /\ NotMade \in [from : UploadIds \cup {NoUpload}, bytes : Data]
  BY <1>1 DEF NoSession, NotMade, Session
<1>4. req \in [Clients -> Request] /\ sessions \in [UploadIds -> Session]
      /\ word \in [FileIds -> {"none", "acked", "loose", "void"}]
  BY DEF TypeOK
<1>5. \A c \in Clients : Return(c) => req' \in [Clients -> Request]
  BY <1>2, <1>4 DEF Return
<1>6. \A c \in Clients, place \in Places : Goto(c, place) => req' \in [Clients -> Request]
  BY <1>4 DEF Goto, Request
<1>7. Spoiled \in [Clients -> Request]
  BY <1>4 DEF Spoiled, Request
<1>8. \A told, ids : Says(told, ids) => word' \in [FileIds -> {"none", "acked", "loose", "void"}]
  BY <1>4 DEF Says
<1>9. \A expired : Swept(expired) \in [UploadIds -> Session]
  <2>1. [NoSession EXCEPT !.status = "swept"] \in Session
    BY <1>3 DEF Session, NoSession
  <2> QED
    BY <2>1, <1>4 DEF Swept
<1> QED
  BY <1>2, <1>3, <1>5, <1>6, <1>7, <1>8, <1>9

\* Every step keeps the types.
LEMMA TypeStep == Inv /\ Next => TypeOK'
<1> SUFFICES ASSUME Inv, Next PROVE TypeOK'
  OBVIOUS
<1>0. Inv /\ TypeOK /\ files \in [FileIds -> {"none", "live", "trashed", "purged"}]
      /\ made \in [FileIds -> [from : UploadIds \cup {NoUpload}, bytes : Data]]
      /\ sessions \in [UploadIds -> Session] /\ req \in [Clients -> Request]
      /\ word \in [FileIds -> {"none", "acked", "loose", "void"}] /\ aborted \subseteq UploadIds
  BY DEF Inv, TypeOK
<1>1. ASSUME NEW c \in Clients, NEW f \in FileIds, PutBegins(c, f)
      PROVE  TypeOK'
  <2>1. req' \in [Clients -> Request]
    <3>1. [req[c] EXCEPT !.at = "put", !.file = f] \in Request
      BY <1>0 DEF Request, Places
    <3> QED
      BY <1>1, <1>0, <3>1 DEF PutBegins
  <2> QED
    BY <1>1, <2>1, <1>0 DEF PutBegins, TypeOK, storeVars, ghostVars
<1>2. ASSUME NEW c \in Clients, PutEnds(c)
      PROVE  TypeOK'
  <2>1. files' \in [FileIds -> {"none", "live", "trashed", "purged"}]
    BY <1>2, <1>0 DEF PutEnds
  <2>2. made' \in [FileIds -> [from : UploadIds \cup {NoUpload}, bytes : Data]]
    BY <1>2, <1>0, HelperTypes DEF PutEnds
  <2>3. req' \in [Clients -> Request]
    BY <1>2, <1>0, HelperTypes DEF PutEnds, Places
  <2> QED
    BY <1>2, <2>1, <2>2, <2>3, <1>0 DEF PutEnds, TypeOK, storeVars, ghostVars
<1>3. ASSUME NEW c \in Clients, PutFails(c)
      PROVE  TypeOK'
  <2>1. req' \in [Clients -> Request]
    BY <1>3, <1>0, HelperTypes DEF PutFails
  <2> QED
    BY <1>3, <2>1, <1>0 DEF PutFails, TypeOK, storeVars, ghostVars
<1>4. ASSUME NEW c \in Clients, NEW told \in BOOLEAN, Answer(c, told)
      PROVE  TypeOK'
  <2>1. req' \in [Clients -> Request]
    BY <1>4, <1>0, HelperTypes DEF Answer
  <2>2. word' \in [FileIds -> {"none", "acked", "loose", "void"}]
    BY <1>4, <1>0, HelperTypes DEF Answer
  <2> QED
    BY <1>4, <2>1, <2>2, <1>0 DEF Answer, TypeOK, storeVars, ghostVars
<1>5. ASSUME NEW c \in Clients, TrailerBad(c)
      PROVE  TypeOK'
  <2>1. req' \in [Clients -> Request]
    BY <1>5, <1>0, HelperTypes DEF TrailerBad, Places
  <2> QED
    BY <1>5, <2>1, <1>0 DEF TrailerBad, TypeOK, storeVars, ghostVars
<1>6. ASSUME NEW c \in Clients, Cleanup(c)
      PROVE  TypeOK'
  <2>1. files' \in [FileIds -> {"none", "live", "trashed", "purged"}]
    BY <1>6, <1>0 DEF Cleanup, Trash
  <2>2. req' \in [Clients -> Request]
    BY <1>6, <1>0, HelperTypes DEF Cleanup
  <2> QED
    BY <1>6, <2>1, <2>2, <1>0 DEF Cleanup, TypeOK, storeVars, ghostVars
<1>7. ASSUME NEW c \in Clients, CleanupFails(c)
      PROVE  TypeOK'
  <2>1. req' \in [Clients -> Request]
    BY <1>7, <1>0, HelperTypes DEF CleanupFails
  <2>2. word' \in [FileIds -> {"none", "acked", "loose", "void"}]
    BY <1>7, <1>0, HelperTypes DEF CleanupFails
  <2> QED
    BY <1>7, <2>1, <2>2, <1>0 DEF CleanupFails, TypeOK, storeVars, ghostVars
<1>8. ASSUME NEW f \in FileIds, DeleteFile(f)
      PROVE  TypeOK'
  <2>1. files' \in [FileIds -> {"none", "live", "trashed", "purged"}]
    BY <1>8, <1>0 DEF DeleteFile, Trash
  <2>2. req' \in [Clients -> Request]
    BY <1>8, <1>0, HelperTypes DEF DeleteFile
  <2> QED
    BY <1>8, <2>1, <2>2, <1>0 DEF DeleteFile, TypeOK, storeVars, ghostVars
<1>9. ASSUME NEW f \in FileIds, RestoreFile(f)
      PROVE  TypeOK'
  <2>1. files' \in [FileIds -> {"none", "live", "trashed", "purged"}]
    BY <1>9, <1>0 DEF RestoreFile
  <2>2. word' \in [FileIds -> {"none", "acked", "loose", "void"}]
    BY <1>9, <1>0, HelperTypes DEF RestoreFile
  <2> QED
    BY <1>9, <2>1, <2>2, <1>0 DEF RestoreFile, TypeOK, storeVars, ghostVars
<1>10. ASSUME NEW old \in SUBSET FileIds, PurgeTrash(old)
      PROVE  TypeOK'
  <2>1. files' \in [FileIds -> {"none", "live", "trashed", "purged"}]
    BY <1>10, <1>0 DEF PurgeTrash
  <2>2. word' \in [FileIds -> {"none", "acked", "loose", "void"}]
    BY <1>10, <1>0 DEF PurgeTrash
  <2> QED
    BY <1>10, <2>1, <2>2, <1>0 DEF PurgeTrash, TypeOK, storeVars, ghostVars
<1>11. ASSUME NEW u \in UploadIds, NEW expired \in SUBSET MayExpire, StartUpload(u, expired)
      PROVE  TypeOK'
  <2>1. sessions' \in [UploadIds -> Session]
    BY <1>11, <1>0, HelperTypes DEF StartUpload, Session
  <2> QED
    BY <1>11, <2>1, <1>0 DEF StartUpload, TypeOK, storeVars, ghostVars
<1>12. ASSUME NEW expired \in SUBSET MayExpire, SweepUploads(expired)
      PROVE  TypeOK'
  <2>1. sessions' \in [UploadIds -> Session]
    BY <1>12, <1>0, HelperTypes DEF SweepUploads
  <2> QED
    BY <1>12, <2>1, <1>0 DEF SweepUploads, TypeOK, storeVars, ghostVars
<1>13. ASSUME NEW c \in Clients, NEW u \in UploadIds,
             NEW base \in 0 .. UploadSize, NEW len \in 1 .. UploadSize, AppendAsks(c, u, base, len)
      PROVE  TypeOK'
  <2>1. req' \in [Clients -> Request]
    <3>1. base \in Nat /\ len \in Nat /\ req[c] \in Request
      BY <1>0, GatewayAssumption
    <3>2. [req[c] EXCEPT !.at = "range", !.session = u, !.base = base, !.len = len] \in Request
      BY <3>1 DEF Request, Places
    <3> QED
      BY <1>13, <1>0, <3>2 DEF AppendAsks
  <2> QED
    BY <1>13, <2>1, <1>0 DEF AppendAsks, TypeOK, storeVars, ghostVars
<1>14. ASSUME NEW c \in Clients, AppendBegins(c)
      PROVE  TypeOK'
  <2>1. req' \in [Clients -> Request]
    BY <1>14, <1>0, HelperTypes DEF AppendBegins, Places
  <2> QED
    BY <1>14, <2>1, <1>0 DEF AppendBegins, TypeOK, storeVars, ghostVars
<1>15. ASSUME NEW c \in Clients, AppendRefused(c)
      PROVE  TypeOK'
  <2>1. req' \in [Clients -> Request]
    BY <1>15, <1>0, HelperTypes DEF AppendRefused
  <2> QED
    BY <1>15, <2>1, <1>0 DEF AppendRefused, TypeOK, storeVars, ghostVars
<1>16. ASSUME NEW c \in Clients, AppendEnds(c)
      PROVE  TypeOK'
  <2>1. req' \in [Clients -> Request]
    BY <1>16, <1>0, HelperTypes DEF AppendEnds
  <2>2. sessions' \in [UploadIds -> Session]
    <3>1. /\ req[c].session \in UploadIds /\ req[c].base + req[c].len <= UploadSize
          /\ sessions[req[c].session].data = Bytes(0, req[c].base)
          /\ req[c].base \in Nat /\ req[c].len \in Nat
      BY <1>16, <1>0 DEF Inv, Ranges, ContentInOrder, AppendEnds, At, Request
    <3>2. Bytes(0, req[c].base) \o Bytes(req[c].base, req[c].base + req[c].len) \in Data
      <4>1. req[c].base + req[c].len \in 0 .. UploadSize
        BY <3>1, GatewayAssumption
      <4> QED
        BY <3>1, <4>1, BytesType, BytesContinue
    <3> QED
      BY <1>16, <1>0, <3>1, <3>2 DEF AppendEnds, Session
  <2> QED
    BY <1>16, <2>1, <2>2, <1>0 DEF AppendEnds, TypeOK, storeVars, ghostVars
<1>17. ASSUME NEW c \in Clients, AppendFails(c)
      PROVE  TypeOK'
  <2>1. req' \in [Clients -> Request]
    BY <1>17, <1>0, HelperTypes DEF AppendFails
  <2> QED
    BY <1>17, <2>1, <1>0 DEF AppendFails, TypeOK, storeVars, ghostVars
<1>18. ASSUME NEW u \in UploadIds, NEW f \in FileIds, NEW told \in BOOLEAN, CompleteUpload(u, f, told)
      PROVE  TypeOK'
  <2>1. files' \in [FileIds -> {"none", "live", "trashed", "purged"}]
    BY <1>18, <1>0 DEF CompleteUpload
  <2>2. made' \in [FileIds -> [from : UploadIds \cup {NoUpload}, bytes : Data]]
    BY <1>18, <1>0 DEF CompleteUpload, Session
  <2>3. sessions' \in [UploadIds -> Session]
    BY <1>18, <1>0, HelperTypes DEF CompleteUpload, Session, NoSession
  <2>4. word' \in [FileIds -> {"none", "acked", "loose", "void"}]
    BY <1>18, <1>0, HelperTypes DEF CompleteUpload
  <2> QED
    BY <1>18, <2>1, <2>2, <2>3, <2>4, <1>0 DEF CompleteUpload, TypeOK, storeVars, ghostVars
<1>19. ASSUME NEW u \in UploadIds, CompleteAgain(u)
      PROVE  TypeOK'
  <2>1. word' \in [FileIds -> {"none", "acked", "loose", "void"}]
    BY <1>19, <1>0, HelperTypes DEF CompleteAgain
  <2> QED
    BY <1>19, <2>1, <1>0 DEF CompleteAgain, TypeOK, storeVars, ghostVars
<1>20. ASSUME NEW u \in UploadIds, AbortUpload(u)
      PROVE  TypeOK'
  <2>1. sessions' \in [UploadIds -> Session]
    <3>1. [NoSession EXCEPT !.status = "aborted"] \in Session
      BY <1>0, HelperTypes DEF Session, NoSession
    <3> QED
      BY <1>20, <1>0, <3>1 DEF AbortUpload
  <2>2. aborted' \subseteq UploadIds
    BY <1>20, <1>0 DEF AbortUpload
  <2> QED
    BY <1>20, <2>1, <2>2, <1>0 DEF AbortUpload, TypeOK, storeVars, ghostVars
<1>21. ASSUME NEW c \in Clients, NEW limit \in 1 .. MaxPage + 1, ListFirst(c, limit)
      PROVE  TypeOK'
  <2>1. req' \in [Clients -> Request]
    <3>1. req' = [req EXCEPT ![c] = [NoRequest EXCEPT !.at = "total", !.limit = limit,
                    !.since = Live, !.seen = Page(0, Smaller(limit, MaxPage))]]
      BY <1>21 DEF ListFirst
    <3>2. limit \in Nat /\ Live \subseteq FileIds /\ Page(0, Smaller(limit, MaxPage)) \subseteq FileIds
      BY GatewayAssumption DEF Live, Page
    <3>3. NoRequest \in Request
      BY <1>0, HelperTypes
    <3>4. [NoRequest EXCEPT !.at = "total", !.limit = limit, !.since = Live,
             !.seen = Page(0, Smaller(limit, MaxPage))] \in Request
      BY <3>2, <3>3 DEF Request, Places
    <3> QED
      BY <1>0, <3>1, <3>4
  <2> QED
    BY <1>21, <2>1, <1>0 DEF ListFirst, TypeOK, storeVars, ghostVars
<1>22. ASSUME NEW c \in Clients, ListNext(c)
      PROVE  TypeOK'
  <2>1. req' \in [Clients -> Request]
    <3> DEFINE page == Page(req[c].next, Smaller(req[c].limit, MaxPage))
    <3> DEFINE row == [req[c] EXCEPT !.at = "total", !.seen = req[c].seen \cup page]
    <3>1. req' = [req EXCEPT ![c] = [@ EXCEPT !.at = "total", !.seen = req[c].seen \cup page]]
      BY <1>22 DEF ListNext
    <3>2. page \subseteq FileIds /\ req[c] \in Request
      BY <1>0 DEF Live, Page
    <3> HIDE DEF page
    <3>3. row \in Request
      BY <3>2 DEF Request, Places
    <3>4. req' = [req EXCEPT ![c] = row]
      BY <1>0, <3>1
    <3> HIDE DEF row
    <3> QED
      BY <1>0, <3>3, <3>4
  <2> QED
    BY <1>22, <2>1, <1>0 DEF ListNext, TypeOK, storeVars, ghostVars
<1>23. ASSUME NEW c \in Clients, ListTotal(c)
      PROVE  TypeOK'
  <2>1. req' \in [Clients -> Request]
    <3>1. req[c] \in Request /\ req[c].next + req[c].limit \in Nat
      BY <1>0 DEF Request
    <3>2. PICK place \in Places :
            req' = [req EXCEPT ![c] = [@ EXCEPT !.next = req[c].next + req[c].limit, !.at = place]]
      BY <1>23 DEF ListTotal, Places
    <3>3. [req[c] EXCEPT !.next = req[c].next + req[c].limit, !.at = place] \in Request
      BY <3>1, <3>2 DEF Request
    <3> QED
      BY <1>0, <3>2, <3>3
  <2> QED
    BY <1>23, <2>1, <1>0 DEF ListTotal, TypeOK, storeVars, ghostVars
<1>24. ASSUME NEW c \in Clients, ListRead(c)
      PROVE  TypeOK'
  <2>1. req' \in [Clients -> Request]
    BY <1>24, <1>0, HelperTypes DEF ListRead
  <2> QED
    BY <1>24, <2>1, <1>0 DEF ListRead, TypeOK, storeVars, ghostVars
<1>25. ASSUME NEW expired \in SUBSET MayExpire, ProcessEnds(expired)
      PROVE  TypeOK'
  <2>1. req' \in [Clients -> Request]
    BY <1>25, <1>0, HelperTypes DEF ProcessEnds
  <2>2. sessions' \in [UploadIds -> Session]
    BY <1>25, <1>0, HelperTypes DEF ProcessEnds
  <2>3. word' \in [FileIds -> {"none", "acked", "loose", "void"}]
    BY <1>25, <1>0, HelperTypes DEF ProcessEnds
  <2> QED
    BY <1>25, <2>1, <2>2, <2>3, <1>0 DEF ProcessEnds, TypeOK, storeVars, ghostVars
<1> QED
  BY <1>1, <1>2, <1>3, <1>4, <1>5, <1>6, <1>7, <1>8, <1>9, <1>10, <1>11,
     <1>12, <1>13, <1>14, <1>15, <1>16, <1>17, <1>18, <1>19, <1>20, <1>21,
     <1>22, <1>23, <1>24, <1>25
  DEF Next, HandlerStep, Arrival, StoreCall

\* A session without data.
LEMMA NoBytes == Bytes(0, Len(<<>>)) = <<>>
<1>1. 0 + 0 = 0 /\ \A i \in 1 .. 0 : 0 + i \in {}
  OBVIOUS
<1>2. Bytes(0, 0 + 0) \in Seq({}) /\ Len(Bytes(0, 0 + 0)) = 0
  BY <1>1, BytesSeq
<1> QED
  BY <1>1, <1>2, EmptySeq

\* Appends of several clients leave the data of a session in order.
LEMMA AppendStep == Inv /\ Next => (OneHolder /\ Ranges /\ ContentInOrder)'
<1> SUFFICES ASSUME Inv, Next PROVE (OneHolder /\ Ranges /\ ContentInOrder)'
  OBVIOUS
<1>0. /\ Inv /\ OneHolder /\ Ranges /\ ContentInOrder
      /\ made \in [FileIds -> [from : UploadIds \cup {NoUpload}, bytes : Data]]
      /\ sessions \in [UploadIds -> Session] /\ req \in [Clients -> Request]
  BY DEF Inv, TypeOK
<1>1. ASSUME NEW c \in Clients, NEW f \in FileIds, PutBegins(c, f)
      PROVE  (OneHolder /\ Ranges /\ ContentInOrder)'
  <2>1. OneHolder'
    BY <1>1, <1>0 DEF OneHolder, PutBegins, At, Goto, Return, NoRequest, Spoiled, Unlocked, storeVars
  <2>2. Ranges'
    BY <1>1, <1>0 DEF Ranges, PutBegins, At, Goto, Return, NoRequest, Spoiled, Unlocked, storeVars
  <2>3. ContentInOrder'
    BY <1>1, <1>0 DEF ContentInOrder, PutBegins, storeVars
  <2> QED
    BY <2>1, <2>2, <2>3
<1>2. ASSUME NEW c \in Clients, PutEnds(c)
      PROVE  (OneHolder /\ Ranges /\ ContentInOrder)'
  <2>1. OneHolder'
    BY <1>2, <1>0 DEF OneHolder, PutEnds, At, Goto, Return, NoRequest, Spoiled, Unlocked, storeVars
  <2>2. Ranges'
    BY <1>2, <1>0 DEF Ranges, PutEnds, At, Goto, Return, NoRequest, Spoiled, Unlocked, storeVars
  <2>3. ContentInOrder'
    <3>1. sessions' = sessions /\ \A g \in FileIds : made'[g] \in {made[g], NotMade}
      BY <1>2, <1>0 DEF PutEnds
    <3> QED
      BY <1>0, <3>1 DEF ContentInOrder, NotMade
  <2> QED
    BY <2>1, <2>2, <2>3
<1>3. ASSUME NEW c \in Clients, PutFails(c)
      PROVE  (OneHolder /\ Ranges /\ ContentInOrder)'
  <2>1. OneHolder'
    BY <1>3, <1>0 DEF OneHolder, PutFails, At, Goto, Return, NoRequest, Spoiled, Unlocked, storeVars
  <2>2. Ranges'
    BY <1>3, <1>0 DEF Ranges, PutFails, At, Goto, Return, NoRequest, Spoiled, Unlocked, storeVars
  <2>3. ContentInOrder'
    BY <1>3, <1>0 DEF ContentInOrder, PutFails, storeVars
  <2> QED
    BY <2>1, <2>2, <2>3
<1>4. ASSUME NEW c \in Clients, NEW told \in BOOLEAN, Answer(c, told)
      PROVE  (OneHolder /\ Ranges /\ ContentInOrder)'
  <2>1. OneHolder'
    BY <1>4, <1>0 DEF OneHolder, Answer, At, Goto, Return, NoRequest, Spoiled, Unlocked, storeVars
  <2>2. Ranges'
    BY <1>4, <1>0 DEF Ranges, Answer, At, Goto, Return, NoRequest, Spoiled, Unlocked, storeVars
  <2>3. ContentInOrder'
    BY <1>4, <1>0 DEF ContentInOrder, Answer, storeVars
  <2> QED
    BY <2>1, <2>2, <2>3
<1>5. ASSUME NEW c \in Clients, TrailerBad(c)
      PROVE  (OneHolder /\ Ranges /\ ContentInOrder)'
  <2>1. OneHolder'
    BY <1>5, <1>0 DEF OneHolder, TrailerBad, At, Goto, Return, NoRequest, Spoiled, Unlocked, storeVars
  <2>2. Ranges'
    BY <1>5, <1>0 DEF Ranges, TrailerBad, At, Goto, Return, NoRequest, Spoiled, Unlocked, storeVars
  <2>3. ContentInOrder'
    BY <1>5, <1>0 DEF ContentInOrder, TrailerBad, storeVars
  <2> QED
    BY <2>1, <2>2, <2>3
<1>6. ASSUME NEW c \in Clients, Cleanup(c)
      PROVE  (OneHolder /\ Ranges /\ ContentInOrder)'
  <2>1. OneHolder'
    <3>1. \A d \in Clients : \/ req'[d].at = "idle"
                             \/ /\ req'[d].at = req[d].at /\ req'[d].session = req[d].session
                                /\ req'[d].base = req[d].base /\ req'[d].len = req[d].len
      <4>1. NoRequest.at = "idle" /\ \A d \in Clients : /\ Spoiled[d].at = req[d].at /\ Spoiled[d].session = req[d].session
                                                        /\ Spoiled[d].base = req[d].base /\ Spoiled[d].len = req[d].len
        BY <1>0 DEF NoRequest, Spoiled, Request
      <4>2. Spoiled = [d \in Clients |-> Spoiled[d]]
        BY DEF Spoiled
      <4>3. req' = [Spoiled EXCEPT ![c] = NoRequest] \/ req' = [req EXCEPT ![c] = NoRequest]
        BY <1>6 DEF Cleanup, Return
      <4> QED
        BY <1>0, <4>1, <4>2, <4>3
    <3> QED
      BY <1>0, <3>1 DEF OneHolder
  <2>2. Ranges'
    <3>1. \A d \in Clients : \/ req'[d].at = "idle"
                             \/ /\ req'[d].at = req[d].at /\ req'[d].session = req[d].session
                                /\ req'[d].base = req[d].base /\ req'[d].len = req[d].len
      <4>1. NoRequest.at = "idle" /\ \A d \in Clients : /\ Spoiled[d].at = req[d].at /\ Spoiled[d].session = req[d].session
                                                        /\ Spoiled[d].base = req[d].base /\ Spoiled[d].len = req[d].len
        BY <1>0 DEF NoRequest, Spoiled, Request
      <4>2. Spoiled = [d \in Clients |-> Spoiled[d]]
        BY DEF Spoiled
      <4>3. req' = [Spoiled EXCEPT ![c] = NoRequest] \/ req' = [req EXCEPT ![c] = NoRequest]
        BY <1>6 DEF Cleanup, Return
      <4> QED
        BY <1>0, <4>1, <4>2, <4>3
    <3> QED
      BY <1>6, <1>0, <3>1 DEF Ranges, At, Cleanup
  <2>3. ContentInOrder'
    BY <1>6, <1>0 DEF ContentInOrder, Cleanup, storeVars
  <2> QED
    BY <2>1, <2>2, <2>3
<1>7. ASSUME NEW c \in Clients, CleanupFails(c)
      PROVE  (OneHolder /\ Ranges /\ ContentInOrder)'
  <2>1. OneHolder'
    BY <1>7, <1>0 DEF OneHolder, CleanupFails, At, Goto, Return, NoRequest, Spoiled, Unlocked, storeVars
  <2>2. Ranges'
    BY <1>7, <1>0 DEF Ranges, CleanupFails, At, Goto, Return, NoRequest, Spoiled, Unlocked, storeVars
  <2>3. ContentInOrder'
    BY <1>7, <1>0 DEF ContentInOrder, CleanupFails, storeVars
  <2> QED
    BY <2>1, <2>2, <2>3
<1>8. ASSUME NEW f \in FileIds, DeleteFile(f)
      PROVE  (OneHolder /\ Ranges /\ ContentInOrder)'
  <2>1. OneHolder'
    BY <1>8, <1>0 DEF OneHolder, DeleteFile, At, Goto, Return, NoRequest, Spoiled, Unlocked, storeVars
  <2>2. Ranges'
    BY <1>8, <1>0 DEF Ranges, DeleteFile, At, Goto, Return, NoRequest, Spoiled, Unlocked, storeVars
  <2>3. ContentInOrder'
    BY <1>8, <1>0 DEF ContentInOrder, DeleteFile, storeVars
  <2> QED
    BY <2>1, <2>2, <2>3
<1>9. ASSUME NEW f \in FileIds, RestoreFile(f)
      PROVE  (OneHolder /\ Ranges /\ ContentInOrder)'
  <2>1. OneHolder'
    BY <1>9, <1>0 DEF OneHolder, RestoreFile, At, Goto, Return, NoRequest, Spoiled, Unlocked, storeVars
  <2>2. Ranges'
    BY <1>9, <1>0 DEF Ranges, RestoreFile, At, Goto, Return, NoRequest, Spoiled, Unlocked, storeVars
  <2>3. ContentInOrder'
    BY <1>9, <1>0 DEF ContentInOrder, RestoreFile, storeVars
  <2> QED
    BY <2>1, <2>2, <2>3
<1>10. ASSUME NEW old \in SUBSET FileIds, PurgeTrash(old)
      PROVE  (OneHolder /\ Ranges /\ ContentInOrder)'
  <2>1. OneHolder'
    BY <1>10, <1>0 DEF OneHolder, PurgeTrash, At, Goto, Return, NoRequest, Spoiled, Unlocked, storeVars
  <2>2. Ranges'
    BY <1>10, <1>0 DEF Ranges, PurgeTrash, At, Goto, Return, NoRequest, Spoiled, Unlocked, storeVars
  <2>3. ContentInOrder'
    BY <1>10, <1>0 DEF ContentInOrder, PurgeTrash, storeVars
  <2> QED
    BY <2>1, <2>2, <2>3
<1>11. ASSUME NEW u \in UploadIds, NEW expired \in SUBSET MayExpire, StartUpload(u, expired)
      PROVE  (OneHolder /\ Ranges /\ ContentInOrder)'
  <2>1. OneHolder'
    BY <1>11, <1>0 DEF OneHolder, StartUpload, At, Goto, Return, NoRequest, Spoiled, Unlocked, storeVars
  <2>2. Ranges'
    BY <1>11, <1>0 DEF Ranges, StartUpload, At, Goto, Return, NoRequest, Spoiled, Unlocked, storeVars
  <2>3. ContentInOrder'
    <3>1. made' = made /\ \A v \in UploadIds : sessions'[v].data \in {sessions[v].data, <<>>}
      BY <1>11, <1>0 DEF Session, StartUpload, Swept, NoSession, storeVars
    <3> QED
      BY <1>0, <3>1, NoBytes DEF ContentInOrder
  <2> QED
    BY <2>1, <2>2, <2>3
<1>12. ASSUME NEW expired \in SUBSET MayExpire, SweepUploads(expired)
      PROVE  (OneHolder /\ Ranges /\ ContentInOrder)'
  <2>1. OneHolder'
    BY <1>12, <1>0 DEF OneHolder, SweepUploads, At, Goto, Return, NoRequest, Spoiled, Unlocked, storeVars
  <2>2. Ranges'
    BY <1>12, <1>0 DEF Ranges, SweepUploads, At, Goto, Return, NoRequest, Spoiled, Unlocked, storeVars
  <2>3. ContentInOrder'
    <3>1. made' = made /\ \A v \in UploadIds : sessions'[v].data \in {sessions[v].data, <<>>}
      BY <1>12, <1>0 DEF Session, SweepUploads, Swept, NoSession, storeVars
    <3> QED
      BY <1>0, <3>1, NoBytes DEF ContentInOrder
  <2> QED
    BY <2>1, <2>2, <2>3
<1>13. ASSUME NEW c \in Clients, NEW u \in UploadIds,
             NEW base \in 0 .. UploadSize, NEW len \in 1 .. UploadSize, AppendAsks(c, u, base, len)
      PROVE  (OneHolder /\ Ranges /\ ContentInOrder)'
  <2>1. OneHolder'
    BY <1>13, <1>0 DEF OneHolder, AppendAsks, At, Goto, Return, NoRequest, Spoiled, Unlocked, storeVars
  <2>2. Ranges'
    <3>1. \A d \in Clients : d # c => req'[d] = req[d]
      BY <1>13, <1>0 DEF AppendAsks
    <3>2. req'[c].at = "range" /\ req'[c].session = u /\ req'[c].base = base /\ req'[c].len = len
      BY <1>13, <1>0 DEF AppendAsks, Request
    <3> QED
      BY <1>13, <1>0, <3>1, <3>2 DEF AppendAsks, InRange, Ranges, At, storeVars
  <2>3. ContentInOrder'
    BY <1>13, <1>0 DEF ContentInOrder, AppendAsks, storeVars
  <2> QED
    BY <2>1, <2>2, <2>3
<1>14. ASSUME NEW c \in Clients, AppendBegins(c)
      PROVE  (OneHolder /\ Ranges /\ ContentInOrder)'
  <2>1. OneHolder'
    BY <1>14, <1>0 DEF OneHolder, AppendBegins, At, Goto, Return, NoRequest, Spoiled, Unlocked, storeVars
  <2>2. Ranges'
    <3>1. \A d \in Clients : d # c => req'[d] = req[d]
      BY <1>14, <1>0 DEF AppendBegins, Goto
    <3>2. /\ req'[c].session = req[c].session /\ req'[c].base = req[c].base
          /\ req'[c].len = req[c].len /\ req[c].at = "range"
      BY <1>14, <1>0 DEF AppendBegins, Goto, At, Request
    <3> QED
      BY <1>14, <1>0, <3>1, <3>2 DEF AppendBegins, Ranges, At, storeVars
  <2>3. ContentInOrder'
    BY <1>14, <1>0 DEF ContentInOrder, AppendBegins, storeVars
  <2> QED
    BY <2>1, <2>2, <2>3
<1>15. ASSUME NEW c \in Clients, AppendRefused(c)
      PROVE  (OneHolder /\ Ranges /\ ContentInOrder)'
  <2>1. OneHolder'
    BY <1>15, <1>0 DEF OneHolder, AppendRefused, At, Goto, Return, NoRequest, Spoiled, Unlocked, storeVars
  <2>2. Ranges'
    BY <1>15, <1>0 DEF Ranges, AppendRefused, At, Goto, Return, NoRequest, Spoiled, Unlocked, storeVars
  <2>3. ContentInOrder'
    BY <1>15, <1>0 DEF ContentInOrder, AppendRefused, storeVars
  <2> QED
    BY <2>1, <2>2, <2>3
<1>16. ASSUME NEW c \in Clients, AppendEnds(c)
      PROVE  (OneHolder /\ Ranges /\ ContentInOrder)'
  <2>1. OneHolder'
    BY <1>16, <1>0 DEF OneHolder, AppendEnds, At, Goto, Return, NoRequest, Spoiled, Unlocked, storeVars
  <2>2. Ranges'
    <3>1. req' = [req EXCEPT ![c] = NoRequest] /\ req[c].at = "append" /\ NoRequest.at = "idle"
      BY <1>16 DEF AppendEnds, Return, At, NoRequest
    <3>2. \A d \in Clients : req'[d].at # "append"
      BY <1>0, <3>1 DEF OneHolder
    <3> QED
      BY <1>0, <3>1, <3>2 DEF Ranges, At
  <2>3. ContentInOrder'
    <3> DEFINE u == req[c].session
               data == sessions[u].data \o Bytes(req[c].base, req[c].base + req[c].len)
    <3>1. /\ u \in UploadIds /\ req[c].base + req[c].len <= UploadSize
          /\ sessions[u].data = Bytes(0, req[c].base)
          /\ req[c].base \in Nat /\ req[c].len \in Nat
      BY <1>16, <1>0 DEF Ranges, ContentInOrder, AppendEnds, At, Request
    <3>2. data = Bytes(0, req[c].base + req[c].len) /\ Len(data) = req[c].base + req[c].len
      <4>1. req[c].base + req[c].len \in 0 .. UploadSize
        BY <3>1, GatewayAssumption
      <4> QED
        BY <3>1, <4>1, BytesType, BytesContinue
    <3>3. sessions' = [sessions EXCEPT ![u] = [@ EXCEPT !.data = data]] /\ made' = made
      BY <1>16, <1>0, <3>1 DEF AppendEnds, Session
    <3>4. /\ sessions'[u].data = data
          /\ \A v \in UploadIds \ {u} : sessions'[v] = sessions[v]
      <4> HIDE DEF data, u
      <4> QED
        BY <1>0, <3>1, <3>3 DEF Session
    <3> HIDE DEF data, u
    <3> QED
      BY <1>0, <3>2, <3>3, <3>4 DEF ContentInOrder
  <2> QED
    BY <2>1, <2>2, <2>3
<1>17. ASSUME NEW c \in Clients, AppendFails(c)
      PROVE  (OneHolder /\ Ranges /\ ContentInOrder)'
  <2>1. OneHolder'
    BY <1>17, <1>0 DEF OneHolder, AppendFails, At, Goto, Return, NoRequest, Spoiled, Unlocked, storeVars
  <2>2. Ranges'
    BY <1>17, <1>0 DEF Ranges, AppendFails, At, Goto, Return, NoRequest, Spoiled, Unlocked, storeVars
  <2>3. ContentInOrder'
    BY <1>17, <1>0 DEF ContentInOrder, AppendFails, storeVars
  <2> QED
    BY <2>1, <2>2, <2>3
<1>18. ASSUME NEW u \in UploadIds, NEW f \in FileIds, NEW told \in BOOLEAN, CompleteUpload(u, f, told)
      PROVE  (OneHolder /\ Ranges /\ ContentInOrder)'
  <2>1. OneHolder'
    BY <1>18, <1>0 DEF OneHolder, CompleteUpload, At, Goto, Return, NoRequest, Spoiled, Unlocked, storeVars
  <2>2. Ranges'
    BY <1>18, <1>0 DEF Ranges, CompleteUpload, At, Goto, Return, NoRequest, Spoiled, Unlocked, storeVars
  <2>3. ContentInOrder'
    <3>1. sessions[u].data = Bytes(0, UploadSize)
      BY <1>18, <1>0 DEF ContentInOrder, CompleteUpload
    <3>2. /\ \A g \in FileIds : made'[g] = IF g = f THEN [from |-> u, bytes |-> sessions[u].data] ELSE made[g]
          /\ \A v \in UploadIds : sessions'[v].data = IF v = u THEN <<>> ELSE sessions[v].data
      BY <1>18, <1>0 DEF CompleteUpload
    <3>3. \A v \in UploadIds : sessions'[v].data = Bytes(0, Len(sessions'[v].data))
      BY <1>0, <3>2, NoBytes DEF ContentInOrder
    <3>4. \A g \in FileIds : made'[g].from # NoUpload => made'[g].bytes = Bytes(0, UploadSize)
      BY <1>0, <3>1, <3>2 DEF ContentInOrder
    <3> QED
      BY <3>3, <3>4 DEF ContentInOrder
  <2> QED
    BY <2>1, <2>2, <2>3
<1>19. ASSUME NEW u \in UploadIds, CompleteAgain(u)
      PROVE  (OneHolder /\ Ranges /\ ContentInOrder)'
  <2>1. OneHolder'
    BY <1>19, <1>0 DEF OneHolder, CompleteAgain, At, Goto, Return, NoRequest, Spoiled, Unlocked, storeVars
  <2>2. Ranges'
    BY <1>19, <1>0 DEF Ranges, CompleteAgain, At, Goto, Return, NoRequest, Spoiled, Unlocked, storeVars
  <2>3. ContentInOrder'
    BY <1>19, <1>0 DEF ContentInOrder, CompleteAgain, storeVars
  <2> QED
    BY <2>1, <2>2, <2>3
<1>20. ASSUME NEW u \in UploadIds, AbortUpload(u)
      PROVE  (OneHolder /\ Ranges /\ ContentInOrder)'
  <2>1. OneHolder'
    BY <1>20, <1>0 DEF OneHolder, AbortUpload, At, Goto, Return, NoRequest, Spoiled, Unlocked, storeVars
  <2>2. Ranges'
    BY <1>20, <1>0 DEF Ranges, AbortUpload, At, Goto, Return, NoRequest, Spoiled, Unlocked, storeVars
  <2>3. ContentInOrder'
    <3>1. made' = made /\ \A v \in UploadIds : sessions'[v].data \in {sessions[v].data, <<>>}
      BY <1>20, <1>0 DEF Session, AbortUpload, NoSession, storeVars
    <3> QED
      BY <1>0, <3>1, NoBytes DEF ContentInOrder
  <2> QED
    BY <2>1, <2>2, <2>3
<1>21. ASSUME NEW c \in Clients, NEW limit \in 1 .. MaxPage + 1, ListFirst(c, limit)
      PROVE  (OneHolder /\ Ranges /\ ContentInOrder)'
  <2>1. OneHolder'
    BY <1>21, <1>0 DEF OneHolder, ListFirst, At, Goto, Return, NoRequest, Spoiled, Unlocked, storeVars
  <2>2. Ranges'
    BY <1>21, <1>0 DEF Ranges, ListFirst, At, Goto, Return, NoRequest, Spoiled, Unlocked, storeVars
  <2>3. ContentInOrder'
    BY <1>21, <1>0 DEF ContentInOrder, ListFirst, storeVars
  <2> QED
    BY <2>1, <2>2, <2>3
<1>22. ASSUME NEW c \in Clients, ListNext(c)
      PROVE  (OneHolder /\ Ranges /\ ContentInOrder)'
  <2>1. OneHolder'
    BY <1>22, <1>0 DEF OneHolder, ListNext, At, Goto, Return, NoRequest, Spoiled, Unlocked, storeVars
  <2>2. Ranges'
    BY <1>22, <1>0 DEF Ranges, ListNext, At, Goto, Return, NoRequest, Spoiled, Unlocked, storeVars
  <2>3. ContentInOrder'
    BY <1>22, <1>0 DEF ContentInOrder, ListNext, storeVars
  <2> QED
    BY <2>1, <2>2, <2>3
<1>23. ASSUME NEW c \in Clients, ListTotal(c)
      PROVE  (OneHolder /\ Ranges /\ ContentInOrder)'
  <2>1. OneHolder'
    BY <1>23, <1>0 DEF OneHolder, ListTotal, At, Goto, Return, NoRequest, Spoiled, Unlocked, storeVars
  <2>2. Ranges'
    BY <1>23, <1>0 DEF Ranges, ListTotal, At, Goto, Return, NoRequest, Spoiled, Unlocked, storeVars
  <2>3. ContentInOrder'
    BY <1>23, <1>0 DEF ContentInOrder, ListTotal, storeVars
  <2> QED
    BY <2>1, <2>2, <2>3
<1>24. ASSUME NEW c \in Clients, ListRead(c)
      PROVE  (OneHolder /\ Ranges /\ ContentInOrder)'
  <2>1. OneHolder'
    BY <1>24, <1>0 DEF OneHolder, ListRead, At, Goto, Return, NoRequest, Spoiled, Unlocked, storeVars
  <2>2. Ranges'
    BY <1>24, <1>0 DEF Ranges, ListRead, At, Goto, Return, NoRequest, Spoiled, Unlocked, storeVars
  <2>3. ContentInOrder'
    BY <1>24, <1>0 DEF ContentInOrder, ListRead, storeVars
  <2> QED
    BY <2>1, <2>2, <2>3
<1>25. ASSUME NEW expired \in SUBSET MayExpire, ProcessEnds(expired)
      PROVE  (OneHolder /\ Ranges /\ ContentInOrder)'
  <2>1. OneHolder'
    BY <1>25, <1>0 DEF OneHolder, ProcessEnds, At, Goto, Return, NoRequest, Spoiled, Unlocked, storeVars
  <2>2. Ranges'
    BY <1>25, <1>0 DEF Ranges, ProcessEnds, At, Goto, Return, NoRequest, Spoiled, Unlocked, storeVars
  <2>3. ContentInOrder'
    <3>1. made' = made /\ \A v \in UploadIds : sessions'[v].data \in {sessions[v].data, <<>>}
      BY <1>25, <1>0 DEF Session, ProcessEnds, Swept, NoSession, storeVars
    <3> QED
      BY <1>0, <3>1, NoBytes DEF ContentInOrder
  <2> QED
    BY <2>1, <2>2, <2>3
<1> QED
  BY <1>1, <1>2, <1>3, <1>4, <1>5, <1>6, <1>7, <1>8, <1>9, <1>10, <1>11,
     <1>12, <1>13, <1>14, <1>15, <1>16, <1>17, <1>18, <1>19, <1>20, <1>21,
     <1>22, <1>23, <1>24, <1>25
  DEF Next, HandlerStep, Arrival, StoreCall

\* A session becomes a file at most once, and an aborted one never.
LEMMA SpentStep == Inv /\ Next => (SessionsSpent /\ OneFilePerSession)'
<1> SUFFICES ASSUME Inv, Next PROVE (SessionsSpent /\ OneFilePerSession)'
  OBVIOUS
<1>0. /\ Inv /\ SessionsSpent /\ OneFilePerSession /\ Words /\ NoUpload \notin UploadIds
      /\ made \in [FileIds -> [from : UploadIds \cup {NoUpload}, bytes : Data]]
      /\ sessions \in [UploadIds -> Session] /\ req \in [Clients -> Request]
  BY GatewayAssumption DEF Inv, TypeOK
<1>1. ASSUME NEW c \in Clients, NEW f \in FileIds, PutBegins(c, f)
      PROVE  (SessionsSpent /\ OneFilePerSession)'
  <2>1. SessionsSpent'
    BY <1>1, <1>0 DEF SessionsSpent, PutBegins, storeVars, ghostVars
  <2>2. OneFilePerSession'
    BY <1>1, <1>0 DEF OneFilePerSession, PutBegins, storeVars
  <2> QED
    BY <2>1, <2>2
<1>2. ASSUME NEW c \in Clients, PutEnds(c)
      PROVE  (SessionsSpent /\ OneFilePerSession)'
  <2>1. SessionsSpent'
    <3>1. \A g \in FileIds : made'[g] \in {made[g], NotMade}
      BY <1>2, <1>0 DEF PutEnds
    <3> QED
      BY <1>2, <1>0, <3>1 DEF SessionsSpent, PutEnds, NotMade, ghostVars
  <2>2. OneFilePerSession'
    <3>1. \A g \in FileIds : made'[g] \in {made[g], NotMade}
      BY <1>2, <1>0 DEF PutEnds
    <3> QED
      BY <1>0, <3>1 DEF OneFilePerSession, NotMade
  <2> QED
    BY <2>1, <2>2
<1>3. ASSUME NEW c \in Clients, PutFails(c)
      PROVE  (SessionsSpent /\ OneFilePerSession)'
  <2>1. SessionsSpent'
    BY <1>3, <1>0 DEF SessionsSpent, PutFails, storeVars, ghostVars
  <2>2. OneFilePerSession'
    BY <1>3, <1>0 DEF OneFilePerSession, PutFails, storeVars
  <2> QED
    BY <2>1, <2>2
<1>4. ASSUME NEW c \in Clients, NEW told \in BOOLEAN, Answer(c, told)
      PROVE  (SessionsSpent /\ OneFilePerSession)'
  <2>1. SessionsSpent'
    BY <1>4, <1>0 DEF SessionsSpent, Answer, storeVars, ghostVars
  <2>2. OneFilePerSession'
    BY <1>4, <1>0 DEF OneFilePerSession, Answer, storeVars
  <2> QED
    BY <2>1, <2>2
<1>5. ASSUME NEW c \in Clients, TrailerBad(c)
      PROVE  (SessionsSpent /\ OneFilePerSession)'
  <2>1. SessionsSpent'
    BY <1>5, <1>0 DEF SessionsSpent, TrailerBad, storeVars, ghostVars
  <2>2. OneFilePerSession'
    BY <1>5, <1>0 DEF OneFilePerSession, TrailerBad, storeVars
  <2> QED
    BY <2>1, <2>2
<1>6. ASSUME NEW c \in Clients, Cleanup(c)
      PROVE  (SessionsSpent /\ OneFilePerSession)'
  <2>1. SessionsSpent'
    BY <1>6, <1>0 DEF SessionsSpent, Cleanup, storeVars, ghostVars
  <2>2. OneFilePerSession'
    BY <1>6, <1>0 DEF OneFilePerSession, Cleanup, storeVars
  <2> QED
    BY <2>1, <2>2
<1>7. ASSUME NEW c \in Clients, CleanupFails(c)
      PROVE  (SessionsSpent /\ OneFilePerSession)'
  <2>1. SessionsSpent'
    BY <1>7, <1>0 DEF SessionsSpent, CleanupFails, storeVars, ghostVars
  <2>2. OneFilePerSession'
    BY <1>7, <1>0 DEF OneFilePerSession, CleanupFails, storeVars
  <2> QED
    BY <2>1, <2>2
<1>8. ASSUME NEW f \in FileIds, DeleteFile(f)
      PROVE  (SessionsSpent /\ OneFilePerSession)'
  <2>1. SessionsSpent'
    BY <1>8, <1>0 DEF SessionsSpent, DeleteFile, storeVars, ghostVars
  <2>2. OneFilePerSession'
    BY <1>8, <1>0 DEF OneFilePerSession, DeleteFile, storeVars
  <2> QED
    BY <2>1, <2>2
<1>9. ASSUME NEW f \in FileIds, RestoreFile(f)
      PROVE  (SessionsSpent /\ OneFilePerSession)'
  <2>1. SessionsSpent'
    BY <1>9, <1>0 DEF SessionsSpent, RestoreFile, storeVars, ghostVars
  <2>2. OneFilePerSession'
    BY <1>9, <1>0 DEF OneFilePerSession, RestoreFile, storeVars
  <2> QED
    BY <2>1, <2>2
<1>10. ASSUME NEW old \in SUBSET FileIds, PurgeTrash(old)
      PROVE  (SessionsSpent /\ OneFilePerSession)'
  <2>1. SessionsSpent'
    BY <1>10, <1>0 DEF SessionsSpent, PurgeTrash, storeVars, ghostVars
  <2>2. OneFilePerSession'
    BY <1>10, <1>0 DEF OneFilePerSession, PurgeTrash, storeVars
  <2> QED
    BY <2>1, <2>2
<1>11. ASSUME NEW u \in UploadIds, NEW expired \in SUBSET MayExpire, StartUpload(u, expired)
      PROVE  (SessionsSpent /\ OneFilePerSession)'
  <2>1. SessionsSpent'
    <3>1. \A v \in UploadIds : \/ sessions'[v].status \in {sessions[v].status, "swept"}
                               \/ v = u /\ sessions[v].status = "none"
      <4>1. \A v \in UploadIds : Swept(expired)[v].status \in {sessions[v].status, "swept"}
        BY <1>0 DEF Swept, NoSession
      <4>2. sessions' = [Swept(expired) EXCEPT ![u].status = "uploading"] /\ sessions[u].status = "none"
        BY <1>11 DEF StartUpload
      <4>3. \A v \in UploadIds \ {u} : sessions'[v] = Swept(expired)[v]
        BY <4>2 DEF Swept
      <4> QED
        BY <4>1, <4>2, <4>3
    <3>2. made' = made /\ aborted \subseteq UploadIds
      BY <1>11, <1>0 DEF StartUpload, storeVars, Inv, TypeOK
    <3>3. \A u1 \in UploadIds : sessions[u1].status \in {"none", "uploading", "completed", "aborted", "swept"}
      BY <1>0 DEF Session
    <3> QED
      BY <1>11, <1>0, <3>1, <3>2, <3>3 DEF SessionsSpent, StartUpload, storeVars, ghostVars
  <2>2. OneFilePerSession'
    BY <1>11, <1>0 DEF OneFilePerSession, StartUpload, storeVars
  <2> QED
    BY <2>1, <2>2
<1>12. ASSUME NEW expired \in SUBSET MayExpire, SweepUploads(expired)
      PROVE  (SessionsSpent /\ OneFilePerSession)'
  <2>1. SessionsSpent'
    <3>1. \A v \in UploadIds : sessions'[v].status \in {sessions[v].status, "swept"}
      BY <1>12, <1>0 DEF SweepUploads, Swept, NoSession
    <3>2. made' = made /\ aborted \subseteq UploadIds
      BY <1>12, <1>0 DEF SweepUploads, storeVars, Inv, TypeOK
    <3>3. \A u1 \in UploadIds : sessions[u1].status \in {"none", "uploading", "completed", "aborted", "swept"}
      BY <1>0 DEF Session
    <3> QED
      BY <1>12, <1>0, <3>1, <3>2, <3>3 DEF SessionsSpent, SweepUploads, storeVars, ghostVars
  <2>2. OneFilePerSession'
    BY <1>12, <1>0 DEF OneFilePerSession, SweepUploads, storeVars
  <2> QED
    BY <2>1, <2>2
<1>13. ASSUME NEW c \in Clients, NEW u \in UploadIds,
             NEW base \in 0 .. UploadSize, NEW len \in 1 .. UploadSize, AppendAsks(c, u, base, len)
      PROVE  (SessionsSpent /\ OneFilePerSession)'
  <2>1. SessionsSpent'
    BY <1>13, <1>0 DEF SessionsSpent, AppendAsks, storeVars, ghostVars
  <2>2. OneFilePerSession'
    BY <1>13, <1>0 DEF OneFilePerSession, AppendAsks, storeVars
  <2> QED
    BY <2>1, <2>2
<1>14. ASSUME NEW c \in Clients, AppendBegins(c)
      PROVE  (SessionsSpent /\ OneFilePerSession)'
  <2>1. SessionsSpent'
    BY <1>14, <1>0 DEF SessionsSpent, AppendBegins, storeVars, ghostVars
  <2>2. OneFilePerSession'
    BY <1>14, <1>0 DEF OneFilePerSession, AppendBegins, storeVars
  <2> QED
    BY <2>1, <2>2
<1>15. ASSUME NEW c \in Clients, AppendRefused(c)
      PROVE  (SessionsSpent /\ OneFilePerSession)'
  <2>1. SessionsSpent'
    BY <1>15, <1>0 DEF SessionsSpent, AppendRefused, storeVars, ghostVars
  <2>2. OneFilePerSession'
    BY <1>15, <1>0 DEF OneFilePerSession, AppendRefused, storeVars
  <2> QED
    BY <2>1, <2>2
<1>16. ASSUME NEW c \in Clients, AppendEnds(c)
      PROVE  (SessionsSpent /\ OneFilePerSession)'
  <2>1. SessionsSpent'
    <3>1. \A v \in UploadIds : sessions'[v].status = sessions[v].status
      BY <1>16, <1>0 DEF AppendEnds, Session
    <3>2. made' = made /\ aborted \subseteq UploadIds
      BY <1>16, <1>0 DEF AppendEnds, storeVars, Inv, TypeOK
    <3>3. \A u1 \in UploadIds : sessions[u1].status \in {"none", "uploading", "completed", "aborted", "swept"}
      BY <1>0 DEF Session
    <3> QED
      BY <1>16, <1>0, <3>1, <3>2, <3>3 DEF SessionsSpent, AppendEnds, storeVars, ghostVars
  <2>2. OneFilePerSession'
    BY <1>16, <1>0 DEF OneFilePerSession, AppendEnds, storeVars
  <2> QED
    BY <2>1, <2>2
<1>17. ASSUME NEW c \in Clients, AppendFails(c)
      PROVE  (SessionsSpent /\ OneFilePerSession)'
  <2>1. SessionsSpent'
    BY <1>17, <1>0 DEF SessionsSpent, AppendFails, storeVars, ghostVars
  <2>2. OneFilePerSession'
    BY <1>17, <1>0 DEF OneFilePerSession, AppendFails, storeVars
  <2> QED
    BY <2>1, <2>2
<1>18. ASSUME NEW u \in UploadIds, NEW f \in FileIds, NEW told \in BOOLEAN, CompleteUpload(u, f, told)
      PROVE  (SessionsSpent /\ OneFilePerSession)'
  <2>1. SessionsSpent'
    <3>1. /\ \A g \in FileIds : made'[g].from = IF g = f THEN u ELSE made[g].from
          /\ \A v \in UploadIds : sessions'[v].status = IF v = u THEN "completed" ELSE sessions[v].status
          /\ sessions[u].status = "uploading" /\ aborted' = aborted
      BY <1>18, <1>0 DEF CompleteUpload
    <3>2. \A g \in FileIds : made[g].from # u
      BY <1>0, <3>1 DEF SessionsSpent
    <3>3. aborted \subseteq UploadIds
      BY <1>0 DEF Inv, TypeOK
    <3> QED
      BY <1>0, <3>1, <3>2, <3>3 DEF SessionsSpent
  <2>2. OneFilePerSession'
    <3>1. /\ \A g \in FileIds : made'[g].from = IF g = f THEN u ELSE made[g].from
          /\ \A v \in UploadIds : sessions'[v].status = IF v = u THEN "completed" ELSE sessions[v].status
          /\ sessions[u].status = "uploading" /\ aborted' = aborted
      BY <1>18, <1>0 DEF CompleteUpload
    <3>2. \A g \in FileIds : made[g].from # u
      BY <1>0, <3>1 DEF SessionsSpent
    <3> QED
      BY <1>0, <3>1, <3>2 DEF OneFilePerSession
  <2> QED
    BY <2>1, <2>2
<1>19. ASSUME NEW u \in UploadIds, CompleteAgain(u)
      PROVE  (SessionsSpent /\ OneFilePerSession)'
  <2>1. SessionsSpent'
    BY <1>19, <1>0 DEF SessionsSpent, CompleteAgain, storeVars, ghostVars
  <2>2. OneFilePerSession'
    BY <1>19, <1>0 DEF OneFilePerSession, CompleteAgain, storeVars
  <2> QED
    BY <2>1, <2>2
<1>20. ASSUME NEW u \in UploadIds, AbortUpload(u)
      PROVE  (SessionsSpent /\ OneFilePerSession)'
  <2>1. SessionsSpent'
    <3>1. \A v \in UploadIds : sessions'[v].status =
            IF v = u /\ sessions[v].status = "uploading" THEN "aborted" ELSE sessions[v].status
      <4> DEFINE gone == [NoSession EXCEPT !.status = "aborted"]
      <4>1. gone.status = "aborted"
        BY DEF NoSession
      <4>2. sessions' = IF sessions[u].status = "uploading"
                        THEN [sessions EXCEPT ![u] = gone] ELSE sessions
        BY <1>20 DEF AbortUpload
      <4> HIDE DEF gone
      <4> QED
        BY <1>0, <4>1, <4>2
    <3>2. made' = made /\ aborted \subseteq UploadIds
      BY <1>20, <1>0 DEF AbortUpload, storeVars, Inv, TypeOK
    <3>3. \A u1 \in UploadIds : sessions[u1].status \in {"none", "uploading", "completed", "aborted", "swept"}
      BY <1>0 DEF Session
    <3> QED
      BY <1>20, <1>0, <3>1, <3>2, <3>3 DEF SessionsSpent, AbortUpload, storeVars, ghostVars
  <2>2. OneFilePerSession'
    BY <1>20, <1>0 DEF OneFilePerSession, AbortUpload, storeVars
  <2> QED
    BY <2>1, <2>2
<1>21. ASSUME NEW c \in Clients, NEW limit \in 1 .. MaxPage + 1, ListFirst(c, limit)
      PROVE  (SessionsSpent /\ OneFilePerSession)'
  <2>1. SessionsSpent'
    BY <1>21, <1>0 DEF SessionsSpent, ListFirst, storeVars, ghostVars
  <2>2. OneFilePerSession'
    BY <1>21, <1>0 DEF OneFilePerSession, ListFirst, storeVars
  <2> QED
    BY <2>1, <2>2
<1>22. ASSUME NEW c \in Clients, ListNext(c)
      PROVE  (SessionsSpent /\ OneFilePerSession)'
  <2>1. SessionsSpent'
    BY <1>22, <1>0 DEF SessionsSpent, ListNext, storeVars, ghostVars
  <2>2. OneFilePerSession'
    BY <1>22, <1>0 DEF OneFilePerSession, ListNext, storeVars
  <2> QED
    BY <2>1, <2>2
<1>23. ASSUME NEW c \in Clients, ListTotal(c)
      PROVE  (SessionsSpent /\ OneFilePerSession)'
  <2>1. SessionsSpent'
    BY <1>23, <1>0 DEF SessionsSpent, ListTotal, storeVars, ghostVars
  <2>2. OneFilePerSession'
    BY <1>23, <1>0 DEF OneFilePerSession, ListTotal, storeVars
  <2> QED
    BY <2>1, <2>2
<1>24. ASSUME NEW c \in Clients, ListRead(c)
      PROVE  (SessionsSpent /\ OneFilePerSession)'
  <2>1. SessionsSpent'
    BY <1>24, <1>0 DEF SessionsSpent, ListRead, storeVars, ghostVars
  <2>2. OneFilePerSession'
    BY <1>24, <1>0 DEF OneFilePerSession, ListRead, storeVars
  <2> QED
    BY <2>1, <2>2
<1>25. ASSUME NEW expired \in SUBSET MayExpire, ProcessEnds(expired)
      PROVE  (SessionsSpent /\ OneFilePerSession)'
  <2>1. SessionsSpent'
    <3>1. \A v \in UploadIds : sessions'[v].status \in {sessions[v].status, "swept"}
      BY <1>25, <1>0 DEF ProcessEnds, Swept, NoSession
    <3>2. made' = made /\ aborted \subseteq UploadIds
      BY <1>25, <1>0 DEF ProcessEnds, storeVars, Inv, TypeOK
    <3>3. \A u1 \in UploadIds : sessions[u1].status \in {"none", "uploading", "completed", "aborted", "swept"}
      BY <1>0 DEF Session
    <3> QED
      BY <1>25, <1>0, <3>1, <3>2, <3>3 DEF SessionsSpent, ProcessEnds, storeVars, ghostVars
  <2>2. OneFilePerSession'
    BY <1>25, <1>0 DEF OneFilePerSession, ProcessEnds, storeVars
  <2> QED
    BY <2>1, <2>2
<1> QED
  BY <1>1, <1>2, <1>3, <1>4, <1>5, <1>6, <1>7, <1>8, <1>9, <1>10, <1>11,
     <1>12, <1>13, <1>14, <1>15, <1>16, <1>17, <1>18, <1>19, <1>20, <1>21,
     <1>22, <1>23, <1>24, <1>25
  DEF Next, HandlerStep, Arrival, StoreCall

\* What the gateway says of a file is what the store has of it.
LEMMA FilesStep == Inv /\ Next => (Words /\ Slots /\ CompletedFiles /\ NoOrphans)'
<1> SUFFICES ASSUME Inv, Next PROVE (Words /\ Slots /\ CompletedFiles /\ NoOrphans)'
  OBVIOUS
<1>0. /\ Inv /\ OneHolder /\ Words /\ Slots /\ CompletedFiles /\ NoOrphans
      /\ NoUpload \notin UploadIds /\ NoFile \notin FileIds
      /\ files \in [FileIds -> {"none", "live", "trashed", "purged"}]
      /\ made \in [FileIds -> [from : UploadIds \cup {NoUpload}, bytes : Data]]
      /\ word \in [FileIds -> {"none", "acked", "loose", "void"}]
      /\ sessions \in [UploadIds -> Session] /\ req \in [Clients -> Request]
  BY GatewayAssumption DEF Inv, TypeOK
<1>1. ASSUME NEW c \in Clients, NEW f \in FileIds, PutBegins(c, f)
      PROVE  (Words /\ Slots /\ CompletedFiles /\ NoOrphans)'
  <2>1. /\ \A d \in Clients : /\ req'[d].at = IF d = c THEN "put" ELSE req[d].at
                              /\ req'[d].file = IF d = c THEN f ELSE req[d].file
        /\ At(c, "idle") /\ files[f] \in {"none", "purged"}
        /\ files' = files
        /\ made' = made
        /\ word' = word
        /\ sessions' = sessions
    BY <1>1, <1>0 DEF PutBegins, At, Goto, Return, NoRequest, Trash, storeVars, ghostVars, Request
  <2>2. Words'
    BY <1>0, <2>1 DEF Words, Slots, At, Uploading
  <2>3. Slots'
    BY <1>0, <2>1 DEF Words, Slots, At, Uploading, OneHolder, CompletedFiles
  <2>4. CompletedFiles'
    BY <1>0, <2>1 DEF Words, CompletedFiles, Slots, At
  <2>5. NoOrphans'
    BY <1>0, <2>1 DEF NoOrphans, Live, At, Slots, Uploading
  <2> QED
    BY <2>2, <2>3, <2>4, <2>5
<1>2. ASSUME NEW c \in Clients, PutEnds(c)
      PROVE  (Words /\ Slots /\ CompletedFiles /\ NoOrphans)'
  <2>1. /\ \A d \in Clients : /\ req'[d].at = IF d = c THEN "trailer" ELSE req[d].at
                              /\ req'[d].file = req[d].file
        /\ At(c, "put")
        /\ \A g \in FileIds : /\ files'[g] = IF g = req[c].file THEN "live" ELSE files[g]
                              /\ made'[g].from = IF g = req[c].file THEN NoUpload ELSE made[g].from
        /\ word' = word
        /\ sessions' = sessions
    BY <1>2, <1>0 DEF PutEnds, At, Goto, Return, NoRequest, Trash, storeVars, ghostVars, Request, NotMade
  <2>2. Words'
    BY <1>0, <2>1 DEF Words, Slots, At, Uploading
  <2>3. Slots'
    <3>1. \A d \in Clients : ~At(d, "put")' /\ ~Uploading(d)' => req'[d].file = NoFile
      BY <1>0, <2>1 DEF Slots, At, Uploading
    <3>2. \A d \in Clients : At(d, "put")' =>
            req'[d].file \in FileIds /\ files'[req'[d].file] \in {"none", "purged"}
      BY <1>0, <2>1 DEF Slots, At, Uploading, OneHolder
    <3>3. ASSUME NEW d \in Clients, Uploading(d)'
          PROVE  /\ req'[d].file \in FileIds /\ files'[req'[d].file] # "none"
                 /\ word'[req'[d].file] # "acked"
                 /\ word'[req'[d].file] = "void" \/ made'[req'[d].file].from = NoUpload
      BY <1>0, <2>1, <3>3 DEF Words, Slots, At, Uploading, CompletedFiles
    <3>4. \A d, e \in Clients :
            Uploading(d)' /\ Uploading(e)' /\ req'[d].file = req'[e].file =>
              d = e \/ word'[req'[d].file] = "void"
      BY <1>0, <2>1 DEF Words, Slots, At, Uploading
    <3> QED
      BY <3>1, <3>2, <3>3, <3>4 DEF Slots
  <2>4. CompletedFiles'
    BY <1>0, <2>1 DEF Words, CompletedFiles, Slots, At
  <2>5. NoOrphans'
    <3> SUFFICES ASSUME NEW g \in FileIds, files'[g] = "live", word'[g] = "none"
                 PROVE  \E e \in Clients : req'[e].file = g /\ req'[e].at \in {"trailer", "cleanup"}
      BY DEF NoOrphans, Live
    <3>1. CASE g = req[c].file
      BY <2>1, <3>1
    <3>2. CASE g # req[c].file
      <4>1. files[g] = "live" /\ word[g] = "none"
        BY <2>1, <3>2
      <4>2. PICK e \in Clients : req[e].file = g /\ req[e].at \in {"trailer", "cleanup"}
        BY <1>0, <4>1 DEF NoOrphans, Live
      <4> QED
        BY <2>1, <4>2 DEF At
    <3> QED
      BY <3>1, <3>2
  <2> QED
    BY <2>2, <2>3, <2>4, <2>5
<1>3. ASSUME NEW c \in Clients, PutFails(c)
      PROVE  (Words /\ Slots /\ CompletedFiles /\ NoOrphans)'
  <2>1. /\ \A d \in Clients : /\ req'[d].at = IF d = c THEN "idle" ELSE req[d].at
                              /\ req'[d].file = IF d = c THEN NoFile ELSE req[d].file
        /\ At(c, "put")
        /\ files' = files
        /\ made' = made
        /\ word' = word
        /\ sessions' = sessions
    BY <1>3, <1>0 DEF PutFails, At, Goto, Return, NoRequest, Trash, storeVars, ghostVars, Request
  <2>2. Words'
    BY <1>0, <2>1 DEF Words, Slots, At, Uploading
  <2>3. Slots'
    BY <1>0, <2>1 DEF Words, Slots, At, Uploading, OneHolder, CompletedFiles
  <2>4. CompletedFiles'
    BY <1>0, <2>1 DEF Words, CompletedFiles, Slots, At
  <2>5. NoOrphans'
    <3> SUFFICES ASSUME NEW g \in FileIds, files'[g] = "live", word'[g] = "none"
                 PROVE  \E e \in Clients : req'[e].file = g /\ req'[e].at \in {"trailer", "cleanup"}
      BY DEF NoOrphans, Live
    <3>1. files[g] = "live" /\ word[g] = "none"
      BY <1>0, <2>1
    <3>2. PICK e \in Clients : req[e].file = g /\ req[e].at \in {"trailer", "cleanup"}
      BY <1>0, <3>1 DEF NoOrphans, Live
    <3> QED
      BY <2>1, <3>2 DEF At
  <2> QED
    BY <2>2, <2>3, <2>4, <2>5
<1>4. ASSUME NEW c \in Clients, NEW told \in BOOLEAN, Answer(c, told)
      PROVE  (Words /\ Slots /\ CompletedFiles /\ NoOrphans)'
  <2>1. /\ \A d \in Clients : /\ req'[d].at = IF d = c THEN "idle" ELSE req[d].at
                              /\ req'[d].file = IF d = c THEN NoFile ELSE req[d].file
        /\ At(c, "trailer")
        /\ \A g \in FileIds : word'[g] =
               IF g \notin {req[c].file} \/ word[g] = "void" THEN word[g]
               ELSE IF told \/ word[g] = "acked" THEN "acked" ELSE "loose"
        /\ files' = files
        /\ made' = made
        /\ sessions' = sessions
    BY <1>4, <1>0 DEF Answer, At, Goto, Return, NoRequest, Trash, storeVars, ghostVars, Request, Says
  <2>2. Words'
    BY <1>0, <2>1 DEF Words, Slots, At, Uploading
  <2>3. Slots'
    BY <1>0, <2>1 DEF Words, Slots, At, Uploading, OneHolder, CompletedFiles
  <2>4. CompletedFiles'
    BY <1>0, <2>1 DEF Words, CompletedFiles, Slots, At
  <2>5. NoOrphans'
    BY <1>0, <2>1 DEF NoOrphans, Live, At, Slots, Uploading
  <2> QED
    BY <2>2, <2>3, <2>4, <2>5
<1>5. ASSUME NEW c \in Clients, TrailerBad(c)
      PROVE  (Words /\ Slots /\ CompletedFiles /\ NoOrphans)'
  <2>1. /\ \A d \in Clients : /\ req'[d].at = IF d = c THEN "cleanup" ELSE req[d].at
                              /\ req'[d].file = req[d].file
        /\ At(c, "trailer")
        /\ files' = files
        /\ made' = made
        /\ word' = word
        /\ sessions' = sessions
    BY <1>5, <1>0 DEF TrailerBad, At, Goto, Return, NoRequest, Trash, storeVars, ghostVars, Request
  <2>2. Words'
    BY <1>0, <2>1 DEF Words, Slots, At, Uploading
  <2>3. Slots'
    BY <1>0, <2>1 DEF Words, Slots, At, Uploading, OneHolder, CompletedFiles
  <2>4. CompletedFiles'
    BY <1>0, <2>1 DEF Words, CompletedFiles, Slots, At
  <2>5. NoOrphans'
    BY <1>0, <2>1 DEF NoOrphans, Live, At, Slots, Uploading
  <2> QED
    BY <2>2, <2>3, <2>4, <2>5
<1>6. ASSUME NEW c \in Clients, Cleanup(c)
      PROVE  (Words /\ Slots /\ CompletedFiles /\ NoOrphans)'
  <2>1. /\ \A d \in Clients : /\ req'[d].at = IF d = c THEN "idle" ELSE req[d].at
                              /\ req'[d].file = IF d = c THEN NoFile ELSE req[d].file
        /\ At(c, "cleanup")
        /\ \A g \in FileIds : files'[g] =
               IF g = req[c].file /\ files[g] = "live" THEN "trashed" ELSE files[g]
        /\ made' = made
        /\ word' = word
        /\ sessions' = sessions
    <3>1. NoRequest.at = "idle" /\ NoRequest.file = NoFile
      BY DEF NoRequest
    <3>2. \A d \in Clients : Spoiled[d].at = req[d].at /\ Spoiled[d].file = req[d].file
      BY <1>0 DEF Spoiled, Request
    <3>3. DOMAIN Spoiled = Clients
      BY DEF Spoiled
    <3>4. req' = [Spoiled EXCEPT ![c] = NoRequest] \/ req' = [req EXCEPT ![c] = NoRequest]
      BY <1>6 DEF Cleanup, Return
    <3>5. /\ At(c, "cleanup") /\ made' = made /\ word' = word /\ sessions' = sessions
          /\ files' = IF req[c].file \in Live THEN [files EXCEPT ![req[c].file] = "trashed"] ELSE files
      BY <1>6 DEF Cleanup, Trash, ghostVars
    <3>6. \A g \in FileIds : files'[g] =
            IF g = req[c].file /\ files[g] = "live" THEN "trashed" ELSE files[g]
      BY <1>0, <3>5 DEF Live
    <3>7. \A d \in Clients : /\ req'[d].at = IF d = c THEN "idle" ELSE req[d].at
                             /\ req'[d].file = IF d = c THEN NoFile ELSE req[d].file
      BY <1>0, <3>1, <3>2, <3>3, <3>4
    <3> QED
      BY <3>5, <3>6, <3>7
  <2>2. Words'
    BY <1>0, <2>1 DEF Words, Slots, At, Uploading
  <2>3. Slots'
    BY <1>0, <2>1 DEF Words, Slots, At, Uploading, OneHolder, CompletedFiles
  <2>4. CompletedFiles'
    BY <1>0, <2>1 DEF Words, CompletedFiles, Slots, At
  <2>5. NoOrphans'
    BY <1>0, <2>1 DEF NoOrphans, Live, At, Slots, Uploading
  <2> QED
    BY <2>2, <2>3, <2>4, <2>5
<1>7. ASSUME NEW c \in Clients, CleanupFails(c)
      PROVE  (Words /\ Slots /\ CompletedFiles /\ NoOrphans)'
  <2>1. /\ \A d \in Clients : /\ req'[d].at = IF d = c THEN "idle" ELSE req[d].at
                              /\ req'[d].file = IF d = c THEN NoFile ELSE req[d].file
        /\ At(c, "cleanup")
        /\ \A g \in FileIds : word'[g] =
               IF g \notin {req[c].file} \/ word[g] = "void" THEN word[g]
               ELSE IF FALSE \/ word[g] = "acked" THEN "acked" ELSE "loose"
        /\ files' = files
        /\ made' = made
        /\ sessions' = sessions
    BY <1>7, <1>0 DEF CleanupFails, At, Goto, Return, NoRequest, Trash, storeVars, ghostVars, Request, Says
  <2>2. Words'
    BY <1>0, <2>1 DEF Words, Slots, At, Uploading
  <2>3. Slots'
    BY <1>0, <2>1 DEF Words, Slots, At, Uploading, OneHolder, CompletedFiles
  <2>4. CompletedFiles'
    BY <1>0, <2>1 DEF Words, CompletedFiles, Slots, At
  <2>5. NoOrphans'
    BY <1>0, <2>1 DEF NoOrphans, Live, At, Slots, Uploading
  <2> QED
    BY <2>2, <2>3, <2>4, <2>5
<1>8. ASSUME NEW f \in FileIds, DeleteFile(f)
      PROVE  (Words /\ Slots /\ CompletedFiles /\ NoOrphans)'
  <2>0. \A d \in Clients : ~At(d, "put")
    BY <1>8 DEF DeleteFile, Unlocked, At
  <2>1. /\ \A d \in Clients : /\ req'[d].at = req[d].at
                              /\ req'[d].file = req[d].file
        /\ \A g \in FileIds : files'[g] = IF g = f THEN "trashed" ELSE files[g]
        /\ files[f] = "live"
        /\ made' = made
        /\ word' = word
        /\ sessions' = sessions
    BY <1>8, <1>0 DEF DeleteFile, At, Goto, Return, NoRequest, Trash, storeVars, ghostVars, Request, Spoiled, Live
  <2>2. Words'
    BY <1>0, <2>1 DEF Words, Slots, At, Uploading
  <2>3. Slots'
    <3>1. \A d \in Clients : ~At(d, "put")' /\ ~Uploading(d)' => req'[d].file = NoFile
      BY <1>0, <2>1 DEF Slots, At, Uploading
    <3>2. \A d \in Clients : At(d, "put")' =>
            req'[d].file \in FileIds /\ files'[req'[d].file] \in {"none", "purged"}
      BY <1>0, <2>1, <2>0 DEF Slots, At, Uploading, OneHolder
    <3>3. ASSUME NEW d \in Clients, Uploading(d)'
          PROVE  /\ req'[d].file \in FileIds /\ files'[req'[d].file] # "none"
                 /\ word'[req'[d].file] # "acked"
                 /\ word'[req'[d].file] = "void" \/ made'[req'[d].file].from = NoUpload
      BY <1>0, <2>1, <3>3 DEF Words, Slots, At, Uploading, CompletedFiles
    <3>4. \A d, e \in Clients :
            Uploading(d)' /\ Uploading(e)' /\ req'[d].file = req'[e].file =>
              d = e \/ word'[req'[d].file] = "void"
      BY <1>0, <2>1 DEF Words, Slots, At, Uploading
    <3> QED
      BY <3>1, <3>2, <3>3, <3>4 DEF Slots
  <2>4. CompletedFiles'
    BY <1>0, <2>1 DEF Words, CompletedFiles, Slots, At
  <2>5. NoOrphans'
    <3> SUFFICES ASSUME NEW g \in FileIds, files'[g] = "live", word'[g] = "none"
                 PROVE  \E e \in Clients : req'[e].file = g /\ req'[e].at \in {"trailer", "cleanup"}
      BY DEF NoOrphans, Live
    <3>1. files[g] = "live" /\ word[g] = "none"
      BY <1>0, <2>1
    <3>2. PICK e \in Clients : req[e].file = g /\ req[e].at \in {"trailer", "cleanup"}
      BY <1>0, <3>1 DEF NoOrphans, Live
    <3> QED
      BY <2>1, <3>2 DEF At
  <2> QED
    BY <2>2, <2>3, <2>4, <2>5
<1>9. ASSUME NEW f \in FileIds, RestoreFile(f)
      PROVE  (Words /\ Slots /\ CompletedFiles /\ NoOrphans)'
  <2>0. \A d \in Clients : ~At(d, "put")
    BY <1>9 DEF RestoreFile, Unlocked, At
  <2>1. /\ \A d \in Clients : /\ req'[d].at = req[d].at
                              /\ req'[d].file = req[d].file
        /\ \A g \in FileIds : files'[g] = IF g = f THEN "live" ELSE files[g]
        /\ files[f] = "trashed"
        /\ \A g \in FileIds : word'[g] =
               IF g \notin {f} \/ word[g] = "void" THEN word[g]
               ELSE IF FALSE \/ word[g] = "acked" THEN "acked" ELSE "loose"
        /\ made' = made
        /\ sessions' = sessions
    BY <1>9, <1>0 DEF RestoreFile, At, Goto, Return, NoRequest, Trash, storeVars, ghostVars, Request, Says
  <2>2. Words'
    BY <1>0, <2>1 DEF Words, Slots, At, Uploading
  <2>3. Slots'
    <3>1. \A d \in Clients : ~At(d, "put")' /\ ~Uploading(d)' => req'[d].file = NoFile
      BY <1>0, <2>1 DEF Slots, At, Uploading
    <3>2. \A d \in Clients : At(d, "put")' =>
            req'[d].file \in FileIds /\ files'[req'[d].file] \in {"none", "purged"}
      BY <1>0, <2>1, <2>0 DEF Slots, At, Uploading, OneHolder
    <3>3. ASSUME NEW d \in Clients, Uploading(d)'
          PROVE  /\ req'[d].file \in FileIds /\ files'[req'[d].file] # "none"
                 /\ word'[req'[d].file] # "acked"
                 /\ word'[req'[d].file] = "void" \/ made'[req'[d].file].from = NoUpload
      BY <1>0, <2>1, <3>3 DEF Words, Slots, At, Uploading, CompletedFiles
    <3>4. \A d, e \in Clients :
            Uploading(d)' /\ Uploading(e)' /\ req'[d].file = req'[e].file =>
              d = e \/ word'[req'[d].file] = "void"
      BY <1>0, <2>1 DEF Words, Slots, At, Uploading
    <3> QED
      BY <3>1, <3>2, <3>3, <3>4 DEF Slots
  <2>4. CompletedFiles'
    BY <1>0, <2>1 DEF Words, CompletedFiles, Slots, At
  <2>5. NoOrphans'
    <3> SUFFICES ASSUME NEW g \in FileIds, files'[g] = "live", word'[g] = "none"
                 PROVE  \E e \in Clients : req'[e].file = g /\ req'[e].at \in {"trailer", "cleanup"}
      BY DEF NoOrphans, Live
    <3>1. files[g] = "live" /\ word[g] = "none"
      BY <1>0, <2>1
    <3>2. PICK e \in Clients : req[e].file = g /\ req[e].at \in {"trailer", "cleanup"}
      BY <1>0, <3>1 DEF NoOrphans, Live
    <3> QED
      BY <2>1, <3>2 DEF At
  <2> QED
    BY <2>2, <2>3, <2>4, <2>5
<1>10. ASSUME NEW old \in SUBSET FileIds, PurgeTrash(old)
      PROVE  (Words /\ Slots /\ CompletedFiles /\ NoOrphans)'
  <2>0. \A d \in Clients : ~At(d, "put")
    BY <1>10 DEF PurgeTrash, Unlocked, At
  <2>1. /\ \A d \in Clients : /\ req'[d].at = req[d].at
                              /\ req'[d].file = req[d].file
        /\ \A g \in FileIds : /\ files'[g] = IF g \in old THEN "purged" ELSE files[g]
                              /\ word'[g] = IF g \in old THEN "void" ELSE word[g]
        /\ \A g \in old : files[g] = "trashed"
        /\ made' = made
        /\ sessions' = sessions
    BY <1>10, <1>0 DEF PurgeTrash, At, Goto, Return, NoRequest, Trash, storeVars, ghostVars, Request, Says
  <2>2. Words'
    BY <1>0, <2>1 DEF Words, Slots, At, Uploading
  <2>3. Slots'
    <3>1. \A d \in Clients : ~At(d, "put")' /\ ~Uploading(d)' => req'[d].file = NoFile
      BY <1>0, <2>1 DEF Slots, At, Uploading
    <3>2. \A d \in Clients : At(d, "put")' =>
            req'[d].file \in FileIds /\ files'[req'[d].file] \in {"none", "purged"}
      BY <1>0, <2>1, <2>0 DEF Slots, At, Uploading, OneHolder
    <3>3. ASSUME NEW d \in Clients, Uploading(d)'
          PROVE  /\ req'[d].file \in FileIds /\ files'[req'[d].file] # "none"
                 /\ word'[req'[d].file] # "acked"
                 /\ word'[req'[d].file] = "void" \/ made'[req'[d].file].from = NoUpload
      BY <1>0, <2>1, <3>3 DEF Words, Slots, At, Uploading, CompletedFiles
    <3>4. \A d, e \in Clients :
            Uploading(d)' /\ Uploading(e)' /\ req'[d].file = req'[e].file =>
              d = e \/ word'[req'[d].file] = "void"
      BY <1>0, <2>1 DEF Words, Slots, At, Uploading
    <3> QED
      BY <3>1, <3>2, <3>3, <3>4 DEF Slots
  <2>4. CompletedFiles'
    BY <1>0, <2>1 DEF Words, CompletedFiles, Slots, At
  <2>5. NoOrphans'
    <3> SUFFICES ASSUME NEW g \in FileIds, files'[g] = "live", word'[g] = "none"
                 PROVE  \E e \in Clients : req'[e].file = g /\ req'[e].at \in {"trailer", "cleanup"}
      BY DEF NoOrphans, Live
    <3>1. files[g] = "live" /\ word[g] = "none"
      BY <1>0, <2>1
    <3>2. PICK e \in Clients : req[e].file = g /\ req[e].at \in {"trailer", "cleanup"}
      BY <1>0, <3>1 DEF NoOrphans, Live
    <3> QED
      BY <2>1, <3>2 DEF At
  <2> QED
    BY <2>2, <2>3, <2>4, <2>5
<1>11. ASSUME NEW u \in UploadIds, NEW expired \in SUBSET MayExpire, StartUpload(u, expired)
      PROVE  (Words /\ Slots /\ CompletedFiles /\ NoOrphans)'
  <2>1. /\ \A d \in Clients : /\ req'[d].at = req[d].at
                              /\ req'[d].file = req[d].file
        /\ \A v \in UploadIds : sessions'[v].status = "completed" =>
               sessions[v].status = "completed" /\ sessions'[v].file = sessions[v].file
        /\ files' = files
        /\ made' = made
        /\ word' = word
    BY <1>11, <1>0 DEF StartUpload, At, Goto, Return, NoRequest, Trash, storeVars, ghostVars, Request, Swept, NoSession, Session
  <2>2. Words'
    BY <1>0, <2>1 DEF Words, Slots, At, Uploading
  <2>3. Slots'
    BY <1>0, <2>1 DEF Words, Slots, At, Uploading, OneHolder, CompletedFiles
  <2>4. CompletedFiles'
    BY <1>0, <2>1 DEF Words, CompletedFiles, Slots, At
  <2>5. NoOrphans'
    BY <1>0, <2>1 DEF NoOrphans, Live, At, Slots, Uploading
  <2> QED
    BY <2>2, <2>3, <2>4, <2>5
<1>12. ASSUME NEW expired \in SUBSET MayExpire, SweepUploads(expired)
      PROVE  (Words /\ Slots /\ CompletedFiles /\ NoOrphans)'
  <2>1. /\ \A d \in Clients : /\ req'[d].at = req[d].at
                              /\ req'[d].file = req[d].file
        /\ \A v \in UploadIds : sessions'[v].status = "completed" =>
               sessions[v].status = "completed" /\ sessions'[v].file = sessions[v].file
        /\ files' = files
        /\ made' = made
        /\ word' = word
    BY <1>12, <1>0 DEF SweepUploads, At, Goto, Return, NoRequest, Trash, storeVars, ghostVars, Request, Swept, NoSession, Session
  <2>2. Words'
    BY <1>0, <2>1 DEF Words, Slots, At, Uploading
  <2>3. Slots'
    BY <1>0, <2>1 DEF Words, Slots, At, Uploading, OneHolder, CompletedFiles
  <2>4. CompletedFiles'
    BY <1>0, <2>1 DEF Words, CompletedFiles, Slots, At
  <2>5. NoOrphans'
    BY <1>0, <2>1 DEF NoOrphans, Live, At, Slots, Uploading
  <2> QED
    BY <2>2, <2>3, <2>4, <2>5
<1>13. ASSUME NEW c \in Clients, NEW u \in UploadIds,
             NEW base \in 0 .. UploadSize, NEW len \in 1 .. UploadSize, AppendAsks(c, u, base, len)
      PROVE  (Words /\ Slots /\ CompletedFiles /\ NoOrphans)'
  <2>1. /\ \A d \in Clients : /\ req'[d].at = IF d = c THEN "range" ELSE req[d].at
                              /\ req'[d].file = req[d].file
        /\ At(c, "idle")
        /\ files' = files
        /\ made' = made
        /\ word' = word
        /\ sessions' = sessions
    BY <1>13, <1>0 DEF AppendAsks, At, Goto, Return, NoRequest, Trash, storeVars, ghostVars, Request
  <2>2. Words'
    BY <1>0, <2>1 DEF Words, Slots, At, Uploading
  <2>3. Slots'
    BY <1>0, <2>1 DEF Words, Slots, At, Uploading, OneHolder, CompletedFiles
  <2>4. CompletedFiles'
    BY <1>0, <2>1 DEF Words, CompletedFiles, Slots, At
  <2>5. NoOrphans'
    BY <1>0, <2>1 DEF NoOrphans, Live, At, Slots, Uploading
  <2> QED
    BY <2>2, <2>3, <2>4, <2>5
<1>14. ASSUME NEW c \in Clients, AppendBegins(c)
      PROVE  (Words /\ Slots /\ CompletedFiles /\ NoOrphans)'
  <2>1. /\ \A d \in Clients : /\ req'[d].at = IF d = c THEN "append" ELSE req[d].at
                              /\ req'[d].file = req[d].file
        /\ At(c, "range")
        /\ files' = files
        /\ made' = made
        /\ word' = word
        /\ sessions' = sessions
    BY <1>14, <1>0 DEF AppendBegins, At, Goto, Return, NoRequest, Trash, storeVars, ghostVars, Request
  <2>2. Words'
    BY <1>0, <2>1 DEF Words, Slots, At, Uploading
  <2>3. Slots'
    BY <1>0, <2>1 DEF Words, Slots, At, Uploading, OneHolder, CompletedFiles
  <2>4. CompletedFiles'
    BY <1>0, <2>1 DEF Words, CompletedFiles, Slots, At
  <2>5. NoOrphans'
    BY <1>0, <2>1 DEF NoOrphans, Live, At, Slots, Uploading
  <2> QED
    BY <2>2, <2>3, <2>4, <2>5
<1>15. ASSUME NEW c \in Clients, AppendRefused(c)
      PROVE  (Words /\ Slots /\ CompletedFiles /\ NoOrphans)'
  <2>1. /\ \A d \in Clients : /\ req'[d].at = IF d = c THEN "idle" ELSE req[d].at
                              /\ req'[d].file = IF d = c THEN NoFile ELSE req[d].file
        /\ At(c, "range")
        /\ files' = files
        /\ made' = made
        /\ word' = word
        /\ sessions' = sessions
    BY <1>15, <1>0 DEF AppendRefused, At, Goto, Return, NoRequest, Trash, storeVars, ghostVars, Request
  <2>2. Words'
    BY <1>0, <2>1 DEF Words, Slots, At, Uploading
  <2>3. Slots'
    BY <1>0, <2>1 DEF Words, Slots, At, Uploading, OneHolder, CompletedFiles
  <2>4. CompletedFiles'
    BY <1>0, <2>1 DEF Words, CompletedFiles, Slots, At
  <2>5. NoOrphans'
    BY <1>0, <2>1 DEF NoOrphans, Live, At, Slots, Uploading
  <2> QED
    BY <2>2, <2>3, <2>4, <2>5
<1>16. ASSUME NEW c \in Clients, AppendEnds(c)
      PROVE  (Words /\ Slots /\ CompletedFiles /\ NoOrphans)'
  <2>1. /\ \A d \in Clients : /\ req'[d].at = IF d = c THEN "idle" ELSE req[d].at
                              /\ req'[d].file = IF d = c THEN NoFile ELSE req[d].file
        /\ At(c, "append")
        /\ \A v \in UploadIds : sessions'[v].status = "completed" =>
               sessions[v].status = "completed" /\ sessions'[v].file = sessions[v].file
        /\ files' = files
        /\ made' = made
        /\ word' = word
    BY <1>16, <1>0 DEF AppendEnds, At, Goto, Return, NoRequest, Trash, storeVars, ghostVars, Request, Swept, NoSession, Session
  <2>2. Words'
    BY <1>0, <2>1 DEF Words, Slots, At, Uploading
  <2>3. Slots'
    BY <1>0, <2>1 DEF Words, Slots, At, Uploading, OneHolder, CompletedFiles
  <2>4. CompletedFiles'
    BY <1>0, <2>1 DEF Words, CompletedFiles, Slots, At
  <2>5. NoOrphans'
    BY <1>0, <2>1 DEF NoOrphans, Live, At, Slots, Uploading
  <2> QED
    BY <2>2, <2>3, <2>4, <2>5
<1>17. ASSUME NEW c \in Clients, AppendFails(c)
      PROVE  (Words /\ Slots /\ CompletedFiles /\ NoOrphans)'
  <2>1. /\ \A d \in Clients : /\ req'[d].at = IF d = c THEN "idle" ELSE req[d].at
                              /\ req'[d].file = IF d = c THEN NoFile ELSE req[d].file
        /\ At(c, "append")
        /\ files' = files
        /\ made' = made
        /\ word' = word
        /\ sessions' = sessions
    BY <1>17, <1>0 DEF AppendFails, At, Goto, Return, NoRequest, Trash, storeVars, ghostVars, Request
  <2>2. Words'
    BY <1>0, <2>1 DEF Words, Slots, At, Uploading
  <2>3. Slots'
    BY <1>0, <2>1 DEF Words, Slots, At, Uploading, OneHolder, CompletedFiles
  <2>4. CompletedFiles'
    BY <1>0, <2>1 DEF Words, CompletedFiles, Slots, At
  <2>5. NoOrphans'
    BY <1>0, <2>1 DEF NoOrphans, Live, At, Slots, Uploading
  <2> QED
    BY <2>2, <2>3, <2>4, <2>5
<1>18. ASSUME NEW u \in UploadIds, NEW f \in FileIds, NEW told \in BOOLEAN, CompleteUpload(u, f, told)
      PROVE  (Words /\ Slots /\ CompletedFiles /\ NoOrphans)'
  <2>0. \A d \in Clients : ~At(d, "put")
    BY <1>18 DEF CompleteUpload, Unlocked, At
  <2>1. /\ \A d \in Clients : /\ req'[d].at = req[d].at
                              /\ req'[d].file = req[d].file
        /\ \A g \in FileIds : /\ files'[g] = IF g = f THEN "live" ELSE files[g]
                              /\ made'[g].from = IF g = f THEN u ELSE made[g].from
        /\ files[f] = "none"
        /\ \A v \in UploadIds : /\ sessions'[v].status = IF v = u THEN "completed" ELSE sessions[v].status
                                /\ sessions'[v].file = IF v = u THEN f ELSE sessions[v].file
        /\ \A g \in FileIds : word'[g] =
               IF g \notin {f} \/ word[g] = "void" THEN word[g]
               ELSE IF told \/ word[g] = "acked" THEN "acked" ELSE "loose"
    BY <1>18, <1>0 DEF CompleteUpload, At, Goto, Return, NoRequest, Trash, storeVars, ghostVars, Request, Says, Session
  <2>2. Words'
    BY <1>0, <2>1 DEF Words, Slots, At, Uploading
  <2>3. Slots'
    <3>1. \A d \in Clients : ~At(d, "put")' /\ ~Uploading(d)' => req'[d].file = NoFile
      BY <1>0, <2>1 DEF Slots, At, Uploading
    <3>2. \A d \in Clients : At(d, "put")' =>
            req'[d].file \in FileIds /\ files'[req'[d].file] \in {"none", "purged"}
      BY <1>0, <2>1, <2>0 DEF Slots, At, Uploading, OneHolder
    <3>3. ASSUME NEW d \in Clients, Uploading(d)'
          PROVE  /\ req'[d].file \in FileIds /\ files'[req'[d].file] # "none"
                 /\ word'[req'[d].file] # "acked"
                 /\ word'[req'[d].file] = "void" \/ made'[req'[d].file].from = NoUpload
      BY <1>0, <2>1, <3>3 DEF Words, Slots, At, Uploading, CompletedFiles
    <3>4. \A d, e \in Clients :
            Uploading(d)' /\ Uploading(e)' /\ req'[d].file = req'[e].file =>
              d = e \/ word'[req'[d].file] = "void"
      BY <1>0, <2>1 DEF Words, Slots, At, Uploading
    <3> QED
      BY <3>1, <3>2, <3>3, <3>4 DEF Slots
  <2>4. CompletedFiles'
    BY <1>0, <2>1 DEF Words, CompletedFiles, Slots, At
  <2>5. NoOrphans'
    <3> SUFFICES ASSUME NEW g \in FileIds, files'[g] = "live", word'[g] = "none"
                 PROVE  \E e \in Clients : req'[e].file = g /\ req'[e].at \in {"trailer", "cleanup"}
      BY DEF NoOrphans, Live
    <3>1. files[g] = "live" /\ word[g] = "none"
      BY <1>0, <2>1
    <3>2. PICK e \in Clients : req[e].file = g /\ req[e].at \in {"trailer", "cleanup"}
      BY <1>0, <3>1 DEF NoOrphans, Live
    <3> QED
      BY <2>1, <3>2 DEF At
  <2> QED
    BY <2>2, <2>3, <2>4, <2>5
<1>19. ASSUME NEW u \in UploadIds, CompleteAgain(u)
      PROVE  (Words /\ Slots /\ CompletedFiles /\ NoOrphans)'
  <2>0. \A d \in Clients : ~At(d, "put")
    BY <1>19 DEF CompleteAgain, Unlocked, At
  <2>1. /\ \A d \in Clients : /\ req'[d].at = req[d].at
                              /\ req'[d].file = req[d].file
        /\ sessions[u].status = "completed" /\ files[sessions[u].file] = "live"
        /\ \A g \in FileIds : word'[g] =
               IF g \notin {sessions[u].file} \/ word[g] = "void" THEN word[g]
               ELSE IF TRUE \/ word[g] = "acked" THEN "acked" ELSE "loose"
        /\ files' = files
        /\ made' = made
        /\ sessions' = sessions
    BY <1>19, <1>0 DEF CompleteAgain, At, Goto, Return, NoRequest, Trash, storeVars, ghostVars, Request, Says
  <2>2. Words'
    BY <1>0, <2>1 DEF Words, Slots, At, Uploading
  <2>3. Slots'
    <3>1. \A d \in Clients : ~At(d, "put")' /\ ~Uploading(d)' => req'[d].file = NoFile
      BY <1>0, <2>1 DEF Slots, At, Uploading
    <3>2. \A d \in Clients : At(d, "put")' =>
            req'[d].file \in FileIds /\ files'[req'[d].file] \in {"none", "purged"}
      BY <1>0, <2>1, <2>0 DEF Slots, At, Uploading, OneHolder
    <3>3. ASSUME NEW d \in Clients, Uploading(d)'
          PROVE  /\ req'[d].file \in FileIds /\ files'[req'[d].file] # "none"
                 /\ word'[req'[d].file] # "acked"
                 /\ word'[req'[d].file] = "void" \/ made'[req'[d].file].from = NoUpload
      BY <1>0, <2>1, <3>3 DEF Words, Slots, At, Uploading, CompletedFiles
    <3>4. \A d, e \in Clients :
            Uploading(d)' /\ Uploading(e)' /\ req'[d].file = req'[e].file =>
              d = e \/ word'[req'[d].file] = "void"
      BY <1>0, <2>1 DEF Words, Slots, At, Uploading
    <3> QED
      BY <3>1, <3>2, <3>3, <3>4 DEF Slots
  <2>4. CompletedFiles'
    BY <1>0, <2>1 DEF Words, CompletedFiles, Slots, At
  <2>5. NoOrphans'
    <3> SUFFICES ASSUME NEW g \in FileIds, files'[g] = "live", word'[g] = "none"
                 PROVE  \E e \in Clients : req'[e].file = g /\ req'[e].at \in {"trailer", "cleanup"}
      BY DEF NoOrphans, Live
    <3>1. files[g] = "live" /\ word[g] = "none"
      BY <1>0, <2>1
    <3>2. PICK e \in Clients : req[e].file = g /\ req[e].at \in {"trailer", "cleanup"}
      BY <1>0, <3>1 DEF NoOrphans, Live
    <3> QED
      BY <2>1, <3>2 DEF At
  <2> QED
    BY <2>2, <2>3, <2>4, <2>5
<1>20. ASSUME NEW u \in UploadIds, AbortUpload(u)
      PROVE  (Words /\ Slots /\ CompletedFiles /\ NoOrphans)'
  <2>1. /\ \A d \in Clients : /\ req'[d].at = req[d].at
                              /\ req'[d].file = req[d].file
        /\ \A v \in UploadIds : sessions'[v].status = "completed" =>
               sessions[v].status = "completed" /\ sessions'[v].file = sessions[v].file
        /\ files' = files
        /\ made' = made
        /\ word' = word
    <3> DEFINE gone == [NoSession EXCEPT !.status = "aborted"]
    <3>1. gone.status = "aborted"
      BY DEF NoSession
    <3>2. sessions' = IF sessions[u].status = "uploading"
                      THEN [sessions EXCEPT ![u] = gone] ELSE sessions
      BY <1>20 DEF AbortUpload
    <3> HIDE DEF gone
    <3>3. \A v \in UploadIds : sessions'[v].status = "completed" => sessions'[v] = sessions[v]
      BY <1>0, <3>1, <3>2
    <3> QED
      BY <1>20, <3>3 DEF AbortUpload
  <2>2. Words'
    BY <1>0, <2>1 DEF Words, Slots, At, Uploading
  <2>3. Slots'
    <3>1. \A d \in Clients : ~At(d, "put")' /\ ~Uploading(d)' => req'[d].file = NoFile
      BY <1>0, <2>1 DEF Slots, At, Uploading
    <3>2. \A d \in Clients : At(d, "put")' =>
            req'[d].file \in FileIds /\ files'[req'[d].file] \in {"none", "purged"}
      BY <1>0, <2>1 DEF Slots, At, Uploading, OneHolder
    <3>3. ASSUME NEW d \in Clients, Uploading(d)'
          PROVE  /\ req'[d].file \in FileIds /\ files'[req'[d].file] # "none"
                 /\ word'[req'[d].file] # "acked"
                 /\ word'[req'[d].file] = "void" \/ made'[req'[d].file].from = NoUpload
      BY <1>0, <2>1, <3>3 DEF Words, Slots, At, Uploading, CompletedFiles
    <3>4. \A d, e \in Clients :
            Uploading(d)' /\ Uploading(e)' /\ req'[d].file = req'[e].file =>
              d = e \/ word'[req'[d].file] = "void"
      BY <1>0, <2>1 DEF Words, Slots, At, Uploading
    <3> QED
      BY <3>1, <3>2, <3>3, <3>4 DEF Slots
  <2>4. CompletedFiles'
    BY <1>0, <2>1 DEF Words, CompletedFiles, Slots, At
  <2>5. NoOrphans'
    BY <1>0, <2>1 DEF NoOrphans, Live, At, Slots, Uploading
  <2> QED
    BY <2>2, <2>3, <2>4, <2>5
<1>21. ASSUME NEW c \in Clients, NEW limit \in 1 .. MaxPage + 1, ListFirst(c, limit)
      PROVE  (Words /\ Slots /\ CompletedFiles /\ NoOrphans)'
  <2>1. /\ \A d \in Clients : /\ req'[d].at = IF d = c THEN "total" ELSE req[d].at
                              /\ req'[d].file = IF d = c THEN NoFile ELSE req[d].file
        /\ At(c, "idle")
        /\ files' = files
        /\ made' = made
        /\ word' = word
        /\ sessions' = sessions
    BY <1>21, <1>0 DEF ListFirst, At, Goto, Return, NoRequest, Trash, storeVars, ghostVars, Request
  <2>2. Words'
    BY <1>0, <2>1 DEF Words, Slots, At, Uploading
  <2>3. Slots'
    BY <1>0, <2>1 DEF Words, Slots, At, Uploading, OneHolder, CompletedFiles
  <2>4. CompletedFiles'
    BY <1>0, <2>1 DEF Words, CompletedFiles, Slots, At
  <2>5. NoOrphans'
    BY <1>0, <2>1 DEF NoOrphans, Live, At, Slots, Uploading
  <2> QED
    BY <2>2, <2>3, <2>4, <2>5
<1>22. ASSUME NEW c \in Clients, ListNext(c)
      PROVE  (Words /\ Slots /\ CompletedFiles /\ NoOrphans)'
  <2>1. /\ \A d \in Clients : /\ req'[d].at = IF d = c THEN "total" ELSE req[d].at
                              /\ req'[d].file = req[d].file
        /\ At(c, "page")
        /\ files' = files
        /\ made' = made
        /\ word' = word
        /\ sessions' = sessions
    BY <1>22, <1>0 DEF ListNext, At, Goto, Return, NoRequest, Trash, storeVars, ghostVars, Request
  <2>2. Words'
    BY <1>0, <2>1 DEF Words, Slots, At, Uploading
  <2>3. Slots'
    BY <1>0, <2>1 DEF Words, Slots, At, Uploading, OneHolder, CompletedFiles
  <2>4. CompletedFiles'
    BY <1>0, <2>1 DEF Words, CompletedFiles, Slots, At
  <2>5. NoOrphans'
    BY <1>0, <2>1 DEF NoOrphans, Live, At, Slots, Uploading
  <2> QED
    BY <2>2, <2>3, <2>4, <2>5
<1>23. ASSUME NEW c \in Clients, ListTotal(c)
      PROVE  (Words /\ Slots /\ CompletedFiles /\ NoOrphans)'
  <2>1. /\ \A d \in Clients : req'[d].file = req[d].file /\ (d # c => req'[d].at = req[d].at)
        /\ At(c, "total") /\ req'[c].at \in {"page", "listed"}
        /\ files' = files
        /\ made' = made
        /\ word' = word
        /\ sessions' = sessions
    BY <1>23, <1>0 DEF ListTotal, At, Goto, Return, NoRequest, Trash, storeVars, ghostVars, Request
  <2>2. Words'
    BY <1>0, <2>1 DEF Words, Slots, At, Uploading
  <2>3. Slots'
    BY <1>0, <2>1 DEF Words, Slots, At, Uploading, OneHolder, CompletedFiles
  <2>4. CompletedFiles'
    BY <1>0, <2>1 DEF Words, CompletedFiles, Slots, At
  <2>5. NoOrphans'
    BY <1>0, <2>1 DEF NoOrphans, Live, At, Slots, Uploading
  <2> QED
    BY <2>2, <2>3, <2>4, <2>5
<1>24. ASSUME NEW c \in Clients, ListRead(c)
      PROVE  (Words /\ Slots /\ CompletedFiles /\ NoOrphans)'
  <2>1. /\ \A d \in Clients : /\ req'[d].at = IF d = c THEN "idle" ELSE req[d].at
                              /\ req'[d].file = IF d = c THEN NoFile ELSE req[d].file
        /\ At(c, "listed")
        /\ files' = files
        /\ made' = made
        /\ word' = word
        /\ sessions' = sessions
    BY <1>24, <1>0 DEF ListRead, At, Goto, Return, NoRequest, Trash, storeVars, ghostVars, Request
  <2>2. Words'
    BY <1>0, <2>1 DEF Words, Slots, At, Uploading
  <2>3. Slots'
    BY <1>0, <2>1 DEF Words, Slots, At, Uploading, OneHolder, CompletedFiles
  <2>4. CompletedFiles'
    BY <1>0, <2>1 DEF Words, CompletedFiles, Slots, At
  <2>5. NoOrphans'
    BY <1>0, <2>1 DEF NoOrphans, Live, At, Slots, Uploading
  <2> QED
    BY <2>2, <2>3, <2>4, <2>5
<1>25. ASSUME NEW expired \in SUBSET MayExpire, ProcessEnds(expired)
      PROVE  (Words /\ Slots /\ CompletedFiles /\ NoOrphans)'
  <2>1. /\ \A d \in Clients : req'[d].at = "idle" /\ req'[d].file = NoFile
        /\ \A g \in FileIds : word'[g] =
               IF g \notin {req[d].file : d \in {e \in Clients : ~At(e, "put")}} \/ word[g] = "void" THEN word[g]
               ELSE IF FALSE \/ word[g] = "acked" THEN "acked" ELSE "loose"
        /\ \A v \in UploadIds : sessions'[v].status = "completed" =>
               sessions[v].status = "completed" /\ sessions'[v].file = sessions[v].file
        /\ files' = files
        /\ made' = made
    BY <1>25, <1>0 DEF ProcessEnds, At, Goto, Return, NoRequest, Trash, storeVars, ghostVars, Request, Says, Swept, NoSession, Session
  <2>2. Words'
    BY <1>0, <2>1 DEF Words, Slots, At, Uploading
  <2>3. Slots'
    BY <1>0, <2>1 DEF Words, Slots, At, Uploading, OneHolder, CompletedFiles
  <2>4. CompletedFiles'
    BY <1>0, <2>1 DEF Words, CompletedFiles, Slots, At
  <2>5. NoOrphans'
    BY <1>0, <2>1 DEF NoOrphans, Live, At, Slots, Uploading
  <2> QED
    BY <2>2, <2>3, <2>4, <2>5
<1> QED
  BY <1>1, <1>2, <1>3, <1>4, <1>5, <1>6, <1>7, <1>8, <1>9, <1>10, <1>11,
     <1>12, <1>13, <1>14, <1>15, <1>16, <1>17, <1>18, <1>19, <1>20, <1>21,
     <1>22, <1>23, <1>24, <1>25
  DEF Next, HandlerStep, Arrival, StoreCall

\* The files before another one in the list are finitely many, and not all.
LEMMA NewerCount ==
  ASSUME TypeOK, NEW f \in FileIds
  PROVE  /\ IsFiniteSet(Live) /\ IsFiniteSet(Newer(f))
         /\ Cardinality(Live) \in Nat /\ Cardinality(Newer(f)) \in Nat
         /\ f \in Live => Cardinality(Newer(f)) < Cardinality(Live)
<1>1. IsFiniteSet(Live)
  <2>1. Live \subseteq FileIds /\ IsFiniteSet(FileIds)
    BY GatewayAssumption DEF Live
  <2> QED
    BY <2>1, FS_Subset
<1>2. Newer(f) \subseteq Live
  BY DEF Newer
<1>3. IsFiniteSet(Newer(f))
  BY <1>1, <1>2, FS_Subset
<1>4. Cardinality(Live) \in Nat /\ Cardinality(Newer(f)) \in Nat
  BY <1>1, <1>3, FS_CardinalityType
<1>5. ASSUME f \in Live
      PROVE  Cardinality(Newer(f)) < Cardinality(Live)
  <2>1. f \in Nat /\ ~(f > f)
    BY GatewayAssumption
  <2>2. f \notin Newer(f)
    BY <2>1 DEF Newer
  <2>3. Newer(f) # Live
    BY <1>5, <2>2
  <2>4. Cardinality(Newer(f)) <= Cardinality(Live)
         /\ (Cardinality(Newer(f)) = Cardinality(Live) => Newer(f) = Live)
    BY <1>1, <1>2, FS_Subset
  <2> QED
    BY <2>3, <2>4, <1>4
<1> QED
  BY <1>1, <1>3, <1>4, <1>5

\* A file that comes to the list moves the others back, never forth.
LEMMA NewerGrows ==
  ASSUME TypeOK, TypeOK', Live \subseteq Live', NEW f \in FileIds
  PROVE  Cardinality(Newer(f)) <= Cardinality(Newer(f)')
<1>1. Newer(f) \subseteq Newer(f)'
  BY DEF Newer
<1>2. Live' \subseteq FileIds /\ IsFiniteSet(FileIds)
  BY GatewayAssumption DEF Live
<1>3. Newer(f)' \subseteq FileIds
  BY <1>2 DEF Newer
<1>4. IsFiniteSet(Newer(f)')
  BY <1>2, <1>3, FS_Subset
<1> QED
  BY <1>1, <1>4, FS_Subset

\* A list that is not moved keeps what it has to show, as long as no file goes.
LEMMA ListRowKept ==
  ASSUME TypeOK, TypeOK', Live \subseteq Live', NEW c \in Clients, ListRow(c), req'[c] = req[c]
  PROVE  ListRow(c)'
<1>1. ASSUME NEW n \in Nat, Unread(c, n)
      PROVE  Unread(c, n)'
  <2> SUFFICES ASSUME NEW f \in req[c].since
               PROVE  f \in Live' /\ (f \in req[c].seen \/ n <= Cardinality(Newer(f)'))
    BY DEF Unread
  <2>1. f \in Live /\ (f \in req[c].seen \/ n <= Cardinality(Newer(f)))
    BY <1>1 DEF Unread
  <2>2. f \in FileIds
    BY DEF TypeOK, Request
  <2>3. Cardinality(Newer(f)) <= Cardinality(Newer(f)')
    BY <2>2, NewerGrows
  <2>4. Cardinality(Newer(f)) \in Nat
    BY <2>2, NewerCount
  <2>5. Cardinality(Newer(f)') \in Nat
    <3>1. Newer(f)' \subseteq FileIds /\ IsFiniteSet(FileIds)
      BY GatewayAssumption DEF Newer, Live
    <3> QED
      BY <3>1, FS_Subset, FS_CardinalityType
  <2> QED
    BY <1>1, <2>1, <2>3, <2>4, <2>5
<1>2. req[c].next \in Nat /\ req[c].limit \in Nat
  BY DEF TypeOK, Request
<1>3. req[c].next + req[c].limit \in Nat
  BY <1>2
<1>4. Unread(c, req[c].next + req[c].limit) => Unread(c, req[c].next + req[c].limit)'
  BY <1>1, <1>3
<1>5. Unread(c, req[c].next) => Unread(c, req[c].next)'
  BY <1>1, <1>2
<1> QED
  BY <1>4, <1>5 DEF ListRow, At

\* What a page takes out of the rest of the list.
LEMMA PageTakes ==
  ASSUME TypeOK, NEW f \in Live, NEW offset \in Nat, NEW limit \in Nat,
         offset <= Cardinality(Newer(f))
  PROVE  f \in Page(offset, limit) \/ offset + limit <= Cardinality(Newer(f))
<1>1. f \in FileIds
  BY DEF Live
<1>2. Cardinality(Newer(f)) \in Nat
  BY <1>1, NewerCount
<1> QED
  BY <1>2 DEF Page

\* No step makes a list miss a file.
LEMMA ListsStep == Inv /\ Next => Lists'
<1> SUFFICES ASSUME Inv, Next PROVE Lists'
  OBVIOUS
<1>0. /\ Inv /\ TypeOK /\ TypeOK' /\ Lists
      /\ files \in [FileIds -> {"none", "live", "trashed", "purged"}]
      /\ req \in [Clients -> Request]
  BY TypeStep DEF Inv, TypeOK
<1>1. ASSUME NEW c \in Clients, NEW f \in FileIds, PutBegins(c, f)
      PROVE  Lists'
  <2>1. Live \subseteq Live'
    BY <1>1 DEF PutBegins, Live, storeVars
  <2>2. \A d \in Clients : \/ req'[d] = req[d]
                           \/ req'[d].at \notin {"total", "page", "listed"}
    BY <1>1, <1>0 DEF PutBegins, At, Goto, Return, NoRequest, Request
  <2>3. ASSUME NEW d \in Clients
        PROVE  ListRow(d)'
    <3>1. CASE req'[d] = req[d]
      BY <1>0, <2>1, <3>1, ListRowKept DEF Lists
    <3>2. CASE req'[d].at \notin {"total", "page", "listed"}
      BY <3>2 DEF ListRow, At
    <3> QED
      BY <2>2, <3>1, <3>2
  <2> QED
    BY <2>3 DEF Lists
<1>2. ASSUME NEW c \in Clients, PutEnds(c)
      PROVE  Lists'
  <2>1. Live \subseteq Live'
    BY <1>2, <1>0 DEF PutEnds, Live
  <2>2. \A d \in Clients : \/ req'[d] = req[d]
                           \/ req'[d].at \notin {"total", "page", "listed"}
    BY <1>2, <1>0 DEF PutEnds, At, Goto, Return, NoRequest, Request
  <2>3. ASSUME NEW d \in Clients
        PROVE  ListRow(d)'
    <3>1. CASE req'[d] = req[d]
      BY <1>0, <2>1, <3>1, ListRowKept DEF Lists
    <3>2. CASE req'[d].at \notin {"total", "page", "listed"}
      BY <3>2 DEF ListRow, At
    <3> QED
      BY <2>2, <3>1, <3>2
  <2> QED
    BY <2>3 DEF Lists
<1>3. ASSUME NEW c \in Clients, PutFails(c)
      PROVE  Lists'
  <2>1. Live \subseteq Live'
    BY <1>3 DEF PutFails, Live, storeVars
  <2>2. \A d \in Clients : \/ req'[d] = req[d]
                           \/ req'[d].at \notin {"total", "page", "listed"}
    BY <1>3, <1>0 DEF PutFails, At, Goto, Return, NoRequest, Request
  <2>3. ASSUME NEW d \in Clients
        PROVE  ListRow(d)'
    <3>1. CASE req'[d] = req[d]
      BY <1>0, <2>1, <3>1, ListRowKept DEF Lists
    <3>2. CASE req'[d].at \notin {"total", "page", "listed"}
      BY <3>2 DEF ListRow, At
    <3> QED
      BY <2>2, <3>1, <3>2
  <2> QED
    BY <2>3 DEF Lists
<1>4. ASSUME NEW c \in Clients, NEW told \in BOOLEAN, Answer(c, told)
      PROVE  Lists'
  <2>1. Live \subseteq Live'
    BY <1>4 DEF Answer, Live, storeVars
  <2>2. \A d \in Clients : \/ req'[d] = req[d]
                           \/ req'[d].at \notin {"total", "page", "listed"}
    BY <1>4, <1>0 DEF Answer, At, Goto, Return, NoRequest, Request
  <2>3. ASSUME NEW d \in Clients
        PROVE  ListRow(d)'
    <3>1. CASE req'[d] = req[d]
      BY <1>0, <2>1, <3>1, ListRowKept DEF Lists
    <3>2. CASE req'[d].at \notin {"total", "page", "listed"}
      BY <3>2 DEF ListRow, At
    <3> QED
      BY <2>2, <3>1, <3>2
  <2> QED
    BY <2>3 DEF Lists
<1>5. ASSUME NEW c \in Clients, TrailerBad(c)
      PROVE  Lists'
  <2>1. Live \subseteq Live'
    BY <1>5 DEF TrailerBad, Live, storeVars
  <2>2. \A d \in Clients : \/ req'[d] = req[d]
                           \/ req'[d].at \notin {"total", "page", "listed"}
    BY <1>5, <1>0 DEF TrailerBad, At, Goto, Return, NoRequest, Request
  <2>3. ASSUME NEW d \in Clients
        PROVE  ListRow(d)'
    <3>1. CASE req'[d] = req[d]
      BY <1>0, <2>1, <3>1, ListRowKept DEF Lists
    <3>2. CASE req'[d].at \notin {"total", "page", "listed"}
      BY <3>2 DEF ListRow, At
    <3> QED
      BY <2>2, <3>1, <3>2
  <2> QED
    BY <2>3 DEF Lists
<1>6. ASSUME NEW c \in Clients, Cleanup(c)
      PROVE  Lists'
  <2>1. CASE req[c].file \in Live
    <3>1. \A e \in Clients : /\ Spoiled[e].at = req[e].at /\ Spoiled[e].limit = req[e].limit
                             /\ Spoiled[e].at \in {"total", "page"} => Spoiled[e].spoiled
                             /\ Spoiled[e].at = "listed" => Spoiled[e] = req[e]
      BY <1>0 DEF Spoiled, Request
    <3>2. DOMAIN Spoiled = Clients
      BY DEF Spoiled
    <3>3. req' = [Spoiled EXCEPT ![c] = NoRequest]
      BY <1>6, <2>1 DEF Cleanup
    <3>4. \A e \in Clients : IF e = c THEN req'[e] = NoRequest ELSE req'[e] = Spoiled[e]
      BY <3>2, <3>3
    <3>5. NoRequest.at = "idle"
      BY DEF NoRequest
    <3>6. ASSUME NEW e \in Clients
          PROVE  ListRow(e)'
      <4>1. CASE e = c
        BY <3>4, <3>5, <4>1 DEF ListRow, At
      <4>2. CASE e # c
        BY <1>0, <3>1, <3>4, <4>2 DEF Lists, ListRow, At
      <4> QED
        BY <4>1, <4>2
    <3> QED
      BY <3>6 DEF Lists
  <2>2. CASE req[c].file \notin Live
    <3>1. Live' = Live /\ req' = [req EXCEPT ![c] = NoRequest]
      BY <1>6, <2>2 DEF Cleanup, Live, Return
    <3>2. ASSUME NEW e \in Clients
          PROVE  ListRow(e)'
      <4>1. CASE e = c
        <5>1. req'[e].at = "idle"
          BY <1>0, <3>1, <4>1 DEF NoRequest
        <5> QED
          BY <5>1 DEF ListRow, At
      <4>2. CASE e # c
        <5>1. req'[e] = req[e]
          BY <1>0, <3>1, <4>2
        <5> QED
          BY <1>0, <3>1, <5>1, ListRowKept DEF Lists
      <4> QED
        BY <4>1, <4>2
    <3> QED
      BY <3>2 DEF Lists
  <2> QED
    BY <2>1, <2>2
<1>7. ASSUME NEW c \in Clients, CleanupFails(c)
      PROVE  Lists'
  <2>1. Live \subseteq Live'
    BY <1>7 DEF CleanupFails, Live, storeVars
  <2>2. \A d \in Clients : \/ req'[d] = req[d]
                           \/ req'[d].at \notin {"total", "page", "listed"}
    BY <1>7, <1>0 DEF CleanupFails, At, Goto, Return, NoRequest, Request
  <2>3. ASSUME NEW d \in Clients
        PROVE  ListRow(d)'
    <3>1. CASE req'[d] = req[d]
      BY <1>0, <2>1, <3>1, ListRowKept DEF Lists
    <3>2. CASE req'[d].at \notin {"total", "page", "listed"}
      BY <3>2 DEF ListRow, At
    <3> QED
      BY <2>2, <3>1, <3>2
  <2> QED
    BY <2>3 DEF Lists
<1>8. ASSUME NEW f \in FileIds, DeleteFile(f)
      PROVE  Lists'
  <2>1. \A e \in Clients : /\ req'[e].at = req[e].at /\ req'[e].limit = req[e].limit
                           /\ req'[e].at \in {"total", "page"} => req'[e].spoiled
                           /\ req'[e].at = "listed" => req'[e] = req[e]
    BY <1>8, <1>0 DEF DeleteFile, Spoiled, Request
  <2> QED
    BY <1>0, <2>1 DEF Lists, ListRow, At
<1>9. ASSUME NEW f \in FileIds, RestoreFile(f)
      PROVE  Lists'
  <2>1. Live \subseteq Live'
    BY <1>9, <1>0 DEF RestoreFile, Live
  <2>2. req' = req
    BY <1>9 DEF RestoreFile
  <2>3. ASSUME NEW d \in Clients
        PROVE  ListRow(d)'
    <3>1. CASE req'[d] = req[d]
      BY <1>0, <2>1, <3>1, ListRowKept DEF Lists
    <3>2. CASE req'[d].at \notin {"total", "page", "listed"}
      BY <3>2 DEF ListRow, At
    <3> QED
      BY <2>2, <3>1, <3>2
  <2> QED
    BY <2>3 DEF Lists
<1>10. ASSUME NEW old \in SUBSET FileIds, PurgeTrash(old)
      PROVE  Lists'
  <2>1. Live \subseteq Live'
    BY <1>10, <1>0 DEF PurgeTrash, Live
  <2>2. req' = req
    BY <1>10 DEF PurgeTrash
  <2>3. ASSUME NEW d \in Clients
        PROVE  ListRow(d)'
    <3>1. CASE req'[d] = req[d]
      BY <1>0, <2>1, <3>1, ListRowKept DEF Lists
    <3>2. CASE req'[d].at \notin {"total", "page", "listed"}
      BY <3>2 DEF ListRow, At
    <3> QED
      BY <2>2, <3>1, <3>2
  <2> QED
    BY <2>3 DEF Lists
<1>11. ASSUME NEW u \in UploadIds, NEW expired \in SUBSET MayExpire, StartUpload(u, expired)
      PROVE  Lists'
  <2>1. Live \subseteq Live'
    BY <1>11 DEF StartUpload, Live, storeVars
  <2>2. req' = req
    BY <1>11 DEF StartUpload
  <2>3. ASSUME NEW d \in Clients
        PROVE  ListRow(d)'
    <3>1. CASE req'[d] = req[d]
      BY <1>0, <2>1, <3>1, ListRowKept DEF Lists
    <3>2. CASE req'[d].at \notin {"total", "page", "listed"}
      BY <3>2 DEF ListRow, At
    <3> QED
      BY <2>2, <3>1, <3>2
  <2> QED
    BY <2>3 DEF Lists
<1>12. ASSUME NEW expired \in SUBSET MayExpire, SweepUploads(expired)
      PROVE  Lists'
  <2>1. Live \subseteq Live'
    BY <1>12 DEF SweepUploads, Live, storeVars
  <2>2. req' = req
    BY <1>12 DEF SweepUploads
  <2>3. ASSUME NEW d \in Clients
        PROVE  ListRow(d)'
    <3>1. CASE req'[d] = req[d]
      BY <1>0, <2>1, <3>1, ListRowKept DEF Lists
    <3>2. CASE req'[d].at \notin {"total", "page", "listed"}
      BY <3>2 DEF ListRow, At
    <3> QED
      BY <2>2, <3>1, <3>2
  <2> QED
    BY <2>3 DEF Lists
<1>13. ASSUME NEW c \in Clients, NEW u \in UploadIds,
             NEW base \in 0 .. UploadSize, NEW len \in 1 .. UploadSize, AppendAsks(c, u, base, len)
      PROVE  Lists'
  <2>1. Live \subseteq Live'
    BY <1>13 DEF AppendAsks, Live, storeVars
  <2>2. \A d \in Clients : \/ req'[d] = req[d]
                           \/ req'[d].at \notin {"total", "page", "listed"}
    BY <1>13, <1>0 DEF AppendAsks, At, Goto, Return, NoRequest, Request
  <2>3. ASSUME NEW d \in Clients
        PROVE  ListRow(d)'
    <3>1. CASE req'[d] = req[d]
      BY <1>0, <2>1, <3>1, ListRowKept DEF Lists
    <3>2. CASE req'[d].at \notin {"total", "page", "listed"}
      BY <3>2 DEF ListRow, At
    <3> QED
      BY <2>2, <3>1, <3>2
  <2> QED
    BY <2>3 DEF Lists
<1>14. ASSUME NEW c \in Clients, AppendBegins(c)
      PROVE  Lists'
  <2>1. Live \subseteq Live'
    BY <1>14 DEF AppendBegins, Live, storeVars
  <2>2. \A d \in Clients : \/ req'[d] = req[d]
                           \/ req'[d].at \notin {"total", "page", "listed"}
    BY <1>14, <1>0 DEF AppendBegins, At, Goto, Return, NoRequest, Request
  <2>3. ASSUME NEW d \in Clients
        PROVE  ListRow(d)'
    <3>1. CASE req'[d] = req[d]
      BY <1>0, <2>1, <3>1, ListRowKept DEF Lists
    <3>2. CASE req'[d].at \notin {"total", "page", "listed"}
      BY <3>2 DEF ListRow, At
    <3> QED
      BY <2>2, <3>1, <3>2
  <2> QED
    BY <2>3 DEF Lists
<1>15. ASSUME NEW c \in Clients, AppendRefused(c)
      PROVE  Lists'
  <2>1. Live \subseteq Live'
    BY <1>15 DEF AppendRefused, Live, storeVars
  <2>2. \A d \in Clients : \/ req'[d] = req[d]
                           \/ req'[d].at \notin {"total", "page", "listed"}
    BY <1>15, <1>0 DEF AppendRefused, At, Goto, Return, NoRequest, Request
  <2>3. ASSUME NEW d \in Clients
        PROVE  ListRow(d)'
    <3>1. CASE req'[d] = req[d]
      BY <1>0, <2>1, <3>1, ListRowKept DEF Lists
    <3>2. CASE req'[d].at \notin {"total", "page", "listed"}
      BY <3>2 DEF ListRow, At
    <3> QED
      BY <2>2, <3>1, <3>2
  <2> QED
    BY <2>3 DEF Lists
<1>16. ASSUME NEW c \in Clients, AppendEnds(c)
      PROVE  Lists'
  <2>1. Live \subseteq Live'
    BY <1>16 DEF AppendEnds, Live, storeVars
  <2>2. \A d \in Clients : \/ req'[d] = req[d]
                           \/ req'[d].at \notin {"total", "page", "listed"}
    BY <1>16, <1>0 DEF AppendEnds, At, Goto, Return, NoRequest, Request
  <2>3. ASSUME NEW d \in Clients
        PROVE  ListRow(d)'
    <3>1. CASE req'[d] = req[d]
      BY <1>0, <2>1, <3>1, ListRowKept DEF Lists
    <3>2. CASE req'[d].at \notin {"total", "page", "listed"}
      BY <3>2 DEF ListRow, At
    <3> QED
      BY <2>2, <3>1, <3>2
  <2> QED
    BY <2>3 DEF Lists
<1>17. ASSUME NEW c \in Clients, AppendFails(c)
      PROVE  Lists'
  <2>1. Live \subseteq Live'
    BY <1>17 DEF AppendFails, Live, storeVars
  <2>2. \A d \in Clients : \/ req'[d] = req[d]
                           \/ req'[d].at \notin {"total", "page", "listed"}
    BY <1>17, <1>0 DEF AppendFails, At, Goto, Return, NoRequest, Request
  <2>3. ASSUME NEW d \in Clients
        PROVE  ListRow(d)'
    <3>1. CASE req'[d] = req[d]
      BY <1>0, <2>1, <3>1, ListRowKept DEF Lists
    <3>2. CASE req'[d].at \notin {"total", "page", "listed"}
      BY <3>2 DEF ListRow, At
    <3> QED
      BY <2>2, <3>1, <3>2
  <2> QED
    BY <2>3 DEF Lists
<1>18. ASSUME NEW u \in UploadIds, NEW f \in FileIds, NEW told \in BOOLEAN, CompleteUpload(u, f, told)
      PROVE  Lists'
  <2>1. Live \subseteq Live'
    BY <1>18, <1>0 DEF CompleteUpload, Live
  <2>2. req' = req
    BY <1>18 DEF CompleteUpload
  <2>3. ASSUME NEW d \in Clients
        PROVE  ListRow(d)'
    <3>1. CASE req'[d] = req[d]
      BY <1>0, <2>1, <3>1, ListRowKept DEF Lists
    <3>2. CASE req'[d].at \notin {"total", "page", "listed"}
      BY <3>2 DEF ListRow, At
    <3> QED
      BY <2>2, <3>1, <3>2
  <2> QED
    BY <2>3 DEF Lists
<1>19. ASSUME NEW u \in UploadIds, CompleteAgain(u)
      PROVE  Lists'
  <2>1. Live \subseteq Live'
    BY <1>19 DEF CompleteAgain, Live, storeVars
  <2>2. req' = req
    BY <1>19 DEF CompleteAgain, storeVars
  <2>3. ASSUME NEW d \in Clients
        PROVE  ListRow(d)'
    <3>1. CASE req'[d] = req[d]
      BY <1>0, <2>1, <3>1, ListRowKept DEF Lists
    <3>2. CASE req'[d].at \notin {"total", "page", "listed"}
      BY <3>2 DEF ListRow, At
    <3> QED
      BY <2>2, <3>1, <3>2
  <2> QED
    BY <2>3 DEF Lists
<1>20. ASSUME NEW u \in UploadIds, AbortUpload(u)
      PROVE  Lists'
  <2>1. Live \subseteq Live'
    BY <1>20 DEF AbortUpload, Live, storeVars
  <2>2. req' = req
    BY <1>20 DEF AbortUpload
  <2>3. ASSUME NEW d \in Clients
        PROVE  ListRow(d)'
    <3>1. CASE req'[d] = req[d]
      BY <1>0, <2>1, <3>1, ListRowKept DEF Lists
    <3>2. CASE req'[d].at \notin {"total", "page", "listed"}
      BY <3>2 DEF ListRow, At
    <3> QED
      BY <2>2, <3>1, <3>2
  <2> QED
    BY <2>3 DEF Lists
<1>21. ASSUME NEW c \in Clients, NEW limit \in 1 .. MaxPage + 1, ListFirst(c, limit)
      PROVE  Lists'
  <2>1. Live' = Live /\ \A e \in Clients : e # c => req'[e] = req[e]
    BY <1>21, <1>0 DEF ListFirst, Live, storeVars
  <2>2. \A e \in Clients : e # c => ListRow(e)'
    BY <1>0, <2>1, ListRowKept DEF Lists
  <2>3. /\ req'[c].at = "total" /\ req'[c].limit = limit /\ req'[c].next = 0
        /\ req'[c].since = Live /\ req'[c].seen = Page(0, limit)
        /\ limit \in 1 .. MaxPage
    <3>1. limit \in 1 .. MaxPage /\ Smaller(limit, MaxPage) = limit
      BY <1>21, GatewayAssumption DEF ListFirst, Smaller
    <3> DEFINE page == Page(0, limit)
    <3>2. req' = [req EXCEPT ![c] = [NoRequest EXCEPT !.at = "total", !.limit = limit,
                                       !.since = Live, !.seen = page]]
      BY <1>21, <3>1 DEF ListFirst
    <3> HIDE DEF page
    <3>3. /\ req'[c].at = "total" /\ req'[c].limit = limit /\ req'[c].next = 0
          /\ req'[c].since = Live /\ req'[c].seen = page
      BY <1>0, <3>2 DEF NoRequest
    <3> QED
      BY <3>1, <3>3 DEF page
  <2>4. ListRow(c)'
    <3>1. ASSUME NEW f \in Live
          PROVE  f \in Page(0, limit) \/ 0 + limit <= Cardinality(Newer(f))
      <4>1. f \in FileIds /\ limit \in Nat
        BY <2>3 DEF Live
      <4>2. 0 <= Cardinality(Newer(f))
        BY <1>0, <4>1, NewerCount
      <4> QED
        BY <1>0, <4>1, <4>2, PageTakes
    <3>2. \A f \in Live : Newer(f)' = Newer(f)
      BY <2>1 DEF Newer
    <3>3. Unread(c, req[c].next + req[c].limit)'
      BY <2>1, <2>3, <3>1, <3>2 DEF Unread
    <3> QED
      BY <2>3, <3>3 DEF ListRow, At
  <2> QED
    BY <2>2, <2>4 DEF Lists
<1>22. ASSUME NEW c \in Clients, ListNext(c)
      PROVE  Lists'
  <2>1. Live' = Live /\ \A e \in Clients : e # c => req'[e] = req[e]
    BY <1>22, <1>0 DEF ListNext, Live, storeVars
  <2>2. \A e \in Clients : e # c => ListRow(e)'
    BY <1>0, <2>1, ListRowKept DEF Lists
  <2>3. /\ req'[c].at = "total" /\ req'[c].limit = req[c].limit /\ req'[c].next = req[c].next
        /\ req'[c].since = req[c].since /\ req'[c].spoiled = req[c].spoiled
        /\ req'[c].seen = req[c].seen \cup Page(req[c].next, req[c].limit)
        /\ At(c, "page") /\ req[c].limit \in 1 .. MaxPage
    <3>1. At(c, "page") /\ req[c].limit \in 1 .. MaxPage
      BY <1>22, <1>0 DEF ListNext, Lists, ListRow, At
    <3>2. Smaller(req[c].limit, MaxPage) = req[c].limit
      BY <3>1, GatewayAssumption DEF Smaller
    <3> DEFINE page == Page(req[c].next, req[c].limit)
    <3>3. req' = [req EXCEPT ![c] = [@ EXCEPT !.at = "total", !.seen = req[c].seen \cup page]]
      BY <1>22, <3>2 DEF ListNext
    <3> HIDE DEF page
    <3>4. /\ req'[c].at = "total" /\ req'[c].limit = req[c].limit /\ req'[c].next = req[c].next
          /\ req'[c].since = req[c].since /\ req'[c].spoiled = req[c].spoiled
          /\ req'[c].seen = req[c].seen \cup page
      BY <1>0, <3>3 DEF Request
    <3> QED
      BY <3>1, <3>4 DEF page
  <2>4. ListRow(c)'
    <3> SUFFICES ASSUME ~req[c].spoiled
                 PROVE  Unread(c, req[c].next + req[c].limit)'
      BY <2>3 DEF ListRow, At
    <3> SUFFICES ASSUME NEW f \in req[c].since
                 PROVE  /\ f \in Live'
                        /\ f \in req'[c].seen \/ req[c].next + req[c].limit <= Cardinality(Newer(f)')
      BY <2>3 DEF Unread
    <3>1. f \in Live /\ (f \in req[c].seen \/ req[c].next <= Cardinality(Newer(f)))
      BY <1>0, <2>3 DEF Lists, ListRow, Unread, At
    <3>2. req[c].next \in Nat /\ req[c].limit \in Nat
      BY <1>0 DEF Request
    <3>3. Newer(f)' = Newer(f)
      BY <2>1 DEF Newer
    <3>4. \/ f \in req[c].seen \/ f \in Page(req[c].next, req[c].limit)
          \/ req[c].next + req[c].limit <= Cardinality(Newer(f))
      BY <1>0, <3>1, <3>2, PageTakes
    <3> QED
      BY <2>1, <2>3, <3>1, <3>3, <3>4
  <2> QED
    BY <2>2, <2>4 DEF Lists
<1>23. ASSUME NEW c \in Clients, ListTotal(c)
      PROVE  Lists'
  <2>1. Live' = Live /\ \A e \in Clients : e # c => req'[e] = req[e]
    BY <1>23, <1>0 DEF ListTotal, Live, storeVars
  <2>2. \A e \in Clients : e # c => ListRow(e)'
    BY <1>0, <2>1, ListRowKept DEF Lists
  <2>3. /\ req'[c].limit = req[c].limit /\ req'[c].next = req[c].next + req[c].limit
        /\ req'[c].since = req[c].since /\ req'[c].spoiled = req[c].spoiled
        /\ req'[c].seen = req[c].seen /\ At(c, "total")
        /\ req'[c].at = IF req[c].next + req[c].limit >= Cardinality(Live) THEN "listed" ELSE "page"
    BY <1>23, <1>0 DEF ListTotal, Request
  <2>4. ListRow(c)'
    <3>1. req[c].limit \in 1 .. MaxPage /\ (~req[c].spoiled => Unread(c, req[c].next + req[c].limit))
      BY <1>0, <2>3 DEF Lists, ListRow, At
    <3>2. \A f \in Live : Newer(f)' = Newer(f)
      BY <2>1 DEF Newer
    <3>3. ~req[c].spoiled => Unread(c, req[c].next)'
      BY <2>1, <2>3, <3>1, <3>2 DEF Unread
    <3>4. ASSUME ~req[c].spoiled, req[c].next + req[c].limit >= Cardinality(Live), NEW f \in req[c].since
          PROVE  f \in req[c].seen
      <4>1. f \in Live /\ (f \in req[c].seen \/ req[c].next + req[c].limit <= Cardinality(Newer(f)))
        BY <3>1, <3>4 DEF Unread
      <4>2. f \in FileIds
        BY <4>1 DEF Live
      <4>3. /\ Cardinality(Newer(f)) < Cardinality(Live)
            /\ Cardinality(Newer(f)) \in Nat /\ Cardinality(Live) \in Nat
        BY <1>0, <4>1, <4>2, NewerCount
      <4>4. req[c].next + req[c].limit \in Nat
        <5>1. req[c].next \in Nat /\ req[c].limit \in Nat
          BY <1>0 DEF Request
        <5> QED
          BY <5>1
      <4> QED
        BY <3>4, <4>1, <4>3, <4>4
    <3> QED
      BY <2>3, <3>1, <3>3, <3>4 DEF ListRow, At
  <2> QED
    BY <2>2, <2>4 DEF Lists
<1>24. ASSUME NEW c \in Clients, ListRead(c)
      PROVE  Lists'
  <2>1. Live \subseteq Live'
    BY <1>24 DEF ListRead, Live, storeVars
  <2>2. \A d \in Clients : \/ req'[d] = req[d]
                           \/ req'[d].at \notin {"total", "page", "listed"}
    BY <1>24, <1>0 DEF ListRead, At, Goto, Return, NoRequest, Request
  <2>3. ASSUME NEW d \in Clients
        PROVE  ListRow(d)'
    <3>1. CASE req'[d] = req[d]
      BY <1>0, <2>1, <3>1, ListRowKept DEF Lists
    <3>2. CASE req'[d].at \notin {"total", "page", "listed"}
      BY <3>2 DEF ListRow, At
    <3> QED
      BY <2>2, <3>1, <3>2
  <2> QED
    BY <2>3 DEF Lists
<1>25. ASSUME NEW expired \in SUBSET MayExpire, ProcessEnds(expired)
      PROVE  Lists'
  <2>1. Live \subseteq Live'
    BY <1>25 DEF ProcessEnds, Live, storeVars
  <2>2. \A d \in Clients : req'[d].at = "idle"
    BY <1>25 DEF ProcessEnds, NoRequest
  <2>3. ASSUME NEW d \in Clients
        PROVE  ListRow(d)'
    <3>1. CASE req'[d] = req[d]
      BY <1>0, <2>1, <3>1, ListRowKept DEF Lists
    <3>2. CASE req'[d].at \notin {"total", "page", "listed"}
      BY <3>2 DEF ListRow, At
    <3> QED
      BY <2>2, <3>1, <3>2
  <2> QED
    BY <2>3 DEF Lists
<1> QED
  BY <1>1, <1>2, <1>3, <1>4, <1>5, <1>6, <1>7, <1>8, <1>9, <1>10, <1>11,
     <1>12, <1>13, <1>14, <1>15, <1>16, <1>17, <1>18, <1>19, <1>20, <1>21,
     <1>22, <1>23, <1>24, <1>25
  DEF Next, HandlerStep, Arrival, StoreCall

\* AckedFilesStay, of one step.
AckedStay == \A f \in FileIds :
  word[f] = "acked" /\ files[f] = "live" /\ files'[f] # "live" => DeleteFile(f)

\* Only a DELETE takes a file whose 201 was sent.
LEMMA AckedStep == Inv /\ Next => AckedStay
<1> SUFFICES ASSUME Inv, Next PROVE AckedStay
  OBVIOUS
<1> USE DEF AckedStay
<1>0. /\ Inv /\ Slots /\ req \in [Clients -> Request]
      /\ files \in [FileIds -> {"none", "live", "trashed", "purged"}]
  BY DEF Inv, TypeOK
<1>1. ASSUME NEW c \in Clients, NEW f \in FileIds, PutBegins(c, f)
      PROVE  AckedStay
  BY <1>1 DEF PutBegins, storeVars
<1>2. ASSUME NEW c \in Clients, PutEnds(c)
      PROVE  AckedStay
  <2>1. \A f \in FileIds : files[f] = "live" => files'[f] = "live"
    BY <1>2, <1>0 DEF PutEnds
  <2> QED
    BY <2>1
<1>3. ASSUME NEW c \in Clients, PutFails(c)
      PROVE  AckedStay
  BY <1>3 DEF PutFails, storeVars
<1>4. ASSUME NEW c \in Clients, NEW told \in BOOLEAN, Answer(c, told)
      PROVE  AckedStay
  BY <1>4 DEF Answer, storeVars
<1>5. ASSUME NEW c \in Clients, TrailerBad(c)
      PROVE  AckedStay
  BY <1>5 DEF TrailerBad, storeVars
<1>6. ASSUME NEW c \in Clients, Cleanup(c)
      PROVE  AckedStay
  <2>1. At(c, "cleanup") => word[req[c].file] # "acked"
    BY <1>0 DEF Slots, Uploading, At
  <2>2. \A f \in FileIds : files'[f] # files[f] => f = req[c].file
    BY <1>6, <1>0 DEF Cleanup, Trash
  <2> QED
    BY <1>6, <2>1, <2>2 DEF Cleanup
<1>7. ASSUME NEW c \in Clients, CleanupFails(c)
      PROVE  AckedStay
  BY <1>7 DEF CleanupFails, storeVars
<1>8. ASSUME NEW f \in FileIds, DeleteFile(f)
      PROVE  AckedStay
  <2>1. \A g \in FileIds : files'[g] # files[g] => g = f
    BY <1>8, <1>0 DEF DeleteFile, Trash
  <2> QED
    BY <1>8, <2>1
<1>9. ASSUME NEW f \in FileIds, RestoreFile(f)
      PROVE  AckedStay
  BY <1>9, <1>0 DEF RestoreFile
<1>10. ASSUME NEW old \in SUBSET FileIds, PurgeTrash(old)
      PROVE  AckedStay
  BY <1>10, <1>0 DEF PurgeTrash
<1>11. ASSUME NEW u \in UploadIds, NEW expired \in SUBSET MayExpire, StartUpload(u, expired)
      PROVE  AckedStay
  BY <1>11 DEF StartUpload, storeVars
<1>12. ASSUME NEW expired \in SUBSET MayExpire, SweepUploads(expired)
      PROVE  AckedStay
  BY <1>12 DEF SweepUploads, storeVars
<1>13. ASSUME NEW c \in Clients, NEW u \in UploadIds,
             NEW base \in 0 .. UploadSize, NEW len \in 1 .. UploadSize, AppendAsks(c, u, base, len)
      PROVE  AckedStay
  BY <1>13 DEF AppendAsks, storeVars
<1>14. ASSUME NEW c \in Clients, AppendBegins(c)
      PROVE  AckedStay
  BY <1>14 DEF AppendBegins, storeVars
<1>15. ASSUME NEW c \in Clients, AppendRefused(c)
      PROVE  AckedStay
  BY <1>15 DEF AppendRefused, storeVars
<1>16. ASSUME NEW c \in Clients, AppendEnds(c)
      PROVE  AckedStay
  BY <1>16 DEF AppendEnds, storeVars
<1>17. ASSUME NEW c \in Clients, AppendFails(c)
      PROVE  AckedStay
  BY <1>17 DEF AppendFails, storeVars
<1>18. ASSUME NEW u \in UploadIds, NEW f \in FileIds, NEW told \in BOOLEAN, CompleteUpload(u, f, told)
      PROVE  AckedStay
  BY <1>18, <1>0 DEF CompleteUpload
<1>19. ASSUME NEW u \in UploadIds, CompleteAgain(u)
      PROVE  AckedStay
  BY <1>19 DEF CompleteAgain, storeVars
<1>20. ASSUME NEW u \in UploadIds, AbortUpload(u)
      PROVE  AckedStay
  BY <1>20 DEF AbortUpload, storeVars
<1>21. ASSUME NEW c \in Clients, NEW limit \in 1 .. MaxPage + 1, ListFirst(c, limit)
      PROVE  AckedStay
  BY <1>21 DEF ListFirst, storeVars
<1>22. ASSUME NEW c \in Clients, ListNext(c)
      PROVE  AckedStay
  BY <1>22 DEF ListNext, storeVars
<1>23. ASSUME NEW c \in Clients, ListTotal(c)
      PROVE  AckedStay
  BY <1>23 DEF ListTotal, storeVars
<1>24. ASSUME NEW c \in Clients, ListRead(c)
      PROVE  AckedStay
  BY <1>24 DEF ListRead, storeVars
<1>25. ASSUME NEW expired \in SUBSET MayExpire, ProcessEnds(expired)
      PROVE  AckedStay
  BY <1>25 DEF ProcessEnds, storeVars
<1> QED
  BY <1>1, <1>2, <1>3, <1>4, <1>5, <1>6, <1>7, <1>8, <1>9, <1>10, <1>11,
     <1>12, <1>13, <1>14, <1>15, <1>16, <1>17, <1>18, <1>19, <1>20, <1>21,
     <1>22, <1>23, <1>24, <1>25
  DEF Next, HandlerStep, Arrival, StoreCall

-----------------------------------------------------------------------------
(* The theorems. *)

\* No file, no session, no request.
LEMMA InitInv == Init => Inv
<1> SUFFICES ASSUME Init PROVE Inv
  OBVIOUS
<1>1. <<>> \in Data
  <2>1. <<>> \in Seq(1 .. UploadSize) /\ Len(<<>>) = 0
    BY EmptySeq
  <2> QED
    BY <2>1, GatewayAssumption DEF Data
<1>2. TypeOK
  <2>1. NoRequest \in Request
    BY DEF NoRequest, Request, Places
  <2>2. NoSession \in Session /\ NotMade \in [from : UploadIds \cup {NoUpload}, bytes : Data]
    BY <1>1 DEF NoSession, NotMade, Session
  <2> QED
    BY <2>1, <2>2 DEF Init, TypeOK
<1>3. OneHolder /\ Ranges
  BY DEF Init, OneHolder, Ranges, At, NoRequest
<1>4. ContentInOrder
  BY NoBytes DEF Init, ContentInOrder, NoSession, NotMade
<1>5. SessionsSpent /\ OneFilePerSession
  BY DEF Init, SessionsSpent, OneFilePerSession, NotMade
<1>6. Words /\ CompletedFiles
  BY DEF Init, Words, CompletedFiles, NotMade, NoSession
<1>7. Slots
  BY DEF Init, Slots, At, Uploading, NoRequest
<1>8. NoOrphans
  BY DEF Init, NoOrphans, Live
<1>9. Lists
  BY DEF Init, Lists, ListRow, At, NoRequest
<1> QED
  BY <1>2, <1>3, <1>4, <1>5, <1>6, <1>7, <1>8, <1>9 DEF Inv

\* A step that changes nothing keeps it.
LEMMA StutterInv == Inv /\ UNCHANGED vars => Inv'
<1> SUFFICES ASSUME Inv, UNCHANGED vars PROVE Inv'
  OBVIOUS
<1>1. UNCHANGED <<files, made, sessions, req, word, aborted>>
  BY DEF vars, storeVars, ghostVars
<1>2. (TypeOK /\ OneHolder /\ Ranges /\ ContentInOrder)'
  BY <1>1 DEF Inv, TypeOK, OneHolder, Ranges, ContentInOrder, At
<1>3. (SessionsSpent /\ OneFilePerSession /\ Words /\ CompletedFiles)'
  BY <1>1 DEF Inv, SessionsSpent, OneFilePerSession, Words, CompletedFiles
<1>4. (Slots /\ NoOrphans)'
  BY <1>1 DEF Inv, Slots, NoOrphans, At, Uploading, Live
<1>5. Lists'
  BY <1>1 DEF Inv, Lists, ListRow, Unread, Newer, At, Live
<1> QED
  BY <1>2, <1>3, <1>4, <1>5 DEF Inv

\* The invariant: what the lock, the handlers, the sessions, the promises and the lists
\* know of each other (handlers.go and store.go together).
THEOREM Invariant == Spec => []Inv
<1>1. Inv /\ [Next]_vars => Inv'
  <2> SUFFICES ASSUME Inv, Next PROVE Inv'
    BY StutterInv
  <2>1. TypeOK' /\ (OneHolder /\ Ranges /\ ContentInOrder)'
    BY TypeStep, AppendStep
  <2>2. (SessionsSpent /\ OneFilePerSession)'
    BY SpentStep
  <2>3. (Words /\ Slots /\ CompletedFiles /\ NoOrphans)'
    BY FilesStep
  <2>4. Lists'
    BY ListsStep
  <2> QED
    BY <2>1, <2>2, <2>3, <2>4 DEF Inv
<1> QED
  BY <1>1, InitInv, PTL DEF Spec

\* Every variable keeps its type.
THEOREM Types == Spec => []TypeOK
<1>1. Inv => TypeOK
  BY DEF Inv
<1> QED
  BY <1>1, Invariant, PTL

\* A resumed upload is never mixed up, whoever appends to it (AppendUpload, CompleteUpload).
THEOREM UploadsInOrder == Spec => []ContentInOrder
<1>1. Inv => ContentInOrder
  BY DEF Inv
<1> QED
  BY <1>1, Invariant, PTL

\* A repeated completion makes no second file (CompleteUpload).
THEOREM CompletesOnce == Spec => []OneFilePerSession
<1>1. Inv => OneFilePerSession
  BY DEF Inv
<1> QED
  BY <1>1, Invariant, PTL

\* What a client aborted does not become a file (AbortUpload).
THEOREM AbortHolds == Spec => []AbortedMakesNothing
<1>1. Inv => AbortedMakesNothing
  BY GatewayAssumption DEF Inv, SessionsSpent, AbortedMakesNothing, TypeOK
<1> QED
  BY <1>1, Invariant, PTL

\* No live file is without somebody who knows of it (upload, cleanupCreated).
THEOREM UploadsCleanedUp == Spec => []NoOrphans
<1>1. Inv => NoOrphans
  BY DEF Inv
<1> QED
  BY <1>1, Invariant, PTL

\* A list read to its end is complete (list, List, Count).
THEOREM ListsComplete == Spec => []ListFindsAll
<1>1. Inv => ListFindsAll
  BY DEF Inv, Lists, ListRow, ListFindsAll
<1> QED
  BY <1>1, Invariant, PTL

\* A confirmed file leaves through its own DELETE only (cleanupCreated, Delete).
THEOREM ConfirmedStay == Spec => AckedFilesStay
<1>1. Inv /\ [Next]_vars => [AckedStay]_vars
  BY AckedStep
<1> QED
  BY <1>1, Invariant, PTL DEF Spec, AckedFilesStay, AckedStay

=============================================================================
