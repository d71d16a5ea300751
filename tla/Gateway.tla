------------------------------ MODULE Gateway ------------------------------
(***************************************************************************)
(* core/apigateway: what the handlers of one process do to the store       *)
(* between them.  A handler takes several steps: it reads the request,     *)
(* calls pkg/files.Service (which hands every call to the store,           *)
(* service.go), reads on, and calls again; s.mu is held within a call and  *)
(* not between two calls.  Put and AppendUpload hold it while the body of  *)
(* the request comes in.                                                   *)
(*                                                                         *)
(* A call that cannot be seen half done is one step here; DiskStore has    *)
(* what is below it.  Answers that change nothing (400, 401, 404, 409,     *)
(* 507) are left out where no other answer depends on them.                *)
(***************************************************************************)
EXTENDS Integers, FiniteSets, Sequences

CONSTANTS FileIds,     \* file ids, numbered by the CreatedAt of their files
          UploadIds,   \* resumable upload session ids
          Clients,     \* client connections, with one request each at a time
          NoFile,      \* no file id
          NoUpload,    \* no session id
          UploadSize,  \* the size a session declares
          UploadTTL,   \* TRUE when XION_UPLOAD_SESSION_TTL is set
          MaxPage      \* the largest limit of a list request (1000)

ASSUME GatewayAssumption ==
  /\ FileIds \subseteq Nat /\ IsFiniteSet(FileIds)
  /\ NoFile \notin FileIds
  /\ NoUpload \notin UploadIds
  /\ UploadSize \in Nat \ {0}
  /\ UploadTTL \in BOOLEAN
  /\ MaxPage \in Nat \ {0}

VARIABLES
  files,     \* each file id: never used, live, in the trash, or purged
  made,      \* the session a file was made of, and its bytes, by their place in the upload
  sessions,  \* uploads/{id}
  req,       \* the request of each client, and where its handler is
  word,      \* ghost: what the gateway has said of a file
  aborted    \* ghost: sessions the gateway answered 204 for

storeVars == <<files, made, sessions>>
ghostVars == <<word, aborted>>
vars == <<storeVars, req, ghostVars>>

-----------------------------------------------------------------------------
(* The state. *)

Bytes(from, to) == [i \in 1 .. to - from |-> from + i]

NotMade == [from |-> NoUpload, bytes |-> <<>>]
NoSession == [status |-> "none", data |-> <<>>, file |-> NoFile]
NoRequest == [at |-> "idle", file |-> NoFile,
              session |-> NoUpload, base |-> 0, len |-> 0,
              next |-> 0, limit |-> 0, since |-> {}, seen |-> {}, spoiled |-> FALSE]

Places == {"idle", "put", "trailer", "cleanup", "range", "append", "total", "page", "listed"}

Init ==
  /\ files = [f \in FileIds |-> "none"]
  /\ made = [f \in FileIds |-> NotMade]
  /\ sessions = [u \in UploadIds |-> NoSession]
  /\ req = [c \in Clients |-> NoRequest]
  /\ word = [f \in FileIds |-> "none"]
  /\ aborted = {}

Live == {f \in FileIds : files[f] = "live"}

\* No handler holds s.mu while its client sends a body.
Unlocked == \A c \in Clients : req[c].at \notin {"put", "append"}

At(c, place) == req[c].at = place
Goto(c, place) == req' = [req EXCEPT ![c].at = place]
Return(c) == req' = [req EXCEPT ![c] = NoRequest]

\* A file leaves metadata/ for trash/.  A list that is being read page by page has
\* one file less before what it has not read yet.
Trash(f) == files' = [files EXCEPT ![f] = "trashed"]
Spoiled == [c \in Clients |->
  IF req[c].at \in {"total", "page"} THEN [req[c] EXCEPT !.spoiled = TRUE] ELSE req[c]]

\* The client of these files got its 201, or nothing can be said: it went away, its
\* request was not cleaned up, somebody restored the file.  After a purge the id is void.
Says(told, ids) ==
  word' = [f \in FileIds |->
             IF f \notin ids \/ word[f] = "void" THEN word[f]
             ELSE IF told \/ word[f] = "acked" THEN "acked" ELSE "loose"]

-----------------------------------------------------------------------------
(* POST /files: the file part, then the rest of the body. *)

\* Mutant: Put does not look whether the id is in use.
PutBeginsAnywhere(c, f) ==
  /\ At(c, "idle") /\ Unlocked
  /\ req' = [req EXCEPT ![c] = [@ EXCEPT !.at = "put", !.file = f]]
  /\ UNCHANGED <<storeVars, ghostVars>>

\* The id is fresh, or comes from a peer that replicates; Put refuses one that is live
\* or in the trash.
PutBegins(c, f) ==
  /\ At(c, "idle") /\ Unlocked
  /\ files[f] \in {"none", "purged"}
  /\ req' = [req EXCEPT ![c] = [@ EXCEPT !.at = "put", !.file = f]]
  /\ UNCHANGED <<storeVars, ghostVars>>

PutEnds(c) ==
  /\ At(c, "put")
  /\ files' = [files EXCEPT ![req[c].file] = "live"]
  /\ made' = [made EXCEPT ![req[c].file] = NotMade]
  /\ Goto(c, "trailer")
  /\ UNCHANGED <<sessions, ghostVars>>

\* The body breaks off or is too large, or the store fails: Put leaves nothing.
PutFails(c) ==
  /\ At(c, "put")
  /\ Return(c)
  /\ UNCHANGED <<storeVars, ghostVars>>

\* The body ends, enqueueUpload, and the 201 - which a client that went away misses.
Answer(c, told) ==
  /\ At(c, "trailer")
  /\ Says(told, {req[c].file})
  /\ Return(c)
  /\ UNCHANGED <<storeVars, aborted>>

\* Mutant: the error is answered without a clean-up.
TrailerBadKeepsFile(c) ==
  /\ At(c, "trailer")
  /\ Return(c)
  /\ UNCHANGED <<storeVars, ghostVars>>

\* Another part after the file, a broken or an overlong body.
TrailerBad(c) ==
  /\ At(c, "trailer")
  /\ Goto(c, "cleanup")
  /\ UNCHANGED <<storeVars, ghostVars>>

\* cleanupCreated, with the context of the request.
Cleanup(c) ==
  /\ At(c, "cleanup") /\ Unlocked
  /\ IF req[c].file \in Live
     THEN Trash(req[c].file) /\ req' = [Spoiled EXCEPT ![c] = NoRequest]
     ELSE Return(c) /\ UNCHANGED files
  /\ UNCHANGED <<made, sessions, ghostVars>>

\* The client went away and its context is cancelled, or the store fails: the handler
\* only logs it.
CleanupFails(c) ==
  /\ At(c, "cleanup")
  /\ Says(FALSE, {req[c].file})
  /\ Return(c)
  /\ UNCHANGED <<storeVars, aborted>>

-----------------------------------------------------------------------------
(* DELETE /files/{id}, POST /files/{id}/restore, POST /trash/purge. *)

DeleteFile(f) ==
  /\ Unlocked
  /\ files[f] = "live"
  /\ Trash(f)
  /\ req' = Spoiled
  /\ UNCHANGED <<made, sessions, ghostVars>>

RestoreFile(f) ==
  /\ Unlocked
  /\ files[f] = "trashed"
  /\ files' = [files EXCEPT ![f] = "live"]
  /\ Says(FALSE, {f})
  /\ UNCHANGED <<made, sessions, req, aborted>>

\* What was deleted at or before the cutoff, or everything.
PurgeTrash(old) ==
  /\ Unlocked
  /\ old # {} /\ \A f \in old : files[f] = "trashed"
  /\ files' = [f \in FileIds |-> IF f \in old THEN "purged" ELSE files[f]]
  /\ word' = [f \in FileIds |-> IF f \in old THEN "void" ELSE word[f]]
  /\ UNCHANGED <<made, sessions, req, aborted>>

-----------------------------------------------------------------------------
(* /uploads *)

\* sweepUploadsUnlocked: completed sessions, and those past XION_UPLOAD_SESSION_TTL.
Swept(expired) ==
  [u \in UploadIds |->
     IF UploadTTL /\ (sessions[u].status = "completed" \/ u \in expired)
     THEN [NoSession EXCEPT !.status = "swept"] ELSE sessions[u]]

MayExpire == {u \in UploadIds : sessions[u].status = "uploading"}

StartUpload(u, expired) ==
  /\ Unlocked
  /\ sessions[u].status = "none"
  /\ sessions' = [Swept(expired) EXCEPT ![u].status = "uploading"]
  /\ UNCHANGED <<files, made, req, ghostVars>>

SweepUploads(expired) ==
  /\ Unlocked
  /\ sessions' = Swept(expired)
  /\ UNCHANGED <<files, made, req, ghostVars>>

\* parseContentRange, with the total the session declares.
InRange(base, len) == len > 0 /\ base + len <= UploadSize

\* PUT /uploads/{id} asks GetUpload for the size, and lets the lock go.
AppendAsks(c, u, base, len) ==
  /\ At(c, "idle") /\ Unlocked
  /\ sessions[u].status \in {"uploading", "completed"}
  /\ InRange(base, len)
  /\ req' = [req EXCEPT ![c] = [@ EXCEPT !.at = "range", !.session = u, !.base = base, !.len = len]]
  /\ UNCHANGED <<storeVars, ghostVars>>

\* Mutant: the offset is compared with what GetUpload said.
AppendBeginsUnchecked(c) ==
  /\ At(c, "range") /\ Unlocked
  /\ sessions[req[c].session].status = "uploading"
  /\ Len(sessions[req[c].session].data) + req[c].len <= UploadSize
  /\ Goto(c, "append")
  /\ UNCHANGED <<storeVars, ghostVars>>

\* AppendUpload looks again, under the lock it keeps.
AppendBegins(c) ==
  /\ At(c, "range") /\ Unlocked
  /\ sessions[req[c].session].status = "uploading"
  /\ Len(sessions[req[c].session].data) = req[c].base
  /\ Goto(c, "append")
  /\ UNCHANGED <<storeVars, ghostVars>>

AppendRefused(c) ==
  /\ At(c, "range") /\ Unlocked
  /\ \/ sessions[req[c].session].status # "uploading"
     \/ Len(sessions[req[c].session].data) # req[c].base
  /\ Return(c)
  /\ UNCHANGED <<storeVars, ghostVars>>

AppendEnds(c) ==
  /\ At(c, "append")
  /\ sessions' = [sessions EXCEPT ![req[c].session].data =
                    @ \o Bytes(req[c].base, req[c].base + req[c].len)]
  /\ Return(c)
  /\ UNCHANGED <<files, made, ghostVars>>

\* A short body, a wrong checksum, a failed call: the part is cut back.
AppendFails(c) ==
  /\ At(c, "append")
  /\ Return(c)
  /\ UNCHANGED <<storeVars, ghostVars>>

\* Mutant: the session is not marked completed and keeps its data.
CompleteKeepsSession(u, f, told) ==
  /\ Unlocked
  /\ sessions[u].status = "uploading" /\ Len(sessions[u].data) = UploadSize
  /\ files[f] = "none"
  /\ files' = [files EXCEPT ![f] = "live"]
  /\ made' = [made EXCEPT ![f] = [from |-> u, bytes |-> sessions[u].data]]
  /\ Says(told, {f})
  /\ UNCHANGED <<sessions, req, aborted>>

\* The session's bytes become a file with a fresh id; the client may not hear of it.
CompleteUpload(u, f, told) ==
  /\ Unlocked
  /\ sessions[u].status = "uploading" /\ Len(sessions[u].data) = UploadSize
  /\ files[f] = "none"
  /\ files' = [files EXCEPT ![f] = "live"]
  /\ made' = [made EXCEPT ![f] = [from |-> u, bytes |-> sessions[u].data]]
  /\ sessions' = [sessions EXCEPT ![u] = [status |-> "completed", data |-> <<>>, file |-> f]]
  /\ Says(told, {f})
  /\ UNCHANGED <<req, aborted>>

\* A completed session answers with its file again, as long as it is live.
CompleteAgain(u) ==
  /\ Unlocked
  /\ sessions[u].status = "completed"
  /\ files[sessions[u].file] = "live"
  /\ Says(TRUE, {sessions[u].file})
  /\ UNCHANGED <<storeVars, req, aborted>>

\* Mutant: a completed session can be aborted as well.
AbortAnyUpload(u) ==
  /\ Unlocked
  /\ sessions[u].status # "none"
  /\ sessions' = IF sessions[u].status \in {"uploading", "completed"}
                 THEN [sessions EXCEPT ![u] = [NoSession EXCEPT !.status = "aborted"]]
                 ELSE sessions
  /\ aborted' = aborted \cup {u}
  /\ UNCHANGED <<files, made, req, word>>

\* A session that is gone is aborted already; a completed one is refused.
AbortUpload(u) ==
  /\ Unlocked
  /\ sessions[u].status \notin {"none", "completed"}
  /\ sessions' = IF sessions[u].status = "uploading"
                 THEN [sessions EXCEPT ![u] = [NoSession EXCEPT !.status = "aborted"]]
                 ELSE sessions
  /\ aborted' = aborted \cup {u}
  /\ UNCHANGED <<files, made, req, word>>

-----------------------------------------------------------------------------
(* GET /files, page by page: List sorts the live files newest first, cuts the   *)
(* page out of them and lets the lock go; Count then gives the total.           *)

Newer(f) == {g \in Live : g > f}

Page(offset, limit) ==
  {f \in Live : offset <= Cardinality(Newer(f)) /\ Cardinality(Newer(f)) < offset + limit}

Smaller(m, n) == IF m < n THEN m ELSE n

\* Mutant: the gateway passes any limit on, and the store cuts it to MaxPage.
ListFirstAnyLimit(c, limit) ==
  /\ At(c, "idle") /\ Unlocked
  /\ req' = [req EXCEPT ![c] = [NoRequest EXCEPT !.at = "total", !.limit = limit,
                                  !.since = Live, !.seen = Page(0, Smaller(limit, MaxPage))]]
  /\ UNCHANGED <<storeVars, ghostVars>>

ListFirst(c, limit) ==
  /\ At(c, "idle") /\ Unlocked
  /\ limit <= MaxPage
  /\ req' = [req EXCEPT ![c] = [NoRequest EXCEPT !.at = "total", !.limit = limit,
                                  !.since = Live, !.seen = Page(0, Smaller(limit, MaxPage))]]
  /\ UNCHANGED <<storeVars, ghostVars>>

ListNext(c) ==
  /\ At(c, "page") /\ Unlocked
  /\ req' = [req EXCEPT ![c] = [@ EXCEPT !.at = "total",
                   !.seen = req[c].seen \cup Page(req[c].next, Smaller(req[c].limit, MaxPage))]]
  /\ UNCHANGED <<storeVars, ghostVars>>

\* The client goes on until its offset has reached the total.
ListTotal(c) ==
  /\ At(c, "total") /\ Unlocked
  /\ req' = [req EXCEPT ![c] = [@ EXCEPT !.next = req[c].next + req[c].limit,
                   !.at = IF req[c].next + req[c].limit >= Cardinality(Live)
                          THEN "listed" ELSE "page"]]
  /\ UNCHANGED <<storeVars, ghostVars>>

ListRead(c) ==
  /\ At(c, "listed")
  /\ Return(c)
  /\ UNCHANGED <<storeVars, ghostVars>>

-----------------------------------------------------------------------------
\* Shutdown gives up waiting, or the process is killed; the next one sweeps (Recover).
ProcessEnds(expired) ==
  /\ Says(FALSE, {req[c].file : c \in {d \in Clients : ~At(d, "put")}})
  /\ req' = [c \in Clients |-> NoRequest]
  /\ sessions' = Swept(expired)
  /\ UNCHANGED <<files, made, aborted>>

HandlerStep(c) ==
  \/ PutEnds(c) \/ PutFails(c) \/ TrailerBad(c) \/ Cleanup(c) \/ CleanupFails(c)
  \/ \E told \in BOOLEAN : Answer(c, told)
  \/ AppendBegins(c) \/ AppendRefused(c) \/ AppendEnds(c) \/ AppendFails(c)
  \/ ListNext(c) \/ ListTotal(c) \/ ListRead(c)

Arrival(c) ==
  \/ \E f \in FileIds : PutBegins(c, f)
  \/ \E u \in UploadIds, base \in 0 .. UploadSize, len \in 1 .. UploadSize :
       AppendAsks(c, u, base, len)
  \/ \E limit \in 1 .. MaxPage + 1 : ListFirst(c, limit)

StoreCall ==
  \/ \E f \in FileIds : DeleteFile(f) \/ RestoreFile(f)
  \/ \E old \in SUBSET FileIds : PurgeTrash(old)
  \/ \E expired \in SUBSET MayExpire :
       SweepUploads(expired) \/ \E u \in UploadIds : StartUpload(u, expired)
  \/ \E u \in UploadIds : CompleteAgain(u) \/ AbortUpload(u)
  \/ \E u \in UploadIds, f \in FileIds, told \in BOOLEAN : CompleteUpload(u, f, told)

Next ==
  \/ \E c \in Clients : HandlerStep(c) \/ Arrival(c)
  \/ StoreCall
  \/ \E expired \in SUBSET MayExpire : ProcessEnds(expired)

Spec == Init /\ [][Next]_vars
-----------------------------------------------------------------------------
(* Types. *)

Request == [at : Places, file : FileIds \cup {NoFile},
            session : UploadIds \cup {NoUpload}, base : Nat, len : Nat,
            next : Nat, limit : Nat, since : SUBSET FileIds, seen : SUBSET FileIds,
            spoiled : BOOLEAN]

Data == {d \in Seq(1 .. UploadSize) : Len(d) <= UploadSize}

Session == [status : {"none", "uploading", "completed", "aborted", "swept"},
            data : Data, file : FileIds \cup {NoFile}]

\* Every variable holds a value of its kind (handlers.go:78-95, model.go:35-76).
TypeOK ==
  /\ files \in [FileIds -> {"none", "live", "trashed", "purged"}]
  /\ made \in [FileIds -> [from : UploadIds \cup {NoUpload}, bytes : Data]]
  /\ sessions \in [UploadIds -> Session]
  /\ req \in [Clients -> Request]
  /\ word \in [FileIds -> {"none", "acked", "loose", "void"}]
  /\ aborted \subseteq UploadIds

-----------------------------------------------------------------------------
(* Safety. *)

\* However many clients append to a session at once, repeat a chunk or break one off:
\* its data is the beginning of the client's file, and a file made of it all of it.
\* AppendUpload compares the offset under the lock (store.go:468), not the handler.
ContentInOrder ==
  /\ \A u \in UploadIds : sessions[u].data = Bytes(0, Len(sessions[u].data))
  /\ \A f \in FileIds : made[f].from # NoUpload => made[f].bytes = Bytes(0, UploadSize)

\* However often a completion is repeated, at once or after its answer was lost, no
\* session ever becomes two files (store.go:562).
OneFilePerSession == \A f, g \in FileIds :
  made[f].from # NoUpload /\ made[f].from = made[g].from => f = g

\* A client told that its session is aborted has no file of it, although Abort answers
\* the same for a session it does not find (store.go:644) - but for one that a sweep
\* removed because it was completed.
AbortedMakesNothing == \A u \in aborted :
  sessions[u].status # "swept" => \A f \in FileIds : made[f].from # u

\* A live file is one whose uploader was told, or is about to be; or its uploader went
\* away before, its clean-up failed, or somebody restored it.  No upload that is refused
\* to a client that waits for the answer leaves a file behind.
NoOrphans == \A f \in Live :
  \/ word[f] # "none"
  \/ \E c \in Clients : req[c].file = f /\ req[c].at \in {"trailer", "cleanup"}

\* A client that reads the list to its end has seen every file that was live since its
\* first page, although files come in front of what it has not read and the total is
\* counted after the page, unless a file was deleted meanwhile.
ListFindsAll == \A c \in Clients :
  At(c, "listed") /\ ~req[c].spoiled => req[c].since \subseteq req[c].seen

-----------------------------------------------------------------------------
(* What a step may never do. *)

\* What a 201 stands for leaves the live files through a DELETE of that file only, and
\* never through the clean-up of another upload, a sweep, or the end of the process.
\* (A peer may use a purged id again: then a clean-up that is still due may hit it.)
AckedFilesStay ==
  [][\A f \in FileIds : word[f] = "acked" /\ files[f] = "live" /\ files'[f] # "live"
                       => DeleteFile(f)]_vars

=============================================================================
