------------------------------ MODULE Uploads ------------------------------
(***************************************************************************)
(* How a file enters a tenant (system/files): the single-shot Upload, the  *)
(* resumable InitUpload / StageUploadChunk / CompleteUpload / AbortUpload, *)
(* the persistBlob transaction both end in, and SweepUploadSessions.       *)
(*                                                                         *)
(* Handlers run concurrently.  A handler is a worker that performs one     *)
(* database statement or one blob-store call per step, and at any step its *)
(* client may drop the connection or its node may crash: the request       *)
(* context is then dead, an open transaction rolls back and nothing more   *)
(* of the handler happens.                                                 *)
(***************************************************************************)
EXTENDS Integers, Sequences, FiniteSets, FiniteSetsExt, BlobStore

CONSTANTS
  Workers,       \* concurrent request handlers
  Paths,         \* blob paths; randHex(16) never repeats one
  Workspaces,    \* the active workspaces of the tenant
  PostSizes,     \* body sizes of single-shot uploads
  MaxFileSize,   \* plans.max_file_size_bytes
  MaxStorage,    \* quota_override_bytes or plans.max_storage_bytes
  Allocation,    \* workspace -> disk_allocation_bytes
  TransferCap,   \* plans.max_transfer_bytes_month
  MaxCopies,     \* 99 in resolveAvailableName
  MaxFaults,     \* bound: connections, nodes, calls and acknowledgements lost
  NONE

ASSUME NoneAssumption == NONE \notin Workers \cup Paths
ASSUME SizeAssumption ==
  /\ PostSizes \subseteq Nat \ {0}
  /\ MaxFileSize \in Nat /\ MaxStorage \in Nat /\ TransferCap \in Nat
  /\ MaxCopies \in Nat /\ MaxFaults \in Nat
  /\ Allocation \in [Workspaces -> Nat]
ASSUME ChunksAssumption == IsFiniteSet(Chunks) /\ Chunks # {}

VARIABLES
  session,    \* path -> the upload_sessions row that reserved it
  blob,       \* path -> state in the object store
  taken,      \* paths some Put or InitUpload has drawn
  files,      \* the files rows, in insertion order
  tenantUsed, \* tenants.storage_bytes_used
  wsUsed,     \* workspace -> workspaces.storage_bytes_used
  ingress,    \* this month's transfer_usage.bytes_in
  tenantLock, \* the worker whose transaction holds the tenant row, or NONE
  pc,         \* worker -> the next call of its handler
  req,        \* worker -> what the handler has read or been given
  sweep,      \* path -> how far this run of SweepUploadSessions got with it
  faults,     \* counter for MaxFaults
  suspect     \* history: path -> what happened to the upload beyond one finaliser

vars == <<session, blob, taken, files, tenantUsed, wsUsed, ingress, tenantLock,
          pc, req, sweep, faults, suspect>>

dbVars == <<session, files, tenantUsed, wsUsed, ingress>>

----------------------------------------------------------------------------
FileSize == Cardinality(Chunks)     \* total_size_bytes in chunks

Session == [st : {"none", "open", "gone"}, ws : Workspaces \cup {NONE},
            marked : SUBSET Chunks, expired : BOOLEAN]
NoSession == [st |-> "none", ws |-> NONE, marked |-> {}, expired |-> FALSE]

File == [path : Paths, size : Nat, ws : Workspaces, copy : Nat]

Request == [path : Paths, ws : Workspaces \cup {NONE}, size : Nat,
            resumable : BOOLEAN, chunk : Chunks \cup {NONE},
            quality : {"good", "bad", "none"}, copy : Nat]
NoRequest == [path |-> NONE]

PostRequest(p, ws, size) ==
  [path |-> p, ws |-> ws, size |-> size, resumable |-> FALSE,
   chunk |-> NONE, quality |-> "none", copy |-> 0]
SessionRequest(p) ==
  [path |-> p, ws |-> session[p].ws, size |-> FileSize, resumable |-> TRUE,
   chunk |-> NONE, quality |-> "none", copy |-> 0]
ChunkRequest(p, c, q) == [SessionRequest(p) EXCEPT !.chunk = c, !.quality = q]

Pc == {"idle", "put", "tooLarge", "stage", "mark", "count", "commitBlocks",
       "lockTenant", "lockWorkspace", "insert", "undo", "meter", "deleteSession",
       "empty", "deleteBlob", "discard"}

History == [finalisers : 0..2, bad : BOOLEAN, lost : BOOLEAN]

TypeOK ==
  /\ session \in [Paths -> Session]
  /\ blob \in [Paths -> BlobState]
  /\ taken \subseteq Paths
  /\ files \in Seq(File)
  /\ tenantUsed \in Nat /\ wsUsed \in [Workspaces -> Nat] /\ ingress \in Nat
  /\ tenantLock \in Workers \cup {NONE}
  /\ pc \in [Workers -> Pc]
  /\ req \in [Workers -> Request \cup {NoRequest}]
  /\ \A w \in Workers : pc[w] # "idle" => req[w] \in Request
  /\ sweep \in [Paths -> {"no", "listed", "emptied", "aborted"}]
  /\ faults \in Nat
  /\ suspect \in [Paths -> History]

Init ==
  /\ session = [p \in Paths |-> NoSession]
  /\ blob = [p \in Paths |-> NoBlob]
  /\ taken = {}
  /\ files = << >>
  /\ tenantUsed = 0 /\ wsUsed = [ws \in Workspaces |-> 0] /\ ingress = 0
  /\ tenantLock = NONE
  /\ pc = [w \in Workers |-> "idle"]
  /\ req = [w \in Workers |-> NoRequest]
  /\ sweep = [p \in Paths |-> "no"]
  /\ faults = 0
  /\ suspect = [p \in Paths |-> [finalisers |-> 0, bad |-> FALSE, lost |-> FALSE]]

----------------------------------------------------------------------------
(* Helpers *)

Open(p) == session[p].st = "open"
OverCap == ingress >= TransferCap

CloseSession(p) == session' = [session EXCEPT ![p].st = "gone", ![p].marked = {}]
SetBlob(p, b) == blob' = [blob EXCEPT ![p] = b]
\* Something is lost on the way: a connection, a node, a call, an acknowledgement.
Fault == faults < MaxFaults /\ faults' = faults + 1
\* A blob-store call whose error the caller ignores.
TryBlob(p, b) == \/ SetBlob(p, b) /\ UNCHANGED faults
                 \/ Fault /\ UNCHANGED blob

Goto(w, label) == pc' = [pc EXCEPT ![w] = label]
Finish(w) == /\ pc' = [pc EXCEPT ![w] = "idle"]
             /\ req' = [req EXCEPT ![w] = NoRequest]
Start(w, label, r) == /\ pc[w] = "idle"
                      /\ pc' = [pc EXCEPT ![w] = label]
                      /\ req' = [req EXCEPT ![w] = r]

Loaded(n) == IF n < 2 THEN n + 1 ELSE n
Finalising(P) ==
  suspect' = [p \in Paths |->
                IF p \in P THEN [suspect[p] EXCEPT !.finalisers = Loaded(@)] ELSE suspect[p]]

Release(w) == tenantLock' = IF tenantLock = w THEN NONE ELSE tenantLock

----------------------------------------------------------------------------
(* Single-shot upload *)

\* Upload up to the transfer-cap check and the plan limits it reads.
Upload(w, p, ws, size) ==
  /\ ~OverCap
  /\ p \notin taken
  /\ taken' = taken \cup {p}
  /\ Start(w, "put", PostRequest(p, ws, size))
  /\ UNCHANGED <<dbVars, blob, tenantLock, sweep, faults, suspect>>

\* store.Put: on failure the partial blocks are discarded and Upload returns.
PutBlob(w) ==
  /\ pc[w] = "put"
  /\ \/ /\ SetBlob(req[w].path, Put)
        /\ Goto(w, IF req[w].size > MaxFileSize THEN "tooLarge" ELSE "lockTenant")
        /\ UNCHANGED <<req, faults>>
     \/ /\ Fault
        /\ Finish(w)
        /\ UNCHANGED blob
  /\ UNCHANGED <<dbVars, taken, tenantLock, sweep, suspect>>

\* Mutant of RejectTooLarge: the refusal returns without deleting the blob.
RejectKeepingBlob(w) ==
  /\ pc[w] = "tooLarge"
  /\ Finish(w)
  /\ UNCHANGED <<dbVars, blob, taken, tenantLock, sweep, faults, suspect>>

RejectTooLarge(w) ==
  /\ pc[w] = "tooLarge"
  /\ TryBlob(req[w].path, Delete(blob[req[w].path]))
  /\ Finish(w)
  /\ UNCHANGED <<dbVars, taken, tenantLock, sweep, suspect>>

----------------------------------------------------------------------------
(* Resumable upload *)

InitUpload(p, ws) ==
  /\ p \notin taken
  /\ ~OverCap
  /\ FileSize <= MaxFileSize
  /\ tenantUsed + FileSize <= MaxStorage
  /\ taken' = taken \cup {p}
  /\ session' = [session EXCEPT ![p] =
       [st |-> "open", ws |-> ws, marked |-> {}, expired |-> FALSE]]
  /\ UNCHANGED <<blob, files, tenantUsed, wsUsed, ingress, tenantLock, pc, req, sweep,
                 faults, suspect>>

\* now() passes expires_at.
Expire(p) ==
  /\ Open(p) /\ ~session[p].expired
  /\ session' = [session EXCEPT ![p].expired = TRUE]
  /\ UNCHANGED <<blob, taken, files, tenantUsed, wsUsed, ingress, tenantLock, pc, req,
                 sweep, faults, suspect>>

\* loadSession for StageUploadChunk; expiry is not looked at.
BeginChunk(w, p, c, q) ==
  /\ Open(p)
  /\ Start(w, "stage", ChunkRequest(p, c, q))
  /\ UNCHANGED <<dbVars, blob, taken, tenantLock, sweep, faults, suspect>>

\* The block is staged before its length is compared with the plan.
StageChunk(w) ==
  LET r == req[w] IN
  /\ pc[w] = "stage"
  /\ \/ /\ SetBlob(r.path, StageBlock(blob[r.path], r.chunk, r.quality))
        /\ \/ r.quality = "good" /\ Goto(w, "mark") /\ UNCHANGED <<req, suspect>>
           \/ /\ r.quality = "bad" /\ Finish(w)
              /\ suspect' = [suspect EXCEPT ![r.path].bad = TRUE]
        /\ UNCHANGED faults
     \/ /\ Fault
        /\ Finish(w)
        /\ UNCHANGED <<blob, suspect>>
  /\ UNCHANGED <<dbVars, taken, tenantLock, sweep>>

\* The chunk row refers to its session, so the insert fails once that is gone.
MarkChunk(w) ==
  LET p == req[w].path IN
  /\ pc[w] = "mark"
  /\ session' = IF Open(p) THEN [session EXCEPT ![p].marked = @ \cup {req[w].chunk}]
                           ELSE session
  /\ Finish(w)
  /\ UNCHANGED <<blob, taken, files, tenantUsed, wsUsed, ingress, tenantLock, sweep,
                 faults, suspect>>

BeginComplete(w, p) ==
  /\ Open(p)
  /\ Start(w, "count", SessionRequest(p))
  /\ Finalising({p})
  /\ UNCHANGED <<dbVars, blob, taken, tenantLock, sweep, faults>>

CountChunks(w) ==
  /\ pc[w] = "count"
  /\ \/ /\ session[req[w].path].marked = Chunks
        /\ Goto(w, "commitBlocks")
        /\ UNCHANGED req
     \/ /\ session[req[w].path].marked # Chunks
        /\ Finish(w)
  /\ UNCHANGED <<dbVars, blob, taken, tenantLock, sweep, faults, suspect>>

CommitChunks(w) ==
  LET p == req[w].path IN
  /\ pc[w] = "commitBlocks"
  /\ \/ /\ Committable(blob[p])
        /\ SetBlob(p, CommitBlocks(blob[p]))
        /\ Goto(w, "lockTenant")
        /\ UNCHANGED <<req, faults>>
     \/ /\ IF Committable(blob[p]) THEN Fault ELSE UNCHANGED faults
        /\ Finish(w)
        /\ UNCHANGED blob
  /\ UNCHANGED <<dbVars, taken, tenantLock, sweep, suspect>>

----------------------------------------------------------------------------
(* persistBlob: one transaction, serialised by the tenant row *)

\* Mutant of LockTenant: the tenant row is read without FOR UPDATE.
ReadTenantUnlocked(w) ==
  /\ pc[w] = "lockTenant"
  /\ Goto(w, IF tenantUsed + req[w].size > MaxStorage THEN "undo" ELSE "lockWorkspace")
  /\ UNCHANGED <<dbVars, blob, taken, tenantLock, req, sweep, faults, suspect>>

\* SELECT ... FOR UPDATE OF t, then the plan's cap.  A refusal deletes the blob
\* before the deferred rollback gives the row back.
LockTenant(w) ==
  /\ pc[w] = "lockTenant"
  /\ tenantLock = NONE
  /\ tenantLock' = w
  /\ Goto(w, IF tenantUsed + req[w].size > MaxStorage THEN "undo" ELSE "lockWorkspace")
  /\ UNCHANGED <<dbVars, blob, taken, req, sweep, faults, suspect>>

\* resolveAvailableName: the wanted name is copy 0, "_copy_NN" is copy NN.
FreeCopies == (0..MaxCopies) \ {files[i].copy : i \in DOMAIN files}
IsNextCopy(n) == n \in FreeCopies /\ \A m \in FreeCopies : n <= m

\* The workspace row is locked after the tenant row, its allocation checked and
\* a free name picked, all before the insert.
LockWorkspace(w) ==
  LET r == req[w] IN
  /\ pc[w] = "lockWorkspace"
  /\ \/ /\ wsUsed[r.ws] + r.size <= Allocation[r.ws]
        /\ \E n \in 0..MaxCopies : IsNextCopy(n) /\ req' = [req EXCEPT ![w].copy = n]
        /\ Goto(w, "insert")
     \/ /\ wsUsed[r.ws] + r.size > Allocation[r.ws] \/ FreeCopies = {}
        /\ Goto(w, "undo")
        /\ UNCHANGED req
  /\ UNCHANGED <<dbVars, blob, taken, tenantLock, sweep, faults, suspect>>

\* Mutants of InsertFile: the counter moves the wrong way; the workspace counter
\* is forgotten.
InsertFileRefunding(r) ==
  /\ files' = Append(files, [path |-> r.path, size |-> r.size, ws |-> r.ws, copy |-> r.copy])
  /\ tenantUsed' = tenantUsed - r.size
  /\ wsUsed' = [wsUsed EXCEPT ![r.ws] = @ + r.size]
InsertFileTenantOnly(r) ==
  /\ files' = Append(files, [path |-> r.path, size |-> r.size, ws |-> r.ws, copy |-> r.copy])
  /\ tenantUsed' = tenantUsed + r.size
  /\ UNCHANGED wsUsed

InsertFile(r) ==
  /\ files' = Append(files, [path |-> r.path, size |-> r.size, ws |-> r.ws, copy |-> r.copy])
  /\ tenantUsed' = tenantUsed + r.size
  /\ wsUsed' = [wsUsed EXCEPT ![r.ws] = @ + r.size]

\* INSERT, both counters and COMMIT; a failed statement or commit, or a commit
\* whose acknowledgement never arrives, sends persistBlob to its blob deletion.
Insert(w) ==
  /\ pc[w] = "insert"
  /\ \/ /\ InsertFile(req[w])
        /\ Goto(w, "meter")
        /\ Release(w)
        /\ UNCHANGED <<faults, suspect>>
     \/ /\ Fault
        /\ Goto(w, "undo")
        /\ UNCHANGED <<files, tenantUsed, wsUsed, tenantLock, suspect>>
     \/ /\ Fault
        /\ InsertFile(req[w])
        /\ Goto(w, "undo")
        /\ Release(w)
        /\ suspect' = [suspect EXCEPT ![req[w].path].lost = TRUE]
  /\ UNCHANGED <<session, ingress, blob, taken, req, sweep>>

\* Mutant of Undo: a refusal returns without deleting the blob.
UndoKeepingBlob(w) ==
  /\ pc[w] = "undo"
  /\ Release(w)
  /\ Finish(w)
  /\ UNCHANGED <<dbVars, blob, taken, sweep, faults, suspect>>

Undo(w) ==
  /\ pc[w] = "undo"
  /\ TryBlob(req[w].path, Delete(blob[req[w].path]))
  /\ Release(w)
  /\ Finish(w)
  /\ UNCHANGED <<dbVars, taken, sweep, suspect>>

\* Mutant of Meter: a metering error is handled like a failed insert.
MeterOrUndo(w) ==
  /\ pc[w] = "meter"
  /\ \/ /\ ingress' = ingress + req[w].size
        /\ \/ req[w].resumable /\ Goto(w, "deleteSession") /\ UNCHANGED req
           \/ ~req[w].resumable /\ Finish(w)
        /\ UNCHANGED faults
     \/ Fault /\ Goto(w, "undo") /\ UNCHANGED <<ingress, req>>
  /\ UNCHANGED <<session, files, tenantUsed, wsUsed, blob, taken, tenantLock, sweep, suspect>>

\* RecordIn after the commit; its error is logged and ignored.
Meter(w) ==
  /\ pc[w] = "meter"
  /\ \/ ingress' = ingress + req[w].size /\ UNCHANGED faults
     \/ Fault /\ UNCHANGED ingress
  /\ \/ req[w].resumable /\ Goto(w, "deleteSession") /\ UNCHANGED req
     \/ ~req[w].resumable /\ Finish(w)
  /\ UNCHANGED <<session, files, tenantUsed, wsUsed, blob, taken, tenantLock, sweep, suspect>>

DeleteSession(w) ==
  /\ pc[w] = "deleteSession"
  /\ CloseSession(req[w].path)
  /\ Finish(w)
  /\ UNCHANGED <<files, tenantUsed, wsUsed, ingress, blob, taken, tenantLock, sweep,
                 faults, suspect>>

----------------------------------------------------------------------------
(* AbortUpload *)

BeginAbort(w, p) ==
  /\ Open(p)
  /\ Start(w, "empty", SessionRequest(p))
  /\ Finalising({p})
  /\ UNCHANGED <<dbVars, blob, taken, tenantLock, sweep, faults>>

\* AbortBlocks stops at a failed empty commit; AbortUpload goes on regardless.
EmptyBlob(w) ==
  /\ pc[w] = "empty"
  /\ \/ SetBlob(req[w].path, CommitNothing) /\ Goto(w, "deleteBlob") /\ UNCHANGED faults
     \/ Fault /\ Goto(w, "discard") /\ UNCHANGED blob
  /\ UNCHANGED <<dbVars, taken, tenantLock, req, sweep, suspect>>

DeleteBlob(w) ==
  /\ pc[w] = "deleteBlob"
  /\ TryBlob(req[w].path, Delete(blob[req[w].path]))
  /\ Goto(w, "discard")
  /\ UNCHANGED <<dbVars, taken, tenantLock, req, sweep, suspect>>

Discard(w) ==
  /\ pc[w] = "discard"
  /\ CloseSession(req[w].path)
  /\ Finish(w)
  /\ UNCHANGED <<files, tenantUsed, wsUsed, ingress, blob, taken, tenantLock, sweep,
                 faults, suspect>>

----------------------------------------------------------------------------
(* SweepUploadSessions, run under the cluster lock: one run at a time *)

Listed == {p \in Paths : sweep[p] # "no"}
InHand == {p \in Paths : sweep[p] \in {"emptied", "aborted"}}
\* Mutant of Dead: only sessions that never received a chunk are listed.
DeadUntouched == {p \in Paths : Open(p) /\ session[p].expired /\ session[p].marked = {}}

Dead == {p \in Paths : Open(p) /\ session[p].expired}

SweepList ==
  /\ Listed = {} /\ Dead # {}
  /\ sweep' = [p \in Paths |-> IF p \in Dead THEN "listed" ELSE "no"]
  /\ Finalising(Dead)
  /\ UNCHANGED <<dbVars, blob, taken, tenantLock, pc, req, faults>>

SweepEmpty(p) ==
  /\ sweep[p] = "listed" /\ InHand = {}
  /\ \/ SetBlob(p, CommitNothing) /\ sweep' = [sweep EXCEPT ![p] = "emptied"] /\ UNCHANGED faults
     \/ Fault /\ sweep' = [sweep EXCEPT ![p] = "aborted"] /\ UNCHANGED blob
  /\ UNCHANGED <<dbVars, taken, tenantLock, pc, req, suspect>>

SweepDelete(p) ==
  /\ sweep[p] = "emptied"
  /\ TryBlob(p, Delete(blob[p]))
  /\ sweep' = [sweep EXCEPT ![p] = "aborted"]
  /\ UNCHANGED <<dbVars, taken, tenantLock, pc, req, suspect>>

SweepDiscard(p) ==
  /\ sweep[p] = "aborted"
  /\ CloseSession(p)
  /\ sweep' = [sweep EXCEPT ![p] = "no"]
  /\ UNCHANGED <<files, tenantUsed, wsUsed, ingress, blob, taken, tenantLock, pc, req,
                 faults, suspect>>

----------------------------------------------------------------------------
(* The connection drops or the node dies: the open transaction rolls back. *)

DropRequest(w) ==
  /\ pc[w] # "idle"
  /\ Fault
  /\ Release(w)
  /\ Finish(w)
  /\ UNCHANGED <<dbVars, blob, taken, sweep, suspect>>

StopSweep ==
  /\ Listed # {}
  /\ Fault
  /\ sweep' = [p \in Paths |-> "no"]
  /\ UNCHANGED <<dbVars, blob, taken, tenantLock, pc, req, suspect>>

----------------------------------------------------------------------------
Persist(w) == LockTenant(w) \/ LockWorkspace(w) \/ Insert(w) \/ Undo(w) \/ Meter(w)

Continue(w) ==
  \/ PutBlob(w) \/ RejectTooLarge(w)
  \/ StageChunk(w) \/ MarkChunk(w)
  \/ CountChunks(w) \/ CommitChunks(w) \/ Persist(w) \/ DeleteSession(w)
  \/ EmptyBlob(w) \/ DeleteBlob(w) \/ Discard(w)

Sweep == SweepList \/ \E p \in Paths : SweepEmpty(p) \/ SweepDelete(p) \/ SweepDiscard(p)

Next ==
  \/ \E p \in Paths, ws \in Workspaces : InitUpload(p, ws)
  \/ \E p \in Paths : Expire(p)
  \/ \E w \in Workers :
       \/ \E p \in Paths, ws \in Workspaces, size \in PostSizes : Upload(w, p, ws, size)
       \/ \E p \in Paths, c \in Chunks, q \in {"good", "bad"} : BeginChunk(w, p, c, q)
       \/ \E p \in Paths : BeginComplete(w, p) \/ BeginAbort(w, p)
       \/ Continue(w)
       \/ DropRequest(w)
  \/ Sweep
  \/ StopSweep

Spec == Init /\ [][Next]_vars

\* The job loop of every live replica keeps running the sweep and Postgres keeps
\* time; nothing is assumed of the clients.
FairSpec == Spec /\ WF_vars(Sweep)

----------------------------------------------------------------------------
(* Properties *)

Ledger == INSTANCE QuotaLedger
  WITH Sizes <- PostSizes \cup {FileSize}, Cap <- MaxStorage,
       total <- tenantUsed, share <- wsUsed

\* persistBlob implements the abstract ledger: whatever the handlers interleave,
\* fail or lose, the counters only ever move by one whole charge that fits both caps.
ImplementsLedger == Ledger!Spec

\* The two caps persistBlob guards are never passed, however many handlers
\* commit at once: the check and the bump happen under one hold of the tenant row.
QuotaRespected ==
  /\ tenantUsed <= MaxStorage
  /\ \A ws \in Workspaces : wsUsed[ws] <= Allocation[ws]

FileSizes == [i \in DOMAIN files |-> files[i].size]
StoredBytes(sizes, I) == MapThenSumSet(LAMBDA i : sizes[i], I)

\* tenants.storage_bytes_used and every workspaces.storage_bytes_used equal the
\* sizes of the rows they stand for after every step: InsertFile moves the row
\* and both counters in one transaction.
UsageExact ==
  /\ tenantUsed = StoredBytes(FileSizes, DOMAIN files)
  /\ \A ws \in Workspaces :
       wsUsed[ws] = StoredBytes(FileSizes, {i \in DOMAIN files : files[i].ws = ws})

\* No two active files of a folder bear one name: resolveAvailableName looks and
\* the insert lands inside one hold of the tenant row.
NamesDistinct ==
  \A i, j \in DOMAIN files : i # j => files[i].copy # files[j].copy

\* A listed file can be downloaded whole, unless its upload had a second
\* complete, abort or sweep, a wrong-size chunk, or a commit whose
\* acknowledgement was lost.  persistBlob's blob deletion, AbortUpload and the
\* sweep never reach a file that got in the plain way.
FileIntact ==
  \A i \in DOMAIN files :
    LET p == files[i].path
        h == suspect[p]
    IN  h.finalisers <= 1 /\ ~h.bad /\ ~h.lost => Intact(blob[p])

\* Nobody refers to path p any more.
Forgotten(p) ==
  /\ \A i \in DOMAIN files : files[i].path # p
  /\ \A w \in Workers : pc[w] # "idle" => req[w].path # p
  /\ ~Open(p) /\ sweep[p] = "no"

\* A refused, too-large or aborted upload leaves no blob behind, however many
\* requests and sweeps finalise its session: an orphan takes a lost call.
OrphanNeedsFault == \A p \in Paths : blob[p].exists /\ Forgotten(p) => faults > 0

\* An expired session is swept away even while handlers keep using it.
ExpiredSwept == \A p \in Paths : Open(p) /\ session[p].expired ~> ~Open(p)

\* What the comment on SweepUploadSessions says: it discards the blocks of
\* expired, incomplete sessions only.
SweepSparesCompleted ==
  \A p \in Paths : sweep[p] = "emptied" => \A i \in DOMAIN files : files[i].path # p

\* What the comment in StageUploadChunk says: a wrong-size chunk stays unmarked,
\* so every marked chunk of a session nobody finalises holds its plaintext.
MarkedChunksWhole ==
  \A p \in Paths :
    Open(p) /\ suspect[p].finalisers = 0 =>
      \A c \in session[p].marked : blob[p].staged[c] = "good"
=============================================================================
