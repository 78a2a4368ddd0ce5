--------------------------- MODULE UploadsProofs ---------------------------
(***************************************************************************)
(* For every set of handlers, paths and workspaces, and every value of the *)
(* limits: Uploads keeps its types, never passes a storage cap, counts     *)
(* every file once, names files apart, keeps listed files whole and leaves *)
(* orphans to faults only. The sections at the end are about the pages     *)
(* that bring files and share out the room: the dialog of the workspaces'  *)
(* sizes (SpaceModal), the viewer that saves what is written in it         *)
(* (FilePreview), the uploads of the web client (UploadClient) and the     *)
(* page of a drop portal (PortalLanding).                                  *)
(***************************************************************************)
EXTENDS Uploads, Totals, FiniteSetTheorems, TLAPS

\* TypeOK by the part of the state an action touches.  Beside the types: an open
\* session has a workspace, a handler's workspace is known, and a handler that
\* stages a chunk names it.
SessionInv ==
  /\ session \in [Paths -> Session]
  /\ \A p \in Paths : Open(p) => session[p].ws \in Workspaces
BlobInv == blob \in [Paths -> BlobState]
LedgerInv ==
  /\ files \in Seq(File)
  /\ tenantUsed \in Nat /\ wsUsed \in [Workspaces -> Nat] /\ ingress \in Nat
WorkerInv ==
  /\ pc \in [Workers -> Pc]
  /\ req \in [Workers -> Request \cup {NoRequest}]
  /\ \A w \in Workers :
       pc[w] # "idle" =>
         /\ req[w] \in Request
         /\ req[w].ws \in Workspaces
         /\ pc[w] \in {"stage", "mark"} =>
              req[w].chunk \in Chunks /\ req[w].quality \in {"good", "bad"}
RestInv ==
  /\ taken \subseteq Paths
  /\ tenantLock \in Workers \cup {NONE}
  /\ sweep \in [Paths -> {"no", "listed", "emptied", "aborted"}]
  /\ faults \in Nat
  /\ suspect \in [Paths -> History]

TypeInv == SessionInv /\ BlobInv /\ LedgerInv /\ WorkerInv /\ RestInv

----------------------------------------------------------------------------
(* The helpers *)

LEMMA FileSizeNat == FileSize \in Nat
  BY FS_CardinalityType, ChunksAssumption DEF FileSize

\* Every blob-store operation yields a blob state.
LEMMA BlobOps ==
  /\ NoBlob \in BlobState /\ Put \in BlobState /\ CommitNothing \in BlobState
  /\ \A b \in BlobState : Delete(b) \in BlobState /\ CommitBlocks(b) \in BlobState
  /\ \A b \in BlobState, c \in Chunks, q \in {"good", "bad"} : StageBlock(b, c, q) \in BlobState
  BY Zenon DEF NoBlob, Put, CommitNothing, Delete, CommitBlocks, StageBlock, Latest, BlobState,
         Block, NoBlocks

LEMMA SetBlobType ==
  ASSUME BlobInv, NEW p \in Paths, NEW b \in BlobState, SetBlob(p, b) \/ UNCHANGED blob
  PROVE  BlobInv'
  BY DEF BlobInv, SetBlob

LEMMA CloseSessionType ==
  ASSUME SessionInv, NEW p \in Paths, CloseSession(p)
  PROVE  SessionInv'
  BY Zenon DEF SessionInv, CloseSession, Session, Open

LEMMA FinishType ==
  ASSUME WorkerInv, NEW w \in Workers, Finish(w)
  PROVE  WorkerInv'
  BY DEF WorkerInv, Finish, Pc

\* A handler that goes on keeps its request; only staging leads to marking.
LEMMA GotoType ==
  ASSUME WorkerInv, NEW w \in Workers, NEW label \in Pc, Goto(w, label), UNCHANGED req,
         pc[w] # "idle", label # "stage", label = "mark" => pc[w] = "stage"
  PROVE  WorkerInv'
  BY DEF WorkerInv, Goto

LEMMA StartType ==
  ASSUME WorkerInv, NEW w \in Workers, NEW label \in Pc, NEW r \in Request,
         Start(w, label, r), r.ws \in Workspaces,
         label \in {"stage", "mark"} => r.chunk \in Chunks /\ r.quality \in {"good", "bad"}
  PROVE  WorkerInv'
  BY DEF WorkerInv, Start

LEMMA RequestType ==
  ASSUME SessionInv, NEW p \in Paths, Open(p)
  PROVE  /\ SessionRequest(p) \in Request
         /\ SessionRequest(p).ws \in Workspaces
         /\ \A c \in Chunks, q \in {"good", "bad"} :
              /\ ChunkRequest(p, c, q) \in Request
              /\ ChunkRequest(p, c, q).ws \in Workspaces
              /\ ChunkRequest(p, c, q).chunk = c
              /\ ChunkRequest(p, c, q).quality = q
  BY FileSizeNat, Zenon DEF SessionInv, SessionRequest, ChunkRequest, Request

LEMMA PostRequestType ==
  ASSUME NEW p \in Paths, NEW ws \in Workspaces, NEW size \in PostSizes
  PROVE  PostRequest(p, ws, size) \in Request /\ PostRequest(p, ws, size).ws = ws
  BY SizeAssumption DEF PostRequest, Request

LEMMA FinalisingType ==
  ASSUME RestInv, NEW P, Finalising(P)
  PROVE  suspect' \in [Paths -> History]
  BY DEF RestInv, Finalising, Loaded, History

LEMMA SuspectType ==
  ASSUME RestInv, NEW p \in Paths
  PROVE  /\ [suspect EXCEPT ![p].bad = TRUE] \in [Paths -> History]
         /\ [suspect EXCEPT ![p].lost = TRUE] \in [Paths -> History]
  BY DEF RestInv, History

LEMMA ReleaseType ==
  ASSUME RestInv, NEW w \in Workers, Release(w)
  PROVE  tenantLock' \in Workers \cup {NONE}
  BY DEF RestInv, Release

LEMMA InsertType ==
  ASSUME LedgerInv, NEW r \in Request, r.ws \in Workspaces, InsertFile(r)
  PROVE  files' \in Seq(File) /\ tenantUsed' \in Nat /\ wsUsed' \in [Workspaces -> Nat]
  BY DEF LedgerInv, InsertFile, Request, File

----------------------------------------------------------------------------
LEMMA InitTypeInv == Init => TypeInv
  BY NoneAssumption, SizeAssumption, BlobOps
  DEF Init, TypeInv, SessionInv, BlobInv, LedgerInv, WorkerInv, RestInv, Open, NoSession,
      Session, Pc, History

LEMMA StepTypeInv == TypeInv /\ [Next]_vars => TypeInv'
<1> SUFFICES ASSUME TypeInv, [Next]_vars
             PROVE  TypeInv'
    OBVIOUS
<1> USE DEF TypeInv
<1>1. ASSUME NEW p \in Paths, NEW ws \in Workspaces, InitUpload(p, ws)
      PROVE  TypeInv'
    BY <1>1 DEF InitUpload, SessionInv, BlobInv, LedgerInv, WorkerInv, RestInv, Session, Open
<1>2. ASSUME NEW p \in Paths, Expire(p)
      PROVE  TypeInv'
    BY <1>2 DEF Expire, SessionInv, BlobInv, LedgerInv, WorkerInv, RestInv, Session, Open
<1>3. ASSUME NEW w \in Workers, NEW p \in Paths, NEW ws \in Workspaces,
             NEW size \in PostSizes, Upload(w, p, ws, size)
      PROVE  TypeInv'
  <2>1. WorkerInv'
    BY <1>3, PostRequestType, StartType DEF Upload, Pc
  <2>2. QED
    BY <1>3, <2>1 DEF Upload, dbVars, SessionInv, BlobInv, LedgerInv, RestInv, Open
<1>4. ASSUME NEW w \in Workers, NEW p \in Paths, NEW c \in Chunks,
             NEW q \in {"good", "bad"}, BeginChunk(w, p, c, q)
      PROVE  TypeInv'
  <2>1. WorkerInv'
    BY <1>4, RequestType, StartType DEF BeginChunk, Pc
  <2>2. QED
    BY <1>4, <2>1 DEF BeginChunk, dbVars, SessionInv, BlobInv, LedgerInv, RestInv, Open
<1>5. ASSUME NEW w \in Workers, NEW p \in Paths, BeginComplete(w, p) \/ BeginAbort(w, p)
      PROVE  TypeInv'
  <2>1. WorkerInv'
    BY <1>5, RequestType, StartType DEF BeginComplete, BeginAbort, Pc
  <2>2. suspect' \in [Paths -> History]
    BY <1>5, FinalisingType DEF BeginComplete, BeginAbort
  <2>3. QED
    BY <1>5, <2>1, <2>2
    DEF BeginComplete, BeginAbort, dbVars, SessionInv, BlobInv, LedgerInv, RestInv, Open
<1>6. ASSUME NEW w \in Workers, PutBlob(w) \/ RejectTooLarge(w) \/ CommitChunks(w)
      PROVE  TypeInv'
  <2>1. req[w].path \in Paths /\ pc[w] # "idle"
    BY <1>6 DEF PutBlob, RejectTooLarge, CommitChunks, WorkerInv, Request
  <2>2. BlobInv'
    BY <1>6, <2>1, BlobOps, SetBlobType
    DEF PutBlob, RejectTooLarge, CommitChunks, TryBlob, BlobInv
  <2>3. WorkerInv'
    BY <1>6, <2>1, FinishType, GotoType DEF PutBlob, RejectTooLarge, CommitChunks, Pc
  <2>4. QED
    BY <1>6, <2>2, <2>3
    DEF PutBlob, RejectTooLarge, CommitChunks, TryBlob, Fault, dbVars, SessionInv, LedgerInv,
        RestInv, Open
<1>7. ASSUME NEW w \in Workers, StageChunk(w)
      PROVE  TypeInv'
  <2>1. /\ req[w].path \in Paths /\ req[w].chunk \in Chunks
        /\ req[w].quality \in {"good", "bad"} /\ pc[w] = "stage"
    BY <1>7 DEF StageChunk, WorkerInv, Request
  <2>2. BlobInv'
    BY <1>7, <2>1, BlobOps, SetBlobType DEF StageChunk, BlobInv
  <2>3. WorkerInv'
    BY <1>7, <2>1, FinishType, GotoType DEF StageChunk, Pc
  <2>4. suspect' \in [Paths -> History]
    BY <1>7, <2>1, SuspectType DEF StageChunk, RestInv
  <2>5. QED
    BY <1>7, <2>2, <2>3, <2>4
    DEF StageChunk, Fault, dbVars, SessionInv, LedgerInv, RestInv, Open
<1>8. ASSUME NEW w \in Workers, MarkChunk(w)
      PROVE  TypeInv'
  <2>1. req[w].path \in Paths /\ req[w].chunk \in Chunks
    BY <1>8 DEF MarkChunk, WorkerInv, Request
  <2>2. SessionInv'
    BY <1>8, <2>1 DEF MarkChunk, SessionInv, Session, Open
  <2>3. WorkerInv'
    BY <1>8, FinishType DEF MarkChunk
  <2>4. QED
    BY <1>8, <2>2, <2>3 DEF MarkChunk, BlobInv, LedgerInv, RestInv
<1>9. ASSUME NEW w \in Workers, CountChunks(w) \/ LockTenant(w)
      PROVE  TypeInv'
  <2>1. WorkerInv'
    BY <1>9, FinishType, GotoType DEF CountChunks, LockTenant, Pc
  <2>2. QED
    BY <1>9, <2>1
    DEF CountChunks, LockTenant, dbVars, SessionInv, BlobInv, LedgerInv, RestInv, Open
<1>10. ASSUME NEW w \in Workers, LockWorkspace(w)
       PROVE  TypeInv'
  <2>1. CASE UNCHANGED req
    <3>1. WorkerInv'
      BY <1>10, <2>1, GotoType DEF LockWorkspace, Pc, WorkerInv, Goto
    <3>2. QED
      BY <1>10, <3>1 DEF LockWorkspace, dbVars, SessionInv, BlobInv, LedgerInv, RestInv, Open
  <2>2. CASE \E n \in 0..MaxCopies : req' = [req EXCEPT ![w].copy = n]
    <3>1. WorkerInv'
      BY <1>10, <2>2, SizeAssumption DEF LockWorkspace, Pc, WorkerInv, Goto, Request
    <3>2. QED
      BY <1>10, <3>1 DEF LockWorkspace, dbVars, SessionInv, BlobInv, LedgerInv, RestInv, Open
  <2>3. QED
    BY <1>10, <2>1, <2>2 DEF LockWorkspace
<1>11. ASSUME NEW w \in Workers, Insert(w)
       PROVE  TypeInv'
  <2>1. req[w] \in Request /\ req[w].ws \in Workspaces /\ req[w].path \in Paths
    BY <1>11 DEF Insert, WorkerInv, Request
  <2>2. LedgerInv'
    BY <1>11, <2>1, InsertType DEF Insert, LedgerInv
  <2>3. WorkerInv'
    BY <1>11, GotoType DEF Insert, Pc
  <2>4. tenantLock' \in Workers \cup {NONE}
    BY <1>11, ReleaseType DEF Insert, RestInv
  <2>5. suspect' \in [Paths -> History]
    BY <1>11, <2>1, SuspectType DEF Insert, RestInv
  <2>6. QED
    BY <1>11, <2>2, <2>3, <2>4, <2>5 DEF Insert, Fault, SessionInv, BlobInv, RestInv, Open
<1>12. ASSUME NEW w \in Workers, Undo(w)
       PROVE  TypeInv'
  <2>1. req[w].path \in Paths
    BY <1>12 DEF Undo, WorkerInv, Request
  <2>2. BlobInv'
    BY <1>12, <2>1, BlobOps, SetBlobType DEF Undo, TryBlob, BlobInv
  <2>3. WorkerInv' /\ tenantLock' \in Workers \cup {NONE}
    BY <1>12, FinishType, ReleaseType DEF Undo
  <2>4. QED
    BY <1>12, <2>2, <2>3 DEF Undo, TryBlob, Fault, dbVars, SessionInv, LedgerInv, RestInv, Open
<1>13. ASSUME NEW w \in Workers, Meter(w)
       PROVE  TypeInv'
  <2>1. req[w].size \in Nat
    BY <1>13 DEF Meter, WorkerInv, Request
  <2>2. WorkerInv'
    BY <1>13, FinishType, GotoType DEF Meter, Pc
  <2>3. QED
    BY <1>13, <2>1, <2>2 DEF Meter, Fault, SessionInv, BlobInv, LedgerInv, RestInv, Open
<1>14. ASSUME NEW w \in Workers, DeleteSession(w) \/ Discard(w)
       PROVE  TypeInv'
  <2>1. req[w].path \in Paths
    BY <1>14 DEF DeleteSession, Discard, WorkerInv, Request
  <2>2. SessionInv' /\ WorkerInv'
    BY <1>14, <2>1, CloseSessionType, FinishType DEF DeleteSession, Discard
  <2>3. QED
    BY <1>14, <2>2 DEF DeleteSession, Discard, BlobInv, LedgerInv, RestInv
<1>15. ASSUME NEW w \in Workers, EmptyBlob(w) \/ DeleteBlob(w)
       PROVE  TypeInv'
  <2>1. req[w].path \in Paths
    BY <1>15 DEF EmptyBlob, DeleteBlob, WorkerInv, Request
  <2>2. BlobInv'
    BY <1>15, <2>1, BlobOps, SetBlobType DEF EmptyBlob, DeleteBlob, TryBlob, BlobInv
  <2>3. WorkerInv'
    BY <1>15, GotoType DEF EmptyBlob, DeleteBlob, Pc
  <2>4. QED
    BY <1>15, <2>2, <2>3
    DEF EmptyBlob, DeleteBlob, TryBlob, Fault, dbVars, SessionInv, LedgerInv, RestInv, Open
<1>16. CASE SweepList
  <2>1. suspect' \in [Paths -> History]
    BY <1>16, FinalisingType DEF SweepList
  <2>2. QED
    BY <1>16, <2>1
    DEF SweepList, dbVars, SessionInv, BlobInv, LedgerInv, WorkerInv, RestInv, Open
<1>17. ASSUME NEW p \in Paths, SweepEmpty(p) \/ SweepDelete(p)
       PROVE  TypeInv'
  <2>1. BlobInv'
    BY <1>17, BlobOps, SetBlobType DEF SweepEmpty, SweepDelete, TryBlob, BlobInv
  <2>2. /\ UNCHANGED <<session, files, tenantUsed, wsUsed, ingress, taken, tenantLock, pc, req, suspect>>
        /\ sweep' \in [Paths -> {"no", "listed", "emptied", "aborted"}]
        /\ faults' \in Nat
    BY <1>17 DEF SweepEmpty, SweepDelete, TryBlob, Fault, dbVars, RestInv
  <2>3. SessionInv' /\ LedgerInv' /\ WorkerInv'
    BY <2>2 DEF SessionInv, LedgerInv, WorkerInv, Open
  <2>4. QED
    BY <2>1, <2>2, <2>3 DEF RestInv
<1>18. ASSUME NEW p \in Paths, SweepDiscard(p)
       PROVE  TypeInv'
  <2>1. SessionInv'
    BY <1>18, CloseSessionType DEF SweepDiscard
  <2>2. QED
    BY <1>18, <2>1 DEF SweepDiscard, BlobInv, LedgerInv, WorkerInv, RestInv
<1>19. ASSUME NEW w \in Workers, DropRequest(w)
       PROVE  TypeInv'
  <2>1. WorkerInv' /\ tenantLock' \in Workers \cup {NONE}
    BY <1>19, FinishType, ReleaseType DEF DropRequest
  <2>2. QED
    BY <1>19, <2>1 DEF DropRequest, Fault, dbVars, SessionInv, BlobInv, LedgerInv, RestInv, Open
<1>20. CASE StopSweep
    BY <1>20
    DEF StopSweep, Fault, dbVars, SessionInv, BlobInv, LedgerInv, WorkerInv, RestInv, Open
<1>21. CASE UNCHANGED vars
    BY <1>21 DEF vars, SessionInv, BlobInv, LedgerInv, WorkerInv, RestInv, Open
<1>22. QED
    BY <1>1, <1>2, <1>3, <1>4, <1>5, <1>6, <1>7, <1>8, <1>9, <1>10, <1>11, <1>12, <1>13,
       <1>14, <1>15, <1>16, <1>17, <1>18, <1>19, <1>20, <1>21
    DEF Next, Continue, Persist, Sweep

\* Uploads never leaves its types.
THEOREM UploadsTypeCorrect == Spec => []TypeOK
<1>1. TypeInv => TypeOK
    BY DEF TypeInv, TypeOK, SessionInv, BlobInv, LedgerInv, WorkerInv, RestInv
<1>2. QED
    BY <1>1, InitTypeInv, StepTypeInv, PTL DEF Spec

----------------------------------------------------------------------------
(* The caps *)

\* What makes QuotaRespected inductive: a handler that has passed the tenant
\* check owns the tenant row and still has room there, and one that has passed
\* the workspace check has room in its workspace too.
RoomInv ==
  /\ QuotaRespected
  /\ \A w \in Workers :
       /\ pc[w] \in {"lockWorkspace", "insert"} =>
            tenantLock = w /\ tenantUsed + req[w].size <= MaxStorage
       /\ pc[w] = "insert" => wsUsed[req[w].ws] + req[w].size <= Allocation[req[w].ws]

\* The handler of w moves somewhere else than between the checks and the insert,
\* keeping the tenant row or giving it back, and charges nothing.
Aside(w) ==
  /\ UNCHANGED <<tenantUsed, wsUsed>>
  /\ \E label \in Pc \ {"lockWorkspace", "insert"} : pc' = [pc EXCEPT ![w] = label]
  /\ UNCHANGED tenantLock \/ Release(w)
  /\ \A v \in Workers \ {w} : req'[v] = req[v]

LEMMA AsideKeepsRoom ==
  ASSUME TypeInv, RoomInv, NEW w \in Workers, Aside(w)
  PROVE  RoomInv'
<1>1. PICK label \in Pc \ {"lockWorkspace", "insert"} : pc' = [pc EXCEPT ![w] = label]
    BY DEF Aside
<1>2. pc'[w] = label /\ \A v \in Workers \ {w} : pc'[v] = pc[v] /\ req'[v] = req[v]
    BY <1>1 DEF Aside, TypeInv, WorkerInv
<1>3. tenantLock' = tenantLock \/ (tenantLock = w /\ tenantLock' = NONE)
    BY DEF Aside, Release
<1>4. ASSUME NEW v \in Workers, pc'[v] \in {"lockWorkspace", "insert"}
      PROVE  /\ tenantLock' = v /\ tenantUsed' + req'[v].size <= MaxStorage
             /\ pc'[v] = "insert" =>
                  wsUsed'[req'[v].ws] + req'[v].size <= Allocation[req'[v].ws]
    BY <1>1, <1>2, <1>3, <1>4 DEF Aside, RoomInv
<1>5. QED
    BY <1>4 DEF RoomInv, QuotaRespected, Aside

\* A step that moves no handler and charges nothing.
LEMMA StillKeepsRoom ==
  ASSUME RoomInv, UNCHANGED <<tenantUsed, wsUsed, tenantLock, pc, req>>
  PROVE  RoomInv'
  BY DEF RoomInv, QuotaRespected

LEMMA StepRoomInv == TypeInv /\ RoomInv /\ [Next]_vars => RoomInv'
<1> SUFFICES ASSUME TypeInv, RoomInv, [Next]_vars
             PROVE  RoomInv'
    OBVIOUS
<1>1. ASSUME NEW w \in Workers, Insert(w)
      PROVE  RoomInv'
  <2> DEFINE r == req[w]
  <2>1. /\ r \in Request /\ r.ws \in Workspaces /\ r.size \in Nat
        /\ tenantLock = w /\ tenantUsed + r.size <= MaxStorage
        /\ wsUsed[r.ws] + r.size <= Allocation[r.ws]
    BY <1>1 DEF Insert, TypeInv, WorkerInv, Request, RoomInv
  <2>2. CASE UNCHANGED <<tenantUsed, wsUsed>>
    BY <1>1, <2>2, AsideKeepsRoom DEF Insert, Aside, Goto, Pc
  <2>3. CASE InsertFile(r)
    <3>1. \A v \in Workers : pc'[v] \notin {"lockWorkspace", "insert"}
      BY <1>1, <2>1 DEF Insert, Goto, RoomInv, TypeInv, WorkerInv
    <3>2. tenantUsed' <= MaxStorage /\ \A ws \in Workspaces : wsUsed'[ws] <= Allocation[ws]
      BY <2>1, <2>3 DEF InsertFile, RoomInv, QuotaRespected, TypeInv, LedgerInv
    <3>3. QED
      BY <3>1, <3>2 DEF RoomInv, QuotaRespected
  <2>4. QED
    BY <1>1, <2>2, <2>3 DEF Insert
<1>2. ASSUME NEW w \in Workers, LockTenant(w)
      PROVE  RoomInv'
  <2>1. \A v \in Workers : pc[v] \notin {"lockWorkspace", "insert"}
    BY <1>2, NoneAssumption DEF LockTenant, RoomInv
  <2>2. \A v \in Workers \ {w} : pc'[v] = pc[v]
    BY <1>2 DEF LockTenant, Goto, TypeInv, WorkerInv
  <2>3. /\ pc'[w] = IF tenantUsed + req[w].size > MaxStorage THEN "undo" ELSE "lockWorkspace"
        /\ tenantLock' = w /\ UNCHANGED <<tenantUsed, wsUsed, req>>
    BY <1>2 DEF LockTenant, Goto, dbVars, TypeInv, WorkerInv
  <2>4. tenantUsed \in Nat /\ req[w].size \in Nat /\ MaxStorage \in Nat
    BY <1>2, SizeAssumption DEF LockTenant, TypeInv, WorkerInv, LedgerInv, Request
  <2>5. QED
    BY <2>1, <2>2, <2>3, <2>4 DEF RoomInv, QuotaRespected
<1>3. ASSUME NEW w \in Workers, LockWorkspace(w)
      PROVE  RoomInv'
  <2>1. CASE UNCHANGED req /\ pc' = [pc EXCEPT ![w] = "undo"]
    BY <1>3, <2>1, AsideKeepsRoom DEF LockWorkspace, Aside, Goto, dbVars, Pc
  <2>2. CASE /\ wsUsed[req[w].ws] + req[w].size <= Allocation[req[w].ws]
             /\ \E n \in 0..MaxCopies : req' = [req EXCEPT ![w].copy = n]
             /\ pc' = [pc EXCEPT ![w] = "insert"]
    <3>1. /\ UNCHANGED <<tenantUsed, wsUsed, tenantLock>>
          /\ pc[w] = "lockWorkspace" /\ req[w] \in Request
      BY <1>3 DEF LockWorkspace, dbVars, TypeInv, WorkerInv
    <3>2. /\ \A v \in Workers \ {w} : pc'[v] = pc[v] /\ req'[v] = req[v]
          /\ pc'[w] = "insert" /\ req'[w].ws = req[w].ws /\ req'[w].size = req[w].size
      BY <2>2, <3>1 DEF TypeInv, WorkerInv, Request
    <3>3. QED
      BY <2>2, <3>1, <3>2 DEF RoomInv, QuotaRespected
  <2>3. QED
    BY <1>3, <2>1, <2>2 DEF LockWorkspace, Goto
<1>4. ASSUME NEW w \in Workers,
             \/ \E p \in Paths, ws \in Workspaces, size \in PostSizes : Upload(w, p, ws, size)
             \/ \E p \in Paths, c \in Chunks, q \in {"good", "bad"} : BeginChunk(w, p, c, q)
             \/ \E p \in Paths : BeginComplete(w, p) \/ BeginAbort(w, p)
      PROVE  RoomInv'
  <2>1. \E label \in {"put", "stage", "count", "empty"} : \E r : Start(w, label, r)
    BY <1>4 DEF Upload, BeginChunk, BeginComplete, BeginAbort
  <2>2. UNCHANGED <<tenantUsed, wsUsed, tenantLock>>
    BY <1>4 DEF Upload, BeginChunk, BeginComplete, BeginAbort, dbVars
  <2>3. Aside(w)
    BY <2>1, <2>2 DEF Start, Aside, Pc, TypeInv, WorkerInv
  <2>4. QED
    BY <2>3, AsideKeepsRoom
<1>5. ASSUME NEW w \in Workers,
             \/ PutBlob(w) \/ RejectTooLarge(w) \/ StageChunk(w) \/ MarkChunk(w)
             \/ CountChunks(w) \/ CommitChunks(w)
      PROVE  RoomInv'
  <2>1. Finish(w) \/ \E label \in {"tooLarge", "lockTenant", "mark", "commitBlocks"} :
                       Goto(w, label) /\ UNCHANGED req
    BY <1>5
    DEF PutBlob, RejectTooLarge, StageChunk, MarkChunk, CountChunks, CommitChunks
  <2>2. UNCHANGED <<tenantUsed, wsUsed, tenantLock>>
    BY <1>5
    DEF PutBlob, RejectTooLarge, StageChunk, MarkChunk, CountChunks, CommitChunks, dbVars
  <2>3. Aside(w)
    BY <2>1, <2>2 DEF Finish, Goto, Aside, Pc, TypeInv, WorkerInv
  <2>4. QED
    BY <2>3, AsideKeepsRoom
<1>6. ASSUME NEW w \in Workers,
             \/ Undo(w) \/ Meter(w) \/ DeleteSession(w) \/ EmptyBlob(w) \/ DeleteBlob(w)
             \/ Discard(w) \/ DropRequest(w)
      PROVE  RoomInv'
  <2>1. Finish(w) \/ \E label \in {"deleteSession", "deleteBlob", "discard"} :
                       Goto(w, label) /\ UNCHANGED req
    BY <1>6 DEF Undo, Meter, DeleteSession, EmptyBlob, DeleteBlob, Discard, DropRequest
  <2>2. UNCHANGED <<tenantUsed, wsUsed>> /\ (UNCHANGED tenantLock \/ Release(w))
    BY <1>6 DEF Undo, Meter, DeleteSession, EmptyBlob, DeleteBlob, Discard, DropRequest, dbVars
  <2>3. Aside(w)
    BY <2>1, <2>2 DEF Finish, Goto, Aside, Pc, TypeInv, WorkerInv
  <2>4. QED
    BY <2>3, AsideKeepsRoom
<1>7. CASE \/ \E p \in Paths, ws \in Workspaces : InitUpload(p, ws)
           \/ \E p \in Paths : Expire(p)
           \/ Sweep \/ StopSweep \/ UNCHANGED vars
  <2>1. UNCHANGED <<tenantUsed, wsUsed, tenantLock, pc, req>>
    BY <1>7
    DEF InitUpload, Expire, Sweep, SweepList, SweepEmpty, SweepDelete, SweepDiscard,
        StopSweep, vars, dbVars
  <2>2. QED
    BY <2>1, StillKeepsRoom
<1>8. QED
    BY <1>1, <1>2, <1>3, <1>4, <1>5, <1>6, <1>7 DEF Next, Continue, Persist

LEMMA InitRoomInv == Init => RoomInv
  BY SizeAssumption DEF Init, RoomInv, QuotaRespected

\* However many handlers commit at once, crash or lose their connection, neither
\* the tenant's nor any workspace's counter passes its cap.
THEOREM UploadsQuotaRespected == Spec => []QuotaRespected
<1>1. RoomInv => QuotaRespected
    BY DEF RoomInv
<1>2. QED
    BY <1>1, InitTypeInv, StepTypeInv, InitRoomInv, StepRoomInv, PTL DEF Spec

----------------------------------------------------------------------------
(* What a step can do to the rows, the counters and a handler's request *)

LEMMA OnlyInsertCharges ==
  ASSUME [Next]_vars
  PROVE  \/ UNCHANGED <<files, tenantUsed, wsUsed>>
         \/ \E w \in Workers : pc[w] = "insert" /\ InsertFile(req[w])
                              /\ (Goto(w, "meter") \/ Goto(w, "undo"))
<1>1. ASSUME NEW w \in Workers, Insert(w)
      PROVE  \/ UNCHANGED <<files, tenantUsed, wsUsed>>
             \/ /\ pc[w] = "insert" /\ InsertFile(req[w])
                /\ (Goto(w, "meter") \/ Goto(w, "undo"))
    BY <1>1 DEF Insert
<1>2. ASSUME NEW w \in Workers, Continue(w), ~Insert(w)
      PROVE  UNCHANGED <<files, tenantUsed, wsUsed>>
    BY <1>2
    DEF Continue, Persist, PutBlob, RejectTooLarge, StageChunk, MarkChunk, CountChunks,
        CommitChunks, LockTenant, LockWorkspace, Undo, Meter, DeleteSession, EmptyBlob,
        DeleteBlob, Discard, dbVars
<1>3. ASSUME NEW w \in Workers,
             \/ \E p \in Paths, ws \in Workspaces, size \in PostSizes : Upload(w, p, ws, size)
             \/ \E p \in Paths, c \in Chunks, q \in {"good", "bad"} : BeginChunk(w, p, c, q)
             \/ \E p \in Paths : BeginComplete(w, p) \/ BeginAbort(w, p)
             \/ DropRequest(w)
      PROVE  UNCHANGED <<files, tenantUsed, wsUsed>>
    BY <1>3 DEF Upload, BeginChunk, BeginComplete, BeginAbort, DropRequest, dbVars
<1>4. CASE \/ \E p \in Paths, ws \in Workspaces : InitUpload(p, ws)
           \/ \E p \in Paths : Expire(p)
           \/ Sweep \/ StopSweep \/ UNCHANGED vars
    BY <1>4
    DEF InitUpload, Expire, Sweep, SweepList, SweepEmpty, SweepDelete, SweepDiscard,
        StopSweep, vars, dbVars
<1>5. QED
    BY <1>1, <1>2, <1>3, <1>4 DEF Next

\* A handler keeps the size it started with, and starts with one of the sizes a
\* client can send.
SizeInv ==
  \A w \in Workers : pc[w] # "idle" => req[w].size \in PostSizes \cup {FileSize}

LEMMA StepSizeInv == TypeInv /\ SizeInv /\ [Next]_vars => SizeInv'
<1> SUFFICES ASSUME TypeInv, SizeInv, [Next]_vars
             PROVE  SizeInv'
    OBVIOUS
<1>1. ASSUME NEW w \in Workers, NEW label, NEW r, r.size \in PostSizes \cup {FileSize},
             Start(w, label, r)
      PROVE  SizeInv'
    BY <1>1 DEF Start, SizeInv, TypeInv, WorkerInv
<1>2. ASSUME NEW w \in Workers, Finish(w)
      PROVE  SizeInv'
    BY <1>2 DEF Finish, SizeInv, TypeInv, WorkerInv
<1>3. ASSUME NEW w \in Workers, NEW label, Goto(w, label), pc[w] # "idle",
             UNCHANGED req \/ \E n \in 0..MaxCopies : req' = [req EXCEPT ![w].copy = n]
      PROVE  SizeInv'
  <2>1. \A v \in Workers : req'[v].size = req[v].size \/ v = w
    BY <1>3 DEF TypeInv, WorkerInv
  <2>2. req'[w].size = req[w].size
    BY <1>3 DEF TypeInv, WorkerInv, Request
  <2>3. QED
    BY <1>3, <2>1, <2>2 DEF Goto, SizeInv, TypeInv, WorkerInv
<1>4. ASSUME NEW w \in Workers, NEW p \in Paths, NEW ws \in Workspaces,
             NEW size \in PostSizes, Upload(w, p, ws, size)
      PROVE  SizeInv'
    BY <1>1, <1>4 DEF Upload, PostRequest
<1>5. ASSUME NEW w \in Workers, NEW p \in Paths,
             \/ BeginComplete(w, p) \/ BeginAbort(w, p)
             \/ \E c \in Chunks, q \in {"good", "bad"} : BeginChunk(w, p, c, q)
      PROVE  SizeInv'
    BY <1>1, <1>5, Zenon
    DEF BeginComplete, BeginAbort, BeginChunk, SessionRequest, ChunkRequest
<1>6. ASSUME NEW w \in Workers, Continue(w) \/ DropRequest(w)
      PROVE  SizeInv'
  <2>1. \/ Finish(w)
        \/ \E label : Goto(w, label) /\ pc[w] # "idle" /\ UNCHANGED req
        \/ \E label : /\ Goto(w, label) /\ pc[w] # "idle"
                      /\ \E n \in 0..MaxCopies : req' = [req EXCEPT ![w].copy = n]
    BY <1>6
    DEF Continue, Persist, PutBlob, RejectTooLarge, StageChunk, MarkChunk, CountChunks,
        CommitChunks, LockTenant, LockWorkspace, Insert, Undo, Meter, DeleteSession,
        EmptyBlob, DeleteBlob, Discard, DropRequest
  <2>2. QED
    BY <1>2, <1>3, <2>1
<1>7. CASE \/ \E p \in Paths, ws \in Workspaces : InitUpload(p, ws)
           \/ \E p \in Paths : Expire(p)
           \/ Sweep \/ StopSweep \/ UNCHANGED vars
  <2>1. UNCHANGED <<pc, req>>
    BY <1>7
    DEF InitUpload, Expire, Sweep, SweepList, SweepEmpty, SweepDelete, SweepDiscard,
        StopSweep, vars
  <2>2. QED
    BY <2>1 DEF SizeInv
<1>8. QED
    BY <1>4, <1>5, <1>6, <1>7 DEF Next

----------------------------------------------------------------------------
(* The abstract ledger *)

LEMMA StepLedger ==
  ASSUME TypeInv, RoomInv, SizeInv, [Next]_vars
  PROVE  [Ledger!Next]_<<tenantUsed, wsUsed>>
<1>1. ASSUME NEW w \in Workers, pc[w] = "insert", InsertFile(req[w])
      PROVE  Ledger!Charge(req[w].ws, req[w].size)
    BY <1>1 DEF RoomInv, InsertFile, Ledger!Charge
<1>2. ASSUME NEW w \in Workers, pc[w] = "insert"
      PROVE  req[w].ws \in Workspaces /\ req[w].size \in PostSizes \cup {FileSize}
    BY <1>2 DEF TypeInv, WorkerInv, SizeInv
<1>3. QED
    BY <1>1, <1>2, OnlyInsertCharges DEF Ledger!Next

\* persistBlob implements the ledger: under every interleaving, failure and crash
\* the two counters move only by one whole charge that fits both caps.
THEOREM UploadsImplementLedger == Spec => ImplementsLedger
<1>1. Init => SizeInv /\ Ledger!Init
    BY DEF Init, SizeInv, Ledger!Init
<1>2. QED
    BY <1>1, InitTypeInv, StepTypeInv, InitRoomInv, StepRoomInv, StepSizeInv, StepLedger, PTL
    DEF Spec, ImplementsLedger, Ledger!Spec

----------------------------------------------------------------------------
(* Names *)

\* The name a handler has picked is free until it inserts: whoever inserts owns
\* the tenant row, and two handlers cannot both own it.
NamesInv ==
  /\ NamesDistinct
  /\ \A w \in Workers : pc[w] = "insert" => req[w].copy \in FreeCopies

LEMMA StepNamesInv == TypeInv /\ RoomInv /\ NamesInv /\ [Next]_vars => NamesInv'
<1> SUFFICES ASSUME TypeInv, RoomInv, NamesInv, [Next]_vars
             PROVE  NamesInv'
    OBVIOUS
<1>1. ASSUME NEW w \in Workers, pc[w] = "insert", InsertFile(req[w]),
             Goto(w, "meter") \/ Goto(w, "undo")
      PROVE  NamesInv'
  <2>1. \A v \in Workers : pc'[v] # "insert"
    BY <1>1 DEF Goto, RoomInv, TypeInv, WorkerInv
  <2>2. /\ Len(files) \in Nat /\ DOMAIN files = 1..Len(files)
        /\ DOMAIN files' = 1..(Len(files) + 1)
        /\ files'[Len(files) + 1].copy = req[w].copy
        /\ \A i \in 1..Len(files) : files'[i] = files[i]
    BY <1>1 DEF InsertFile, TypeInv, LedgerInv
  <2>3. \A i \in DOMAIN files : files[i].copy # req[w].copy
    BY <1>1 DEF NamesInv, FreeCopies
  <2>4. NamesDistinct'
    BY <2>2, <2>3 DEF NamesInv, NamesDistinct
  <2>5. QED
    BY <2>1, <2>4 DEF NamesInv
<1>2. CASE UNCHANGED <<files, tenantUsed, wsUsed>>
  <2>1. ASSUME NEW w \in Workers, LockWorkspace(w), NEW v \in Workers, pc'[v] = "insert"
        PROVE  req'[v].copy \in FreeCopies
    <3>1. CASE v = w
      BY <2>1, <3>1 DEF LockWorkspace, Goto, IsNextCopy, TypeInv, WorkerInv, Request
    <3>2. CASE v # w
      BY <2>1, <3>2 DEF LockWorkspace, Goto, NamesInv, TypeInv, WorkerInv
    <3>3. QED
      BY <3>1, <3>2
  <2>2. ASSUME NEW w \in Workers, Continue(w) \/ DropRequest(w), ~LockWorkspace(w)
        PROVE  \/ Finish(w)
               \/ \E label \in Pc \ {"insert"} : Goto(w, label) /\ UNCHANGED req
    BY <2>2
    DEF Continue, Persist, PutBlob, RejectTooLarge, StageChunk, MarkChunk, CountChunks,
        CommitChunks, LockTenant, Insert, Undo, Meter, DeleteSession, EmptyBlob, DeleteBlob,
        Discard, DropRequest, Pc
  <2>3. ASSUME NEW w \in Workers,
               \/ \E p \in Paths, ws \in Workspaces, size \in PostSizes : Upload(w, p, ws, size)
               \/ \E p \in Paths, c \in Chunks, q \in {"good", "bad"} : BeginChunk(w, p, c, q)
               \/ \E p \in Paths : BeginComplete(w, p) \/ BeginAbort(w, p)
        PROVE  \E label \in {"put", "stage", "count", "empty"} : \E r : Start(w, label, r)
    BY <2>3 DEF Upload, BeginChunk, BeginComplete, BeginAbort
  <2>4. ASSUME NEW w \in Workers, NEW v \in Workers, pc'[v] = "insert",
               \/ Finish(w)
               \/ \E label \in Pc \ {"insert"} : Goto(w, label) /\ UNCHANGED req
               \/ \E label \in {"put", "stage", "count", "empty"} : \E r : Start(w, label, r)
        PROVE  pc[v] = "insert" /\ req'[v] = req[v]
    BY <2>4 DEF Finish, Goto, Start, TypeInv, WorkerInv
  <2>5. CASE \/ \E p \in Paths, ws \in Workspaces : InitUpload(p, ws)
             \/ \E p \in Paths : Expire(p)
             \/ Sweep \/ StopSweep \/ UNCHANGED vars
    <3>1. UNCHANGED <<pc, req>>
      BY <2>5
      DEF InitUpload, Expire, Sweep, SweepList, SweepEmpty, SweepDelete, SweepDiscard,
          StopSweep, vars
    <3>2. QED
      BY <1>2, <3>1 DEF NamesInv, NamesDistinct, FreeCopies
  <2>6. ASSUME NEW v \in Workers, pc'[v] = "insert",
               \E w \in Workers :
                 \/ \E p \in Paths, ws \in Workspaces, size \in PostSizes : Upload(w, p, ws, size)
                 \/ \E p \in Paths, c \in Chunks, q \in {"good", "bad"} : BeginChunk(w, p, c, q)
                 \/ \E p \in Paths : BeginComplete(w, p) \/ BeginAbort(w, p)
                 \/ Continue(w) \/ DropRequest(w)
        PROVE  req'[v].copy \in FreeCopies
    BY <2>1, <2>2, <2>3, <2>4, <2>6 DEF NamesInv
  <2>7. CASE \A v \in Workers : pc'[v] = "insert" => req'[v].copy \in FreeCopies
    BY <1>2, <2>7 DEF NamesInv, NamesDistinct, FreeCopies
  <2>8. QED
    BY <2>5, <2>6, <2>7 DEF Next
<1>3. QED
    BY <1>1, <1>2, OnlyInsertCharges

\* No two active files of a folder bear one name.
THEOREM UploadsNamesDistinct == Spec => []NamesDistinct
<1>1. Init => NamesInv
    BY DEF Init, NamesInv, NamesDistinct
<1>2. NamesInv => NamesDistinct
    BY DEF NamesInv
<1>3. QED
    BY <1>1, <1>2, InitTypeInv, StepTypeInv, InitRoomInv, StepRoomInv, StepNamesInv, PTL
    DEF Spec

----------------------------------------------------------------------------
(* The counters and the rows *)

LEMMA StoredTotal == \A f, I : StoredBytes(f, I) = TotalOf(f, I)
  BY DEF StoredBytes, TotalOf

\* A row appended adds its size to the sum of any set of rows it joins.
LEMMA AppendedRow ==
  ASSUME TypeInv, NEW r \in File, files' = Append(files, r), NEW I \in SUBSET DOMAIN files
  PROVE  /\ StoredBytes(FileSizes', I) = StoredBytes(FileSizes, I)
         /\ StoredBytes(FileSizes', I \cup {Len(files) + 1}) = StoredBytes(FileSizes, I) + r.size
<1> DEFINE n == Len(files) + 1
           J == I \cup {n}
<1>1. /\ Len(files) \in Nat /\ n \notin DOMAIN files /\ DOMAIN files = 1..Len(files)
      /\ files \in Seq(File) /\ DOMAIN files' = DOMAIN files \cup {n}
      /\ files'[n] = r /\ \A i \in DOMAIN files : files'[i] = files[i] /\ files[i] \in File
  BY DEF TypeInv, LedgerInv
<1>2. IsFiniteSet(I)
  <2>1. IsFiniteSet(1..Len(files))
    BY <1>1, FS_Interval
  <2>2. QED
    BY <1>1, <2>1, FS_Subset
<1>3. /\ \A i \in I : FileSizes[i] \in Nat /\ FileSizes'[i] = FileSizes[i]
      /\ FileSizes'[n] = r.size /\ r.size \in Nat
  BY <1>1 DEF FileSizes, File
<1>4. TotalOf(FileSizes, I) \in Nat
  BY <1>2, <1>3, TotalNat
<1>5. TotalOf(FileSizes', I) = TotalOf(FileSizes, I)
  BY <1>2, <1>3, TotalSame
<1>6. TotalOf(FileSizes', J) = r.size + TotalOf(FileSizes', I)
  <2>1. IsFiniteSet(J) /\ J \ {n} = I /\ n \in J /\ \A i \in J : FileSizes'[i] \in Nat
    BY <1>1, <1>2, <1>3, FS_AddElement
  <2> HIDE DEF J, n
  <2>2. TotalOf(FileSizes', J) = FileSizes'[n] + TotalOf(FileSizes', J \ {n})
    BY <2>1, TotalRemove
  <2>3. QED
    BY <2>1, <2>2, <1>3
<1>7. QED
  BY <1>3, <1>4, <1>5, <1>6, StoredTotal

LEMMA StepUsage == TypeInv /\ UsageExact /\ [Next]_vars => UsageExact'
<1> SUFFICES ASSUME TypeInv, UsageExact, [Next]_vars
             PROVE  UsageExact'
    OBVIOUS
<1> DEFINE Rows(ws) == {i \in DOMAIN files : files[i].ws = ws}
<1>1. CASE UNCHANGED <<files, tenantUsed, wsUsed>>
  BY <1>1 DEF UsageExact, FileSizes
<1>2. ASSUME NEW w \in Workers, pc[w] = "insert", InsertFile(req[w])
      PROVE  UsageExact'
  <2> DEFINE NewRows(ws) == {i \in DOMAIN files' : files'[i].ws = ws}
             q == req[w]
             r == [path |-> q.path, size |-> q.size, ws |-> q.ws, copy |-> q.copy]
             n == Len(files) + 1
  <2>1. q \in Request /\ q.ws \in Workspaces /\ r \in File
    BY <1>2 DEF TypeInv, WorkerInv, Request, File
  <2>2. /\ files' = Append(files, r) /\ tenantUsed' = tenantUsed + r.size
        /\ wsUsed' = [wsUsed EXCEPT ![r.ws] = @ + r.size]
    BY <1>2 DEF InsertFile
  <2>3. /\ Len(files) \in Nat /\ DOMAIN files = 1..Len(files) /\ DOMAIN files' = DOMAIN files \cup {n}
        /\ files'[n] = r /\ \A i \in DOMAIN files : files'[i] = files[i]
    BY <2>1, <2>2 DEF TypeInv, LedgerInv
  <2>4. tenantUsed' = StoredBytes(FileSizes', DOMAIN files')
    <3>1. StoredBytes(FileSizes', DOMAIN files \cup {n}) = StoredBytes(FileSizes, DOMAIN files) + r.size
      BY <2>1, <2>2, AppendedRow
    <3>2. QED
      BY <2>2, <2>3, <3>1 DEF UsageExact
  <2>5. ASSUME NEW ws \in Workspaces
        PROVE  wsUsed'[ws] = StoredBytes(FileSizes', {i \in DOMAIN files' : files'[i].ws = ws})
    <3>1. CASE ws = r.ws
      <4>1. NewRows(ws) = Rows(ws) \cup {n}
        BY <2>3, <3>1
      <4>2. wsUsed'[ws] = StoredBytes(FileSizes, Rows(ws)) + r.size
        BY <2>2, <3>1 DEF UsageExact, TypeInv, LedgerInv
      <4>3. QED
        BY <2>1, <2>2, <2>5, <4>1, <4>2, AppendedRow
    <3>2. CASE ws # r.ws
      <4>1. NewRows(ws) = Rows(ws)
        BY <2>3, <3>2
      <4>2. wsUsed'[ws] = StoredBytes(FileSizes, Rows(ws))
        BY <2>2, <3>2 DEF UsageExact, TypeInv, LedgerInv
      <4>3. QED
        BY <2>1, <2>2, <2>5, <4>1, <4>2, AppendedRow
    <3>3. QED
      BY <3>1, <3>2
  <2>6. QED
    BY <2>4, <2>5 DEF UsageExact
<1>3. QED
  BY <1>1, <1>2, OnlyInsertCharges

\* The used bytes of the tenant and of every workspace are those of their rows.
THEOREM UploadsUsageExact == Spec => []UsageExact
<1>1. Init => UsageExact
  <2> SUFFICES ASSUME Init PROVE UsageExact
    OBVIOUS
  <2>1. /\ files = << >> /\ DOMAIN files = {} /\ tenantUsed = 0 /\ \A ws \in Workspaces : wsUsed[ws] = 0
    BY DEF Init
  <2>2. StoredBytes(FileSizes, {}) = 0
    BY StoredTotal, TotalEmpty
  <2>3. \A ws \in Workspaces : {i \in DOMAIN files : files[i].ws = ws} = {}
    BY <2>1
  <2>4. QED
    BY <2>1, <2>2, <2>3 DEF UsageExact
<1>2. QED
  BY <1>1, InitTypeInv, StepTypeInv, StepUsage, PTL DEF Spec

----------------------------------------------------------------------------
(* Whole files and orphans *)

HasFile(p) == \E i \in DOMAIN files : files[i].path = p

\* A handler that has charge of the upload at p; those that only stage have not.
Staging == {"idle", "stage", "mark"}
Acts(w, p) == pc[w] \notin Staging /\ req[w].path = p
Untouched(p) == ~HasFile(p) /\ sweep[p] = "no" /\ \A w \in Workers : ~Acts(w, p)

\* An upload is in one hand: a path that is not drawn, or whose session nobody
\* has finalised, is in nobody's, and one finaliser is alone with it.
OwnInv(p) ==
  /\ p \notin taken => ~Open(p) /\ Untouched(p)
  /\ Open(p) /\ suspect[p].finalisers = 0 => Untouched(p)
  /\ suspect[p].finalisers <= 1 =>
       /\ \A v, w \in Workers : Acts(v, p) /\ Acts(w, p) => v = w
       /\ sweep[p] # "no" => ~HasFile(p) /\ \A w \in Workers : ~Acts(w, p)

\* A blob without wrong-size blocks is whole as soon as it is committed, and
\* stays so: who has charge of it knows that its file is listed, and leaves it.
Unsuspected(p) == suspect[p].finalisers <= 1 /\ ~suspect[p].bad /\ ~suspect[p].lost
NoneBad(b) == \A c \in Chunks : b.block[c] # "bad" /\ b.staged[c] # "bad"
WholeInv(p) ==
  /\ ~suspect[p].bad => NoneBad(blob[p])
  /\ Unsuspected(p) =>
       /\ \A w \in Workers :
            Acts(w, p) /\ pc[w] \in {"lockTenant", "lockWorkspace", "insert"} => Intact(blob[p])
       /\ HasFile(p) => /\ Intact(blob[p])
                        /\ \A w \in Workers : Acts(w, p) => pc[w] \in {"meter", "deleteSession"}

\* Without a fault, a blob has a file, or somebody who will drop it or list it.
Minds(w, p) ==
  Acts(w, p) /\ pc[w] \in {"tooLarge", "lockTenant", "lockWorkspace", "insert", "undo", "deleteBlob"}
OrphanInv(p) ==
  faults = 0 /\ blob[p].exists => HasFile(p) \/ sweep[p] = "emptied" \/ \E w \in Workers : Minds(w, p)

LEMMA HasFileStep ==
  ASSUME TypeInv, [Next]_vars, NEW p \in Paths
  PROVE  HasFile(p)' <=>
           \/ HasFile(p)
           \/ \E w \in Workers : pc[w] = "insert" /\ req[w].path = p /\ InsertFile(req[w])
<1>1. CASE UNCHANGED files
  <2>1. \A w \in Workers : ~InsertFile(req[w])
    BY <1>1 DEF InsertFile, TypeInv, LedgerInv
  <2>2. QED
    BY <1>1, <2>1 DEF HasFile
<1>2. ASSUME NEW w \in Workers, pc[w] = "insert", InsertFile(req[w])
      PROVE  HasFile(p)' <=> HasFile(p) \/ req[w].path = p
  <2>1. /\ Len(files) \in Nat /\ DOMAIN files = 1..Len(files)
        /\ DOMAIN files' = 1..(Len(files) + 1)
        /\ files'[Len(files) + 1].path = req[w].path
        /\ \A i \in 1..Len(files) : files'[i] = files[i]
    BY <1>2 DEF InsertFile, TypeInv, LedgerInv
  <2>2. QED
    BY <2>1 DEF HasFile
<1>3. ASSUME NEW v \in Workers, pc[v] = "insert", InsertFile(req[v]), 
             NEW w \in Workers, InsertFile(req[w])
      PROVE  req[v].path = req[w].path
  <2>1. files'[Len(files) + 1].path = req[w].path /\ files'[Len(files) + 1].path = req[v].path
    BY <1>3 DEF InsertFile, TypeInv, LedgerInv
  <2>2. QED
    BY <2>1
<1>4. QED
  BY <1>1, <1>2, <1>3, OnlyInsertCharges

\* A handler that goes on touches nobody else's handler and no other path; it
\* keeps its path or ends, opens no session and finalises none.
LEMMA HandlerStep ==
  ASSUME TypeInv, NEW w \in Workers, Continue(w) \/ DropRequest(w)
  PROVE  /\ pc[w] # "idle" /\ req[w].path \in Paths
         /\ \A v \in Workers : v # w => pc'[v] = pc[v] /\ req'[v] = req[v]
         /\ pc'[w] = "idle" \/ req'[w].path = req[w].path
         /\ pc[w] \in Staging => pc'[w] \in Staging
         /\ \A q \in Paths : /\ q # req[w].path => blob'[q] = blob[q] /\ suspect'[q] = suspect[q]
                             /\ Open(q)' => Open(q)
                             /\ suspect'[q].finalisers = suspect[q].finalisers
         /\ UNCHANGED <<sweep, taken>>
<1>1. pc[w] # "idle" /\ req[w] \in Request /\ req[w].path \in Paths
  <2>1. pc[w] # "idle"
    BY DEF Continue, Persist, PutBlob, RejectTooLarge, StageChunk, MarkChunk, CountChunks, CommitChunks,
           LockTenant, LockWorkspace, Insert, Undo, Meter, DeleteSession, EmptyBlob, DeleteBlob,
           Discard, DropRequest
  <2>2. QED
    BY <2>1 DEF TypeInv, WorkerInv, Request
<1>2. \/ Finish(w)
      \/ \E label : /\ Goto(w, label) /\ (pc[w] \in Staging => label \in Staging)
                    /\ UNCHANGED req \/ \E n \in 0..MaxCopies : req' = [req EXCEPT ![w].copy = n]
  BY DEF Continue, Persist, PutBlob, RejectTooLarge, StageChunk, MarkChunk, CountChunks, CommitChunks,
         LockTenant, LockWorkspace, Insert, Undo, Meter, DeleteSession, EmptyBlob, DeleteBlob,
         Discard, DropRequest, Staging
<1>3. \A v \in Workers : v # w => pc'[v] = pc[v] /\ req'[v] = req[v]
  BY <1>2 DEF Finish, Goto, TypeInv, WorkerInv
<1>4. /\ pc'[w] = "idle" \/ req'[w].path = req[w].path
      /\ pc[w] \in Staging => pc'[w] \in Staging
  <2>1. CASE Finish(w)
    BY <2>1 DEF Finish, Staging, TypeInv, WorkerInv
  <2>2. ASSUME NEW label, Goto(w, label), pc[w] \in Staging => label \in Staging,
               UNCHANGED req \/ \E n \in 0..MaxCopies : req' = [req EXCEPT ![w].copy = n]
        PROVE  req'[w].path = req[w].path /\ (pc[w] \in Staging => pc'[w] \in Staging)
    <3>1. req'[w].path = req[w].path
      BY <1>1, <2>2 DEF TypeInv, WorkerInv, Request
    <3>2. pc'[w] = label
      BY <2>2 DEF Goto, TypeInv, WorkerInv
    <3>3. QED
      BY <2>2, <3>1, <3>2
  <2>3. QED
    BY <1>2, <2>1, <2>2
<1>5. blob' = blob \/ \E b : SetBlob(req[w].path, b)
  BY DEF Continue, Persist, PutBlob, RejectTooLarge, StageChunk, MarkChunk, CountChunks, CommitChunks,
         LockTenant, LockWorkspace, Insert, Undo, Meter, DeleteSession, EmptyBlob, DeleteBlob,
         Discard, DropRequest, TryBlob
<1>6. \/ suspect' = suspect
      \/ suspect' = [suspect EXCEPT ![req[w].path].bad = TRUE]
      \/ suspect' = [suspect EXCEPT ![req[w].path].lost = TRUE]
  BY DEF Continue, Persist, PutBlob, RejectTooLarge, StageChunk, MarkChunk, CountChunks, CommitChunks,
         LockTenant, LockWorkspace, Insert, Undo, Meter, DeleteSession, EmptyBlob, DeleteBlob,
         Discard, DropRequest
<1>7. \/ session' = session
      \/ session' = [session EXCEPT ![req[w].path].marked = @ \cup {req[w].chunk}]
      \/ CloseSession(req[w].path)
  BY DEF Continue, Persist, PutBlob, RejectTooLarge, StageChunk, MarkChunk, CountChunks, CommitChunks,
         LockTenant, LockWorkspace, Insert, Undo, Meter, DeleteSession, EmptyBlob, DeleteBlob,
         Discard, DropRequest, dbVars
<1>8. UNCHANGED <<sweep, taken>>
  BY DEF Continue, Persist, PutBlob, RejectTooLarge, StageChunk, MarkChunk, CountChunks, CommitChunks,
         LockTenant, LockWorkspace, Insert, Undo, Meter, DeleteSession, EmptyBlob, DeleteBlob,
         Discard, DropRequest, dbVars
<1>9. ASSUME NEW q \in Paths
      PROVE  /\ q # req[w].path => blob'[q] = blob[q] /\ suspect'[q] = suspect[q]
             /\ Open(q)' => Open(q)
             /\ suspect'[q].finalisers = suspect[q].finalisers
  <2>1. q # req[w].path => blob'[q] = blob[q]
    BY <1>1, <1>5 DEF SetBlob, TypeInv, BlobInv
  <2>2. (q # req[w].path => suspect'[q] = suspect[q]) /\ suspect'[q].finalisers = suspect[q].finalisers
    BY <1>1, <1>6 DEF TypeInv, RestInv, History
  <2>3. Open(q)' => Open(q)
    BY <1>1, <1>7 DEF CloseSession, Open, TypeInv, SessionInv, Session
  <2>4. QED
    BY <2>1, <2>2, <2>3
<1>10. QED
  BY <1>1, <1>3, <1>4, <1>8, <1>9

\* A handler that begins.
Begins(w, p, label) ==
  /\ pc[w] = "idle" /\ pc' = [pc EXCEPT ![w] = label]
  /\ \E r : r.path = p /\ req' = [req EXCEPT ![w] = r]

LEMMA BeginStep ==
  ASSUME TypeInv, NEW w \in Workers, NEW p, NEW label, Begins(w, p, label)
  PROVE  /\ pc[w] = "idle" /\ pc'[w] = label /\ req'[w].path = p
         /\ \A v \in Workers : v # w => pc'[v] = pc[v] /\ req'[v] = req[v]
  BY DEF Begins, TypeInv, WorkerInv

\* The steps by who takes them.
LEMMA StepKinds ==
  ASSUME [Next]_vars
  PROVE  \/ \E w \in Workers : Continue(w) \/ DropRequest(w)
         \/ \E w \in Workers, p \in Paths, ws \in Workspaces, size \in PostSizes : Upload(w, p, ws, size)
         \/ \E w \in Workers, p \in Paths, c \in Chunks, q \in {"good", "bad"} : BeginChunk(w, p, c, q)
         \/ \E w \in Workers, p \in Paths : BeginComplete(w, p) \/ BeginAbort(w, p)
         \/ \E p \in Paths, ws \in Workspaces : InitUpload(p, ws)
         \/ \E p \in Paths : SweepEmpty(p) \/ SweepDelete(p) \/ SweepDiscard(p)
         \/ (\E p \in Paths : Expire(p)) \/ SweepList \/ StopSweep \/ UNCHANGED vars
  BY DEF Next, Sweep

\* Who takes nothing new in hand keeps it in one hand.
LEMMA OwnFrame ==
  ASSUME NEW p \in Paths, OwnInv(p),
         p \notin taken' => p \notin taken,
         Open(p)' => Open(p),
         suspect'[p].finalisers = suspect[p].finalisers,
         sweep'[p] # "no" => sweep[p] # "no",
         \A w \in Workers : Acts(w, p)' => Acts(w, p),
         HasFile(p)' => HasFile(p) \/ \E w \in Workers : Acts(w, p)
  PROVE  OwnInv(p)'
<1>1. Untouched(p) => Untouched(p)'
  BY DEF Untouched
<1>2. (p \notin taken => ~Open(p) /\ Untouched(p))'
  BY <1>1 DEF OwnInv
<1>3. (Open(p) /\ suspect[p].finalisers = 0 => Untouched(p))'
  BY <1>1 DEF OwnInv
<1>4. ASSUME suspect[p].finalisers <= 1
      PROVE  /\ \A v, w \in Workers : Acts(v, p)' /\ Acts(w, p)' => v = w
             /\ sweep'[p] # "no" => ~HasFile(p)' /\ \A w \in Workers : ~Acts(w, p)'
  BY <1>4 DEF OwnInv
<1>5. QED
  BY <1>2, <1>3, <1>4 DEF OwnInv

LEMMA StepOwnInv ==
  TypeInv /\ (\A p \in Paths : OwnInv(p)) /\ [Next]_vars => (\A p \in Paths : OwnInv(p))'
<1> SUFFICES ASSUME TypeInv, \A p \in Paths : OwnInv(p), [Next]_vars, NEW p \in Paths
             PROVE  OwnInv(p)'
    OBVIOUS
<1>0. /\ suspect \in [Paths -> History] /\ session \in [Paths -> Session]
      /\ sweep \in [Paths -> {"no", "listed", "emptied", "aborted"}]
  BY DEF TypeInv, RestInv, SessionInv
<1>1. ASSUME NEW w \in Workers, Continue(w) \/ DropRequest(w)
      PROVE  OwnInv(p)'
  <2>1. \A v \in Workers : Acts(v, p)' => Acts(v, p)
    BY <1>1, HandlerStep DEF Acts, Staging
  <2>2. HasFile(p)' => HasFile(p) \/ \E v \in Workers : Acts(v, p)
    BY HasFileStep DEF Acts, Staging
  <2>3. /\ UNCHANGED <<sweep, taken>> /\ (Open(p)' => Open(p))
        /\ suspect'[p].finalisers = suspect[p].finalisers
    BY <1>1, HandlerStep
  <2>4. QED
    BY <2>1, <2>2, <2>3, OwnFrame
<1>2. ASSUME NEW w \in Workers, NEW q \in Paths, NEW ws \in Workspaces, NEW size \in PostSizes,
             Upload(w, q, ws, size)
      PROVE  OwnInv(p)'
  <2>1. Begins(w, q, "put")
    BY <1>2 DEF Upload, Start, Begins, PostRequest
  <2>2. UNCHANGED <<session, files, sweep, suspect>> /\ q \notin taken /\ taken' = taken \cup {q}
    BY <1>2 DEF Upload, dbVars
  <2>3. (HasFile(p)' <=> HasFile(p)) /\ (Open(p)' <=> Open(p))
    BY <2>2 DEF HasFile, Open
  <2>4. \A v \in Workers : v # w \/ p # q => (Acts(v, p)' => Acts(v, p))
    BY <2>1, BeginStep DEF Acts
  <2>5. CASE p # q
    BY <2>2, <2>3, <2>4, <2>5, OwnFrame
  <2>6. CASE p = q
    <3>1. ~Open(p)' /\ ~HasFile(p)' /\ sweep'[p] = "no" /\ p \in taken'
      BY <2>2, <2>3, <2>6 DEF OwnInv, Untouched
    <3>2. \A v \in Workers : Acts(v, p)' => v = w
      BY <2>2, <2>4, <2>6 DEF OwnInv, Untouched
    <3>3. QED
      BY <3>1, <3>2 DEF OwnInv
  <2>7. QED
    BY <2>5, <2>6
<1>3. ASSUME NEW w \in Workers, NEW q \in Paths, NEW c \in Chunks, NEW k \in {"good", "bad"},
             BeginChunk(w, q, c, k)
      PROVE  OwnInv(p)'
  <2>1. Begins(w, q, "stage")
    BY <1>3 DEF BeginChunk, Start, Begins, ChunkRequest, SessionRequest
  <2>2. UNCHANGED <<session, files, sweep, suspect, taken>>
    BY <1>3 DEF BeginChunk, dbVars
  <2>3. \A v \in Workers : Acts(v, p)' => Acts(v, p)
    BY <2>1, BeginStep DEF Acts, Staging
  <2>4. QED
    BY <2>2, <2>3, OwnFrame DEF HasFile, Open
<1>4. ASSUME NEW w \in Workers, NEW q \in Paths, BeginComplete(w, q) \/ BeginAbort(w, q)
      PROVE  OwnInv(p)'
  <2>1. Begins(w, q, "count") \/ Begins(w, q, "empty")
    BY <1>4 DEF BeginComplete, BeginAbort, Start, Begins, SessionRequest
  <2>2. UNCHANGED <<session, files, sweep, taken>> /\ Open(q) /\ Finalising({q})
    BY <1>4 DEF BeginComplete, BeginAbort, dbVars
  <2>3. (HasFile(p)' <=> HasFile(p)) /\ (Open(p)' <=> Open(p))
    BY <2>2 DEF HasFile, Open
  <2>4. \A v \in Workers : v # w \/ p # q => (Acts(v, p)' => Acts(v, p))
    BY <2>1, BeginStep DEF Acts
  <2>5. CASE p # q
    <3>1. suspect'[p] = suspect[p]
      BY <2>2, <2>5 DEF Finalising
    <3>2. QED
      BY <2>2, <2>3, <2>4, <2>5, <3>1, OwnFrame
  <2>6. CASE p = q
    <3>1. suspect'[p].finalisers = Loaded(suspect[p].finalisers) /\ suspect[p].finalisers \in 0..2
      BY <1>0, <2>2, <2>6 DEF Finalising, History
    <3>2. suspect'[p].finalisers # 0 /\ (suspect'[p].finalisers <= 1 => suspect[p].finalisers = 0)
      BY <3>1 DEF Loaded
    <3>3. p \in taken'
      BY <2>2, <2>6 DEF OwnInv
    <3>4. ASSUME suspect'[p].finalisers <= 1
          PROVE  sweep'[p] = "no" /\ \A v \in Workers : Acts(v, p)' => v = w
      <4>1. Untouched(p)
        BY <2>2, <2>6, <3>2, <3>4 DEF OwnInv
      <4>2. QED
        BY <2>2, <2>4, <4>1 DEF Untouched
    <3>5. QED
      BY <3>2, <3>3, <3>4 DEF OwnInv
  <2>7. QED
    BY <2>5, <2>6
<1>5. ASSUME NEW q \in Paths, NEW ws \in Workspaces, InitUpload(q, ws)
      PROVE  OwnInv(p)'
  <2>1. UNCHANGED <<pc, req, files, sweep, suspect>> /\ q \notin taken /\ taken' = taken \cup {q}
    BY <1>5 DEF InitUpload
  <2>2. Untouched(p)' <=> Untouched(p)
    BY <2>1 DEF Untouched, HasFile, Acts
  <2>3. CASE p = q
    <3>1. Untouched(p)' /\ p \in taken'
      BY <2>1, <2>2, <2>3 DEF OwnInv
    <3>2. QED
      BY <3>1 DEF OwnInv, Untouched
  <2>4. CASE p # q
    <3>1. Open(p)' <=> Open(p)
      BY <1>0, <1>5, <2>4 DEF InitUpload, Open
    <3>2. QED
      BY <2>1, <2>4, <3>1, OwnFrame DEF HasFile, Acts
  <2>5. QED
    BY <2>3, <2>4
<1>6. ASSUME NEW q \in Paths, SweepEmpty(q) \/ SweepDelete(q) \/ SweepDiscard(q)
      PROVE  OwnInv(p)'
  <2>1. /\ UNCHANGED <<pc, req, files, suspect, taken>> /\ sweep[q] # "no"
        /\ \E x : sweep' = [sweep EXCEPT ![q] = x]
        /\ UNCHANGED session \/ CloseSession(q)
    BY <1>6 DEF SweepEmpty, SweepDelete, SweepDiscard, dbVars
  <2>2. sweep'[p] # "no" => sweep[p] # "no"
    BY <1>0, <2>1
  <2>3. Open(p)' => Open(p)
    BY <1>0, <2>1 DEF CloseSession, Open, Session
  <2>4. QED
    BY <2>1, <2>2, <2>3, OwnFrame DEF HasFile, Acts
<1>7. ASSUME NEW q \in Paths, Expire(q)
      PROVE  OwnInv(p)'
  <2>1. UNCHANGED <<pc, req, files, sweep, suspect, taken>>
    BY <1>7 DEF Expire
  <2>2. Open(p)' <=> Open(p)
    BY <1>0, <1>7 DEF Expire, Open, Session
  <2>3. QED
    BY <2>1, <2>2, OwnFrame DEF HasFile, Acts
<1>8. CASE SweepList
  <2>1. /\ UNCHANGED <<session, pc, req, files, taken>> /\ Finalising(Dead)
        /\ sweep'[p] # "no" <=> p \in Dead
    BY <1>8 DEF SweepList, dbVars
  <2>2. /\ HasFile(p)' <=> HasFile(p)
        /\ Open(p)' <=> Open(p)
        /\ \A w \in Workers : Acts(w, p)' <=> Acts(w, p)
    BY <2>1 DEF HasFile, Open, Acts
  <2>3. CASE p \notin Dead
    <3>1. suspect'[p] = suspect[p]
      BY <2>1, <2>3 DEF Finalising
    <3>2. QED
      BY <2>1, <2>2, <2>3, <3>1, OwnFrame
  <2>4. CASE p \in Dead
    <3>1. suspect'[p].finalisers = Loaded(suspect[p].finalisers) /\ suspect[p].finalisers \in 0..2
      BY <1>0, <2>1, <2>4 DEF Finalising, History
    <3>2. suspect'[p].finalisers # 0 /\ (suspect'[p].finalisers <= 1 => suspect[p].finalisers = 0)
      BY <3>1 DEF Loaded
    <3>3. Open(p) /\ p \in taken'
      BY <2>1, <2>4 DEF Dead, OwnInv
    <3>4. suspect'[p].finalisers <= 1 => Untouched(p)
      BY <3>2, <3>3 DEF OwnInv
    <3>5. QED
      BY <2>2, <3>2, <3>3, <3>4 DEF OwnInv, Untouched
  <2>5. QED
    BY <2>3, <2>4
<1>9. CASE StopSweep \/ UNCHANGED vars
  <2>1. UNCHANGED <<session, pc, req, files, taken, suspect>> /\ (sweep'[p] # "no" => sweep[p] # "no")
    BY <1>9 DEF StopSweep, dbVars, vars
  <2>2. QED
    BY <2>1, OwnFrame DEF HasFile, Acts, Open
<1>10. QED
  BY <1>1, <1>2, <1>3, <1>4, <1>5, <1>6, <1>7, <1>8, <1>9, StepKinds

\* The blob-store operations add no wrong-size block; a commit of none is whole.
LEMMA BlobKeepsNoneBad ==
  /\ NoneBad(NoBlob) /\ NoneBad(Put) /\ NoneBad(CommitNothing)
  /\ \A b \in BlobState : NoneBad(b) =>
       /\ NoneBad(Delete(b)) /\ NoneBad(CommitBlocks(b))
       /\ Committable(b) => Intact(CommitBlocks(b))
       /\ \A c \in Chunks : NoneBad(StageBlock(b, c, "good"))
  /\ Intact(Put)
<1>1. NoneBad(NoBlob) /\ NoneBad(Put) /\ NoneBad(CommitNothing) /\ Intact(Put)
  BY DEF NoneBad, Intact, NoBlob, NoBlocks, Put, CommitNothing
<1>2. ASSUME NEW b \in BlobState, NoneBad(b)
      PROVE  /\ NoneBad(Delete(b)) /\ NoneBad(CommitBlocks(b))
             /\ Committable(b) => Intact(CommitBlocks(b))
             /\ \A c \in Chunks : NoneBad(StageBlock(b, c, "good"))
  <2>1. NoneBad(Delete(b))
    BY <1>2 DEF NoneBad, Delete, BlobState, NoBlocks
  <2>2. NoneBad(CommitBlocks(b)) /\ (Committable(b) => Intact(CommitBlocks(b)))
    BY <1>2 DEF NoneBad, CommitBlocks, Committable, Intact, Latest, BlobState, Block, NoBlocks
  <2>3. \A c \in Chunks : NoneBad(StageBlock(b, c, "good"))
    BY <1>2 DEF NoneBad, StageBlock, BlobState, Block
  <2>4. QED
    BY <2>1, <2>2, <2>3
<1>3. QED
  BY <1>1, <1>2

\* What nobody touches stays whole: the blob is left alone and no handler takes
\* charge of it or goes on with it.
LEMMA WholeFrame ==
  ASSUME NEW p \in Paths, WholeInv(p),
         blob'[p] = blob[p], HasFile(p)' <=> HasFile(p),
         suspect[p].bad => suspect'[p].bad,
         Unsuspected(p)' => Unsuspected(p),
         \A w \in Workers : Acts(w, p)' => Acts(w, p) /\ pc'[w] = pc[w]
  PROVE  WholeInv(p)'
<1>1. (~suspect[p].bad => NoneBad(blob[p]))'
  BY DEF WholeInv, NoneBad
<1>2. Intact(blob[p])' <=> Intact(blob[p])
  BY DEF Intact
<1>3. ASSUME Unsuspected(p)', NEW w \in Workers, Acts(w, p)'
      PROVE  /\ pc'[w] \in {"lockTenant", "lockWorkspace", "insert"} => Intact(blob[p])'
             /\ HasFile(p)' => pc'[w] \in {"meter", "deleteSession"}
  BY <1>2, <1>3 DEF WholeInv
<1>4. Unsuspected(p)' /\ HasFile(p)' => Intact(blob[p])'
  BY <1>2 DEF WholeInv
<1>5. QED
  BY <1>1, <1>3, <1>4 DEF WholeInv

\* A handler in charge: how it comes to hold a whole blob, and what it does after
\* the file is listed.
Listing == {"lockTenant", "lockWorkspace", "insert"}
LEMMA ChargeStep ==
  ASSUME TypeInv, NEW w \in Workers, Continue(w) \/ DropRequest(w), NEW p \in Paths, req[w].path = p,
         pc[w] \notin Staging
  PROVE  /\ pc'[w] \in Listing =>
              \/ blob'[p] = blob[p] /\ pc[w] \in Listing
              \/ pc[w] \notin {"meter", "deleteSession"} /\ blob'[p] = Put
              \/ /\ pc[w] \notin {"meter", "deleteSession"}
                 /\ Committable(blob[p]) /\ blob'[p] = CommitBlocks(blob[p])
         /\ pc[w] \in {"meter", "deleteSession"} =>
              blob'[p] = blob[p] /\ pc'[w] \in {"deleteSession", "idle"}
         /\ pc[w] = "insert" => blob'[p] = blob[p]
         /\ pc[w] = "insert" /\ InsertFile(req[w]) => pc'[w] = "meter" \/ suspect'[p].lost
         /\ blob'[p] \in {blob[p], Put, CommitNothing, Delete(blob[p]), CommitBlocks(blob[p])}
         /\ suspect'[p].bad = suspect[p].bad /\ (suspect[p].lost => suspect'[p].lost)
<1>0. /\ blob \in [Paths -> BlobState] /\ pc \in [Workers -> Pc] /\ files \in Seq(File)
      /\ suspect \in [Paths -> History]
  BY DEF TypeInv, BlobInv, WorkerInv, RestInv, LedgerInv
<1> USE DEF Listing
<1>1. CASE PutBlob(w)
  BY <1>0, <1>1 DEF PutBlob, SetBlob, Goto, Finish
<1>2. CASE RejectTooLarge(w) \/ Undo(w) \/ DeleteBlob(w)
  BY <1>0, <1>2 DEF RejectTooLarge, Undo, DeleteBlob, TryBlob, SetBlob, Goto, Finish
<1>3. CASE StageChunk(w) \/ MarkChunk(w)
  BY <1>3 DEF StageChunk, MarkChunk, Staging
<1>4. CASE CountChunks(w) \/ LockTenant(w) \/ LockWorkspace(w) \/ Meter(w) \/ DeleteSession(w) \/ Discard(w)
  <2>1. UNCHANGED <<blob, suspect>>
    BY <1>4 DEF CountChunks, LockTenant, LockWorkspace, Meter, DeleteSession, Discard
  <2>2. /\ pc[w] # "insert"
        /\ pc'[w] \in Listing => pc[w] \in Listing
        /\ pc[w] \in {"meter", "deleteSession"} => pc'[w] \in {"deleteSession", "idle"}
    BY <1>0, <1>4 DEF CountChunks, LockTenant, LockWorkspace, Meter, DeleteSession, Discard, Goto, Finish
  <2>3. QED
    BY <2>1, <2>2
<1>5. CASE CommitChunks(w)
  BY <1>0, <1>5 DEF CommitChunks, SetBlob, Goto, Finish
<1>6. CASE Insert(w)
  <2>1. UNCHANGED blob /\ pc[w] = "insert" /\ pc'[w] \in {"meter", "undo"}
    BY <1>0, <1>6 DEF Insert, Goto
  <2>2. UNCHANGED suspect \/ suspect' = [suspect EXCEPT ![p].lost = TRUE]
    BY <1>6 DEF Insert
  <2>3. suspect'[p].bad = suspect[p].bad /\ (suspect[p].lost => suspect'[p].lost)
    BY <1>0, <2>2 DEF History
  <2>4. ASSUME InsertFile(req[w])
        PROVE  pc'[w] = "meter" \/ suspect'[p].lost
    <3>1. files' # files
      BY <1>0, <2>4 DEF InsertFile
    <3>2. \/ Goto(w, "meter")
          \/ suspect' = [suspect EXCEPT ![p].lost = TRUE]
      BY <1>6, <3>1 DEF Insert
    <3>3. QED
      BY <1>0, <3>2 DEF Goto, History
  <2>5. QED
    BY <2>1, <2>3, <2>4
<1>7. CASE EmptyBlob(w)
  BY <1>0, <1>7 DEF EmptyBlob, SetBlob, Goto
<1>8. CASE DropRequest(w)
  <2>1. UNCHANGED <<blob, suspect, files>> /\ pc'[w] = "idle"
    BY <1>0, <1>8 DEF DropRequest, Finish, dbVars
  <2>2. ~InsertFile(req[w])
    BY <1>0, <2>1 DEF InsertFile
  <2>3. QED
    BY <2>1, <2>2
<1>9. QED
  BY <1>1, <1>2, <1>3, <1>4, <1>5, <1>6, <1>7, <1>8 DEF Continue, Persist

LEMMA StepWholeInv ==
  /\ TypeInv /\ (\A p \in Paths : OwnInv(p)) /\ [Next]_vars
  /\ \A p \in Paths : WholeInv(p)
  => (\A p \in Paths : WholeInv(p))'
<1> SUFFICES ASSUME TypeInv, \A p \in Paths : OwnInv(p), [Next]_vars, NEW p \in Paths, WholeInv(p)
             PROVE  WholeInv(p)'
    OBVIOUS
<1>0. /\ suspect \in [Paths -> History] /\ blob \in [Paths -> BlobState]
      /\ sweep \in [Paths -> {"no", "listed", "emptied", "aborted"}]
  BY DEF TypeInv, RestInv, BlobInv
<1>1. ASSUME NEW w \in Workers, Continue(w) \/ DropRequest(w)
      PROVE  WholeInv(p)'
  <2>0. /\ \A v \in Workers : v # w => (Acts(v, p)' <=> Acts(v, p)) /\ pc'[v] = pc[v]
        /\ suspect'[p].finalisers = suspect[p].finalisers
        /\ Acts(w, p)' => Acts(w, p)
    BY <1>1, HandlerStep DEF Acts, Staging
  <2>1. CASE req[w].path # p
    <3>1. blob'[p] = blob[p] /\ suspect'[p] = suspect[p] /\ ~Acts(w, p)
      BY <1>1, <2>1, HandlerStep DEF Acts
    <3>2. HasFile(p)' <=> HasFile(p)
      <4>1. CASE UNCHANGED files
        BY <4>1 DEF HasFile
      <4>2. ASSUME NEW u \in Workers, pc[u] = "insert", InsertFile(req[u]),
                   Goto(u, "meter") \/ Goto(u, "undo")
            PROVE  HasFile(p)' <=> HasFile(p)
        <5>1. u = w
          BY <2>0, <4>2 DEF Goto, TypeInv, WorkerInv
        <5>2. \A v \in Workers : InsertFile(req[v]) => req[v].path = req[w].path
          BY <4>2, <5>1 DEF InsertFile, TypeInv, LedgerInv
        <5>3. QED
          BY <2>1, <5>2, HasFileStep
      <4>3. QED
        BY <4>1, <4>2, OnlyInsertCharges
    <3>3. QED
      BY <2>0, <3>1, <3>2, WholeFrame DEF Unsuspected
  <2>2. CASE req[w].path = p /\ pc[w] \in Staging
    <3>1. StageChunk(w) \/ MarkChunk(w) \/ DropRequest(w)
      BY <1>1, <2>2 DEF Staging, Continue, Persist, PutBlob, RejectTooLarge, CountChunks, CommitChunks,
         LockTenant, LockWorkspace, Insert, Undo, Meter, DeleteSession, EmptyBlob, DeleteBlob, Discard
    <3>2. /\ ~Acts(w, p)' /\ UNCHANGED files
      <4>1. pc'[w] \in Staging
        BY <1>1, <2>2, HandlerStep
      <4>2. UNCHANGED files
        BY <3>1 DEF StageChunk, MarkChunk, DropRequest, dbVars
      <4>3. QED
        BY <4>1, <4>2 DEF Acts
    <3>3. HasFile(p)' <=> HasFile(p)
      BY <3>2 DEF HasFile
    <3>4. CASE blob'[p] = blob[p] /\ suspect'[p] = suspect[p]
      BY <2>0, <3>2, <3>3, <3>4, WholeFrame DEF Unsuspected
    <3>5. CASE /\ StageChunk(w) /\ blob'[p] = StageBlock(blob[p], req[w].chunk, req[w].quality)
               /\ \/ req[w].quality = "good" /\ suspect'[p] = suspect[p]
                  \/ suspect'[p].bad
      <4>1. req[w].chunk \in Chunks
        BY <3>5 DEF StageChunk, TypeInv, WorkerInv
      <4>2. (~suspect[p].bad => NoneBad(blob[p]))'
        BY <1>0, <3>5, <4>1, BlobKeepsNoneBad DEF WholeInv
      <4>3. Unsuspected(p)' => Unsuspected(p)
        BY <2>0, <3>5 DEF Unsuspected
      <4>4. Intact(blob[p])' <=> Intact(blob[p])
        BY <1>0, <3>5 DEF Intact, StageBlock, BlobState
      <4>5. QED
        BY <2>0, <3>2, <3>3, <4>2, <4>3, <4>4 DEF WholeInv
    <3>6. QED
      <4>1. CASE StageChunk(w)
        <5>1. \/ blob' = blob /\ suspect' = suspect
              \/ /\ blob' = [blob EXCEPT ![p] = StageBlock(blob[p], req[w].chunk, req[w].quality)]
                 /\ \/ req[w].quality = "good" /\ suspect' = suspect
                    \/ suspect' = [suspect EXCEPT ![p].bad = TRUE]
          BY <2>2, <4>1 DEF StageChunk, SetBlob
        <5>2. QED
          BY <1>0, <3>4, <3>5, <4>1, <5>1 DEF History
      <4>2. CASE MarkChunk(w) \/ DropRequest(w)
        BY <3>4, <4>2 DEF MarkChunk, DropRequest
      <4>3. QED
        BY <3>1, <4>1, <4>2
  <2>3. CASE req[w].path = p /\ pc[w] \notin Staging
    <3>1. Acts(w, p)
      BY <2>3 DEF Acts
    <3>2. blob[p] \in BlobState
      BY <1>0
    <3>3. (~suspect[p].bad => NoneBad(blob[p]))'
      BY <1>1, <2>3, <3>2, ChargeStep, BlobKeepsNoneBad DEF WholeInv, NoneBad
    <3>4. SUFFICES ASSUME Unsuspected(p)'
                   PROVE  /\ Acts(w, p)' /\ pc'[w] \in Listing => Intact(blob[p])'
                          /\ HasFile(p)' => /\ Intact(blob[p])'
                                            /\ Acts(w, p)' => pc'[w] \in {"meter", "deleteSession"}
      <4>1. \A v \in Workers : Acts(v, p)' => Acts(v, p)
        BY <2>0
      <4>2. Unsuspected(p)' => \A v \in Workers : Acts(v, p)' => v = w
        BY <2>0, <3>1, <4>1 DEF OwnInv, Unsuspected
      <4>3. QED
        BY <3>3, <3>4, <4>2 DEF WholeInv, Listing
    <3>5. /\ Unsuspected(p) /\ NoneBad(blob[p])
      BY <1>1, <2>0, <2>3, <3>4, ChargeStep DEF Unsuspected, WholeInv
    <3>6. HasFile(p) => Intact(blob[p]) /\ pc[w] \in {"meter", "deleteSession"}
      BY <3>1, <3>5 DEF WholeInv
    <3>7. pc[w] \in Listing => Intact(blob[p])
      BY <3>1, <3>5 DEF WholeInv, Listing
    <3>8. pc'[w] \in Listing => Intact(blob[p])'
      BY <1>1, <2>3, <3>2, <3>5, <3>7, ChargeStep, BlobKeepsNoneBad DEF Intact
    <3>9. ASSUME HasFile(p)'
          PROVE  Intact(blob[p])' /\ pc'[w] \in {"meter", "deleteSession", "idle"}
      <4>1. CASE HasFile(p)
        BY <1>1, <2>3, <3>6, <4>1, ChargeStep DEF Intact
      <4>2. CASE ~HasFile(p)
        <5>1. PICK v \in Workers : pc[v] = "insert" /\ req[v].path = p /\ InsertFile(req[v])
          BY <3>9, <4>2, HasFileStep
        <5>2. v = w
          BY <3>1, <3>5, <5>1 DEF OwnInv, Unsuspected, Acts, Staging
        <5>3. pc'[w] = "meter" /\ blob'[p] = blob[p]
          BY <1>1, <2>3, <3>4, <5>1, <5>2, ChargeStep DEF Unsuspected
        <5>4. QED
          BY <3>7, <5>1, <5>2, <5>3 DEF Intact, Listing
      <4>3. QED
        BY <4>1, <4>2
    <3>10. QED
      BY <3>8, <3>9 DEF Acts, Staging
  <2>4. QED
    BY <2>1, <2>2, <2>3
<1>2. ASSUME NEW w \in Workers, NEW q \in Paths, NEW ws \in Workspaces, NEW size \in PostSizes,
             Upload(w, q, ws, size)
      PROVE  WholeInv(p)'
  <2>1. Begins(w, q, "put")
    BY <1>2 DEF Upload, Start, Begins, PostRequest
  <2>2. UNCHANGED <<blob, files, suspect>> /\ q \notin taken
    BY <1>2 DEF Upload, dbVars
  <2>3. (HasFile(p)' <=> HasFile(p)) /\ (Unsuspected(p)' <=> Unsuspected(p))
    BY <2>2 DEF HasFile, Unsuspected
  <2>4. \A v \in Workers : v # w \/ p # q => (Acts(v, p)' => Acts(v, p) /\ pc'[v] = pc[v])
    BY <2>1, BeginStep DEF Acts
  <2>5. CASE p # q
    BY <2>2, <2>3, <2>4, <2>5, WholeFrame
  <2>6. CASE p = q
    BY <2>1, <2>2, <2>3, <2>4, <2>6, BeginStep DEF OwnInv, Untouched, WholeInv
  <2>7. QED
    BY <2>5, <2>6
<1>3. ASSUME NEW w \in Workers, NEW q \in Paths, NEW c \in Chunks, NEW k \in {"good", "bad"},
             BeginChunk(w, q, c, k)
      PROVE  WholeInv(p)'
  <2>1. Begins(w, q, "stage")
    BY <1>3 DEF BeginChunk, Start, Begins, ChunkRequest, SessionRequest
  <2>2. UNCHANGED <<blob, files, suspect>>
    BY <1>3 DEF BeginChunk, dbVars
  <2>3. \A v \in Workers : Acts(v, p)' => Acts(v, p) /\ pc'[v] = pc[v]
    BY <2>1, BeginStep DEF Acts, Staging
  <2>4. QED
    BY <2>2, <2>3, WholeFrame DEF HasFile, Unsuspected
<1>4. ASSUME NEW w \in Workers, NEW q \in Paths, BeginComplete(w, q) \/ BeginAbort(w, q)
      PROVE  WholeInv(p)'
  <2>1. Begins(w, q, "count") \/ Begins(w, q, "empty")
    BY <1>4 DEF BeginComplete, BeginAbort, Start, Begins, SessionRequest
  <2>2. UNCHANGED <<blob, files>> /\ Open(q) /\ Finalising({q})
    BY <1>4 DEF BeginComplete, BeginAbort, dbVars
  <2>3. (HasFile(p)' <=> HasFile(p)) /\ (Intact(blob[p])' <=> Intact(blob[p])) /\ blob'[p] = blob[p]
    BY <2>2 DEF HasFile, Intact
  <2>4. \A v \in Workers : v # w \/ p # q => (Acts(v, p)' => Acts(v, p) /\ pc'[v] = pc[v])
    BY <2>1, BeginStep DEF Acts
  <2>5. CASE p # q
    <3>1. suspect'[p] = suspect[p]
      BY <2>2, <2>5 DEF Finalising
    <3>2. QED
      BY <2>3, <2>4, <2>5, <3>1, WholeFrame DEF Unsuspected
  <2>6. CASE p = q
    <3>1. /\ suspect'[p].finalisers = Loaded(suspect[p].finalisers) /\ suspect[p].finalisers \in 0..2
          /\ suspect'[p].bad = suspect[p].bad
      BY <1>0, <2>2, <2>6 DEF Finalising, History
    <3>2. Unsuspected(p)' => Untouched(p)
      BY <2>2, <2>6, <3>1 DEF OwnInv, Unsuspected, Loaded
    <3>3. (~suspect[p].bad => NoneBad(blob[p]))'
      BY <2>3, <3>1 DEF WholeInv, NoneBad
    <3>4. Unsuspected(p)' => ~HasFile(p)' /\ \A v \in Workers : Acts(v, p)' => v = w
      BY <2>3, <2>4, <3>2 DEF Untouched
    <3>5. pc'[w] \notin Listing
      BY <2>1, BeginStep DEF Listing
    <3>6. QED
      BY <3>3, <3>4, <3>5 DEF WholeInv, Listing
  <2>7. QED
    BY <2>5, <2>6
<1>5. ASSUME NEW q \in Paths, SweepEmpty(q) \/ SweepDelete(q) \/ SweepDiscard(q)
      PROVE  WholeInv(p)'
  <2>1. /\ UNCHANGED <<pc, req, files, suspect>> /\ sweep[q] # "no"
        /\ blob' = blob \/ \E b \in {CommitNothing, Delete(blob[q])} : blob' = [blob EXCEPT ![q] = b]
    BY <1>5 DEF SweepEmpty, SweepDelete, SweepDiscard, dbVars, SetBlob, TryBlob
  <2>2. CASE blob'[p] = blob[p]
    BY <2>1, <2>2, WholeFrame DEF HasFile, Acts, Unsuspected
  <2>3. CASE p = q /\ blob'[p] \in {CommitNothing, Delete(blob[p])}
    <3>1. (~suspect[p].bad => NoneBad(blob[p]))'
      BY <1>0, <2>1, <2>3, BlobKeepsNoneBad DEF WholeInv, NoneBad
    <3>2. Unsuspected(p)' => ~HasFile(p)' /\ \A v \in Workers : ~Acts(v, p)'
      BY <2>1, <2>3 DEF OwnInv, Unsuspected, HasFile, Acts
    <3>3. QED
      BY <3>1, <3>2 DEF WholeInv
  <2>4. QED
    BY <1>0, <2>1, <2>2, <2>3
<1>6. CASE SweepList
  <2>1. UNCHANGED <<blob, pc, req, files>> /\ Finalising(Dead)
    BY <1>6 DEF SweepList, dbVars
  <2>2. suspect'[p].bad = suspect[p].bad /\ (Unsuspected(p)' => Unsuspected(p))
    BY <1>0, <2>1 DEF Finalising, Loaded, History, Unsuspected
  <2>3. QED
    BY <2>1, <2>2, WholeFrame DEF HasFile, Acts
<1>7. ASSUME \/ \E q \in Paths, ws \in Workspaces : InitUpload(q, ws)
             \/ \E q \in Paths : Expire(q)
             \/ StopSweep \/ UNCHANGED vars
      PROVE  WholeInv(p)'
  <2>1. UNCHANGED <<blob, pc, req, files, suspect>>
    BY <1>7 DEF InitUpload, Expire, StopSweep, dbVars, vars
  <2>2. QED
    BY <2>1, WholeFrame DEF HasFile, Acts, Unsuspected
<1>8. QED
  BY <1>1, <1>2, <1>3, <1>4, <1>5, <1>6, <1>7, StepKinds

\* A file listed in the plain way is downloadable whole, for any number of
\* handlers, files and sweeps: nothing deletes or empties its blob.
THEOREM UploadsFileIntact == Spec => []FileIntact
<1>1. ASSUME Init
      PROVE  (\A p \in Paths : OwnInv(p)) /\ (\A p \in Paths : WholeInv(p))
  <2>1. ASSUME NEW p \in Paths
        PROVE  OwnInv(p) /\ WholeInv(p)
    <3>1. /\ ~Open(p) /\ sweep[p] = "no" /\ blob[p] = NoBlob
          /\ ~HasFile(p) /\ \A w \in Workers : ~Acts(w, p)
      BY <1>1 DEF Init, Open, NoSession, HasFile, Acts, Staging
    <3>2. QED
      BY <3>1, BlobKeepsNoneBad DEF OwnInv, WholeInv, Untouched
  <2>2. QED
    BY <2>1
<1>2. TypeInv /\ (\A p \in Paths : WholeInv(p)) => FileIntact
  <2>1. ASSUME TypeInv, \A p \in Paths : WholeInv(p), NEW i \in DOMAIN files
        PROVE  Unsuspected(files[i].path) => Intact(blob[files[i].path])
    <3>1. files[i].path \in Paths
      <4>1. files \in Seq(File) /\ i \in DOMAIN files
        BY <2>1 DEF TypeInv, LedgerInv
      <4>2. files[i] \in File
        BY <4>1
      <4>3. QED
        BY <4>2 DEF File
    <3>2. HasFile(files[i].path)
      BY DEF HasFile
    <3>3. QED
      BY <2>1, <3>1, <3>2 DEF WholeInv
  <2>2. (\A i \in DOMAIN files : Unsuspected(files[i].path) => Intact(blob[files[i].path])) => FileIntact
    BY Zenon DEF FileIntact, Unsuspected
  <2>3. QED
    BY <2>1, <2>2
<1>3. QED
  BY <1>1, <1>2, InitTypeInv, StepTypeInv, StepOwnInv, StepWholeInv, PTL DEF Spec

\* Faults are never forgotten, nor files delisted.
LEMMA FaultStep ==
  ASSUME TypeInv, [Next]_vars
  PROVE  faults' = faults \/ faults' = faults + 1
<1>1. ASSUME NEW w \in Workers, Continue(w)
      PROVE  faults' = faults \/ faults' = faults + 1
  BY <1>1 DEF Continue, Persist, PutBlob, RejectTooLarge, StageChunk, MarkChunk, CountChunks, CommitChunks,
         LockTenant, LockWorkspace, Insert, Undo, Meter, DeleteSession, EmptyBlob, DeleteBlob,
         Discard, TryBlob, Fault
<1>2. QED
  BY <1>1, StepKinds
  DEF DropRequest, Upload, BeginChunk, BeginComplete, BeginAbort, InitUpload, SweepEmpty,
      SweepDelete, SweepDiscard, Expire, SweepList, StopSweep, Fault, TryBlob, vars

LEMMA OrphanFrame ==
  ASSUME TypeInv, [Next]_vars, NEW p \in Paths, OrphanInv(p),
         blob'[p].exists => blob[p].exists,
         sweep[p] = "emptied" => sweep'[p] = "emptied",
         \A w \in Workers : Minds(w, p) => Minds(w, p)' \/ HasFile(p)'
  PROVE  OrphanInv(p)'
<1>1. HasFile(p) => HasFile(p)'
  BY HasFileStep
<1>2. faults' = 0 => faults = 0
  BY FaultStep DEF TypeInv, RestInv
<1>3. QED
  BY <1>1, <1>2 DEF OrphanInv

Minding == {"tooLarge", "lockTenant", "lockWorkspace", "insert", "undo", "deleteBlob"}
LEMMA DeleteGone == \A b \in BlobState : ~Delete(b).exists
  BY DEF Delete, BlobState

\* A call that is not lost: a handler in charge leaves no blob, keeps minding it,
\* or has listed it.
LEMMA MindStep ==
  ASSUME TypeInv, NEW w \in Workers, Continue(w), UNCHANGED faults,
         NEW p \in Paths, req[w].path = p, pc[w] \notin Staging
  PROVE  \/ pc'[w] \in Minding
         \/ ~blob'[p].exists
         \/ pc[w] = "insert" /\ InsertFile(req[w])
         \/ blob'[p] = blob[p] /\ pc[w] \notin Minding
<1>0. /\ blob \in [Paths -> BlobState] /\ pc \in [Workers -> Pc] /\ ~Fault
  BY DEF TypeInv, BlobInv, WorkerInv, RestInv, Fault
<1> USE DEF Minding
<1>1. CASE PutBlob(w)
  BY <1>0, <1>1 DEF PutBlob, Goto
<1>2. CASE RejectTooLarge(w) \/ Undo(w) \/ DeleteBlob(w)
  <2>1. blob' = [blob EXCEPT ![p] = Delete(blob[p])]
    BY <1>0, <1>2 DEF RejectTooLarge, Undo, DeleteBlob, TryBlob, SetBlob
  <2>2. QED
    BY <1>0, <2>1, DeleteGone
<1>3. CASE StageChunk(w) \/ MarkChunk(w)
  BY <1>3 DEF StageChunk, MarkChunk, Staging
<1>4. CASE CountChunks(w) \/ Meter(w) \/ DeleteSession(w) \/ Discard(w)
  BY <1>4 DEF CountChunks, Meter, DeleteSession, Discard
<1>5. CASE CommitChunks(w)
  BY <1>0, <1>5 DEF CommitChunks, Goto
<1>6. CASE LockTenant(w) \/ LockWorkspace(w)
  BY <1>0, <1>6 DEF LockTenant, LockWorkspace, Goto
<1>7. CASE Insert(w)
  BY <1>0, <1>7 DEF Insert
<1>8. CASE EmptyBlob(w)
  BY <1>0, <1>8 DEF EmptyBlob, Goto
<1>9. QED
  BY <1>1, <1>2, <1>3, <1>4, <1>5, <1>6, <1>7, <1>8 DEF Continue, Persist

LEMMA StepOrphanInv ==
  TypeInv /\ (\A p \in Paths : OrphanInv(p)) /\ [Next]_vars => (\A p \in Paths : OrphanInv(p))'
<1> SUFFICES ASSUME TypeInv, [Next]_vars, NEW p \in Paths, OrphanInv(p)
             PROVE  OrphanInv(p)'
    OBVIOUS
<1>0. /\ blob \in [Paths -> BlobState]
      /\ sweep \in [Paths -> {"no", "listed", "emptied", "aborted"}]
      /\ faults \in Nat
  BY DEF TypeInv, RestInv, BlobInv
<1>1. ASSUME NEW w \in Workers, Continue(w)
      PROVE  OrphanInv(p)'
  <2>1. /\ \A v \in Workers : v # w => (Minds(v, p)' <=> Minds(v, p))
        /\ sweep' = sweep
    BY <1>1, HandlerStep DEF Minds, Acts
  <2>2. CASE ~Acts(w, p)
    <3>1. blob'[p].exists => blob[p].exists
      <4>1. CASE req[w].path # p
        BY <1>1, <4>1, HandlerStep
      <4>2. CASE pc[w] \in Staging
        <5>1. StageChunk(w) \/ MarkChunk(w)
          BY <1>1, <4>2 DEF Staging, Continue, Persist, PutBlob, RejectTooLarge, CountChunks,
             CommitChunks, LockTenant, LockWorkspace, Insert, Undo, Meter, DeleteSession, EmptyBlob,
             DeleteBlob, Discard
        <5>2. \/ blob' = blob
              \/ LET r == req[w]
                 IN  blob' = [blob EXCEPT ![r.path] = StageBlock(blob[r.path], r.chunk, r.quality)]
          BY <5>1 DEF StageChunk, MarkChunk, SetBlob
        <5>3. \A b \in BlobState : \A c, k : StageBlock(b, c, k).exists = b.exists
          BY DEF StageBlock, BlobState
        <5>4. QED
          BY <1>0, <5>2, <5>3
      <4>3. QED
        BY <2>2, <4>1, <4>2 DEF Acts
    <3>2. QED
      BY <2>1, <2>2, <3>1, OrphanFrame DEF Minds
  <2>3. CASE Acts(w, p)
    <3>1. SUFFICES ASSUME faults' = 0, blob'[p].exists, ~HasFile(p)', ~Minds(w, p)'
                   PROVE  OrphanInv(p)'
      BY <1>1 DEF OrphanInv
    <3>2. UNCHANGED faults
      BY <1>0, <3>1, FaultStep
    <3>3. pc'[w] \notin Minding
      <4>1. pc'[w] \in Minding => req'[w].path = p
        BY <1>1, <2>3, HandlerStep DEF Minding, Acts
      <4>2. QED
        BY <3>1, <4>1 DEF Minds, Acts, Minding, Staging
    <3>4. ~(pc[w] = "insert" /\ InsertFile(req[w]))
      BY <2>3, <3>1, HasFileStep DEF Acts
    <3>5. blob'[p] = blob[p] /\ pc[w] \notin Minding
      BY <1>1, <2>3, <3>1, <3>2, <3>3, <3>4, MindStep DEF Acts
    <3>6. QED
      BY <2>1, <3>5, OrphanFrame DEF Minds, Minding
  <2>4. QED
    BY <2>2, <2>3
<1>2. ASSUME \/ \E w \in Workers : DropRequest(w)
             \/ StopSweep
      PROVE  OrphanInv(p)'
  <2>1. faults' = faults + 1
    BY <1>2 DEF DropRequest, StopSweep, Fault
  <2>2. QED
    BY <1>0, <2>1 DEF OrphanInv
<1>3. ASSUME NEW w \in Workers, NEW q \in Paths, NEW label, Begins(w, q, label), UNCHANGED <<blob, sweep>>
      PROVE  OrphanInv(p)'
  <2>1. \A v \in Workers : Minds(v, p) => Minds(v, p)'
    BY <1>3, BeginStep DEF Minds, Acts
  <2>2. QED
    BY <1>3, <2>1, OrphanFrame
<1>4. ASSUME NEW w \in Workers, NEW q \in Paths,
             \/ \E ws \in Workspaces, size \in PostSizes : Upload(w, q, ws, size)
             \/ \E c \in Chunks, k \in {"good", "bad"} : BeginChunk(w, q, c, k)
             \/ BeginComplete(w, q) \/ BeginAbort(w, q)
      PROVE  OrphanInv(p)'
  <2>1. (\E label : Begins(w, q, label)) /\ UNCHANGED <<blob, sweep>>
    BY <1>4, Zenon DEF Upload, BeginChunk, BeginComplete, BeginAbort, Start, Begins, PostRequest,
                ChunkRequest, SessionRequest
  <2>2. QED
    BY <1>3, <2>1
<1>5. ASSUME NEW q \in Paths, SweepEmpty(q) \/ SweepDelete(q) \/ SweepDiscard(q)
      PROVE  OrphanInv(p)'
  <2>1. UNCHANGED <<pc, req>>
    BY <1>5 DEF SweepEmpty, SweepDelete, SweepDiscard
  <2>2. CASE p # q
    <3>1. blob'[p] = blob[p] /\ sweep'[p] = sweep[p]
      BY <1>0, <1>5, <2>2 DEF SweepEmpty, SweepDelete, SweepDiscard, SetBlob, TryBlob
    <3>2. QED
      BY <2>1, <3>1, OrphanFrame DEF Minds, Acts
  <2>3. CASE p = q /\ SweepDiscard(p)
    <3>1. UNCHANGED blob /\ sweep[p] = "aborted"
      BY <2>3 DEF SweepDiscard
    <3>2. QED
      BY <2>1, <3>1, OrphanFrame DEF Minds, Acts
  <2>4. CASE p = q /\ (SweepEmpty(p) \/ SweepDelete(p))
    <3>1. faults' = 0 => sweep'[p] = "emptied" \/ ~blob'[p].exists
      <4>1. CASE faults' = faults + 1
        BY <1>0, <4>1
      <4>2. CASE SweepEmpty(p) /\ sweep'[p] = "emptied"
        BY <4>2
      <4>3. CASE SweepDelete(p) /\ blob' = [blob EXCEPT ![p] = Delete(blob[p])]
        BY <1>0, <4>3, DeleteGone
      <4>4. QED
        BY <1>0, <2>4, <4>1, <4>2, <4>3 DEF SweepEmpty, SweepDelete, TryBlob, SetBlob, Fault
    <3>2. QED
      BY <3>1 DEF OrphanInv
  <2>5. QED
    BY <1>5, <2>2, <2>3, <2>4
<1>6. CASE SweepList
  <2>1. UNCHANGED <<blob, pc, req>> /\ sweep[p] = "no"
    BY <1>6 DEF SweepList, Listed
  <2>2. QED
    BY <2>1, OrphanFrame DEF Minds, Acts
<1>7. ASSUME \/ \E q \in Paths, ws \in Workspaces : InitUpload(q, ws)
             \/ \E q \in Paths : Expire(q)
             \/ UNCHANGED vars
      PROVE  OrphanInv(p)'
  <2>1. UNCHANGED <<blob, pc, req, sweep>>
    BY <1>7 DEF InitUpload, Expire, vars
  <2>2. QED
    BY <2>1, OrphanFrame DEF Minds, Acts
<1>8. QED
  BY <1>1, <1>2, <1>4, <1>5, <1>6, <1>7, StepKinds

\* Without a lost call, connection or node no upload leaves a blob that nothing
\* refers to, whatever is refused, too large, aborted, swept or finalised twice.
THEOREM UploadsOrphanNeedsFault == Spec => []OrphanNeedsFault
<1>1. Init => (\A p \in Paths : OrphanInv(p))
  BY DEF Init, OrphanInv, NoBlob
<1>2. ASSUME TypeInv, \A p \in Paths : OrphanInv(p), NEW p \in Paths, blob[p].exists, Forgotten(p)
      PROVE  faults > 0
  <2>1. ~HasFile(p) /\ sweep[p] # "emptied"
    BY <1>2 DEF HasFile, Forgotten
  <2>2. \A w \in Workers : ~Minds(w, p)
    BY <1>2 DEF Minds, Acts, Forgotten, Staging
  <2>3. faults # 0 /\ faults \in Nat
    BY <1>2, <2>1, <2>2 DEF OrphanInv, TypeInv, RestInv
  <2>4. QED
    BY <2>3
<1>3. TypeInv /\ (\A p \in Paths : OrphanInv(p)) => OrphanNeedsFault
  BY <1>2, Zenon DEF OrphanNeedsFault
<1>4. QED
  BY <1>1, <1>3, InitTypeInv, StepTypeInv, StepOrphanInv, PTL DEF Spec
----------------------------------------------------------------------------
(* The sizes of the workspaces.                                            *)

CONSTANTS Spaces, Members, Sizes, Total, Limit, MaxTasks, Faults, Others, Patient
VARIABLES alloc, usage, granted, listed, modal, tasks, spent
Space == INSTANCE SpaceModal

\* The workspaces can be counted and NONE is none of them; another admin does
\* not come in between the two halves of a save.
Roomy == /\ Space!SpaceAssumption /\ IsFiniteSet(Spaces) /\ NONE \notin Spaces \cup {"checked"} /\ Others # "any"

\* No workspace stores more than its size, and the sizes are in the pool.
SizesRoom == /\ alloc \in [Spaces -> 0..Total] /\ usage \in [Spaces -> Nat]
             /\ \A s \in Spaces : usage[s] <= alloc[s]
             /\ Space!PoolHeld
\* A workspace, once made, stays: what a list, the dialog or a request names is there.
Made(s) == s \in Spaces /\ alloc[s] > 0
ListOK(l) == \A s \in Spaces : l.alloc[s] \in Nat /\ (l.alloc[s] > 0 => Made(s))
DialogKeys == {"open", "of", "held", "min", "size", "busy", "error", "roster", "sel"}
DialogOK == DOMAIN modal = DialogKeys /\ modal.size \in Nat /\ (modal.of # NONE => Made(modal.of))
CallKeys == {"kind", "n", "of", "with", "got"}
CallOK(t) ==
  /\ DOMAIN t = CallKeys
  /\ t.kind = "list" /\ t.got # NONE => ListOK(t.got)
  /\ t.kind = "save" => /\ t.with \in Nat \ {0} /\ (t.of # NONE => Made(t.of))
                        /\ t.got = "checked" => Space!Verdict(t.of, t.with) = "checked"
\* The dialog saves once at a time.
OneSave == /\ \A t \in tasks : t.kind = "save" => modal.busy /\ modal.open
           /\ \A t, u \in tasks : t.kind = "save" /\ u.kind = "save" => t = u
SizesInv == SizesRoom /\ ListOK(listed) /\ DialogOK /\ OneSave /\ \A t \in tasks : CallOK(t)

LEMMA AllocatedTotal == \A sizes : Space!Allocated(sizes) = TotalOf(sizes, Spaces)
BY DEF Space!Allocated, TotalOf, Space!MapThenSumSet, MapThenSumSet, Space!MapThenFoldSet, MapThenFoldSet

LEMMA CardinalityOf == \A S : Space!Cardinality(S) = Cardinality(S)
BY DEF Space!Cardinality, Cardinality

LEMMA NewSize ==
  ASSUME Roomy, SizesRoom, NEW s \in Spaces, NEW o, NEW x \in Nat \ {0}, Space!Verdict(o, x) = "checked",
         IF o = NONE THEN alloc[s] = 0 ELSE o = s /\ alloc[s] > 0,
         alloc' = [alloc EXCEPT ![s] = x], UNCHANGED usage
  PROVE  SizesRoom' /\ \A r : Made(r) => Made(r)'
<1>1. /\ alloc \in [Spaces -> Nat] /\ Total \in Nat /\ Limit \in Nat /\ usage \in [Spaces -> Nat]
      /\ \A r \in Spaces : usage[r] <= alloc[r]
      /\ IsFiniteSet(Spaces) /\ NONE \notin Spaces
  BY DEF SizesRoom, Roomy, Space!SpaceAssumption
<1>2. /\ Space!Allocated(alloc) = TotalOf(alloc, Spaces)
      /\ Space!Allocated(alloc') = TotalOf(alloc', Spaces)
  BY AllocatedTotal
<1>3. TotalOf(alloc, Spaces) <= Total /\ Cardinality(Space!Live(alloc)) <= Limit
  BY <1>2, CardinalityOf DEF SizesRoom, Space!PoolHeld
<1>4. /\ ~(o = NONE /\ Cardinality(Space!Live(alloc)) >= Limit)
      /\ ~(o # NONE /\ x < usage[o])
      /\ ~(Space!Less(Space!Allocated(alloc), IF o = NONE THEN 0 ELSE alloc[o]) + x > Total)
  <2> DEFINE A == o = NONE /\ Cardinality(Space!Live(alloc)) >= Limit
             B == o # NONE /\ x < usage[o]
             C == Space!Less(Space!Allocated(alloc), IF o = NONE THEN 0 ELSE alloc[o]) + x > Total
  <2>1. (CASE A -> "limit" [] B -> "usage" [] C -> "pool" [] OTHER -> "checked") = "checked"
    BY CardinalityOf DEF Space!Verdict
  <2> HIDE DEF A, B, C
  <2>2. ~A /\ ~B /\ ~C
    BY <2>1
  <2> USE DEF A, B, C
  <2>3. QED
    BY <2>2
<1>5. IsFiniteSet(Spaces \ {s}) /\ TotalOf(alloc, Spaces \ {s}) \in Nat
  BY <1>1, FS_RemoveElement, TotalNat
<1>6. TotalOf(alloc, Spaces) = alloc[s] + TotalOf(alloc, Spaces \ {s})
  BY <1>1, TotalRemove
<1>7. x <= Total /\ x + TotalOf(alloc, Spaces \ {s}) <= Total
  <2>1. Space!Less(TotalOf(alloc, Spaces), alloc[s]) = TotalOf(alloc, Spaces \ {s})
    BY <1>1, <1>5, <1>6 DEF Space!Less
  <2>2. alloc[s] = 0 => Space!Less(TotalOf(alloc, Spaces), 0) = TotalOf(alloc, Spaces \ {s})
    BY <1>1, <1>5, <1>6 DEF Space!Less
  <2>3. Space!Less(TotalOf(alloc, Spaces), IF o = NONE THEN 0 ELSE alloc[o]) = TotalOf(alloc, Spaces \ {s})
    BY <2>1, <2>2, <1>1
  <2>4. ~(TotalOf(alloc, Spaces \ {s}) + x > Total)
    BY <1>2, <1>4, <2>3
  <2>5. QED
    BY <1>1, <1>5, <2>4
<1>8. alloc' \in [Spaces -> 0..Total] /\ alloc'[s] = x /\ \A r \in Spaces \ {s} : alloc'[r] = alloc[r]
  BY <1>1, <1>7 DEF SizesRoom
<1>9. alloc' \in [Spaces -> Nat]
  BY <1>1
<1>10. TotalOf(alloc', Spaces) <= Total
  <2>1. TotalOf(alloc', Spaces) = alloc'[s] + TotalOf(alloc', Spaces \ {s})
    BY <1>1, <1>9, TotalRemove
  <2>2. TotalOf(alloc', Spaces \ {s}) = TotalOf(alloc, Spaces \ {s})
    BY <1>5, <1>8, TotalSame
  <2>3. QED
    BY <1>7, <1>8, <2>1, <2>2
<1>11. Cardinality(Space!Live(alloc')) <= Limit
  <2>1. Space!Live(alloc') = Space!Live(alloc) \cup {s} /\ (s \in Space!Live(alloc) <=> o # NONE)
    BY <1>1, <1>8 DEF Space!Live
  <2>2. IsFiniteSet(Space!Live(alloc))
    BY <1>1, FS_Subset DEF Space!Live
  <2>3. Cardinality(Space!Live(alloc)) \in Nat
    BY <2>2, FS_CardinalityType
  <2>4. CASE o = NONE
    <3>1. Cardinality(Space!Live(alloc) \cup {s}) = Cardinality(Space!Live(alloc)) + 1
      BY <2>1, <2>2, <2>4, FS_AddElement
    <3>2. Cardinality(Space!Live(alloc')) = Cardinality(Space!Live(alloc)) + 1
      BY <2>1, <3>1
    <3>3. ~(Cardinality(Space!Live(alloc)) >= Limit)
      BY <1>4, <2>4
    <3>4. QED
      BY <1>1, <2>3, <3>2, <3>3
  <2>5. CASE o # NONE
    <3>1. Space!Live(alloc') = Space!Live(alloc)
      BY <2>1, <2>5
    <3>2. QED
      BY <1>3, <3>1
  <2>6. QED
    BY <2>4, <2>5
<1>12. \A r \in Spaces : usage'[r] <= alloc'[r]
  <2>1. usage[s] <= x
    BY <1>1, <1>4
  <2>2. QED
    BY <1>1, <1>8, <2>1
<1>13. SizesRoom'
  BY <1>1, <1>2, <1>8, <1>10, <1>11, <1>12, CardinalityOf DEF SizesRoom, Space!PoolHeld
<1>14. \A r : Made(r) => Made(r)'
  BY <1>1, <1>8 DEF Made
<1>15. QED
  BY <1>13, <1>14

\* While no size changes, nothing that was right becomes wrong.
LEMMA SizesStand ==
  ASSUME UNCHANGED <<alloc, usage>>
  PROVE  /\ SizesRoom' <=> SizesRoom
         /\ \A s : Made(s)' <=> Made(s)
         /\ \A l : ListOK(l)' <=> ListOK(l)
         /\ \A t : CallOK(t)' <=> CallOK(t)
<1>1. SizesRoom' <=> SizesRoom
  BY DEF SizesRoom, Space!PoolHeld
<1>2. \A s : Made(s)' <=> Made(s)
  BY DEF Made
<1>3. \A l : ListOK(l)' <=> ListOK(l)
  BY <1>2 DEF ListOK
<1>4. \A o, x : Space!Verdict(o, x)' = Space!Verdict(o, x)
  BY DEF Space!Verdict
<1>5. \A t : CallOK(t)' <=> CallOK(t)
  BY <1>2, <1>3, <1>4 DEF CallOK
<1>6. QED
  BY <1>1, <1>2, <1>3, <1>5

\* A request that is not a save, and one that is not answered, is in order.
LEMMA RequestsFit ==
  ASSUME Roomy, NEW n, NEW k, NEW s, NEW x
  PROVE  /\ k \notin {"save"} => CallOK(Space!Request(n, k, s, x))
         /\ k = "save" /\ x \in Nat \ {0} /\ (s # NONE => Made(s)) => CallOK(Space!Request(n, k, s, x))
         /\ Space!Request(n, k, s, x).kind = k
BY DEF Space!Request, CallOK, CallKeys, Roomy

LEMMA SizesInit == ASSUME Roomy, Space!Init PROVE SizesInv
<1>1. alloc \in [Spaces -> Sizes \cup {0}] /\ Space!PoolHeld
  BY DEF Space!Init, Space!PoolHeld
<1>2. Sizes \cup {0} \subseteq 0..Total
  BY DEF Roomy, Space!SpaceAssumption
<1>3. alloc \in [Spaces -> 0..Total]
  BY <1>1, <1>2
<1>4. SizesRoom
  BY <1>1, <1>3 DEF Space!Init, SizesRoom
<1>5. ListOK(listed)
  BY <1>3 DEF Space!Init, ListOK, Made
<1>6. DialogOK /\ OneSave /\ \A t \in tasks : CallOK(t)
  BY DEF Space!Init, Space!Closed, DialogOK, DialogKeys, OneSave
<1>7. QED
  BY <1>4, <1>5, <1>6 DEF SizesInv

\* The steps that leave the sizes alone and send or end a request that is not a save.
LEMMA SizesMount == ASSUME Roomy, SizesInv, Space!Mount PROVE SizesInv'
<1>1. UNCHANGED <<alloc, usage, listed, modal>> /\ tasks' = tasks \cup {Space!Begin("list", NONE, 0)}
  BY DEF Space!Mount, Space!Send, Space!Service
<1>2. CallOK(Space!Begin("list", NONE, 0)) /\ Space!Begin("list", NONE, 0).kind = "list"
  BY RequestsFit DEF Space!Begin
<1>3. QED
  BY <1>1, <1>2, SizesStand DEF SizesInv, DialogOK, OneSave

LEMMA SizesOpen == ASSUME Roomy, SizesInv, NEW s \in Spaces \cup {NONE}, Space!Open(s) PROVE SizesInv'
<1>1. UNCHANGED <<alloc, usage, listed>> /\ (tasks' = tasks \/ tasks' = tasks \cup {Space!Begin("roster", s, 0)})
  BY DEF Space!Open, Space!Send, Space!Service
<1>2. CallOK(Space!Begin("roster", s, 0)) /\ Space!Begin("roster", s, 0).kind = "roster"
  BY RequestsFit DEF Space!Begin
<1>3. ~modal.open /\ \A t \in tasks : t.kind # "save"
  BY DEF Space!Open, SizesInv, OneSave
<1>4. s # NONE => Made(s) /\ listed.alloc[s] \in Nat
  BY DEF Space!Open, SizesInv, ListOK
<1>5. DialogOK'
  BY <1>1, <1>4, SizesStand, Zenon DEF Space!Open, SizesInv, DialogOK, DialogKeys
<1>6. OneSave' /\ \A t \in tasks' : CallOK(t)
  BY <1>1, <1>2, <1>3 DEF SizesInv, OneSave
<1>7. QED
  BY <1>1, <1>5, <1>6, SizesStand DEF SizesInv

LEMMA SizesClose == ASSUME Roomy, SizesInv, Space!Close PROVE SizesInv'
<1>1. UNCHANGED <<alloc, usage, listed>> /\ tasks' \subseteq tasks /\ modal' = Space!Closed
  BY DEF Space!Close, Space!Shut, Space!Service
<1>2. \A t \in tasks : t.kind # "save"
  BY DEF Space!Close, SizesInv, OneSave
<1>3. DialogOK'
  BY <1>1 DEF Space!Closed, DialogOK, DialogKeys
<1>4. OneSave' /\ \A t \in tasks' : CallOK(t)
  BY <1>1, <1>2 DEF SizesInv, OneSave
<1>5. QED
  BY <1>1, <1>3, <1>4, SizesStand DEF SizesInv

\* A step that only types or picks in the dialog.
LEMMA SizesTyped ==
  ASSUME Roomy, SizesInv, (\E x \in Sizes : Space!Type(x)) \/ (\E m \in 1..Members : Space!Member(m))
  PROVE  SizesInv'
<1>1. /\ UNCHANGED <<alloc, usage, listed, tasks>> /\ Sizes \subseteq Nat
      /\ \/ \E x \in Sizes : modal' = [modal EXCEPT !.size = x]
         \/ \E m \in 1..Members : modal' = [modal EXCEPT !.sel = m]
  BY DEF Space!Type, Space!Member, Space!Service, Roomy, Space!SpaceAssumption
<1>2. DialogOK' /\ modal'.busy = modal.busy /\ modal'.open = modal.open
  BY <1>1, SizesStand DEF SizesInv, DialogOK, DialogKeys
<1>3. QED
  BY <1>1, <1>2, SizesStand DEF SizesInv, OneSave

LEMMA SizesSave == ASSUME Roomy, SizesInv, Space!Save PROVE SizesInv'
<1> DEFINE u == Space!Begin("save", modal.of, modal.size)
<1>1. /\ UNCHANGED <<alloc, usage, listed>> /\ tasks' = tasks \cup {u}
      /\ modal' = [modal EXCEPT !.busy = TRUE, !.error = NONE] /\ modal.open
  BY DEF Space!Save, Space!Send, Space!Service
<1>2. \A t \in tasks : t.kind # "save"
  BY DEF Space!Save, SizesInv, OneSave
<1>3. modal.size \in Nat \ {0} /\ (modal.of # NONE => Made(modal.of))
  BY DEF Space!Save, Space!Fits, SizesInv, DialogOK
<1>4. CallOK(u) /\ u.kind = "save"
  BY <1>3, RequestsFit DEF Space!Begin
<1> HIDE DEF u
<1>5. DialogOK' /\ modal'.busy /\ modal'.open
  BY <1>1, SizesStand DEF SizesInv, DialogOK, DialogKeys
<1>6. OneSave' /\ \A t \in tasks' : CallOK(t)
  BY <1>1, <1>2, <1>4, <1>5 DEF SizesInv, OneSave
<1>7. QED
  BY <1>1, <1>5, <1>6, SizesStand DEF SizesInv

LEMMA SizesGrant == ASSUME Roomy, SizesInv, NEW mode \in Space!Modes, Space!Grant(mode) PROVE SizesInv'
<1> DEFINE u == Space!Begin("access", modal.of, [who |-> modal.sel, mode |-> mode])
<1>1. /\ UNCHANGED <<alloc, usage, listed>> /\ tasks' = tasks \cup {u}
      /\ modal' = [modal EXCEPT !.roster[modal.sel] = mode]
  BY DEF Space!Grant, Space!Send, Space!Service
<1>2. CallOK(u) /\ u.kind = "access"
  BY RequestsFit DEF Space!Begin
<1> HIDE DEF u
<1>3. DialogOK' /\ modal'.busy = modal.busy /\ modal'.open = modal.open
  BY <1>1, SizesStand DEF SizesInv, DialogOK, DialogKeys
<1>4. QED
  BY <1>1, <1>2, <1>3, SizesStand DEF SizesInv, OneSave

\* The service's first half, on the sizes as they are.
LEMMA SizesCheck == ASSUME Roomy, SizesInv, NEW t \in tasks, Space!Check(t) PROVE SizesInv'
<1> DEFINE u == [t EXCEPT !.got = Space!Verdict(t.of, t.with)]
<1>1. UNCHANGED <<alloc, usage, listed, modal>> /\ tasks' = (tasks \ {t}) \cup {u} /\ t.kind = "save" /\ CallOK(t)
  BY DEF Space!Check, Space!Becomes, Space!Service, SizesInv
<1>2. u.kind = "save" /\ CallOK(u)
  BY <1>1 DEF CallOK, CallKeys
<1> HIDE DEF u
<1>3. QED
  BY <1>1, <1>2, SizesStand DEF SizesInv, OneSave, DialogOK

\* What stays in order when a size grows.
LEMMA MadeStays ==
  ASSUME \A r : Made(r) => Made(r)', NEW t, CallOK(t), t.kind = "save" => t.got # "checked"
  PROVE  CallOK(t)'
<1>1. \A l : ListOK(l) => ListOK(l)'
  BY DEF ListOK
<1>2. QED
  BY <1>1 DEF CallOK

\* Its second half: nothing came in between.
LEMMA SizesWrite == ASSUME Roomy, SizesInv, NEW t \in tasks, Space!Write(t) PROVE SizesInv'
<1> DEFINE u == [t EXCEPT !.got = "saved"]
<1>1. /\ UNCHANGED <<usage, listed, modal>> /\ tasks' = (tasks \ {t}) \cup {u}
      /\ t.kind = "save" /\ t.got = "checked" /\ CallOK(t)
  BY DEF Space!Write, Space!Becomes, SizesInv
<1>2. PICK s \in Spaces : (IF t.of = NONE THEN alloc[s] = 0 ELSE s = t.of) /\ alloc' = [alloc EXCEPT ![s] = t.with]
  BY DEF Space!Write
<1>3. t.with \in Nat \ {0} /\ (t.of # NONE => Made(t.of)) /\ Space!Verdict(t.of, t.with) = "checked"
  BY <1>1 DEF CallOK
<1>4. SizesRoom' /\ \A r : Made(r) => Made(r)'
  BY <1>1, <1>2, <1>3, NewSize DEF SizesInv, Made
<1>5. CallOK(u)' /\ u.kind = "save"
  <2>1. u.kind = "save" /\ DOMAIN u = CallKeys /\ u.with = t.with /\ u.of = t.of /\ u.got = "saved"
    BY <1>1 DEF CallOK, CallKeys
  <2>2. QED
    BY <1>3, <1>4, <2>1 DEF CallOK
<1> HIDE DEF u
<1>6. \A v \in tasks \ {t} : v.kind # "save" /\ CallOK(v)
  BY <1>1 DEF SizesInv, OneSave
<1>7. \A v \in tasks' : CallOK(v)'
  BY <1>1, <1>4, <1>5, <1>6, MadeStays
<1>8. OneSave'
  BY <1>1, <1>5, <1>6 DEF SizesInv, OneSave
<1>9. ListOK(listed)' /\ DialogOK'
  BY <1>1, <1>4 DEF SizesInv, ListOK, DialogOK
<1>10. QED
  BY <1>4, <1>7, <1>8, <1>9 DEF SizesInv

LEMMA SizesSaved == ASSUME Roomy, SizesInv, NEW t \in tasks, Space!Saved(t) PROVE SizesInv'
<1>1. UNCHANGED <<alloc, usage, listed>> /\ t.kind = "save" /\ \A v \in tasks \ {t} : v.kind # "save" /\ CallOK(v)
  BY DEF Space!Saved, Space!Service, SizesInv, OneSave
<1>2. CASE Space!Shut((tasks \ {t}) \cup {Space!Request(t.n, "list", NONE, 0)})
  <2> DEFINE u == Space!Request(t.n, "list", NONE, 0)
  <2>1. CallOK(u) /\ u.kind = "list"
    BY RequestsFit
  <2> HIDE DEF u
  <2>2. tasks' \subseteq (tasks \ {t}) \cup {u} /\ modal' = Space!Closed
    BY <1>2 DEF Space!Shut, u
  <2>3. DialogOK'
    BY <2>2 DEF Space!Closed, DialogOK, DialogKeys
  <2>4. OneSave' /\ \A v \in tasks' : CallOK(v)
    BY <1>1, <2>1, <2>2 DEF OneSave
  <2>5. QED
    BY <1>1, <2>3, <2>4, SizesStand DEF SizesInv
<1>3. CASE /\ tasks' = tasks \ {t}
           /\ modal' = [modal EXCEPT !.busy = FALSE, !.error = IF spent' = spent THEN t.got ELSE "lost"]
  <2>1. DialogOK'
    BY <1>1, <1>3, SizesStand DEF SizesInv, DialogOK, DialogKeys
  <2>2. OneSave' /\ \A v \in tasks' : CallOK(v)
    BY <1>1, <1>3 DEF OneSave
  <2>3. QED
    BY <1>1, <2>1, <2>2, SizesStand DEF SizesInv
<1>4. QED
  BY <1>2, <1>3 DEF Space!Saved, Space!Done

LEMMA SizesServe == ASSUME Roomy, SizesInv, NEW t \in tasks, Space!Serve(t) PROVE SizesInv'
<1>1. PICK g : tasks' = (tasks \ {t}) \cup {[t EXCEPT !.got = g]} /\ (t.kind = "list" => g = [alloc |-> alloc, usage |-> usage])
  BY DEF Space!Serve, Space!Becomes
<1>2. UNCHANGED <<alloc, usage, listed, modal>> /\ t.kind # "save" /\ CallOK(t)
  BY DEF Space!Serve, SizesInv
<1>3. ListOK([alloc |-> alloc, usage |-> usage])
  BY DEF ListOK, Made, SizesInv, SizesRoom
<1> DEFINE u == [t EXCEPT !.got = g]
<1>4. CallOK(u) /\ u.kind # "save"
  BY <1>1, <1>2, <1>3 DEF CallOK, CallKeys
<1> HIDE DEF u
<1>5. tasks' = (tasks \ {t}) \cup {u}
  BY <1>1 DEF u
<1>6. QED
  BY <1>2, <1>4, <1>5, SizesStand DEF SizesInv, OneSave, DialogOK

LEMMA SizesAnswer == ASSUME Roomy, SizesInv, NEW t \in tasks, Space!Answer(t) PROVE SizesInv'
<1> DEFINE u == Space!Request(t.n, "reload", t.of, 0)
<1>1. CallOK(u) /\ u.kind # "save"
  BY RequestsFit
<1> HIDE DEF u
<1>2. UNCHANGED <<alloc, usage>>
  BY DEF Space!Answer, Space!Service
<1>3. tasks' = tasks \ {t} \/ tasks' = (tasks \ {t}) \cup {u}
  BY DEF Space!Answer, Space!Applied, Space!Loaded, Space!Listed, Space!Done, Space!Becomes, u
<1>4. listed' = listed \/ (t.kind = "list" /\ t.got # NONE /\ listed' = t.got)
  BY DEF Space!Answer, Space!Applied, Space!Loaded, Space!Listed
<1>5. ListOK(listed)'
  BY <1>2, <1>4, SizesStand DEF SizesInv, CallOK
<1>6. \/ modal' = modal \/ modal' = [modal EXCEPT !.roster = <<>>]
      \/ modal' = [modal EXCEPT !.roster = t.got, !.sel = IF t.kind = "roster" THEN 1 ELSE @]
  BY DEF Space!Answer, Space!Applied, Space!Loaded, Space!Listed
<1>7. DialogOK' /\ modal'.busy = modal.busy /\ modal'.open = modal.open
  BY <1>2, <1>6, SizesStand DEF SizesInv, DialogOK, DialogKeys
<1>8. OneSave' /\ \A v \in tasks' : CallOK(v)
  BY <1>1, <1>3, <1>7 DEF SizesInv, OneSave
<1>9. QED
  BY <1>2, <1>5, <1>7, <1>8, SizesStand DEF SizesInv

\* Another admin's size is checked and written at once; a file that comes in fits.
LEMMA SizesElsewhere == ASSUME Roomy, SizesInv, Space!Elsewhere PROVE SizesInv'
<1>1. UNCHANGED <<listed, modal, tasks>> /\ \A t \in tasks : t.kind = "save" => t.got # "checked"
  BY DEF Space!Elsewhere, Space!Calm, Roomy
<1>2. SizesRoom' /\ \A r : Made(r) => Made(r)'
  <2>1. CASE \E s \in Spaces, x \in Sizes :
               /\ Space!Verdict(IF alloc[s] = 0 THEN NONE ELSE s, x) = "checked"
               /\ alloc' = [alloc EXCEPT ![s] = x] /\ UNCHANGED usage
    <3>1. PICK s \in Spaces, x \in Sizes :
               /\ Space!Verdict(IF alloc[s] = 0 THEN NONE ELSE s, x) = "checked"
               /\ alloc' = [alloc EXCEPT ![s] = x] /\ UNCHANGED usage
      BY <2>1
    <3>2. x \in Nat \ {0} /\ s # NONE /\ alloc[s] \in Nat
      BY DEF Roomy, Space!SpaceAssumption, SizesInv, SizesRoom
    <3> DEFINE o == IF alloc[s] = 0 THEN NONE ELSE s
    <3>3. IF o = NONE THEN alloc[s] = 0 ELSE o = s /\ alloc[s] > 0
      BY <3>2
    <3> HIDE DEF o
    <3>4. Space!Verdict(o, x) = "checked"
      BY <3>1 DEF o
    <3>5. QED
      BY <3>1, <3>2, <3>3, <3>4, NewSize DEF SizesInv
  <2>2. CASE \E s \in Spaces : usage[s] < alloc[s] /\ usage' = [usage EXCEPT ![s] = @ + 1] /\ UNCHANGED alloc
    <3>1. PICK s \in Spaces : usage[s] < alloc[s] /\ usage' = [usage EXCEPT ![s] = @ + 1] /\ UNCHANGED alloc
      BY <2>2
    <3>2. usage' \in [Spaces -> Nat] /\ \A r \in Spaces : usage'[r] <= alloc[r]
      BY <3>1 DEF SizesInv, SizesRoom
    <3>3. QED
      BY <3>1, <3>2 DEF SizesInv, SizesRoom, Made, Space!PoolHeld
  <2>3. QED
    BY <2>1, <2>2 DEF Space!Elsewhere
<1>3. \A t \in tasks : CallOK(t)'
  BY <1>1, <1>2, MadeStays DEF SizesInv
<1>4. ListOK(listed)' /\ DialogOK' /\ OneSave'
  BY <1>1, <1>2 DEF SizesInv, ListOK, DialogOK, OneSave
<1>5. QED
  BY <1>1, <1>2, <1>3, <1>4 DEF SizesInv

LEMMA SizesStep == ASSUME Roomy, SizesInv, [Space!Next]_Space!vars PROVE SizesInv'
<1>1. CASE UNCHANGED Space!vars
  BY <1>1, SizesStand DEF Space!vars, SizesInv, DialogOK, OneSave
<1>2. CASE Space!Next
  <2>1. CASE Space!Served
    BY <2>1, SizesCheck, SizesWrite, SizesSaved, SizesServe, SizesAnswer DEF Space!Served
  <2>2. QED
    BY <1>2, <2>1, SizesOpen, SizesTyped, SizesGrant, SizesMount, SizesClose, SizesSave, SizesElsewhere DEF Space!Next
<1>3. QED
  BY <1>1, <1>2

\* The sizes of the workspaces stay within the account's pool and its plan's
\* number, whatever the users of the dialog do and whatever fails, as long as
\* no other admin's change comes in between the two halves of a save.
THEOREM SpacePoolHeld == ASSUME Roomy PROVE Space!Spec => []Space!PoolHeld
<1>1. SizesInv => Space!PoolHeld
  BY DEF SizesInv, SizesRoom
<1>2. QED
  BY SizesInit, SizesStep, <1>1, PTL DEF Space!Spec

\* Nor is a workspace made smaller than what it stores.
THEOREM SpaceUsageHeld == ASSUME Roomy PROVE Space!Spec => []Space!UsageHeld
<1>1. SizesInv => Space!UsageHeld
  BY DEF SizesInv, SizesRoom, Space!UsageHeld
<1>2. QED
  BY SizesInit, SizesStep, <1>1, PTL DEF Space!Spec

\* One request is under way at a time, by a user who waits; nobody else is
\* about, and what is asked of the list and of a save is answered.
Alone == Roomy /\ Patient /\ Others = "never" /\ {"list", "save"} \cap Faults = {} /\ NONE \notin {"pool", "usage", "saved"}

OneCall == \A t, u \in tasks : t = u
Current(l) == l.alloc = alloc /\ l.usage = usage
HeldIs == modal.open => /\ modal.held = IF modal.of = NONE THEN 0 ELSE listed.alloc[modal.of]
                        /\ modal.min = IF modal.of = NONE THEN 0 ELSE listed.usage[modal.of]
Fitting(t) == /\ t.kind = "list" => ~modal.open /\ (t.got # NONE => Current(t.got))
              /\ t.kind = "save" => /\ t.got \notin {"pool", "usage"}
                                    /\ t.got # "saved" => Space!Verdict(t.of, t.with) \notin {"pool", "usage"}
Stale(t) == t.kind = "list" \/ (t.kind = "save" /\ t.got = "saved")
\* The dialog counts with the list, and the list with the service, until a save
\* is written.
FitInv == /\ SizesInv /\ OneCall /\ HeldIs /\ Space!SaveFits /\ \A t \in tasks : Fitting(t)
          /\ (\A t \in tasks : ~Stale(t)) => Current(listed)

LEMMA FitStands ==
  ASSUME UNCHANGED <<alloc, usage>>
  PROVE  /\ \A t : modal'.open = modal.open => (Fitting(t)' <=> Fitting(t))
         /\ \A l : Current(l)' <=> Current(l)
<1>1. \A o, x : Space!Verdict(o, x)' = Space!Verdict(o, x)
  BY DEF Space!Verdict
<1>2. \A l : Current(l)' <=> Current(l)
  BY DEF Current
<1>3. QED
  BY <1>1, <1>2 DEF Fitting

\* What the dialog lets through is what the service accepts.
LEMMA FitsAccepted ==
  ASSUME Alone, SizesInv, HeldIs, Current(listed), modal.open, Space!Fits(modal.size)
  PROVE  Space!Verdict(modal.of, modal.size) \notin {"pool", "usage"}
<1> DEFINE o == modal.of
           x == modal.size
           part == IF o = NONE THEN 0 ELSE alloc[o]
<1>1. alloc \in [Spaces -> Nat] /\ usage \in [Spaces -> Nat] /\ Total \in Nat /\ IsFiniteSet(Spaces)
  BY DEF Alone, Roomy, Space!SpaceAssumption, SizesInv, SizesRoom
<1>2. x \in Nat /\ (o # NONE => o \in Spaces)
  BY DEF SizesInv, DialogOK, Made
<1>3. Space!Allocated(alloc) = TotalOf(alloc, Spaces) /\ TotalOf(alloc, Spaces) \in Nat /\ TotalOf(alloc, Spaces) <= Total
  BY <1>1, AllocatedTotal, TotalNat DEF SizesInv, SizesRoom, Space!PoolHeld
<1>4. part \in Nat /\ part <= Space!Allocated(alloc)
  <2>1. CASE o = NONE
    BY <2>1, <1>3
  <2>2. CASE o # NONE
    <3>1. IsFiniteSet(Spaces \ {o}) /\ TotalOf(alloc, Spaces \ {o}) \in Nat
      BY <1>1, FS_RemoveElement, TotalNat
    <3>2. TotalOf(alloc, Spaces) = alloc[o] + TotalOf(alloc, Spaces \ {o})
      BY <1>1, <1>2, <2>2, TotalRemove
    <3>3. QED
      BY <1>1, <1>2, <1>3, <2>2, <3>1, <3>2
  <2>3. QED
    BY <2>1, <2>2
<1>5. modal.held = part /\ modal.min = (IF o = NONE THEN 0 ELSE usage[o]) /\ listed.alloc = alloc
  BY DEF HeldIs, Current
<1>6. x <= Space!Less(Total, Space!Allocated(alloc)) + part /\ x >= modal.min
  BY <1>5 DEF Space!Fits, Space!Remaining
<1> HIDE DEF part
<1>7. ~(Space!Less(Space!Allocated(alloc), part) + x > Total)
  <2>1. Space!Less(Total, Space!Allocated(alloc)) = Total - Space!Allocated(alloc)
    BY <1>1, <1>3 DEF Space!Less
  <2>2. Space!Less(Space!Allocated(alloc), part) = Space!Allocated(alloc) - part
    BY <1>3, <1>4 DEF Space!Less
  <2>3. QED
    BY <1>1, <1>2, <1>3, <1>4, <1>6, <2>1, <2>2
<1>8. ~(o # NONE /\ x < usage[o])
  BY <1>1, <1>2, <1>5, <1>6
<1>9. QED
  BY <1>7, <1>8 DEF Space!Verdict, part

LEMMA FitInit == ASSUME Alone, Space!Init PROVE FitInv
<1>1. SizesInv
  BY SizesInit DEF Alone
<1>2. QED
  BY <1>1 DEF Space!Init, Space!Closed, FitInv, OneCall, HeldIs, Current, Space!SaveFits, Alone

\* A request is sent where there is none.
LEMMA FitSent ==
  ASSUME Alone, FitInv, SizesInv', UNCHANGED <<alloc, usage, listed>>, tasks = {},
         NEW u, tasks' = {u} \/ tasks' = {}, Fitting(u)', u.kind # "save" \/ u.got # "saved", HeldIs', Space!SaveFits'
  PROVE  FitInv'
<1>1. Current(listed) /\ Current(listed)'
  BY FitStands DEF FitInv
<1>2. OneCall' /\ \A t \in tasks' : Fitting(t)'
  BY DEF OneCall
<1>3. QED
  BY <1>1, <1>2 DEF FitInv

LEMMA FitMount == ASSUME Alone, FitInv, Space!Mount PROVE FitInv'
<1>0. PICK u : u = Space!Begin("list", NONE, 0)
  OBVIOUS
<1>1. UNCHANGED <<alloc, usage, listed, modal>> /\ tasks = {} /\ tasks' = {u} /\ ~modal.open
  BY <1>0 DEF Space!Mount, Space!Send, Space!Service
<1>2. u.kind = "list" /\ u.got = NONE
  BY <1>0 DEF Space!Begin, Space!Request
<1>3. Fitting(u)' /\ HeldIs' /\ Space!SaveFits'
  BY <1>1, <1>2 DEF Fitting, FitInv, HeldIs, Space!SaveFits
<1>4. SizesInv'
  BY SizesMount DEF Alone, FitInv
<1>5. QED
  BY <1>1, <1>2, <1>3, <1>4, FitSent

LEMMA FitOpen == ASSUME Alone, FitInv, NEW s \in Spaces \cup {NONE}, Space!Open(s) PROVE FitInv'
<1>0. PICK u : u = Space!Begin("roster", s, 0)
  OBVIOUS
<1>1. UNCHANGED <<alloc, usage, listed>> /\ tasks = {} /\ (tasks' = {u} \/ tasks' = {})
  BY <1>0 DEF Space!Open, Space!Send, Space!Service, Alone
<1>2. u.kind = "roster"
  BY <1>0 DEF Space!Begin, Space!Request
<1>3. HeldIs' /\ Space!SaveFits'
  BY <1>1 DEF Space!Open, FitInv, SizesInv, DialogOK, DialogKeys, HeldIs, Space!SaveFits, Alone
<1>4. SizesInv' /\ Fitting(u)'
  BY <1>2, SizesOpen DEF Alone, FitInv, Fitting
<1>5. QED
  BY <1>1, <1>2, <1>3, <1>4, FitSent

LEMMA FitSave == ASSUME Alone, FitInv, Space!Save PROVE FitInv'
<1>0. PICK u : u = Space!Begin("save", modal.of, modal.size)
  OBVIOUS
<1>1. UNCHANGED <<alloc, usage, listed>> /\ tasks = {} /\ tasks' = {u}
  BY <1>0 DEF Space!Save, Space!Send, Space!Service, Alone
<1>2. u.kind = "save" /\ u.got = NONE /\ u.of = modal.of /\ u.with = modal.size
  BY <1>0 DEF Space!Begin, Space!Request
<1>3. modal' = [modal EXCEPT !.busy = TRUE, !.error = NONE] /\ modal.open /\ Space!Fits(modal.size)
  BY DEF Space!Save
<1>4. HeldIs' /\ Space!SaveFits'
  BY <1>1, <1>3 DEF FitInv, SizesInv, DialogOK, DialogKeys, HeldIs, Space!SaveFits, Alone
<1>5. Space!Verdict(modal.of, modal.size) \notin {"pool", "usage"}
  BY <1>1, <1>3, FitsAccepted DEF FitInv
<1>6. Fitting(u)'
  <2>1. Space!Verdict(u.of, u.with)' = Space!Verdict(u.of, u.with)
    BY <1>1 DEF Space!Verdict
  <2>2. QED
    BY <1>2, <1>5, <2>1 DEF Fitting, Alone
<1>7. SizesInv'
  BY SizesSave DEF Alone, FitInv
<1>8. u.kind # "save" \/ u.got # "saved"
  BY <1>2 DEF Alone
<1>9. QED
  BY <1>1, <1>4, <1>6, <1>7, <1>8, FitSent

LEMMA FitGrant == ASSUME Alone, FitInv, NEW mode \in Space!Modes, Space!Grant(mode) PROVE FitInv'
<1>0. PICK u : u = Space!Begin("access", modal.of, [who |-> modal.sel, mode |-> mode])
  OBVIOUS
<1>1. /\ UNCHANGED <<alloc, usage, listed>> /\ tasks = {} /\ tasks' = {u}
      /\ modal' = [modal EXCEPT !.roster[modal.sel] = mode]
  BY <1>0 DEF Space!Grant, Space!Send, Space!Service, Alone
<1>2. u.kind = "access"
  BY <1>0 DEF Space!Begin, Space!Request
<1>3. HeldIs' /\ Space!SaveFits'
  BY <1>1 DEF FitInv, SizesInv, DialogOK, DialogKeys, HeldIs, Space!SaveFits
<1>4. SizesInv' /\ Fitting(u)'
  BY <1>2, SizesGrant DEF Alone, FitInv, Fitting
<1>5. QED
  BY <1>1, <1>2, <1>3, <1>4, FitSent

\* What only types, picks or closes.
LEMMA FitTyped ==
  ASSUME Alone, FitInv, Space!Close \/ (\E x \in Sizes : Space!Type(x)) \/ (\E m \in 1..Members : Space!Member(m))
  PROVE  FitInv'
<1>1. SizesInv'
  BY SizesClose, SizesTyped DEF Alone, FitInv
<1>2. UNCHANGED <<alloc, usage, listed>>
  BY DEF Space!Close, Space!Type, Space!Member, Space!Service
<1>3. CASE Space!Close
  <2>1. tasks' = {} /\ modal' = Space!Closed /\ \A t \in tasks : t.kind = "roster"
    BY <1>3 DEF Space!Close, Space!Shut, Alone
  <2>2. HeldIs' /\ Space!SaveFits' /\ OneCall'
    BY <2>1 DEF HeldIs, Space!SaveFits, OneCall, Space!Closed, Alone
  <2>3. Current(listed)'
    BY <1>2, <2>1, FitStands DEF FitInv, Stale
  <2>4. QED
    BY <1>1, <2>1, <2>2, <2>3 DEF FitInv
<1>4. CASE (\E x \in Sizes : Space!Type(x)) \/ (\E m \in 1..Members : Space!Member(m))
  <2>1. /\ tasks' = tasks
        /\ \/ \E x \in Sizes : modal' = [modal EXCEPT !.size = x]
           \/ \E m \in 1..Members : modal' = [modal EXCEPT !.sel = m]
    BY <1>4 DEF Space!Type, Space!Member
  <2>2. /\ modal'.open = modal.open /\ modal'.of = modal.of /\ modal'.held = modal.held
        /\ modal'.min = modal.min /\ modal'.error = modal.error
    BY <2>1 DEF FitInv, SizesInv, DialogOK, DialogKeys
  <2>3. HeldIs' /\ Space!SaveFits' /\ OneCall'
    BY <1>2, <2>1, <2>2 DEF FitInv, HeldIs, Space!SaveFits, OneCall
  <2>4. QED
    BY <1>1, <1>2, <2>1, <2>2, <2>3, FitStands DEF FitInv, Stale
<1>5. QED
  BY <1>3, <1>4

LEMMA FitServed == ASSUME Alone, FitInv, NEW t \in tasks, Space!Check(t) \/ Space!Serve(t) PROVE FitInv'
<1>1. SizesInv'
  BY SizesCheck, SizesServe DEF Alone, FitInv
<1>2. PICK g : /\ tasks' = (tasks \ {t}) \cup {[t EXCEPT !.got = g]}
               /\ t.kind = "list" => g = [alloc |-> alloc, usage |-> usage]
               /\ t.kind = "save" => g = Space!Verdict(t.of, t.with)
  BY DEF Space!Check, Space!Serve, Space!Becomes
<1>3. UNCHANGED <<alloc, usage, listed, modal>> /\ DOMAIN t = CallKeys /\ tasks = {t} /\ t.got = NONE
  BY DEF Space!Check, Space!Serve, Space!Service, FitInv, SizesInv, CallOK, OneCall
<1> DEFINE u == [t EXCEPT !.got = g]
<1>4. u.kind = t.kind /\ u.got = g /\ u.of = t.of /\ u.with = t.with
  BY <1>3 DEF CallKeys
<1> HIDE DEF u
<1>5. tasks' = {u}
  BY <1>2, <1>3 DEF u
<1>6. Fitting(u)
  BY <1>2, <1>3, <1>4 DEF Fitting, FitInv, Current, Alone
<1>7. t.kind = "save" => g # "saved"
  BY <1>2 DEF Space!Verdict
<1>8. Current(listed) \/ Stale(u)
  BY <1>3, <1>4, <1>7 DEF FitInv, Stale, Alone
<1>9. HeldIs' /\ Space!SaveFits' /\ OneCall'
  BY <1>3, <1>5 DEF FitInv, HeldIs, Space!SaveFits, OneCall
<1>10. QED
  BY <1>1, <1>3, <1>5, <1>6, <1>8, <1>9, FitStands DEF FitInv

LEMMA FitWrite == ASSUME Alone, FitInv, NEW t \in tasks, Space!Write(t) PROVE FitInv'
<1> DEFINE u == [t EXCEPT !.got = "saved"]
<1>1. SizesInv'
  BY SizesWrite DEF Alone, FitInv
<1>2. /\ UNCHANGED <<listed, modal>> /\ tasks' = (tasks \ {t}) \cup {u} /\ t.kind = "save"
      /\ DOMAIN t = CallKeys /\ tasks = {t}
  BY DEF Space!Write, Space!Becomes, FitInv, SizesInv, CallOK, OneCall
<1>3. u.kind = "save" /\ u.got = "saved"
  BY <1>2 DEF CallKeys
<1> HIDE DEF u
<1>4. tasks' = {u} /\ Fitting(u)' /\ Stale(u)
  BY <1>2, <1>3 DEF Fitting, Stale
<1>5. HeldIs' /\ Space!SaveFits' /\ OneCall'
  BY <1>2, <1>4 DEF FitInv, HeldIs, Space!SaveFits, OneCall
<1>6. QED
  BY <1>1, <1>4, <1>5 DEF FitInv

LEMMA FitSaved == ASSUME Alone, FitInv, NEW t \in tasks, Space!Saved(t) PROVE FitInv'
<1>1. SizesInv'
  BY SizesSaved DEF Alone, FitInv
<1>2. UNCHANGED <<alloc, usage, listed>> /\ t.kind = "save" /\ tasks = {t} /\ Fitting(t)
  BY DEF Space!Saved, Space!Service, FitInv, OneCall
<1>3. CASE Space!Shut((tasks \ {t}) \cup {Space!Request(t.n, "list", NONE, 0)})
  <2> DEFINE u == Space!Request(t.n, "list", NONE, 0)
  <2>1. u.kind = "list" /\ u.got = NONE
    BY DEF Space!Request
  <2> HIDE DEF u
  <2>2. tasks' = {u} /\ modal' = Space!Closed
    BY <1>2, <1>3, <2>1 DEF Space!Shut, u
  <2>3. HeldIs' /\ Space!SaveFits' /\ OneCall' /\ Fitting(u)' /\ Stale(u)
    BY <2>1, <2>2 DEF Space!Closed, HeldIs, Space!SaveFits, OneCall, Fitting, Stale, Alone
  <2>4. QED
    BY <1>1, <2>2, <2>3 DEF FitInv
<1>4. CASE /\ t.got \in {"limit", "pool", "usage"} /\ tasks' = tasks \ {t}
           /\ modal' = [modal EXCEPT !.busy = FALSE, !.error = t.got]
  <2>1. tasks' = {} /\ ~Stale(t)
    BY <1>2, <1>4 DEF Stale
  <2>2. Space!SaveFits' /\ HeldIs' /\ OneCall'
    BY <1>2, <1>4, <2>1 DEF Fitting, FitInv, SizesInv, DialogOK, DialogKeys, Space!SaveFits, HeldIs, OneCall
  <2>3. Current(listed)'
    BY <1>2, <2>1, FitStands DEF FitInv
  <2>4. QED
    BY <1>1, <2>1, <2>2, <2>3 DEF FitInv
<1>5. ~Space!Fails(t)
  BY <1>2 DEF Space!Fails, Alone
<1>6. QED
  BY <1>3, <1>4, <1>5 DEF Space!Saved, Space!Done

LEMMA FitAnswer == ASSUME Alone, FitInv, NEW t \in tasks, Space!Answer(t) PROVE FitInv'
<1> DEFINE u == Space!Request(t.n, "reload", t.of, 0)
<1>1. SizesInv'
  BY SizesAnswer DEF Alone, FitInv
<1>2. UNCHANGED <<alloc, usage>> /\ tasks = {t} /\ Fitting(t) /\ u.kind = "reload"
  BY DEF Space!Answer, Space!Service, FitInv, OneCall, Space!Request
<1>3. tasks' = {} \/ tasks' = {u}
  BY <1>2 DEF Space!Answer, Space!Applied, Space!Loaded, Space!Listed, Space!Done, Space!Becomes
<1> HIDE DEF u
<1>4. CASE t.kind = "list"
  <2>1. UNCHANGED modal /\ listed' = t.got /\ t.got # NONE /\ ~modal.open /\ Current(t.got)
    BY <1>2, <1>4 DEF Space!Answer, Space!Applied, Space!Loaded, Space!Listed, Space!Fails, Alone, Fitting
  <2>2. HeldIs' /\ Space!SaveFits' /\ Current(listed)'
    BY <1>2, <2>1 DEF HeldIs, Space!SaveFits, FitInv, Current
  <2>3. OneCall' /\ \A v \in tasks' : Fitting(v)'
    BY <1>2, <1>3 DEF OneCall, Fitting
  <2>4. QED
    BY <1>1, <2>2, <2>3 DEF FitInv
<1>5. CASE t.kind # "list"
  <2>1. listed' = listed /\ t.kind \in {"access", "roster", "reload"}
    BY <1>5 DEF Space!Answer, Space!Applied, Space!Loaded, Space!Listed
  <2>2. \/ modal' = modal \/ modal' = [modal EXCEPT !.roster = <<>>]
        \/ modal' = [modal EXCEPT !.roster = t.got, !.sel = IF t.kind = "roster" THEN 1 ELSE @]
    BY DEF Space!Answer, Space!Applied, Space!Loaded, Space!Listed
  <2>3. /\ modal'.open = modal.open /\ modal'.of = modal.of /\ modal'.held = modal.held
        /\ modal'.min = modal.min /\ modal'.error = modal.error
    BY <2>2 DEF FitInv, SizesInv, DialogOK, DialogKeys
  <2>4. HeldIs' /\ Space!SaveFits'
    BY <2>1, <2>3 DEF FitInv, HeldIs, Space!SaveFits
  <2>5. OneCall' /\ \A v \in tasks' : Fitting(v)'
    BY <1>2, <1>3 DEF OneCall, Fitting
  <2>6. Current(listed)'
    BY <1>2, <2>1, FitStands DEF FitInv, Stale
  <2>7. QED
    BY <1>1, <2>4, <2>5, <2>6 DEF FitInv
<1>6. QED
  BY <1>4, <1>5

LEMMA FitStep == ASSUME Alone, FitInv, [Space!Next]_Space!vars PROVE FitInv'
<1>1. CASE UNCHANGED Space!vars
  <2>1. SizesInv'
    BY <1>1, SizesStep DEF Alone, FitInv
  <2>2. QED
    BY <1>1, <2>1, FitStands DEF Space!vars, FitInv, OneCall, HeldIs, Space!SaveFits
<1>2. CASE Space!Next
  <2>1. CASE Space!Served
    BY <2>1, FitServed, FitWrite, FitSaved, FitAnswer DEF Space!Served
  <2>2. ~Space!Elsewhere
    BY DEF Space!Elsewhere, Space!Calm, Alone
  <2>3. QED
    BY <1>2, <2>1, <2>2, FitOpen, FitTyped, FitGrant, FitMount, FitSave DEF Space!Next
<1>3. QED
  BY <1>1, <1>2

\* What the dialog lets a user save is not refused for its size, where the user
\* is the only one about, waits for the answers, and gets them.
THEOREM SpaceSaveFits == ASSUME Alone PROVE Space!Spec => []Space!SaveFits
<1>1. FitInv => Space!SaveFits
  BY DEF FitInv
<1>2. QED
  BY FitInit, FitStep, <1>1, PTL DEF Space!Spec

\* The user waits, and a roster that is asked for comes.
Answered == Patient /\ "roster" \notin Faults /\ NONE \notin Spaces

Changed(g, x) == [g EXCEPT ![x.who] = x.mode]
Rostered(t) ==
  /\ DOMAIN t = CallKeys
  /\ t.kind \in {"access", "roster", "reload"} => modal.open /\ t.of = modal.of /\ t.of \in Spaces
  /\ t.kind \in {"roster", "reload"} /\ t.got # NONE => t.got = granted[t.of]
  /\ t.kind = "access" => /\ modal.roster = Changed(granted[t.of], t.with)
                          /\ t.got # NONE => modal.roster = granted[t.of]
Changing(t) == t.kind \in {"access", "reload"}
\* What the roster shows is what the service has, but for the change on its way.
RosterInv ==
  /\ granted = [s \in Spaces |-> granted[s]] /\ (\A s \in Spaces : granted[s] = [i \in 1..Members |-> granted[s][i]])
  /\ DOMAIN modal = DialogKeys /\ modal.of \in Spaces \cup {NONE}
  /\ modal.roster # NONE => modal.open /\ modal.of # NONE
  /\ OneCall /\ \A t \in tasks : Rostered(t)
  /\ Space!Shows /\ (\A t \in tasks : ~Changing(t)) => modal.roster = granted[modal.of]

LEMMA RosterInit == ASSUME Answered, Space!Init PROVE RosterInv
BY DEF Space!Init, Space!Closed, RosterInv, OneCall, DialogKeys, Space!Shows

\* A step that leaves the roster and the access alone, and what it sends.
LEMMA RosterSent ==
  ASSUME RosterInv, UNCHANGED granted, DOMAIN modal' = DialogKeys,
         modal'.roster = modal.roster, modal'.of = modal.of, modal'.open = modal.open,
         NEW u, tasks' = tasks \/ (tasks' \in {{}, {u}} /\ \A t \in tasks : ~Changing(t)),
         DOMAIN u = CallKeys, u.kind \in {"list", "save"}
  PROVE  RosterInv'
<1>1. OneCall'
  BY DEF RosterInv, OneCall
<1>2. \A t \in tasks' : Rostered(t)'
  BY DEF RosterInv, Rostered
<1>3. QED
  BY <1>1, <1>2 DEF RosterInv, Space!Shows, Changing

LEMMA SpaceRequestKeys == \A n, k, s, x : /\ DOMAIN Space!Request(n, k, s, x) = CallKeys
                                     /\ Space!Request(n, k, s, x).kind = k /\ Space!Request(n, k, s, x).of = s
                                     /\ Space!Request(n, k, s, x).with = x /\ Space!Request(n, k, s, x).got = NONE
BY DEF Space!Request, CallKeys

LEMMA RosterMount == ASSUME Answered, RosterInv, Space!Mount \/ Space!Save PROVE RosterInv'
<1>1. PICK u : /\ tasks' = tasks \cup {u} /\ tasks = {} /\ DOMAIN u = CallKeys /\ u.kind \in {"list", "save"}
  BY SpaceRequestKeys DEF Space!Mount, Space!Save, Space!Send, Space!Begin, Answered
<1>2. UNCHANGED granted /\ (modal' = modal \/ modal' = [modal EXCEPT !.busy = TRUE, !.error = NONE])
  BY DEF Space!Mount, Space!Save, Space!Service
<1>3. /\ DOMAIN modal' = DialogKeys /\ modal'.roster = modal.roster /\ modal'.of = modal.of
      /\ modal'.open = modal.open
  BY <1>2 DEF RosterInv, DialogKeys
<1>4. QED
  BY <1>1, <1>2, <1>3, RosterSent

LEMMA RosterOpen == ASSUME Answered, RosterInv, NEW s \in Spaces \cup {NONE}, Space!Open(s) PROVE RosterInv'
<1>0. PICK u : u = Space!Begin("roster", s, 0)
  OBVIOUS
<1>1. /\ UNCHANGED granted /\ tasks = {} /\ tasks' = IF s = NONE THEN {} ELSE {u}
      /\ modal.roster = NONE
  BY <1>0 DEF Space!Open, Space!Send, Space!Service, Answered, RosterInv
<1>2. DOMAIN u = CallKeys /\ u.kind = "roster" /\ u.of = s /\ u.got = NONE
  BY <1>0, SpaceRequestKeys DEF Space!Begin
<1>3. DOMAIN modal' = DialogKeys /\ modal'.open /\ modal'.of = s /\ modal'.roster = NONE
  BY <1>1, Zenon DEF Space!Open, RosterInv, DialogKeys
<1>4. OneCall' /\ \A t \in tasks' : Rostered(t)'
  BY <1>1, <1>2, <1>3 DEF OneCall, Rostered
<1>5. QED
  BY <1>1, <1>3, <1>4 DEF RosterInv, Space!Shows

LEMMA RosterTyped ==
  ASSUME Answered, RosterInv, (\E x \in Sizes : Space!Type(x)) \/ (\E m \in 1..Members : Space!Member(m))
  PROVE  RosterInv'
<1>1. /\ UNCHANGED <<granted, tasks>>
      /\ \/ \E x \in Sizes : modal' = [modal EXCEPT !.size = x]
         \/ \E m \in 1..Members : modal' = [modal EXCEPT !.sel = m]
  BY DEF Space!Type, Space!Member, Space!Service
<1>2. /\ DOMAIN modal' = DialogKeys /\ modal'.roster = modal.roster /\ modal'.of = modal.of
      /\ modal'.open = modal.open
  BY <1>1 DEF RosterInv, DialogKeys
<1>3. QED
  BY <1>1, <1>2 DEF RosterInv, Rostered, OneCall, Space!Shows

LEMMA RosterClose == ASSUME Answered, RosterInv, Space!Close PROVE RosterInv'
<1>1. tasks' = {} /\ modal' = Space!Closed /\ UNCHANGED granted
  BY DEF Space!Close, Space!Shut, Space!Service, Answered
<1>2. QED
  BY <1>1 DEF RosterInv, OneCall, Space!Closed, DialogKeys, Space!Shows

\* A pick is shown before it is stored.
LEMMA RosterGrant == ASSUME Answered, RosterInv, NEW mode \in Space!Modes, Space!Grant(mode) PROVE RosterInv'
<1>0. PICK u : u = Space!Begin("access", modal.of, [who |-> modal.sel, mode |-> mode])
  OBVIOUS
<1>1. /\ UNCHANGED granted /\ tasks = {} /\ tasks' = {u} /\ Space!Shows /\ modal.of # NONE
      /\ modal' = [modal EXCEPT !.roster[modal.sel] = mode]
  BY <1>0 DEF Space!Grant, Space!Send, Space!Service, Answered
<1>2. /\ DOMAIN u = CallKeys /\ u.kind = "access" /\ u.of = modal.of /\ u.got = NONE
      /\ u.with = [who |-> modal.sel, mode |-> mode]
  BY <1>0, SpaceRequestKeys DEF Space!Begin
<1>3. modal.roster = granted[modal.of] /\ modal.of \in Spaces /\ modal.open
  BY <1>1 DEF RosterInv, Space!Shows
<1>4. /\ DOMAIN modal' = DialogKeys /\ modal'.open /\ modal'.of = modal.of
      /\ modal'.roster = [modal.roster EXCEPT ![modal.sel] = mode]
  BY <1>1, <1>3 DEF RosterInv, DialogKeys
<1>5. modal'.roster = Changed(granted[u.of], u.with)
  BY <1>2, <1>3, <1>4 DEF Changed
<1>6. OneCall' /\ \A t \in tasks' : Rostered(t)'
  <2>1. Rostered(u)'
    BY <1>1, <1>2, <1>3, <1>4, <1>5 DEF Rostered
  <2>2. QED
    BY <1>1, <2>1 DEF OneCall
<1>7. Changing(u)
  BY <1>2 DEF Changing
<1>8. QED
  BY <1>1, <1>3, <1>4, <1>6, <1>7, <1>2 DEF RosterInv

LEMMA RosterSave == ASSUME Answered, RosterInv, NEW t \in tasks, Space!Check(t) \/ Space!Write(t) PROVE RosterInv'
<1>1. PICK g : UNCHANGED <<granted, modal>> /\ t.kind = "save" /\ tasks' = (tasks \ {t}) \cup {[t EXCEPT !.got = g]}
  BY DEF Space!Check, Space!Write, Space!Becomes, Space!Service
<1>2. PICK u : u = [t EXCEPT !.got = g]
  OBVIOUS
<1>3. tasks = {t} /\ DOMAIN t = CallKeys
  BY DEF RosterInv, OneCall, Rostered
<1>4. DOMAIN u = CallKeys /\ u.kind = "save" /\ tasks' = {u} /\ \A v \in tasks : ~Changing(v)
  BY <1>1, <1>2, <1>3 DEF CallKeys, Changing
<1>5. QED
  BY <1>1, <1>4, RosterSent DEF RosterInv

LEMMA RosterSaved == ASSUME Answered, RosterInv, NEW t \in tasks, Space!Saved(t) PROVE RosterInv'
<1>1. UNCHANGED granted /\ t.kind = "save" /\ tasks = {t}
  BY DEF Space!Saved, Space!Service, RosterInv, OneCall
<1>2. CASE Space!Shut((tasks \ {t}) \cup {Space!Request(t.n, "list", NONE, 0)})
  <2>1. PICK u : u = Space!Request(t.n, "list", NONE, 0)
    OBVIOUS
  <2>2. DOMAIN u = CallKeys /\ u.kind = "list"
    BY <2>1, SpaceRequestKeys
  <2>3. tasks' = {u} /\ modal' = Space!Closed
    BY <1>1, <1>2, <2>1, <2>2 DEF Space!Shut
  <2>4. OneCall' /\ \A v \in tasks' : Rostered(v)'
    BY <2>2, <2>3 DEF OneCall, Rostered
  <2>5. QED
    BY <1>1, <2>3, <2>4 DEF RosterInv, Space!Closed, DialogKeys, Space!Shows
<1>3. CASE \E x : tasks' = tasks \ {t} /\ modal' = [modal EXCEPT !.busy = FALSE, !.error = x]
  <2>1. /\ DOMAIN modal' = DialogKeys /\ modal'.roster = modal.roster /\ modal'.of = modal.of
        /\ modal'.open = modal.open
    BY <1>3 DEF RosterInv, DialogKeys
  <2>2. tasks' = {} /\ \A v \in tasks : ~Changing(v)
    BY <1>1, <1>3 DEF Changing
  <2>3. DOMAIN Space!Request(0, "list", NONE, 0) = CallKeys /\ Space!Request(0, "list", NONE, 0).kind = "list"
    BY SpaceRequestKeys
  <2>4. QED
    BY <1>1, <2>1, <2>2, <2>3, RosterSent
<1>4. QED
  BY <1>2, <1>3, Zenon DEF Space!Saved, Space!Done

\* The service answers, or sets what the roster shows already.
LEMMA RosterServe == ASSUME Answered, RosterInv, NEW t \in tasks, Space!Serve(t) PROVE RosterInv'
<1>1. PICK g : /\ tasks' = (tasks \ {t}) \cup {[t EXCEPT !.got = g]}
               /\ t.kind \in {"roster", "reload"} => g = granted[t.of]
  BY DEF Space!Serve, Space!Becomes
<1>2. PICK u : u = [t EXCEPT !.got = g]
  OBVIOUS
<1>3. tasks = {t} /\ Rostered(t) /\ UNCHANGED modal
  BY DEF RosterInv, OneCall, Space!Serve
<1>4. /\ tasks' = {u} /\ DOMAIN u = CallKeys /\ u.kind = t.kind /\ u.of = t.of /\ u.with = t.with /\ u.got = g
  BY <1>1, <1>2, <1>3 DEF Rostered, CallKeys
<1>5. CASE t.kind # "access"
  <2>1. granted' = granted
    BY <1>5 DEF Space!Serve
  <2>2. Rostered(u)' /\ (Changing(u) <=> Changing(t))
    BY <1>1, <1>3, <1>4, <1>5, <2>1 DEF Rostered, Changing
  <2>3. OneCall' /\ \A v \in tasks' : Rostered(v)'
    BY <1>4, <2>2 DEF OneCall
  <2>4. QED
    BY <1>3, <1>4, <2>1, <2>2, <2>3 DEF RosterInv, Space!Shows
<1>6. CASE t.kind = "access"
  <2>1. /\ granted' = [granted EXCEPT ![t.of][t.with.who] = t.with.mode] /\ t.of \in Spaces /\ t.of = modal.of
        /\ modal.roster = Changed(granted[t.of], t.with)
    BY <1>3, <1>6 DEF Space!Serve, Rostered
  <2>2. /\ granted' = [s \in Spaces |-> granted'[s]] /\ granted'[t.of] = Changed(granted[t.of], t.with)
        /\ \A s \in Spaces \ {t.of} : granted'[s] = granted[s]
    BY <2>1 DEF RosterInv, Changed
  <2>3. granted[t.of] = [i \in 1..Members |-> granted[t.of][i]]
    BY <2>1 DEF RosterInv
  <2>4. /\ granted'[t.of] = [i \in 1..Members |-> granted'[t.of][i]]
        /\ Changed(Changed(granted[t.of], t.with), t.with) = Changed(granted[t.of], t.with)
    <3>1. PICK f : f = granted[t.of]
      OBVIOUS
    <3>2. f = [i \in 1..Members |-> f[i]]
      BY <2>3, <3>1
    <3>3. /\ Changed(f, t.with) = [i \in 1..Members |-> Changed(f, t.with)[i]]
          /\ Changed(Changed(f, t.with), t.with) = Changed(f, t.with)
      BY <3>2 DEF Changed
    <3>4. QED
      BY <2>2, <3>1, <3>3
  <2>5. \A s \in Spaces : granted'[s] = [i \in 1..Members |-> granted'[s][i]]
    BY <2>2, <2>4 DEF RosterInv
  <2>6. modal.roster = granted'[t.of] /\ modal.roster = Changed(granted'[t.of], t.with)
    BY <2>1, <2>2, <2>4
  <2>7. Rostered(u)'
    BY <1>3, <1>4, <1>6, <2>1, <2>6 DEF Rostered
  <2>8. OneCall' /\ (\A v \in tasks' : Rostered(v)') /\ Changing(u)
    BY <1>4, <1>6, <2>7 DEF OneCall, Changing
  <2>9. QED
    BY <1>3, <1>4, <2>2, <2>5, <2>8 DEF RosterInv
<1>7. QED
  BY <1>5, <1>6

LEMMA RosterAnswer == ASSUME Answered, RosterInv, NEW t \in tasks, Space!Answer(t) PROVE RosterInv'
<1>1. tasks = {t} /\ Rostered(t) /\ UNCHANGED granted
  BY DEF RosterInv, OneCall, Space!Answer, Space!Service
<1>2. CASE t.kind = "list"
  <2>1. UNCHANGED modal /\ tasks' = {} /\ \A v \in tasks : ~Changing(v)
    BY <1>1, <1>2 DEF Space!Answer, Space!Applied, Space!Loaded, Space!Listed, Space!Done, Changing
  <2>2. DOMAIN Space!Request(0, "list", NONE, 0) = CallKeys /\ Space!Request(0, "list", NONE, 0).kind = "list"
    BY SpaceRequestKeys
  <2>3. QED
    BY <1>1, <2>1, <2>2, RosterSent DEF RosterInv
<1>3. CASE t.kind = "access" /\ t.got # NONE /\ tasks' = {}
  <2>1. UNCHANGED modal /\ modal.roster = granted[modal.of]
    BY <1>1, <1>3 DEF Space!Answer, Space!Applied, Space!Loaded, Space!Listed, Rostered
  <2>2. QED
    BY <1>1, <1>3, <2>1 DEF RosterInv, OneCall
<1>4. CASE t.kind = "access" /\ tasks' = {Space!Request(t.n, "reload", t.of, 0)}
  <2>1. PICK u : u = Space!Request(t.n, "reload", t.of, 0)
    OBVIOUS
  <2>2. DOMAIN u = CallKeys /\ u.kind = "reload" /\ u.of = t.of /\ u.got = NONE /\ tasks' = {u} /\ UNCHANGED modal
    BY <1>4, <2>1, SpaceRequestKeys DEF Space!Answer, Space!Applied, Space!Loaded, Space!Listed
  <2>3. Rostered(u)' /\ Changing(u)
    BY <1>1, <1>4, <2>2 DEF Rostered, Changing
  <2>4. OneCall' /\ \A v \in tasks' : Rostered(v)'
    BY <2>2, <2>3 DEF OneCall
  <2>5. QED
    BY <1>1, <2>2, <2>3, <2>4 DEF RosterInv
<1>5. CASE t.kind \in {"roster", "reload"}
  <2>1. /\ tasks' = {} /\ t.got # NONE
        /\ modal' = [modal EXCEPT !.roster = t.got, !.sel = IF t.kind = "roster" THEN 1 ELSE @]
    BY <1>1, <1>5 DEF Space!Answer, Space!Applied, Space!Loaded, Space!Listed, Space!Done, Answered
  <2>2. t.got = granted[modal.of] /\ modal.open /\ modal.of \in Spaces
    BY <1>1, <1>5, <2>1 DEF Rostered
  <2>3. DOMAIN modal' = DialogKeys /\ modal'.open /\ modal'.of = modal.of /\ modal'.roster = granted[modal.of]
    BY <2>1, <2>2 DEF RosterInv, DialogKeys
  <2>4. QED
    BY <1>1, <2>1, <2>2, <2>3 DEF RosterInv, OneCall, Answered
<1>6. QED
  BY <1>1, <1>2, <1>3, <1>4, <1>5 DEF Space!Answer, Space!Applied, Space!Loaded, Space!Listed, Space!Done, Space!Becomes

LEMMA SpaceRosterStep == ASSUME Answered, RosterInv, [Space!Next]_Space!vars PROVE RosterInv'
<1>1. CASE UNCHANGED <<granted, modal, tasks>>
  BY <1>1 DEF RosterInv, OneCall, Rostered, Space!Shows
<1>2. CASE Space!Served
  BY <1>2, RosterSave, RosterSaved, RosterServe, RosterAnswer DEF Space!Served
<1>3. QED
  BY <1>1, <1>2, RosterOpen, RosterTyped, RosterGrant, RosterMount, RosterClose DEF Space!Next, Space!vars, Space!Elsewhere

\* Once nothing is on its way the roster shows the access that the members have
\* to the workspace that is edited: a pick that is shown at once is stored or
\* taken back, for every number of workspaces and members, where the user waits
\* and the roster that is asked for comes.
THEOREM SpaceRosterTrue == ASSUME Answered PROVE Space!Spec => []Space!RosterTrue
<1>1. RosterInv => Space!RosterTrue
  BY DEF RosterInv, Space!RosterTrue, Changing
<1>2. QED
  BY RosterInit, SpaceRosterStep, <1>1, PTL DEF Space!Spec
----------------------------------------------------------------------------
(* The bytes of a file that is saved from the viewer.                      *)

CONSTANTS Texts, Valid, StartInEdit, ByModified, MaxVer
VARIABLES file, used, blobs, next, p
View == INSTANCE FilePreview

\* The texts have a least one, the length of the files at the beginning.
Readable == View!PreviewAssumption /\ Patient /\ \E x \in Texts : \A y \in Texts : x <= y

FileOK == /\ file = [i \in View!Ids |-> file[i]]
          /\ \A i \in View!Ids : /\ DOMAIN file[i] = {"text", "ver", "name", "live"} /\ file[i].text \in Nat
                                 /\ file[i].ver \in 1..(next - 1) /\ file[i].name \in {1, 2}
          /\ file[1].ver # file[2].ver /\ next \in Nat \ {0} /\ used \in Nat
Bytes == file[1].text + file[2].text
Versions == {file[1].ver, file[2].ver}

\* What a request carries, by how far it is.
TurnKeys == {"kind", "n", "id", "text", "by", "here", "at", "name", "old", "size", "ver"}
Named(t) == t.at \in {"located", "put"} => t.name = file[t.id].name
TurnOK(t) ==
  /\ DOMAIN t = TurnKeys /\ t.kind \in {"fetch", "save"} /\ t.id \in View!Ids /\ t.ver \in Nat
  /\ t.kind = "fetch" => t.at \in {"sent", "ok", "failed"}
  /\ t.kind = "save" => /\ t.text \in Nat /\ t.at \in {"sent", "located", "put", "drop", "ok", "failed"} /\ Named(t)
\* The used bytes and the stored blobs, by how far the save is.
Stage(t) ==
  /\ used = Bytes
  /\ t.at \in {"sent", "located", "ok", "failed"} => blobs = Versions
  /\ t.at = "put" => /\ t.size = file[t.id].text /\ t.old = file[t.id].ver /\ t.ver \in 1..(next - 1)
                     /\ t.ver \notin Versions /\ blobs = Versions \cup {t.ver}
  /\ t.at = "drop" => t.old \notin Versions /\ blobs = Versions \cup {t.old}
IsSave(t) == t.kind = "save"
PageKeys == {"list", "idx", "edit", "consumed", "state", "view", "mode", "draft", "saving", "error"}
Row == [id : View!Ids, ver : Nat]
RowsOf == Seq(Row)
PageOK(pg) == DOMAIN pg = PageKeys /\ pg.list \in RowsOf
ViewInv == /\ FileOK /\ PageOK(p) /\ \A t \in tasks : TurnOK(t)
           /\ \A t, u \in tasks : IsSave(t) /\ IsSave(u) => t = u
           /\ \A t \in tasks : IsSave(t) => Stage(t)
           /\ (\A t \in tasks : ~IsSave(t)) => used = Bytes /\ blobs = Versions

LEMMA ViewAnswers == ASSUME ViewInv PROVE View!UsedExact /\ View!BlobsExact
<1>1. CASE \E t \in tasks : IsSave(t)
  <2>1. PICK t \in tasks : IsSave(t)
    BY <1>1
  <2>2. Stage(t) /\ TurnOK(t)
    BY <2>1 DEF ViewInv
  <2>3. View!Saves = {} => t.at \in {"ok", "failed"}
    BY <2>1 DEF View!Saves, IsSave
  <2>4. QED
    BY <2>2, <2>3 DEF Stage, View!UsedExact, View!BlobsExact, Bytes, Versions, View!Ids
<1>2. CASE \A t \in tasks : ~IsSave(t)
  BY <1>2 DEF ViewInv, View!UsedExact, View!BlobsExact, Bytes, Versions, View!Ids
<1>3. QED
  BY <1>1, <1>2

LEMMA SmallText == Readable => View!Small \in Nat
<1> SUFFICES ASSUME Readable PROVE View!Small \in Nat
    OBVIOUS
<1>1. \E x \in Texts : \A y \in Texts : x <= y
  BY DEF Readable
<1>2. View!Small \in Texts
  BY <1>1 DEF View!Small
<1>3. QED
  BY <1>2 DEF Readable, View!PreviewAssumption

\* The rows stay rows in whatever order they are shown.
LEMMA NewestRows == \A l \in RowsOf : View!Newest(l) \in RowsOf
<1>1. \A l \in RowsOf : Len(l) = 2 => l[1] \in Row /\ l[2] \in Row
  BY DEF RowsOf
<1>2. \A a, b \in Row : <<a, b>> \in RowsOf
  BY DEF RowsOf
<1>3. QED
  BY <1>1, <1>2 DEF View!Newest

LEMMA RowShown == ASSUME NEW pg, PageOK(pg), View!Shown(pg) # NONE PROVE View!Shown(pg).id \in View!Ids
<1>1. View!Shown(pg) \in Row
  BY DEF View!Shown, PageOK, RowsOf
<1>2. QED
  BY <1>1 DEF Row

LEMMA ViewInit == ASSUME Readable, View!Init PROVE ViewInv
<1>1. View!Small \in Nat
  BY SmallText
<1>2. FileOK /\ used = Bytes /\ blobs = Versions /\ tasks = {}
  BY <1>1 DEF View!Init, FileOK, View!Ids, Bytes, Versions
<1>3. [i \in View!Ids |-> [id |-> i, ver |-> i]] \in RowsOf
  <2>1. View!Ids = 1..2 /\ \A i \in View!Ids : [id |-> i, ver |-> i] \in Row
    BY DEF View!Ids, Row
  <2>2. \A f : f = [i \in 1..2 |-> [id |-> i, ver |-> i]] => f \in Seq(Row)
    BY <2>1
  <2>3. QED
    BY <2>1, <2>2 DEF RowsOf
<1>4. PageOK(p)
  BY <1>3, NewestRows DEF View!Init, PageOK, PageKeys
<1>5. QED
  BY <1>2, <1>4 DEF ViewInv

\* A step of the page: a save may be dropped once answered or have lost its
\* page, a reading may begin; the service does nothing.
Heard(t) == {t, [t EXCEPT !.here = FALSE]}
Paged == /\ PageOK(p)' /\ UNCHANGED <<file, used, blobs, next>>
         /\ \A u \in tasks' : \/ TurnOK(u) /\ ~IsSave(u)
                              \/ \E t \in tasks : IsSave(t) /\ u \in Heard(t)
         /\ \A t, u \in tasks' : IsSave(t) /\ IsSave(u) => t = u
         /\ \A t \in tasks : IsSave(t) => \/ t.at \in {"ok", "failed"}
                                          \/ \E u \in tasks' : u \in Heard(t)

LEMMA HeardSame ==
  ASSUME NEW t, TurnOK(t), NEW u \in Heard(t)
  PROVE  TurnOK(u) /\ (IsSave(u) <=> IsSave(t)) /\ (Stage(t) => Stage(u)) /\ u.at = t.at
BY DEF TurnOK, Stage, Heard, IsSave, Named, TurnKeys

LEMMA PagedHolds == ASSUME ViewInv, Paged PROVE ViewInv'
<1>1. FileOK' /\ Bytes' = Bytes /\ Versions' = Versions
  BY DEF ViewInv, Paged, FileOK, Bytes, Versions
<1>2. \A u \in tasks' : TurnOK(u) /\ (IsSave(u) => Stage(u))
  BY HeardSame DEF ViewInv, Paged
<1>3. \A u : (TurnOK(u) => TurnOK(u)') /\ (Stage(u) => Stage(u)')
  BY <1>1 DEF Paged, TurnOK, Named, Stage
<1>4. (\A u \in tasks' : ~IsSave(u)) => used = Bytes /\ blobs = Versions
  <2>1. SUFFICES ASSUME \A u \in tasks' : ~IsSave(u) PROVE used = Bytes /\ blobs = Versions
    OBVIOUS
  <2>2. CASE \A t \in tasks : ~IsSave(t)
    BY <2>2 DEF ViewInv
  <2>3. CASE \E t \in tasks : IsSave(t)
    <3>1. PICK t \in tasks : IsSave(t)
      BY <2>3
    <3>2. t.at \in {"ok", "failed"}
      BY <2>1, <3>1, HeardSame DEF Paged, ViewInv
    <3>3. QED
      BY <3>1, <3>2 DEF ViewInv, Stage
  <2>4. QED
    BY <2>2, <2>3
<1>5. QED
  BY <1>1, <1>2, <1>3, <1>4 DEF ViewInv, Paged

\* What becomes of the requests when the viewer turns to another row.
LEMMA BecomeTurns ==
  ASSUME ViewInv, NEW pg, NEW ts \in SUBSET tasks, View!Become(pg, ts), UNCHANGED <<file, used, blobs, next>>,
         \A t \in tasks : IsSave(t) => t \in ts \/ t.at \in {"ok", "failed"}, PageOK(pg)
  PROVE  Paged
<1> DEFINE Rest(vs) == {t \in vs : t.kind # "fetch"}
<1>1. View!Away(ts) = {[t EXCEPT !.here = FALSE] : t \in Rest(ts)}
  BY DEF View!Away
<1>2. \A vs : View!Fetch(vs, View!Shown(pg)) =>
        tasks' = Rest(vs) \cup {[View!Blank EXCEPT !.id = View!Shown(pg).id, !.n = View!Free(Rest(vs))]}
  BY Zenon DEF View!Fetch
<1>3. \A t \in tasks : TurnOK(t) /\ (IsSave(t) <=> t.kind # "fetch")
  BY DEF ViewInv, TurnOK, IsSave
<1>4. \A u \in View!Away(ts) : \E t \in tasks : IsSave(t) /\ t \in ts /\ u = [t EXCEPT !.here = FALSE] /\ IsSave(u)
  BY <1>1, <1>3 DEF TurnOK, TurnKeys, IsSave
<1>5. \A t, u \in View!Away(ts) : t = u
  BY <1>4 DEF ViewInv
<1> DEFINE F(vs) == [View!Blank EXCEPT !.id = View!Shown(pg).id, !.n = View!Free(Rest(vs))]
<1>6. View!Shown(pg) # NONE => \A vs : TurnOK(F(vs)) /\ ~IsSave(F(vs))
  BY RowShown DEF View!Blank, TurnOK, TurnKeys, IsSave, Named
<1> HIDE DEF F
<1>7. \/ tasks' = ts
      \/ tasks' = View!Away(ts)
      \/ View!Shown(pg) # NONE /\ tasks' = Rest(ts) \cup {F(ts)}
      \/ View!Shown(pg) # NONE /\ tasks' = Rest(View!Away(ts)) \cup {F(View!Away(ts))}
  BY <1>2, Zenon DEF View!Become, F
<1>8. Rest(View!Away(ts)) = View!Away(ts)
  BY <1>4 DEF IsSave
<1>9. \A u \in tasks' : (TurnOK(u) /\ ~IsSave(u)) \/ \E t \in tasks : IsSave(t) /\ u \in Heard(t)
  BY <1>3, <1>4, <1>6, <1>7, <1>8 DEF Heard
<1>10. \A t, u \in tasks' : IsSave(t) /\ IsSave(u) => t = u
  BY <1>3, <1>5, <1>6, <1>7, <1>8 DEF ViewInv
<1>11. \A t \in tasks : IsSave(t) => t.at \in {"ok", "failed"} \/ \E u \in tasks' : u \in Heard(t)
  BY <1>1, <1>3, <1>7, <1>8 DEF Heard
<1>12. PageOK(p)'
  BY DEF View!Become, View!Fresh, PageOK, PageKeys
<1>13. QED
  BY <1>9, <1>10, <1>11, <1>12 DEF Paged

\* The steps of the page itself.
LEMMA PageTurns ==
  ASSUME Readable, ViewInv,
         \/ \E i \in View!Ids : View!openPreview(i) \/ View!onIndexChange(i)
         \/ \E x \in Texts : View!Type(x)
         \/ View!onClose \/ View!startEdit \/ View!Cancel \/ View!Reload
  PROVE  Paged
<1> DEFINE Gone(pg) == View!Become(pg, tasks) /\ UNCHANGED <<file, used, blobs, next>>
<1>1. ASSUME NEW pg, PageOK(pg), Gone(pg) PROVE Paged
  BY <1>1, BecomeTurns
<1>2. ASSUME NEW i, NEW e, NEW d, Gone([p EXCEPT !.idx = i, !.edit = e]) \/ Gone([p EXCEPT !.idx = i, !.edit = e, !.draft = d])
      PROVE  Paged
  <2>1. PageOK([p EXCEPT !.idx = i, !.edit = e]) /\ PageOK([p EXCEPT !.idx = i, !.edit = e, !.draft = d])
    BY DEF ViewInv, PageOK, PageKeys
  <2> HIDE DEF Gone
  <2>2. QED
    BY <1>1, <1>2, <2>1
<1>3. ASSUME View!Reload PROVE Paged
  <2>1. View!Rows \in RowsOf
    <3>1. \A i \in View!Ids : [id |-> i, ver |-> file[i].ver] \in Row
      BY DEF ViewInv, FileOK, Row
    <3>2. /\ \A a \in Row : <<a>> \in RowsOf
          /\ \A a, b \in Row : <<a, b>> \in RowsOf
      BY DEF RowsOf
    <3>3. <<>> \in RowsOf
      BY DEF RowsOf
    <3>4. 1 \in View!Ids /\ 2 \in View!Ids
      BY DEF View!Ids
    <3>5. {i \in View!Ids : file[i].live} # {} =>
            (CHOOSE i \in {i \in View!Ids : file[i].live} : TRUE) \in View!Ids
      OBVIOUS
    <3>6. QED
      BY <3>1, <3>2, <3>3, <3>4, <3>5, NewestRows DEF View!Rows
  <2>2. PageOK([p EXCEPT !.list = View!Rows])
    BY <2>1 DEF ViewInv, PageOK, PageKeys
  <2>3. Gone([p EXCEPT !.list = View!Rows])
    BY <1>3 DEF View!Reload, View!service
  <2> HIDE DEF Gone
  <2>4. QED
    BY <1>1, <2>2, <2>3
<1>4. ASSUME UNCHANGED <<file, used, blobs, next, tasks>>, PageOK(p)' PROVE Paged
  BY <1>4 DEF Paged, ViewInv, Heard, IsSave
<1>5. ASSUME (\E x \in Texts : View!Type(x)) \/ View!startEdit \/ View!Cancel PROVE Paged
  BY <1>4, <1>5, Zenon DEF View!Type, View!startEdit, View!Cancel, View!Set, View!service, ViewInv, PageOK, PageKeys
<1>6. ASSUME (\E i \in View!Ids : View!openPreview(i) \/ View!onIndexChange(i)) \/ View!onClose PROVE Paged
  BY <1>2, <1>6, Zenon DEF View!openPreview, View!onIndexChange, View!onClose, View!service
<1>7. QED
  BY <1>3, <1>5, <1>6

\* A save is sent when nothing is on its way.
LEMMA SaveSent ==
  ASSUME ViewInv, \A t \in tasks : ~IsSave(t), NEW r, View!Send(r), PageOK(p)',
         DOMAIN r = TurnKeys, r.kind = "save", r.at = "sent", r.text \in Nat, r.id \in View!Ids, r.ver = 0,
         UNCHANGED <<file, used, blobs, next>>
  PROVE  ViewInv'
<1> DEFINE u == [r EXCEPT !.n = View!Free(tasks)]
<1>1. tasks' = tasks \cup {u}
  BY DEF View!Send
<1>2. TurnOK(u) /\ IsSave(u) /\ u.at = "sent"
  BY DEF TurnOK, TurnKeys, Named, IsSave
<1> HIDE DEF u
<1>3. used = Bytes /\ blobs = Versions
  BY DEF ViewInv
<1>4. Stage(u)
  BY <1>2, <1>3 DEF Stage
<1>5. FileOK' /\ \A v : (TurnOK(v) => TurnOK(v)') /\ (Stage(v) => Stage(v)')
  BY DEF ViewInv, FileOK, TurnOK, Named, Stage, Bytes, Versions
<1>6. QED
  BY <1>1, <1>2, <1>4, <1>5 DEF ViewInv

LEMMA ViewSaves == ASSUME Readable, ViewInv, View!save PROVE ViewInv'
<1> DEFINE u == [View!Blank EXCEPT !.kind = "save", !.id = View!Shown(p).id, !.text = p.draft]
<1>1. /\ tasks = {} /\ p.draft \in Nat /\ View!Send(u) /\ View!Shown(p) # NONE
      /\ UNCHANGED <<file, used, blobs, next>> /\ p' = [p EXCEPT !.saving = TRUE, !.error = FALSE]
  BY DEF View!save, View!Waits, View!Ready, View!Open, View!service, Readable, View!PreviewAssumption
<1>2. PageOK(p)' /\ View!Shown(p).id \in View!Ids
  BY <1>1, RowShown DEF ViewInv, PageOK, PageKeys
<1>3. DOMAIN u = TurnKeys /\ u.kind = "save" /\ u.at = "sent" /\ u.text \in Nat /\ u.id \in View!Ids /\ u.ver = 0
  BY <1>1, <1>2 DEF View!Blank, TurnKeys
<1> HIDE DEF u
<1>4. QED
  BY <1>1, <1>2, <1>3, SaveSent

LEMMA ViewOthers == ASSUME Readable, ViewInv, View!Other PROVE ViewInv' /\ View!NameKept
<1>1. tasks = {} /\ UNCHANGED p
  BY Zenon DEF View!Other, View!Waits, Readable
<1>2. CASE \E i \in View!Ids, x \in Valid :
             View!Send([View!Blank EXCEPT !.kind = "save", !.id = i, !.text = x, !.by = "other"]) /\ UNCHANGED View!service
  <2>1. PICK i \in View!Ids, x \in Valid :
             View!Send([View!Blank EXCEPT !.kind = "save", !.id = i, !.text = x, !.by = "other"]) /\ UNCHANGED View!service
    BY <1>2, Zenon
  <2> DEFINE u == [View!Blank EXCEPT !.kind = "save", !.id = i, !.text = x, !.by = "other"]
  <2>2. DOMAIN u = TurnKeys /\ u.kind = "save" /\ u.at = "sent" /\ u.text \in Nat /\ u.id \in View!Ids /\ u.ver = 0
    BY DEF Readable, View!PreviewAssumption, View!Blank, TurnKeys
  <2> HIDE DEF u
  <2>3. ViewInv'
    BY <1>1, <2>1, <2>2, SaveSent DEF View!service, ViewInv, u
  <2>4. QED
    BY <2>1, <2>3 DEF View!service, View!NameKept, ViewInv, FileOK
<1>3. CASE /\ \E i \in View!Ids : file' = [file EXCEPT ![i].name = 2] \/ file' = [file EXCEPT ![i].live = FALSE]
           /\ UNCHANGED <<used, blobs, next, tasks>>
  <2>1. FileOK' /\ Bytes' = Bytes /\ Versions' = Versions /\ View!NameKept
    BY <1>3 DEF ViewInv, FileOK, Bytes, Versions, View!Ids, View!NameKept
  <2>2. QED
    BY <1>1, <1>3, <2>1 DEF ViewInv
<1>4. QED
  BY <1>2, <1>3, Zenon DEF View!Other

\* A step of the service on one request, the save if it is one.
LEMMA ServedTurn ==
  ASSUME ViewInv, NEW t \in tasks, NEW u, tasks' = (tasks \ {t}) \cup {u}, UNCHANGED p, FileOK', TurnOK(u)',
         IsSave(u) <=> IsSave(t), IsSave(u) => Stage(u)', UNCHANGED <<file, used, blobs>> \/ IsSave(t), next' >= next
  PROVE  ViewInv'
<1>1. \A v \in tasks : TurnOK(v) /\ (IsSave(v) <=> v.kind # "fetch")
  BY DEF ViewInv, TurnOK, IsSave
<1>2. \A v \in tasks \ {t} : TurnOK(v)'
  <2>1. CASE IsSave(t)
    <3>1. \A v \in tasks \ {t} : ~IsSave(v)
      BY <2>1 DEF ViewInv
    <3>2. QED
      BY <1>1, <3>1 DEF TurnOK, IsSave, Named
  <2>2. CASE ~IsSave(t)
    BY <1>1, <2>2 DEF TurnOK, Named
  <2>3. QED
    BY <2>1, <2>2
<1>3. \A v \in tasks \ {t} : IsSave(v) => ~IsSave(t) /\ Stage(v)'
  <2>1. SUFFICES ASSUME NEW v \in tasks \ {t}, IsSave(v) PROVE ~IsSave(t) /\ Stage(v)'
    OBVIOUS
  <2>2. ~IsSave(t) /\ Stage(v)
    BY <2>1 DEF ViewInv
  <2>3. v.ver \in 1..(next - 1) => v.ver \in 1..(next' - 1)
    BY DEF ViewInv, FileOK
  <2>4. QED
    BY <2>2, <2>3 DEF Stage, Bytes, Versions
<1>4. \A v, w \in tasks' : IsSave(v) /\ IsSave(w) => v = w
  BY <1>3 DEF ViewInv
<1>5. (\A v \in tasks' : ~IsSave(v)) => used' = Bytes' /\ blobs' = Versions'
  BY DEF ViewInv, Bytes, Versions
<1>6. QED
  BY <1>2, <1>3, <1>4, <1>5 DEF ViewInv

\* One step of the service: the blob is put, the row written, the old blob dropped.
LEMMA NamesStay == FileOK /\ UNCHANGED file => View!NameKept
BY DEF View!NameKept, FileOK

LEMMA ServiceTurns == ASSUME ViewInv, NEW t \in tasks, View!Serve(t) PROVE ViewInv' /\ View!NameKept
<1>1. TurnOK(t) /\ FileOK /\ UNCHANGED p /\ (IsSave(t) => Stage(t))
  BY DEF ViewInv, View!Serve, View!Page
<1>2. CASE View!Download(t)
  <2>0. PICK u : u = [t EXCEPT !.at = IF file[t.id].live THEN "ok" ELSE "failed", !.text = file[t.id].text]
    OBVIOUS
  <2>1. UNCHANGED <<file, used, blobs, next>> /\ tasks' = (tasks \ {t}) \cup {u} /\ t.kind = "fetch"
    BY <1>2, <2>0 DEF View!Download, View!Upd, View!service
  <2>2. TurnOK(u)' /\ ~IsSave(u) /\ ~IsSave(t)
    BY <1>1, <2>0, <2>1 DEF TurnOK, TurnKeys, IsSave
  <2>3. FileOK' /\ next' >= next
    BY <1>1, <2>1 DEF FileOK
  <2>4. QED
    <3>1. ViewInv'
      BY <1>1, <2>1, <2>2, <2>3, ServedTurn
    <3>2. QED
      BY <1>1, <2>1, <3>1, NamesStay
<1>3. CASE View!ContentLocation(t)
  <2>0. PICK u : u = [t EXCEPT !.at = "located", !.name = file[t.id].name]
    OBVIOUS
  <2>1. UNCHANGED <<file, used, blobs, next>> /\ tasks' = (tasks \ {t}) \cup {u} /\ t.kind = "save" /\ t.at = "sent"
    BY <1>3, <2>0 DEF View!ContentLocation, View!Upd, View!service
  <2>2. TurnOK(u)' /\ IsSave(u) /\ IsSave(t) /\ Stage(u)'
    BY <1>1, <2>0, <2>1 DEF TurnOK, TurnKeys, IsSave, Stage, Named, Bytes, Versions
  <2>3. FileOK' /\ next' >= next
    BY <1>1, <2>1 DEF FileOK
  <2>4. QED
    <3>1. ViewInv'
      BY <1>1, <2>1, <2>2, <2>3, ServedTurn
    <3>2. QED
      BY <1>1, <2>1, <3>1, NamesStay
<1>4. CASE View!PutBlob(t)
  <2>0. PICK u : u = [t EXCEPT !.at = "put", !.ver = next, !.old = file[t.id].ver, !.size = file[t.id].text]
    OBVIOUS
  <2>1. /\ UNCHANGED <<file, used>> /\ next' = next + 1 /\ blobs' = blobs \cup {next}
        /\ tasks' = (tasks \ {t}) \cup {u} /\ t.at = "located"
    BY <1>4, <2>0 DEF View!PutBlob, View!Upd
  <2>2. IsSave(t) /\ next \in Nat \ {0}
    BY <1>1, <2>1 DEF TurnOK, IsSave, FileOK
  <2>3. FileOK' /\ next' >= next /\ next \notin Versions /\ Bytes' = Bytes /\ Versions' = Versions
    <3>1. Bytes' = Bytes /\ Versions' = Versions
      BY <2>1 DEF Versions, Bytes
    <3>2. \A i \in View!Ids : file[i].ver \in 1..next /\ file[i].ver # next
      BY <1>1, <2>2 DEF FileOK
    <3>3. FileOK'
      <4>1. \A i \in View!Ids : file'[i].ver \in 1..(next' - 1)
        BY <2>1, <2>2, <3>2
      <4>2. QED
        BY <1>1, <2>1, <2>2, <4>1 DEF FileOK
    <3>4. QED
      BY <2>1, <2>2, <3>1, <3>2, <3>3 DEF Versions, View!Ids
  <2>4. TurnOK(u)' /\ IsSave(u)
    BY <1>1, <2>0, <2>1, <2>2 DEF TurnOK, TurnKeys, IsSave, Named
  <2>5. /\ u.at = "put" /\ u.size = file'[u.id].text /\ u.old = file'[u.id].ver /\ u.ver = next
    BY <1>1, <2>0, <2>1 DEF TurnOK, TurnKeys
  <2>6. Stage(u)'
    <3>1. next \in 1..(next' - 1) /\ used' = Bytes' /\ blobs' = Versions' \cup {next}
      BY <1>1, <2>1, <2>2, <2>3 DEF Stage
    <3>2. next \notin Versions'
      BY <2>3
    <3>3. QED
      BY <2>5, <3>1, <3>2 DEF Stage
  <2>7. QED
    <3>1. ViewInv'
      BY <1>1, <2>1, <2>2, <2>3, <2>4, <2>6, ServedTurn
    <3>2. QED
      BY <1>1, <2>1, <3>1, NamesStay
<1>5. CASE View!Commit(t)
  <2> DEFINE u == [t EXCEPT !.at = "drop"]
  <2>1. /\ file' = View!Written(t) /\ used' = used + t.text - t.size /\ UNCHANGED <<blobs, next>>
        /\ tasks' = (tasks \ {t}) \cup {u} /\ t.at = "put"
    BY <1>5 DEF View!Commit, View!Upd
  <2>2. IsSave(t) /\ t.text \in Nat /\ t.id \in View!Ids /\ t.name = file[t.id].name
    BY <1>1, <2>1 DEF TurnOK, IsSave, Named
  <2>3. /\ used = Bytes /\ t.size = file[t.id].text /\ t.old = file[t.id].ver /\ t.ver \in 1..(next - 1)
        /\ t.ver \notin Versions /\ blobs = Versions \cup {t.ver}
    BY <1>1, <2>1, <2>2 DEF Stage
  <2>4. /\ file' = [i \in View!Ids |-> file'[i]]
        /\ \A i \in View!Ids : DOMAIN file'[i] = {"text", "ver", "name", "live"}
        /\ \A i \in View!Ids : file'[i].text = (IF i = t.id THEN t.text ELSE file[i].text)
        /\ \A i \in View!Ids : file'[i].ver = (IF i = t.id THEN t.ver ELSE file[i].ver)
        /\ \A i \in View!Ids : file'[i].name = file[i].name
    BY <1>1, <2>1, <2>2, Zenon DEF View!Written, FileOK
  <2>5. file'[1].ver # file'[2].ver /\ t.old \notin Versions' /\ Versions \cup {t.ver} = Versions' \cup {t.old}
    BY <1>1, <2>2, <2>3, <2>4 DEF Versions, View!Ids, FileOK
  <2>6. used' = Bytes' /\ used' \in Nat
    BY <1>1, <2>1, <2>2, <2>3, <2>4 DEF Bytes, View!Ids, FileOK
  <2>7. FileOK' /\ next' >= next
    BY <1>1, <2>1, <2>2, <2>3, <2>4, <2>5, <2>6 DEF FileOK
  <2>8. TurnOK(u)' /\ IsSave(u) /\ u.at = "drop" /\ u.old = t.old
    BY <1>1, <2>1, <2>2 DEF TurnOK, TurnKeys, IsSave, Named
  <2> HIDE DEF u
  <2>9. Stage(u)'
    BY <2>1, <2>3, <2>5, <2>6, <2>8 DEF Stage
  <2>10. View!NameKept
    BY <1>1, <2>4 DEF View!NameKept, FileOK
  <2>11. QED
    BY <1>1, <2>1, <2>2, <2>7, <2>8, <2>9, <2>10, ServedTurn
<1>6. CASE View!DropOld(t)
  <2> DEFINE u == [t EXCEPT !.at = "ok"]
  <2>1. /\ blobs' = blobs \ {t.old} /\ UNCHANGED <<file, used, next>>
        /\ tasks' = (tasks \ {t}) \cup {u} /\ t.at = "drop"
    BY <1>6 DEF View!DropOld, View!Upd
  <2>2. IsSave(t)
    BY <1>1, <2>1 DEF TurnOK, IsSave
  <2>3. used' = Bytes' /\ blobs' = Versions' /\ FileOK' /\ next' >= next
    BY <1>1, <2>1, <2>2 DEF Stage, Bytes, Versions, FileOK
  <2>4. TurnOK(u)' /\ IsSave(u) /\ u.at = "ok"
    BY <1>1, <2>1, <2>2 DEF TurnOK, TurnKeys, IsSave, Named
  <2> HIDE DEF u
  <2>5. Stage(u)'
    BY <2>3, <2>4 DEF Stage
  <2>6. QED
    BY <1>1, <2>1, <2>2, <2>3, <2>4, <2>5, ServedTurn DEF View!NameKept, FileOK
<1>7. CASE View!Fail(t)
  <2> DEFINE u == [t EXCEPT !.at = "failed"]
  <2>1. /\ blobs' = (IF t.at = "put" THEN blobs \ {t.ver} ELSE blobs) /\ UNCHANGED <<file, used, next>>
        /\ tasks' = (tasks \ {t}) \cup {u} /\ t.at \in {"sent", "located", "put"}
    BY <1>7 DEF View!Fail, View!Upd
  <2>2. FileOK' /\ next' >= next /\ Bytes' = Bytes /\ Versions' = Versions
    BY <1>1, <2>1 DEF FileOK, Bytes, Versions
  <2>3. TurnOK(u)' /\ (IsSave(u) <=> IsSave(t)) /\ u.at = "failed"
    BY <1>1, <2>1 DEF TurnOK, TurnKeys, IsSave, Named
  <2>4. IsSave(t) => used' = Bytes' /\ blobs' = Versions'
    BY <1>1, <2>1, <2>2 DEF Stage
  <2>5. ~IsSave(t) => UNCHANGED blobs
    BY <1>1, <2>1 DEF TurnOK, IsSave
  <2> HIDE DEF u
  <2>6. IsSave(u) => Stage(u)'
    BY <2>3, <2>4 DEF Stage
  <2>7. QED
    BY <1>1, <2>1, <2>2, <2>3, <2>5, <2>6, ServedTurn DEF View!NameKept, FileOK
<1>8. QED
  BY <1>2, <1>3, <1>4, <1>5, <1>6, <1>7 DEF View!Serve

\* The answers, which the page hears or not.
LEMMA AnswerTurns == ASSUME ViewInv, NEW t \in tasks, View!Answer(t) PROVE Paged
<1>1. /\ t.at \in {"ok", "failed"} /\ UNCHANGED <<file, used, blobs, next>> /\ TurnOK(t) /\ PageOK(p)
      /\ \A v \in tasks : TurnOK(v) /\ (IsSave(v) <=> v.kind # "fetch")
  BY DEF View!Answer, View!service, ViewInv, TurnOK, IsSave
<1>2. ASSUME tasks' = tasks \ {t}, PageOK(p)' PROVE Paged
  BY <1>1, <1>2 DEF Paged, Heard, ViewInv
<1>3. CASE t.by = "other"
  BY <1>1, <1>2, <1>3 DEF View!Answer
<1>4. CASE View!Loaded(t)
  BY <1>1, <1>2, <1>4 DEF View!Loaded, PageOK, PageKeys
<1>5. CASE View!Saved(t) /\ t.at = "failed"
  BY <1>1, <1>2, <1>5 DEF View!Saved, PageOK, PageKeys
<1>6. CASE View!Saved(t) /\ t.at # "failed"
  <2> DEFINE here == [p EXCEPT !.saving = FALSE, !.view = t.text, !.mode = "view", !.state = "ok"]
             pg == [(IF t.here THEN here ELSE p) EXCEPT !.list = View!SavedTo(t)]
  <2>1. View!Become(pg, tasks \ {t})
    BY <1>6 DEF View!Saved
  <2>2. View!SavedTo(t) \in RowsOf
    <3> DEFINE row(r) == IF r.id = t.id THEN [r EXCEPT !.ver = t.ver] ELSE r
               l == [j \in 1..Len(p.list) |-> row(p.list[j])]
    <3>1. t.ver \in Nat /\ p.list \in Seq(Row)
      BY <1>1 DEF TurnOK, PageOK, RowsOf
    <3>2. \A r \in Row : row(r) \in Row
      BY <3>1 DEF Row
    <3> HIDE DEF row
    <3>3. Len(p.list) \in Nat /\ \A j \in 1..Len(p.list) : row(p.list[j]) \in Row
      BY <3>1, <3>2
    <3>4. l \in Seq(Row)
      BY <3>3
    <3>5. View!SavedTo(t) = View!Newest(l)
      BY DEF View!SavedTo, row
    <3> HIDE DEF l
    <3>6. QED
      BY <3>4, <3>5, NewestRows DEF RowsOf
  <2>3. PageOK(pg)
    BY <1>1, <2>2 DEF PageOK, PageKeys
  <2> HIDE DEF pg
  <2>4. QED
    BY <1>1, <2>1, <2>3, BecomeTurns
<1>7. QED
  BY <1>3, <1>4, <1>5, <1>6 DEF View!Answer

LEMMA ViewStep == ASSUME Readable, ViewInv, [View!Next]_View!vars PROVE ViewInv' /\ View!NameKept
<1>1. Paged => ViewInv' /\ View!NameKept
  BY PagedHolds DEF Paged, View!NameKept, ViewInv, FileOK
<1>2. CASE UNCHANGED View!vars
  BY <1>2 DEF View!vars, ViewInv, FileOK, View!NameKept, TurnOK, Stage, Named, Bytes, Versions
<1>3. CASE View!Next
  BY <1>1, <1>3, PageTurns, ViewSaves, ViewOthers, ServiceTurns, AnswerTurns DEF View!Next, View!save, View!service,
     View!NameKept, ViewInv, FileOK
<1>4. QED
  BY <1>2, <1>3

\* The used bytes are those of the files whenever no save is under way, in
\* whatever order the viewer, the other users and the service take their turns,
\* as long as one save ends before the next is begun.
THEOREM ViewUsedExact == ASSUME Readable PROVE View!Spec => []View!UsedExact
<1>1. ViewInv => View!UsedExact
  BY ViewAnswers
<1>2. ViewInv /\ [View!Next]_View!vars => ViewInv'
  BY ViewStep
<1>3. QED
  BY ViewInit, <1>1, <1>2, PTL DEF View!Spec

\* So are the blobs: a save that ends, or fails, leaves one for each file.
THEOREM ViewBlobsExact == ASSUME Readable PROVE View!Spec => []View!BlobsExact
<1>1. ViewInv => View!BlobsExact
  BY ViewAnswers
<1>2. ViewInv /\ [View!Next]_View!vars => ViewInv'
  BY ViewStep
<1>3. QED
  BY ViewInit, <1>1, <1>2, PTL DEF View!Spec

\* No save takes a name back that was given meanwhile.
THEOREM ViewNameKept == ASSUME Readable PROVE View!Spec => [][View!NameKept]_View!vars
<1>1. ViewInv /\ [View!Next]_View!vars => ViewInv' /\ View!NameKept
  BY ViewStep
<1>2. QED
  BY ViewInit, <1>1, PTL DEF View!Spec
----------------------------------------------------------------------------
(* The uploads of the web client.                                          *)

CONSTANTS Pages, Places, Batches, Parts, MaxRetries, Chunked, Full, MaxStarts
VARIABLES sessions, stored, full, saved, up, starts
Client == INSTANCE UploadClient WITH Chunks <- Parts

\* A set of numbers has a least one.
LEMMA LeastOf == ASSUME NEW S \in SUBSET Nat, S # {} PROVE \E m \in S : \A k \in S : m <= k
<1>1. PICK m \in S : \A k \in S : ~(<<k, m>> \in OpToRel(<, Nat))
  BY NatLessThanWellFounded, WFMin, Zenon
<1>2. \A k \in S : ~(k < m)
  BY <1>1 DEF OpToRel
<1>3. QED
  BY <1>2

\* No two places share a folder, so that the key tells them apart.
FoldersApart == \A q, r \in Places : Client!resumeKey(q) = Client!resumeKey(r) => q = r

UpKeys == {"at", "place", "left", "n", "tok", "done", "idx", "try", "ok", "told"}
SessionKeys == {"tok", "place", "got", "dropped"}
\* The uploads have numbers of their own, which their files bear.
PageUp(t) == /\ DOMAIN up[t] = UpKeys /\ up[t].n \in 0..starts
             /\ up[t].at # "idle" => up[t].place \in Places
UploadTypes == /\ starts \in Nat /\ up = [t \in Pages |-> up[t]] /\ saved = [k \in Client!Keys |-> saved[k]]
               /\ \A t \in Pages : PageUp(t)
               /\ \A t, r \in Pages : up[t].at # "idle" /\ up[r].at # "idle" /\ up[t].n = up[r].n => t = r
               /\ \A f \in stored : f.n \in 0..starts
\* A token, kept or in use, stands for a session of the same place.
SessionOK(s) ==
  /\ DOMAIN s = SessionKeys /\ s.tok \in Nat \ {0} /\ s.place \in Places
  /\ FoldersApart => /\ \A k \in Client!Keys : s.tok = saved[k] => Client!resumeKey(s.place) = k
                     /\ \A t \in Pages : s.tok = up[t].tok /\ up[t].at # "idle" => s.place = up[t].place
UploadInv == UploadTypes /\ (\A s \in sessions : SessionOK(s)) /\ (FoldersApart => Client!Dropped)

LEMMA UploadInit == ASSUME Client!Init PROVE UploadInv
<1>1. UploadTypes
  BY DEF Client!Init, Client!Idle, UploadTypes, PageUp, UpKeys
<1>2. QED
  BY <1>1 DEF Client!Init, UploadInv, Client!Dropped

\* A step of one upload: it keeps its place, number and token or gives the token
\* up; the sessions it leaves and the files it adds are of its place.
UpMoves(t, v) ==
  /\ up' = [up EXCEPT ![t] = v] /\ DOMAIN v = UpKeys
  /\ v.at # "idle" => up[t].at # "idle" /\ v.place = up[t].place /\ v.n = up[t].n
  /\ v.n \in {0, up[t].n} /\ v.tok \in {0, up[t].tok}
  /\ starts' = starts

\* The sessions are those there were, by their token and place; a kept token may
\* be forgotten; a file added is one of the upload.
Goes(t) ==
  /\ \A s \in sessions' : \E r \in sessions : s.tok = r.tok /\ s.place = r.place /\ DOMAIN s = DOMAIN r
  /\ saved' = [k \in Client!Keys |-> saved'[k]] /\ \A k \in Client!Keys : saved'[k] \in {0, saved[k]}
  /\ \A f \in stored' \ stored : up[t].at # "idle" /\ f.n = up[t].n /\ (FoldersApart => f.place = up[t].place)

LEMMA UploadMoves == ASSUME UploadInv, NEW t \in Pages, NEW v, UpMoves(t, v), Goes(t) PROVE UploadInv'
<1>1. /\ \A r \in Pages : up'[r] = IF r = t THEN v ELSE up[r]
      /\ up' = [r \in Pages |-> up'[r]]
      /\ \A r \in Pages : /\ up'[r].at # "idle" => up[r].at # "idle" /\ up'[r].place = up[r].place /\ up'[r].n = up[r].n
                          /\ up'[r].n \in {0, up[r].n} /\ up'[r].tok \in {0, up[r].tok} /\ DOMAIN up'[r] = UpKeys
  BY DEF UploadInv, UploadTypes, PageUp, UpMoves
<1>2. \A f \in stored' : f \in stored \/ (up[t].at # "idle" /\ f.n = up[t].n /\ (FoldersApart => f.place = up[t].place))
  BY DEF Goes
<1>3. \A r \in Pages : PageUp(r)'
  BY <1>1 DEF UploadInv, UploadTypes, PageUp, UpMoves
<1>4. UploadTypes'
  BY <1>1, <1>2, <1>3 DEF UploadInv, UploadTypes, PageUp, UpMoves, Goes
<1>5. \A s \in sessions' : SessionOK(s)'
  BY <1>1 DEF UploadInv, SessionOK, Goes
<1>6. (FoldersApart => Client!Dropped)'
  BY <1>1, <1>2 DEF UploadInv, UploadTypes, Client!Dropped
<1>7. QED
  BY <1>4, <1>5, <1>6 DEF UploadInv

\* The next file of the batch.
LEMMA NextKeeps ==
  ASSUME NEW u, DOMAIN u = UpKeys, NEW key
  PROVE  /\ DOMAIN Client!NextFile(u, key) = UpKeys /\ Client!NextFile(u, key).place = u.place
         /\ Client!NextFile(u, key).n = u.n /\ Client!NextFile(u, key).tok = 0
BY DEF Client!NextFile, UpKeys


Over(u) == [u EXCEPT !.at = "over", !.told = "failed"]
LEMMA EndOf ==
  ASSUME UploadInv, NEW t \in Pages
  PROVE  /\ \A how : Client!Fails(t, how) => how \in Faults /\ up' = [up EXCEPT ![t] = Over(up[t])]
         /\ Client!Rejected(t) => up' = [up EXCEPT ![t] = Over(up[t])]
         /\ Client!Retry(t) => \E u : /\ up' = [up EXCEPT ![t] = u] /\ u.at \in {up[t].at, "over"}
                                      /\ u = Over(up[t]) \/ u = [up[t] EXCEPT !.try = @ + 1]
BY DEF Client!Fails, Client!Rejected, Client!Retry, Client!Go, Over, UploadInv, UploadTypes, PageUp, UpKeys


\* The record goes on: another step of the same upload.
Same(t, v) == /\ DOMAIN v = UpKeys /\ v.place = up[t].place /\ v.n = up[t].n /\ v.tok \in {0, up[t].tok}
LEMMA SameMoves ==
  ASSUME UploadInv, NEW t \in Pages, NEW v, Same(t, v), up[t].at # "idle", up' = [up EXCEPT ![t] = v], starts' = starts
  PROVE  UpMoves(t, v)
BY DEF Same, UpMoves

LEMMA Sames ==
  ASSUME UploadInv, NEW t \in Pages
  PROVE  /\ Same(t, Over(up[t])) /\ \A key : Same(t, Client!NextFile(up[t], key))
         /\ \A x : Same(t, [up[t] EXCEPT !.at = x])
         /\ \A x : Same(t, [up[t] EXCEPT !.try = x])
         /\ \A x, y, z : Same(t, [up[t] EXCEPT !.at = x, !.try = y, !.idx = z])
<1>1. DOMAIN up[t] = UpKeys
  BY DEF UploadInv, UploadTypes, PageUp
<1>2. QED
  BY <1>1, NextKeeps DEF Same, Over, UpKeys

LEMMA QuietGoes == ASSUME UploadInv, UNCHANGED <<sessions, stored, saved>> PROVE \A t : Goes(t)
BY DEF Goes, UploadInv, UploadTypes

LEMMA EndSteps == ASSUME UploadInv, NEW t \in Pages, Client!Told(t) \/ Client!Reload(t) PROVE UploadInv'
<1>1. PICK v : /\ up' = [up EXCEPT ![t] = v] /\ (v = Client!Idle \/ v = [Client!Idle EXCEPT !.told = up[t].told])
               /\ UNCHANGED <<sessions, stored, saved, starts>>
  BY DEF Client!Told, Client!Reload, Client!Go, Client!service
<1>2. UpMoves(t, v)
  BY <1>1 DEF UpMoves, Client!Idle, UpKeys
<1>3. QED
  BY <1>1, <1>2, QuietGoes, UploadMoves

LEMMA PostStep == ASSUME UploadInv, NEW t \in Pages, Client!uploadOneFile(t) PROVE UploadInv'
<1>1. up[t].at = "post" /\ UNCHANGED <<saved, starts, sessions>>
  BY DEF Client!uploadOneFile
<1>2. PICK v : up' = [up EXCEPT ![t] = v] /\ (v = Over(up[t]) \/ \E key : v = Client!NextFile(up[t], key))
  BY EndOf DEF Client!uploadOneFile, Client!Go
<1>3. \A f \in stored' \ stored : f.n = up[t].n /\ (FoldersApart => f.place = up[t].place)
  BY DEF Client!uploadOneFile, Client!File
<1>4. UpMoves(t, v) /\ Goes(t)
  BY <1>1, <1>2, <1>3, Sames, SameMoves, Zenon DEF Goes, UploadInv, UploadTypes
<1>5. QED
  BY <1>4, UploadMoves

LEMMA ChunkStep == ASSUME UploadInv, NEW t \in Pages, Client!uploadResumable(t) \/ Client!putChunkWithRetry(t) PROVE UploadInv'
<1>1. up[t].at # "idle" /\ UNCHANGED <<stored, saved, starts>>
  BY DEF Client!uploadResumable, Client!putChunkWithRetry, Client!service
<1>2. PICK v : up' = [up EXCEPT ![t] = v] /\ Same(t, v)
  <2>1. CASE Client!uploadResumable(t)
    <3> DEFINE missing == {i \in 1..Parts : i > up[t].idx /\ i \notin up[t].done}
               z == CHOOSE i \in missing : \A j \in missing : i <= j
    <3>1. \/ up' = [up EXCEPT ![t] = [up[t] EXCEPT !.at = "complete"]]
          \/ up' = [up EXCEPT ![t] = [up[t] EXCEPT !.at = "put", !.try = 0, !.idx = z]]
      BY <2>1 DEF Client!uploadResumable, Client!Go
    <3> HIDE DEF z
    <3>2. /\ Same(t, [up[t] EXCEPT !.at = "complete"])
          /\ Same(t, [up[t] EXCEPT !.at = "put", !.try = 0, !.idx = z])
      BY Sames, Zenon
    <3>3. QED
      BY <3>1, <3>2
  <2>2. CASE Client!putChunkWithRetry(t)
    <3>1. \/ up' = [up EXCEPT ![t] = [up[t] EXCEPT !.at = "send"]]
          \/ Client!Retry(t) \/ Client!Rejected(t)
      BY <2>2 DEF Client!putChunkWithRetry, Client!Go
    <3>2. QED
      BY <3>1, EndOf, Sames, Zenon
  <2>3. QED
    BY <2>1, <2>2
<1>3. \A s \in sessions' : \E r \in sessions : s.tok = r.tok /\ s.place = r.place /\ DOMAIN s = DOMAIN r
  <2>1. CASE UNCHANGED sessions
    BY <2>1
  <2>2. CASE \E i : \E r \in sessions : sessions' = Client!Landed(r, i)
    <3>1. PICK r \in sessions : \E i : sessions' = Client!Landed(r, i)
      BY <2>2
    <3>2. DOMAIN r = SessionKeys
      BY DEF UploadInv, SessionOK
    <3>3. QED
      BY <3>1, <3>2 DEF Client!Landed, SessionKeys
  <2>3. QED
    BY <2>1, <2>2 DEF Client!uploadResumable, Client!putChunkWithRetry, Client!service, Client!Live
<1>4. UpMoves(t, v) /\ Goes(t)
  BY <1>1, <1>2, <1>3, SameMoves DEF Goes, UploadInv, UploadTypes
<1>5. QED
  BY <1>4, UploadMoves

LEMMA CompleteStep == ASSUME Client!UploadAssumption, UploadInv, NEW t \in Pages, Client!Complete(t) PROVE UploadInv'
<1>1. up[t].at = "complete" /\ UNCHANGED starts
  BY DEF Client!Complete
<1>2. PICK v : up' = [up EXCEPT ![t] = v] /\ (v = Over(up[t]) \/ v = Client!NextFile(up[t], 0))
  BY EndOf DEF Client!Complete, Client!Go
<1>3. UpMoves(t, v)
  BY <1>1, <1>2, Sames, SameMoves, Zenon
<1>4. \A s \in sessions' : \E r \in sessions : s.tok = r.tok /\ s.place = r.place /\ DOMAIN s = DOMAIN r
  <2>1. CASE sessions' \subseteq sessions
    BY <2>1
  <2>2. CASE \E r \in sessions : sessions' = (sessions \ {r}) \cup {[r EXCEPT !.dropped = TRUE]}
    BY <2>2 DEF UploadInv, SessionOK, SessionKeys
  <2>3. QED
    BY <2>1, <2>2 DEF Client!Complete, Client!Live
<1>5. \A f \in stored' \ stored : f.n = up[t].n /\ (FoldersApart => f.place = up[t].place)
  <2>1. SUFFICES ASSUME NEW f \in stored' \ stored PROVE f.n = up[t].n /\ (FoldersApart => f.place = up[t].place)
    OBVIOUS
  <2>2. PICK s \in Client!Live(up[t].tok) : \E w : f = [Client!File(up[t], "large", w) EXCEPT !.place = s.place]
    BY <2>1 DEF Client!Complete
  <2>3. FoldersApart => s.place = up[t].place
    BY <1>1, <2>2 DEF Client!Live, UploadInv, SessionOK
  <2>4. QED
    BY <2>2, <2>3 DEF Client!File
<1>6. saved' = [k \in Client!Keys |-> saved'[k]] /\ \A k \in Client!Keys : saved'[k] \in {0, saved[k]}
  BY DEF Client!Complete, UploadInv, UploadTypes
<1>7. Goes(t)
  BY <1>1, <1>4, <1>5, <1>6 DEF Goes
<1>8. QED
  BY <1>3, <1>7, UploadMoves

\* The token that was kept is asked for: its session is of the same folder.
LEMMA AskStep == ASSUME Client!UploadAssumption, UploadInv, NEW t \in Pages, Client!Ask(t) PROVE UploadInv'
<1> DEFINE key == Client!resumeKey(up[t].place)
<1>1. up[t].at = "ask" /\ UNCHANGED <<sessions, stored, saved, starts>> /\ PageUp(t)
  BY Zenon DEF Client!Ask, Client!service, UploadInv, UploadTypes
<1>2. CASE up' = [up EXCEPT ![t] = [up[t] EXCEPT !.at = "init"]]
  BY <1>1, <1>2, Sames, SameMoves, QuietGoes, UploadMoves, Zenon
<1>3. CASE \E s \in Client!Live(saved[key]) :
             up' = [up EXCEPT ![t] = [up[t] EXCEPT !.at = "send", !.tok = saved[key], !.done = s.got]]
  <2>1. PICK s \in Client!Live(saved[key]) :
             up' = [up EXCEPT ![t] = [up[t] EXCEPT !.at = "send", !.tok = saved[key], !.done = s.got]]
    BY <1>3, Zenon
  <2>2. /\ \A r \in Pages \ {t} : up'[r] = up[r]
        /\ up'[t].at = "send" /\ up'[t].tok = saved[key] /\ up'[t].place = up[t].place /\ up'[t].n = up[t].n
        /\ DOMAIN up'[t] = UpKeys /\ up' = [r \in Pages |-> up'[r]]
    BY <1>1, <2>1, Zenon DEF UploadInv, UploadTypes, PageUp, UpKeys
  <2>3. FoldersApart => \A r \in sessions : r.tok = saved[key] => r.place = up[t].place
    <3>1. up[t].place \in Places /\ key \in Client!Keys
      BY <1>1 DEF PageUp, Client!Keys
    <3>2. QED
      BY <3>1 DEF UploadInv, SessionOK, FoldersApart
  <2>4. UploadTypes'
    BY <1>1, <2>2 DEF UploadInv, UploadTypes, PageUp
  <2>5. \A r \in sessions : SessionOK(r)'
    BY <1>1, <2>2, <2>3 DEF UploadInv, SessionOK
  <2>6. (FoldersApart => Client!Dropped)'
    BY <1>1, <2>2 DEF UploadInv, Client!Dropped
  <2>7. QED
    BY <1>1, <2>4, <2>5, <2>6 DEF UploadInv
<1>4. QED
  BY <1>2, <1>3, Zenon DEF Client!Ask, Client!Go

\* A session is made under a token of its own.
LEMMA InitStep == ASSUME Client!UploadAssumption, UploadInv, NEW t \in Pages, Client!InitUpload(t) PROVE UploadInv'
<1> DEFINE key == Client!resumeKey(up[t].place)
<1>1. up[t].at = "init" /\ UNCHANGED <<stored, starts>> /\ PageUp(t)
  BY DEF Client!InitUpload, UploadInv, UploadTypes
<1>2. CASE UNCHANGED <<sessions, saved>> /\ \E v : Same(t, v) /\ up' = [up EXCEPT ![t] = v]
  BY <1>1, <1>2, SameMoves, QuietGoes, UploadMoves
<1>3. CASE \E k \in Client!Fresh :
             /\ sessions' = sessions \cup {[tok |-> k, place |-> up[t].place, got |-> {}, dropped |-> FALSE]}
             /\ saved' = [saved EXCEPT ![key] = k]
             /\ up' = [up EXCEPT ![t] = [up[t] EXCEPT !.at = "send", !.tok = k, !.done = {}]]
  <2>1. PICK k \in Client!Fresh :
             /\ sessions' = sessions \cup {[tok |-> k, place |-> up[t].place, got |-> {}, dropped |-> FALSE]}
             /\ saved' = [saved EXCEPT ![key] = k]
             /\ up' = [up EXCEPT ![t] = [up[t] EXCEPT !.at = "send", !.tok = k, !.done = {}]]
    BY <1>3, Zenon
  <2>2. /\ k \in Nat \ {0} /\ (\A s \in sessions : s.tok # k) /\ (\A j \in Client!Keys : saved[j] # k)
        /\ \A r \in Pages : up[r].tok # k
    BY DEF Client!Fresh, Client!Live, Client!Tokens, Client!UploadAssumption
  <2>3. /\ \A r \in Pages \ {t} : up'[r] = up[r]
        /\ up'[t].at = "send" /\ up'[t].tok = k /\ up'[t].place = up[t].place /\ up'[t].n = up[t].n
        /\ DOMAIN up'[t] = UpKeys /\ up' = [r \in Pages |-> up'[r]]
    BY <1>1, <2>1 DEF UploadInv, UploadTypes, PageUp, UpKeys
  <2>4. up[t].place \in Places /\ key \in Client!Keys
    BY <1>1 DEF PageUp, Client!Keys
  <2>5. /\ saved' = [j \in Client!Keys |-> saved'[j]] /\ saved'[key] = k
        /\ \A j \in Client!Keys \ {key} : saved'[j] = saved[j]
    BY <2>1, <2>4 DEF UploadInv, UploadTypes
  <2>6. UploadTypes'
    BY <1>1, <2>3, <2>5 DEF UploadInv, UploadTypes, PageUp
  <2>7. \A s \in sessions : SessionOK(s)'
    BY <2>2, <2>3, <2>5 DEF UploadInv, SessionOK
  <2>8. \A s \in sessions' \ sessions : SessionOK(s)'
    BY <2>1, <2>2, <2>3, <2>4, <2>5 DEF SessionOK, SessionKeys
  <2>9. (FoldersApart => Client!Dropped)'
    BY <1>1, <2>3 DEF UploadInv, Client!Dropped
  <2>10. QED
    BY <2>6, <2>7, <2>8, <2>9 DEF UploadInv
<1>4. ASSUME Client!Fresh # {} PROVE (CHOOSE k \in Client!Fresh : \A j \in Client!Fresh : k <= j) \in Client!Fresh
  <2>1. Client!Fresh \subseteq Nat
    BY DEF Client!Fresh, Client!Tokens, Client!UploadAssumption
  <2>2. \E m \in Client!Fresh : \A k \in Client!Fresh : m <= k
    BY <1>4, <2>1, LeastOf
  <2>3. QED
    BY <2>2
<1>5. ASSUME UNCHANGED <<sessions, saved>>,
             up' = [up EXCEPT ![t] = [up[t] EXCEPT !.at = "post"]] \/ (\E how : Client!Fails(t, how)) \/ Client!Rejected(t)
      PROVE  UploadInv'
  BY <1>2, <1>5, EndOf, Sames, Zenon
<1>6. QED
  BY <1>3, <1>4, <1>5, Zenon DEF Client!InitUpload, Client!Go

\* An upload is begun under a number of its own.
LEMMA BatchStep ==
  ASSUME UploadInv, NEW t \in Pages, NEW q \in Places, NEW b \in Batches, Client!uploadFiles(t, q, b)
  PROVE  UploadInv'
<1>1. PICK v : /\ up' = [up EXCEPT ![t] = v] /\ DOMAIN v = UpKeys /\ v.place = q /\ v.n = starts + 1 /\ v.tok = 0
  <2> DEFINE u == [[Client!Idle EXCEPT !.place = q, !.left = b, !.n = starts + 1] EXCEPT !.left = <<"none">> \o @, !.ok = 0]
             key == saved[Client!resumeKey(q)]
  <2>1. DOMAIN u = UpKeys /\ u.place = q /\ u.n = starts + 1
    BY DEF Client!Idle, UpKeys
  <2>2. up' = [up EXCEPT ![t] = [Client!NextFile(u, key) EXCEPT !.ok = 0]]
    BY DEF Client!uploadFiles, Client!Go, Client!Begin
  <2> HIDE DEF u, key
  <2> DEFINE v == [Client!NextFile(u, key) EXCEPT !.ok = 0]
  <2>3. DOMAIN v = UpKeys /\ v.place = q /\ v.n = starts + 1 /\ v.tok = 0
    BY <2>1, NextKeeps DEF UpKeys
  <2> HIDE DEF v
  <2>4. QED
    BY <2>2, <2>3 DEF v
<1>2. starts' = starts + 1 /\ UNCHANGED <<sessions, stored, saved>>
  BY DEF Client!uploadFiles, Client!service
<1>3. /\ \A r \in Pages \ {t} : up'[r] = up[r]
      /\ up'[t] = v /\ up' = [r \in Pages |-> up'[r]]
  BY <1>1 DEF UploadInv, UploadTypes
<1>4. UploadTypes'
  BY <1>1, <1>2, <1>3 DEF UploadInv, UploadTypes, PageUp
<1>5. \A s \in sessions : SessionOK(s)'
  BY <1>1, <1>2, <1>3 DEF UploadInv, SessionOK
<1>6. (FoldersApart => Client!Dropped)'
  BY <1>1, <1>2, <1>3 DEF UploadInv, UploadTypes, Client!Dropped
<1>7. QED
  BY <1>2, <1>4, <1>5, <1>6 DEF UploadInv

LEMMA UploadStep == ASSUME Client!UploadAssumption, UploadInv, [Client!Next]_Client!vars PROVE UploadInv'
<1>1. CASE UNCHANGED Client!vars
  BY <1>1 DEF Client!vars, UploadInv, UploadTypes, PageUp, SessionOK, Client!Dropped
<1>2. CASE Client!Sweep \/ Client!Fill
  BY <1>2 DEF Client!Sweep, Client!Fill, UploadInv, UploadTypes, PageUp, SessionOK, Client!Dropped
<1>3. CASE \E t \in Pages : Client!Step(t) \/ Client!Reload(t)
  BY <1>3, EndSteps, PostStep, ChunkStep, CompleteStep, AskStep, InitStep DEF Client!Step
<1>4. CASE \E t \in Pages, q \in Places, b \in Batches : Client!uploadFiles(t, q, b)
  BY <1>4, BatchStep
<1>5. QED
  BY <1>1, <1>2, <1>3, <1>4 DEF Client!Next

\* Every file of an upload is stored in the place it was dropped on, whatever
\* tabs upload, reload and take over one another's sessions, as long as no two
\* places share a folder.
THEOREM ClientDropped == ASSUME Client!UploadAssumption, FoldersApart PROVE Client!Spec => []Client!Dropped
<1>1. UploadInv => Client!Dropped
  BY DEF UploadInv
<1>2. QED
  BY UploadInit, UploadStep, <1>1, PTL DEF Client!Spec

\* The files of a batch are told apart by their size: one that is small, one
\* that is large.
BatchOK(b) == /\ b \in Seq({"small", "large"})
              /\ \A i, j \in 1..Len(b) : b[i] = b[j] => i = j
Sorted == \A b \in Batches : BatchOK(b)

\* The files that are stored whole are as many as the page counts, and none of
\* them is still to be sent.
Mine(u, store) == {f \in store : f.n = u.n /\ f.whole}
CountOK(u, store) ==
  /\ u.at \notin {"idle", "over"} => u.told # "failed"
  /\ u.at # "idle" /\ u.told # "failed" =>
    /\ u.ok \in Nat /\ Cardinality(Mine(u, store)) = u.ok
    /\ u.at # "over" => /\ BatchOK(u.left) /\ u.left # <<>>
                        /\ \A f \in Mine(u, store) : \A i \in 1..Len(u.left) : f.kind # u.left[i]
                        /\ u.at # "post" => u.left[1] = "large"
CountInv == IsFiniteSet(stored) /\ \A t \in Pages : CountOK(up[t], stored)
CountHolds == UploadInv /\ CountInv

LEMMA TailOfBatch ==
  ASSUME NEW b, BatchOK(b), b # <<>>
  PROVE  /\ BatchOK(Tail(b)) /\ b[1] \in {"small", "large"}
         /\ Tail(b) # <<>> => Tail(b)[1] \in {"small", "large"}
         /\ \A i \in 1..Len(Tail(b)) : i + 1 \in 1..Len(b) /\ Tail(b)[i] = b[i + 1] /\ Tail(b)[i] # b[1]
<1> DEFINE S == {"small", "large"}
<1>1. b \in Seq(S) /\ Len(b) \in Nat /\ Len(b) > 0
  BY DEF BatchOK
<1> HIDE DEF S
<1>2. Tail(b) \in Seq(S) /\ Len(Tail(b)) = Len(b) - 1 /\ \A i \in 1..Len(Tail(b)) : Tail(b)[i] = b[i + 1]
  BY <1>1
<1>3. \A i \in 1..Len(Tail(b)) : i + 1 \in 1..Len(b) /\ 1 \in 1..Len(b) /\ i + 1 # 1
  BY <1>1, <1>2
<1>4. \A i \in 1..Len(Tail(b)) : Tail(b)[i] # b[1]
  BY <1>2, <1>3 DEF BatchOK
<1>5. BatchOK(Tail(b))
  <2>1. \A i, j \in 1..Len(Tail(b)) : Tail(b)[i] = Tail(b)[j] => i + 1 = j + 1
    BY <1>2, <1>3 DEF BatchOK
  <2>2. QED
    BY <1>2, <2>1 DEF BatchOK, S
<1>6. b[1] \in S /\ (Tail(b) # <<>> => Tail(b)[1] \in S)
  BY <1>1, <1>2
<1>7. QED
  BY <1>2, <1>3, <1>4, <1>5, <1>6 DEF S

\* The next file of a batch: the one before is stored.
LEMMA NextCounts ==
  ASSUME NEW u, DOMAIN u = UpKeys, u.told # "failed", BatchOK(u.left), u.left # <<>>, u.ok \in Nat, IsFiniteSet(stored),
         Cardinality(Mine(u, stored)) = u.ok, \A f \in Mine(u, stored) : \A i \in 1..Len(u.left) : f.kind # u.left[i],
         NEW g, g.n = u.n, g.whole, g.kind = u.left[1], NEW key
  PROVE  CountOK(Client!NextFile(u, key), stored \cup {g}) /\ IsFiniteSet(stored \cup {g})
<1> DEFINE v == Client!NextFile(u, key)
<1>1. IsFiniteSet(stored \cup {g})
  BY FS_AddElement
<1>2. IsFiniteSet(Mine(u, stored))
  BY FS_Subset DEF Mine
<1>3. Mine(u, stored \cup {g}) = Mine(u, stored) \cup {g}
  BY DEF Mine
<1>4. g \notin Mine(u, stored)
  BY TailOfBatch DEF BatchOK
<1>5. Cardinality(Mine(u, stored \cup {g})) = u.ok + 1
  <2> DEFINE M == Mine(u, stored)
  <2>1. IsFiniteSet(M) /\ g \notin M /\ Cardinality(M) = u.ok
    BY <1>2, <1>4
  <2> HIDE DEF M
  <2>2. PICK N : N = M
    OBVIOUS
  <2>3a. Cardinality(N \cup {g}) = Cardinality(N) + 1
    BY <2>1, <2>2, FS_AddElement
  <2>3b. Cardinality(M \cup {g}) = u.ok + 1
    BY <2>1, <2>2, <2>3a
  <2>3. QED
    BY <2>3b, <1>3 DEF M
<1>6. /\ v.left = Tail(u.left) /\ v.ok = u.ok + 1 /\ v.n = u.n
      /\ v.at = IF Tail(u.left) = <<>> THEN "over" ELSE IF Tail(u.left)[1] = "small" THEN "post" ELSE IF key = 0 THEN "init" ELSE "ask"
  BY DEF Client!NextFile, UpKeys
<1>6a. v.told = IF Tail(u.left) = <<>> THEN "ok" ELSE u.told
  BY DEF Client!NextFile, UpKeys
<1> HIDE DEF v
<1>7. Mine(v, stored \cup {g}) = Mine(u, stored \cup {g})
  BY <1>6 DEF Mine
<1>8. \A f \in Mine(u, stored \cup {g}) : \A i \in 1..Len(Tail(u.left)) : f.kind # Tail(u.left)[i]
  BY <1>3, TailOfBatch
<1>9. CountOK(v, stored \cup {g})
  <2>1. v.ok \in Nat /\ Cardinality(Mine(v, stored \cup {g})) = v.ok
    BY <1>5, <1>6, <1>7
  <2>2. BatchOK(Tail(u.left)) /\ (Tail(u.left) # <<>> => Tail(u.left)[1] \in {"small", "large"})
    BY TailOfBatch
  <2>3. v.at # "over" => BatchOK(v.left) /\ v.left # <<>> /\ (v.at # "post" => v.left[1] = "large")
    BY <1>6, <2>2
  <2>4. \A f \in Mine(v, stored \cup {g}) : \A i \in 1..Len(v.left) : f.kind # v.left[i]
    BY <1>6, <1>7, <1>8
  <2>5. QED
    <3>1. v.at \notin {"idle", "over"} => v.told # "failed"
      BY <1>6, <1>6a
    <3>2. QED
      BY <3>1, <2>1, <2>3, <2>4 DEF CountOK
<1>10. QED
  BY <1>1, <1>9 DEF v

\* A step that stores nothing and leaves the record at its file.
LEMMA CountSame ==
  ASSUME NEW u, NEW v, NEW store, CountOK(u, store), DOMAIN u = UpKeys,
         \/ v = Over(u)
         \/ v.at = "idle"
         \/ /\ u.at \notin {"idle", "over"} /\ v.n = u.n /\ v.ok = u.ok /\ v.told = u.told /\ v.left = u.left
            /\ v.at \notin {"idle", "over"} /\ (u.at = "post" => v.at = "post")
  PROVE  CountOK(v, store)
<1>1. CASE v = Over(u)
  BY <1>1 DEF Over, CountOK, UpKeys
<1>2. CASE v.at = "idle"
  BY <1>2 DEF CountOK
<1>3. CASE /\ u.at \notin {"idle", "over"} /\ v.n = u.n /\ v.ok = u.ok /\ v.told = u.told /\ v.left = u.left
           /\ v.at \notin {"idle", "over"} /\ (u.at = "post" => v.at = "post")
  <2>1. Mine(v, store) = Mine(u, store)
    BY <1>3 DEF Mine
  <2>2. QED
    BY <1>3, <2>1 DEF CountOK
<1>4. QED
  BY <1>1, <1>2, <1>3

\* The files that one page stores are not another's.
LEMMA CountOthers ==
  ASSUME CountHolds, NEW t \in Pages, NEW v, up' = [up EXCEPT ![t] = v], CountOK(v, stored'), IsFiniteSet(stored'),
         \A f \in stored' \ stored : up[t].at # "idle" /\ f.n = up[t].n, stored \subseteq stored'
  PROVE  CountInv'
<1>1. /\ up'[t] = v /\ \A r \in Pages \ {t} : up'[r] = up[r]
  BY DEF CountHolds, UploadInv, UploadTypes
<1>2. ASSUME NEW r \in Pages \ {t}, up[r].at # "idle" PROVE Mine(up[r], stored') = Mine(up[r], stored)
  BY <1>2 DEF CountHolds, UploadInv, UploadTypes, Mine
<1>3. \A r \in Pages \ {t} : CountOK(up[r], stored')
  BY <1>2 DEF CountHolds, CountInv, CountOK
<1>4. \A r \in Pages : CountOK(up'[r], stored')
  BY <1>1, <1>3
<1>5. QED
  BY <1>4 DEF CountInv

LEMMA CountInit == ASSUME Client!Init PROVE CountInv
<1>1. IsFiniteSet(stored)
  BY FS_EmptySet DEF Client!Init
<1>2. QED
  BY <1>1 DEF Client!Init, Client!Idle, CountInv, CountOK

\* The end of an upload, a failure of it, and the steps that store nothing.
LEMMA CountQuiet ==
  ASSUME CountHolds, NEW t \in Pages, NEW v, up' = [up EXCEPT ![t] = v], CountOK(v, stored), stored' = stored
  PROVE  CountInv'
<1>1. IsFiniteSet(stored') /\ CountOK(v, stored')
  BY DEF CountHolds, CountInv
<1>2. QED
  BY <1>1, CountOthers

Stay(t, v) == LET u == up[t]
              IN  \/ v = Over(u) \/ v.at = "idle"
                  \/ /\ u.at \notin {"idle", "over", "post"} /\ v.n = u.n /\ v.ok = u.ok /\ v.told = u.told /\ v.left = u.left
                     /\ v.at \notin {"idle", "over"}
LEMMA CountStays ==
  ASSUME CountHolds, NEW t \in Pages, NEW v, up' = [up EXCEPT ![t] = v], Stay(t, v), stored' = stored
  PROVE  CountInv'
<1>1. DOMAIN up[t] = UpKeys /\ CountOK(up[t], stored)
  BY DEF CountHolds, CountInv, UploadInv, UploadTypes, PageUp
<1>2. CountOK(v, stored)
  BY <1>1, CountSame DEF Stay
<1>3. QED
  BY <1>2, CountQuiet

LEMMA CountQuietSteps ==
  ASSUME CountHolds, NEW t \in Pages,
         \/ Client!Told(t) \/ Client!Reload(t) \/ Client!Ask(t) \/ Client!InitUpload(t)
         \/ Client!uploadResumable(t) \/ Client!putChunkWithRetry(t)
  PROVE  CountInv'
<1>1. DOMAIN up[t] = UpKeys /\ UploadInv
  BY DEF CountHolds, UploadInv, UploadTypes, PageUp
<1>2. stored' = stored
  BY Zenon DEF Client!Told, Client!Reload, Client!Ask, Client!InitUpload, Client!uploadResumable, Client!putChunkWithRetry, Client!service
<1>3. CASE Client!Told(t) \/ Client!Reload(t)
  <2>1. PICK v : up' = [up EXCEPT ![t] = v] /\ v.at = "idle"
    BY <1>3 DEF Client!Told, Client!Reload, Client!Go, Client!Idle
  <2>2. QED
    BY <1>2, <2>1, CountStays DEF Stay
<1>4. CASE Client!Ask(t)
  <2>1. PICK v : /\ up' = [up EXCEPT ![t] = v]
                 /\ \/ v = [up[t] EXCEPT !.at = "init"]
                    \/ \E x, y : v = [up[t] EXCEPT !.at = "send", !.tok = x, !.done = y]
    BY <1>4, Zenon DEF Client!Ask, Client!Go
  <2>2. up[t].at = "ask"
    BY <1>4, Zenon DEF Client!Ask
  <2>3. Stay(t, v)
    BY <1>1, <2>1, <2>2, Zenon DEF Stay, UpKeys
  <2>4. QED
    BY <1>2, <2>1, <2>3, CountStays, Zenon
<1>5. CASE Client!InitUpload(t)
  <2>0. \/ \E x, y : up' = [up EXCEPT ![t] = [up[t] EXCEPT !.at = "send", !.tok = x, !.done = y]]
        \/ up' = [up EXCEPT ![t] = [up[t] EXCEPT !.at = "post"]]
        \/ (\E how : Client!Fails(t, how)) \/ Client!Rejected(t)
    BY <1>5, Zenon DEF Client!InitUpload, Client!Go
  <2>1. PICK v : /\ up' = [up EXCEPT ![t] = v]
                 /\ \/ v = Over(up[t]) \/ v = [up[t] EXCEPT !.at = "post"]
                    \/ \E x, y : v = [up[t] EXCEPT !.at = "send", !.tok = x, !.done = y]
    <3>1. CASE \E x, y : up' = [up EXCEPT ![t] = [up[t] EXCEPT !.at = "send", !.tok = x, !.done = y]]
      <4>1. PICK x, y : up' = [up EXCEPT ![t] = [up[t] EXCEPT !.at = "send", !.tok = x, !.done = y]]
        BY <3>1, Zenon
      <4>2. PICK u : u = [up[t] EXCEPT !.at = "send", !.tok = x, !.done = y]
        OBVIOUS
      <4>3. up' = [up EXCEPT ![t] = u]
        BY <4>1, <4>2
      <4>4. QED
        BY <4>2, <4>3, Zenon
    <3>2. CASE up' = [up EXCEPT ![t] = [up[t] EXCEPT !.at = "post"]]
      BY <3>2, Zenon
    <3>3. CASE (\E how : Client!Fails(t, how)) \/ Client!Rejected(t)
      BY <1>1, <3>3, EndOf, Zenon
    <3>4. QED
      BY <2>0, <3>1, <3>2, <3>3, Zenon
  <2>2. up[t].at = "init"
    BY <1>5 DEF Client!InitUpload
  <2>3. Stay(t, v)
    BY <1>1, <2>1, <2>2, Zenon DEF Stay, UpKeys
  <2>4. QED
    BY <1>2, <2>1, <2>3, CountStays, Zenon
<1>6. CASE Client!uploadResumable(t)
  <2>1. PICK v : /\ up' = [up EXCEPT ![t] = v]
                 /\ \/ v = [up[t] EXCEPT !.at = "complete"]
                    \/ \E x, y, z : v = [up[t] EXCEPT !.at = "put", !.try = x, !.idx = y]
    BY <1>6, Zenon DEF Client!uploadResumable, Client!Go
  <2>2. up[t].at = "send"
    BY <1>6 DEF Client!uploadResumable
  <2>3. Stay(t, v)
    BY <1>1, <2>1, <2>2, Zenon DEF Stay, UpKeys
  <2>4. QED
    BY <1>2, <2>1, <2>3, CountStays, Zenon
<1>7. CASE Client!putChunkWithRetry(t)
  <2>1. PICK v : /\ up' = [up EXCEPT ![t] = v]
                 /\ v = Over(up[t]) \/ v = [up[t] EXCEPT !.at = "send"] \/ v = [up[t] EXCEPT !.try = @ + 1]
    BY <1>1, <1>7, EndOf DEF Client!putChunkWithRetry, Client!Go
  <2>2. up[t].at = "put"
    BY <1>7 DEF Client!putChunkWithRetry
  <2>3. Stay(t, v)
    BY <1>1, <2>1, <2>2 DEF Stay, UpKeys
  <2>4. QED
    BY <1>2, <2>1, <2>3, CountStays
<1>8. QED
  BY <1>3, <1>4, <1>5, <1>6, <1>7

\* A file is stored whole and the next is begun, or its upload ends as failed.
LEMMA CountStores ==
  ASSUME CountHolds, NEW t \in Pages, up[t].at \notin {"idle", "over"},
         NEW g, g.n = up[t].n, g.whole, g.kind = up[t].left[1], stored' = stored \cup {g},
         NEW v, up' = [up EXCEPT ![t] = v], v = Over(up[t]) \/ \E key : v = Client!NextFile(up[t], key)
  PROVE  CountInv'
<1>1. DOMAIN up[t] = UpKeys /\ CountOK(up[t], stored) /\ IsFiniteSet(stored)
  BY DEF CountHolds, CountInv, UploadInv, UploadTypes, PageUp
<1>2. IsFiniteSet(stored')
  BY <1>1, FS_AddElement
<1>3. CountOK(v, stored')
  <2>1. CASE v = Over(up[t])
    BY <1>1, <2>1 DEF Over, CountOK, UpKeys
  <2>2. CASE \E key : v = Client!NextFile(up[t], key)
    <3>1. PICK key : v = Client!NextFile(up[t], key)
      BY <2>2
    <3>2. PICK u : u = up[t]
      OBVIOUS
    <3>3. /\ DOMAIN u = UpKeys /\ u.told # "failed" /\ BatchOK(u.left) /\ u.left # <<>> /\ u.ok \in Nat
          /\ Cardinality(Mine(u, stored)) = u.ok /\ \A f \in Mine(u, stored) : \A i \in 1..Len(u.left) : f.kind # u.left[i]
      BY <1>1, <3>2 DEF CountOK
    <3>4. CountOK(Client!NextFile(u, key), stored \cup {g})
      BY <1>1, <3>2, <3>3, NextCounts
    <3>5. QED
      BY <3>1, <3>2, <3>4
  <2>3. QED
    BY <2>1, <2>2
<1>4. QED
  BY <1>2, <1>3, CountOthers

LEMMA CountPost == ASSUME CountHolds, NEW t \in Pages, Client!uploadOneFile(t) PROVE CountInv'
<1> DEFINE g == Client!File(up[t], up[t].left[1], TRUE)
<1>1. UploadInv /\ up[t].at = "post"
  BY DEF CountHolds, Client!uploadOneFile
<1>2. g.n = up[t].n /\ g.whole /\ g.kind = up[t].left[1]
  BY DEF Client!File
<1> HIDE DEF g
<1>3. CASE stored' = stored /\ up' = [up EXCEPT ![t] = Over(up[t])]
  BY <1>3, CountStays DEF Stay
<1>4. CASE stored' = stored \cup {g} /\ up' = [up EXCEPT ![t] = Over(up[t])]
  BY <1>1, <1>2, <1>4, CountStores
<1>5. CASE stored' = stored \cup {g} /\ \E key : up' = [up EXCEPT ![t] = Client!NextFile(up[t], key)]
  BY <1>1, <1>2, <1>5, CountStores
<1>6. QED
  BY <1>1, <1>3, <1>4, <1>5, EndOf DEF Client!uploadOneFile, Client!Go, g

LEMMA CountComplete == ASSUME CountHolds, NEW t \in Pages, Client!Complete(t) PROVE CountInv'
<1>1. UploadInv /\ up[t].at = "complete" /\ CountOK(up[t], stored)
  BY DEF CountHolds, CountInv, Client!Complete
<1>2. up[t].left[1] = "large"
  BY <1>1 DEF CountOK
<1>3. CASE stored' = stored /\ up' = [up EXCEPT ![t] = Over(up[t])]
  BY <1>3, CountStays DEF Stay
<1>4. CASE \E s \in Client!Live(up[t].tok) :
             /\ s.got = 1..Parts /\ stored' = stored \cup {[Client!File(up[t], "large", s.got = 1..Parts) EXCEPT !.place = s.place]}
             /\ up' = [up EXCEPT ![t] = Over(up[t])] \/ up' = [up EXCEPT ![t] = Client!NextFile(up[t], 0)]
  <2>1. PICK s \in Client!Live(up[t].tok) :
             /\ s.got = 1..Parts /\ stored' = stored \cup {[Client!File(up[t], "large", s.got = 1..Parts) EXCEPT !.place = s.place]}
             /\ up' = [up EXCEPT ![t] = Over(up[t])] \/ up' = [up EXCEPT ![t] = Client!NextFile(up[t], 0)]
    BY <1>4
  <2>2. PICK g : g = [Client!File(up[t], "large", s.got = 1..Parts) EXCEPT !.place = s.place]
    OBVIOUS
  <2>3. g.n = up[t].n /\ g.whole /\ g.kind = up[t].left[1]
    BY <1>2, <2>1, <2>2 DEF Client!File
  <2>4. CASE up' = [up EXCEPT ![t] = Over(up[t])]
    BY <1>1, <2>1, <2>2, <2>3, <2>4, CountStores
  <2>5. CASE up' = [up EXCEPT ![t] = Client!NextFile(up[t], 0)]
    BY <1>1, <2>1, <2>2, <2>3, <2>5, CountStores
  <2>6. QED
    BY <2>1, <2>4, <2>5
<1>5. QED
  BY <1>1, <1>3, <1>4, EndOf DEF Client!Complete, Client!Go

\* A batch is begun: none of its files is stored.
LEMMA CountBegin ==
  ASSUME Sorted, CountHolds, NEW t \in Pages, NEW q \in Places, NEW b \in Batches, Client!uploadFiles(t, q, b)
  PROVE  CountInv'
<1> DEFINE u == [[Client!Idle EXCEPT !.place = q, !.left = b, !.n = starts + 1] EXCEPT !.left = <<"none">> \o @, !.ok = 0]
           key == saved[Client!resumeKey(q)]
<1>1. u.left = <<"none">> \o b /\ u.n = starts + 1 /\ u.told = "none" /\ DOMAIN u = UpKeys
  BY DEF Client!Idle, UpKeys
<1>2. PICK v : v = [Client!NextFile(u, key) EXCEPT !.ok = 0] /\ up' = [up EXCEPT ![t] = v]
  BY DEF Client!uploadFiles, Client!Go, Client!Begin
<1>3. stored' = stored
  BY DEF Client!uploadFiles, Client!service
<1> HIDE DEF u, key
<1>4. BatchOK(b)
  BY DEF Sorted
<1>5. Tail(u.left) = b
  <2>1. b \in Seq({"none", "small", "large"}) /\ <<"none">> \in Seq({"none", "small", "large"})
    BY <1>4 DEF BatchOK
  <2>2. QED
    BY <1>1, <2>1
<1>6. /\ v.left = b /\ v.ok = 0 /\ v.n = starts + 1 /\ (b # <<>> => v.told = "none")
      /\ v.at = IF b = <<>> THEN "over" ELSE IF b[1] = "small" THEN "post" ELSE IF key = 0 THEN "init" ELSE "ask"
  <2>1. PICK w : w = Client!NextFile(u, key)
    OBVIOUS
  <2>2. /\ w.left = b /\ w.n = starts + 1 /\ DOMAIN w = UpKeys /\ (b # <<>> => w.told = "none")
        /\ w.at = IF b = <<>> THEN "over" ELSE IF b[1] = "small" THEN "post" ELSE IF key = 0 THEN "init" ELSE "ask"
    BY <1>1, <1>5, <2>1 DEF Client!NextFile, UpKeys
  <2>3. v = [w EXCEPT !.ok = 0]
    BY <1>2, <2>1
  <2>4. QED
    BY <2>2, <2>3 DEF UpKeys
<1>7. Mine(v, stored) = {}
  BY <1>6 DEF CountHolds, UploadInv, UploadTypes, Mine
<1>8. Cardinality(Mine(v, stored)) = v.ok /\ v.ok \in Nat
  BY <1>6, <1>7, FS_EmptySet
<1>9. b # <<>> => b[1] \in {"small", "large"}
  BY <1>4, TailOfBatch
<1>10. CountOK(v, stored)
  BY <1>4, <1>6, <1>7, <1>8, <1>9 DEF CountOK
<1>11. QED
  BY <1>2, <1>3, <1>10, CountQuiet

LEMMA CountStep ==
  ASSUME Client!UploadAssumption, Sorted, CountHolds, [Client!Next]_Client!vars
  PROVE  CountHolds'
<1>1. UploadInv'
  BY UploadStep DEF CountHolds
<1>2. CountInv'
  <2>1. CASE UNCHANGED <<up, stored>>
    BY <2>1 DEF CountHolds, CountInv, CountOK, Mine
  <2>2. CASE \E t \in Pages : Client!Step(t) \/ Client!Reload(t)
    BY <2>2, CountQuietSteps, CountPost, CountComplete DEF Client!Step
  <2>3. CASE \E t \in Pages, q \in Places, b \in Batches : Client!uploadFiles(t, q, b)
    BY <2>3, CountBegin
  <2>4. QED
    BY <2>1, <2>2, <2>3 DEF Client!Next, Client!vars, Client!Sweep, Client!Fill
<1>3. QED
  BY <1>1, <1>2 DEF CountHolds

LEMMA ClientCardinality == \A S : Client!Cardinality(S) = Cardinality(S)
BY DEF Client!Cardinality, Cardinality

\* A batch that the page is told is uploaded is stored, every file of it and
\* whole: whatever request was lost, whoever's session was taken over.
THEOREM ClientToldStored == ASSUME Client!UploadAssumption, Sorted PROVE Client!Spec => []Client!ToldStored
<1>1. Client!Init => CountHolds
  BY UploadInit, CountInit DEF CountHolds
<1>2. CountHolds => Client!ToldStored
  BY ClientCardinality DEF CountHolds, CountInv, CountOK, Mine, Client!ToldStored
<1>3. QED
  BY <1>1, <1>2, CountStep, PTL DEF Client!Spec
----------------------------------------------------------------------------
(* The page of a drop portal.                                              *)

CONSTANTS Files, Protected, MaxDone
VARIABLES open, pw, unlocked, wrong, uploading, done, loops
Portal == INSTANCE PortalLanding

\* A visitor who waits has one upload under way at most.  While every request is
\* answered, it has the password that is on the page, and it is told of the
\* password if and only if that is wrong.
LoopKeys == {"rest", "pw", "said", "unlocked"}
WrongPassword == Protected /\ pw # "right"
LoopFits(l) ==
  /\ DOMAIN l = LoopKeys /\ uploading
  /\ ~Faults => /\ l.pw = pw /\ (WrongPassword => ~l.unlocked)
                /\ l.said \in {"no", "ok", "password"}
                /\ (l.said = "ok" => ~WrongPassword) /\ (l.said = "password" => WrongPassword)
PortalInv == /\ loops = <<>> \/ \E l : loops = <<l>> /\ LoopFits(l)
             /\ ~Faults => open /\ (WrongPassword => ~unlocked /\ done = <<>>)

LEMMA PortalInit == Portal!Init => PortalInv
BY Zenon DEF Portal!Init, PortalInv

LEMMA PortalTypes == ASSUME Patient, PortalInv, NEW x, Portal!Type(x) PROVE PortalInv'
BY DEF PortalInv, Portal!Type, Portal!Gate, Portal!needsUnlock, WrongPassword

LEMMA PortalDrops == ASSUME Patient, PortalInv, NEW fs, Portal!handleFiles(fs) PROVE PortalInv'
<1>1. PICK l : l = [rest |-> fs, pw |-> pw, said |-> "no", unlocked |-> unlocked]
  OBVIOUS
<1>2. loops' = <<l>> /\ uploading' /\ UNCHANGED <<open, pw, unlocked, done>>
  BY <1>1 DEF Portal!handleFiles
<1>3. DOMAIN l = LoopKeys /\ l.pw = pw /\ l.said = "no" /\ l.unlocked = unlocked
  BY <1>1 DEF LoopKeys
<1>4. ~Faults => (WrongPassword => ~l.unlocked)
  BY <1>3 DEF PortalInv
<1>5. LoopFits(l)'
  BY <1>2, <1>3, <1>4 DEF LoopFits, WrongPassword
<1>6. QED
  BY <1>2, <1>5 DEF PortalInv, WrongPassword

LEMMA PortalRevokes == ASSUME PortalInv, Portal!Revoke PROVE PortalInv'
BY DEF PortalInv, Portal!Revoke, LoopFits, WrongPassword

LEMMA PortalOne == ASSUME PortalInv, NEW k \in DOMAIN loops PROVE k = 1 /\ loops = <<loops[1]>> /\ LoopFits(loops[1])
BY DEF PortalInv

LEMMA PortalSends == ASSUME PortalInv, NEW k \in DOMAIN loops, Portal!uploadOne(k) PROVE PortalInv'
<1>1. PICK l : l = loops[1]
  OBVIOUS
<1>2. k = 1 /\ loops = <<l>> /\ LoopFits(l)
  BY <1>1, PortalOne
<1>3. PICK said \in Portal!Reply(l) : loops' = [loops EXCEPT ![1].said = said]
  BY <1>1, <1>2 DEF Portal!uploadOne
<1>4. PICK m : m = [l EXCEPT !.said = said]
  OBVIOUS
<1>5. loops' = <<m>> /\ UNCHANGED <<open, pw, unlocked, uploading, done>>
  BY <1>2, <1>3, <1>4 DEF Portal!uploadOne
<1>6. DOMAIN m = LoopKeys /\ m.pw = l.pw /\ m.unlocked = l.unlocked /\ m.said = said
  BY <1>2, <1>4 DEF LoopFits, LoopKeys
<1>7. ~Faults => said \in {"ok", "password"} /\ (said = "ok" => ~WrongPassword) /\ (said = "password" => WrongPassword)
  BY <1>2, <1>3 DEF LoopFits, PortalInv, Portal!Reply, Portal!AuthorizedPortal, WrongPassword
<1>8. LoopFits(m)'
  BY <1>2, <1>5, <1>6, <1>7 DEF LoopFits, WrongPassword
<1>9. QED
  BY <1>5, <1>8 DEF PortalInv, WrongPassword

LEMMA PortalHears == ASSUME PortalInv, NEW k \in DOMAIN loops, Portal!Result(k) PROVE PortalInv'
<1>1. PICK l : l = loops[1]
  OBVIOUS
<1>2. k = 1 /\ loops = <<l>> /\ LoopFits(l) /\ UNCHANGED <<open, pw>> /\ l.said # "no"
  BY <1>1, PortalOne DEF Portal!Result
<1>3. CASE l.said = "password" /\ ~l.unlocked
  <2>1. Portal!Drop(1) /\ UNCHANGED <<unlocked, done>>
    BY <1>1, <1>2, <1>3 DEF Portal!Result
  <2>2. loops' = <<>>
    BY <1>2, <2>1 DEF Portal!Drop
  <2>3. QED
    BY <1>2, <2>1, <2>2 DEF PortalInv, WrongPassword
<1>4. CASE ~(l.said = "password" /\ ~l.unlocked)
  <2>1. ~Faults => ~WrongPassword
    BY <1>2, <1>4 DEF LoopFits
  <2>2. CASE Tail(l.rest) = <<>>
    <3>1. Portal!Drop(1)
      BY <1>1, <1>2, <1>4, <2>2 DEF Portal!Result
    <3>2. loops' = <<>>
      BY <1>2, <3>1 DEF Portal!Drop
    <3>3. QED
      BY <1>2, <2>1, <3>2 DEF PortalInv, WrongPassword
  <2>3. CASE Tail(l.rest) # <<>>
    <3>1. PICK m : m = [l EXCEPT !.rest = Tail(l.rest), !.said = "no"]
      OBVIOUS
    <3>a. loops' = [loops EXCEPT ![1] = m]
      BY <1>1, <1>2, <1>4, <2>3, <3>1 DEF Portal!Result, Portal!Turn
    <3>b. uploading' = Portal!Uploading(l)
      BY <1>1, <1>2, <1>4 DEF Portal!Result
    <3>c. uploading'
      BY <1>2, <2>3, <3>b DEF Portal!Uploading, LoopFits
    <3>2. loops' = <<m>> /\ uploading'
      BY <1>2, <3>a, <3>c
    <3>3. DOMAIN m = LoopKeys /\ m.pw = l.pw /\ m.unlocked = l.unlocked /\ m.said = "no"
      BY <1>2, <3>1 DEF LoopFits, LoopKeys
    <3>4. LoopFits(m)'
      BY <1>2, <2>1, <3>2, <3>3 DEF LoopFits, WrongPassword
    <3>5. QED
      BY <1>2, <2>1, <3>2, <3>4 DEF PortalInv, WrongPassword
  <2>4. QED
    BY <2>2, <2>3
<1>5. QED
  BY <1>3, <1>4

LEMMA PortalStep == ASSUME Patient, PortalInv, [Portal!Next]_(Portal!vars) PROVE PortalInv'
<1>1. CASE UNCHANGED Portal!vars
  BY <1>1 DEF PortalInv, Portal!vars, LoopFits, WrongPassword
<1>2. CASE Portal!Next
  BY <1>2, PortalTypes, PortalDrops, PortalRevokes, PortalSends, PortalHears DEF Portal!Next, Portal!Loops
<1>3. QED
  BY <1>1, <1>2

\* While a file is on its way the drop zone says so, for a visitor who waits
\* (PortalLanding.tsx, handleFiles).
THEOREM PortalUploadingTrue == ASSUME Patient PROVE Portal!Spec => []Portal!UploadingTrue
<1>1. PortalInv /\ [Portal!Next]_(Portal!vars) => PortalInv'
  BY PortalStep
<1>2. PortalInv => Portal!UploadingTrue
  BY DEF PortalInv, Portal!UploadingTrue, LoopFits
<1>3. QED
  BY <1>1, <1>2, PortalInit, PTL DEF Portal!Spec

\* The password box stays until the right password was typed, when no request is
\* lost and the portal is not switched off meanwhile: any other answer than a 401
\* makes the page take the password for the right one.
THEOREM PortalGateStays == ASSUME Patient, ~Faults PROVE Portal!Spec => []Portal!GateStays
<1>1. PortalInv /\ [Portal!Next]_(Portal!vars) => PortalInv'
  BY PortalStep
<1>2. PortalInv => Portal!GateStays
  BY DEF PortalInv, Portal!GateStays, Portal!Gate, Portal!needsUnlock, WrongPassword
<1>3. QED
  BY <1>1, <1>2, PortalInit, PTL DEF Portal!Spec
=============================================================================
