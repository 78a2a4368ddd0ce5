------------------------------- MODULE Trash -------------------------------
(***************************************************************************)
(* The folder tree of one workspace and its trash (system/folders,         *)
(* system/files, system/trash): create, upload, move and delete of folders *)
(* and files, restore and purge of what was deleted, and the janitor that  *)
(* purges batches past their seven days.                                   *)
(*                                                                         *)
(* The handlers check a parent, walk the tree or gather a batch with plain *)
(* reads and then change rows in one transaction, so each is a worker that *)
(* takes one read, transaction or blob deletion per step and acts on what  *)
(* it read.  A file is one unit of storage and owns one blob.              *)
(***************************************************************************)
EXTENDS Integers, FiniteSets

CONSTANTS
  Folders, Files, \* the row ids that may be drawn
  Workers,        \* concurrent request handlers
  janitor,        \* the handler of PurgeExpired; the cluster lock allows one
  MaxBatches,     \* bound: values drawn from trash_batch_seq
  MaxExpired,     \* bound: how many of them get past their purge_at
  MaxFaults,      \* bound: handlers dropped, calls failed
  NONE            \* no folder: a root item's parent

ASSUME IdsAssumption == Folders \cap Files = {} /\ NONE \notin Folders \cup Files
ASSUME FiniteAssumption == IsFiniteSet(Folders) /\ IsFiniteSet(Files)
ASSUME JanitorAssumption == janitor \notin Workers
ASSUME BoundsAssumption == MaxBatches \in Nat /\ MaxExpired \in Nat /\ MaxFaults \in Nat

Items == Folders \cup Files
Handlers == Workers \cup {janitor}

VARIABLES
  row,      \* item -> its files or folders row
  blobs,    \* the files whose blob is in the store
  used,     \* tenants.storage_bytes_used
  batches,  \* trash_batch_seq
  expired,  \* the batches up to this one are past their purge_at
  pc, req,  \* handler -> its next call, and what it has read
  faults,   \* counter for MaxFaults
  crossed   \* history: the kinds of check that were stale when acted on

vars == <<row, blobs, used, batches, expired, pc, req, faults, crossed>>

Row == [st : {"new", "active", "trashed", "gone"}, parent : Folders \cup {NONE},
        batch : 0..MaxBatches, root : BOOLEAN]
NoRow(st) == [st |-> st, parent |-> NONE, batch |-> 0, root |-> FALSE]

\* What was so when a handler made its check: the parent was active and these were
\* the subtree or the files of the batch; since then a folder has been moved.
Facts == [active : BOOLEAN, moved : BOOLEAN, set : SUBSET Items]
NoFacts == [active |-> TRUE, moved |-> FALSE, set |-> {}]

\* at: where assertNoCycle's walk stands; set: a subtree or the files of a batch;
\* todo: the batches still to purge; seen: history, for crossed.
Request == [item : Items \cup {NONE}, parent : Folders \cup {NONE}, at : Folders \cup {NONE},
            set : SUBSET Items, batch : 0..MaxBatches, todo : SUBSET (1..MaxBatches),
            seen : Facts]
NoRequest == [item |-> NONE, parent |-> NONE, at |-> NONE, set |-> {}, batch |-> 0, todo |-> {},
              seen |-> NoFacts]

Pc == {"idle", "insert", "walk", "move", "trash", "restoreParent", "restore",
       "gather", "purge", "dropBlobs"}

TypeOK ==
  /\ row \in [Items -> Row]
  /\ \A i \in Items : row[i].st = "trashed" <=> row[i].batch # 0
  /\ blobs \subseteq Files
  /\ used \in Nat
  /\ batches \in 0..MaxBatches /\ expired \in 0..batches
  /\ pc \in [Handlers -> Pc]
  /\ req \in [Handlers -> Request]
  /\ faults \in Nat
  /\ crossed \subseteq {"parent", "cycle", "subtree", "restore", "purge"}

Init ==
  /\ row = [i \in Items |-> NoRow("new")]
  /\ blobs = {} /\ used = 0
  /\ batches = 0 /\ expired = 0
  /\ pc = [h \in Handlers |-> "idle"]
  /\ req = [h \in Handlers |-> NoRequest]
  /\ faults = 0
  /\ crossed = {}

----------------------------------------------------------------------------
(* The tree *)

Active(i) == row[i].st = "active"
Exists(i) == row[i].st \in {"active", "trashed"}
ParentActive(p) == p # NONE => Active(p)
ParentExists(p) == p # NONE => Exists(p)
InBatch(b) == {i \in Items : row[i].batch = b}

\* WITH RECURSIVE over the rows R: d and everything below it.
Below(d, R) ==
  {e \in Folders : \A S \in SUBSET Folders :
     d \in S /\ (\A f \in R : row[f].parent \in S => f \in S) => e \in S}

Subtree(d) == IF Active(d) THEN Below(d, {f \in Folders : Active(f)}) ELSE {}
WithContents(d) == Below(d, {f \in Folders : Exists(f)})
IsUnder(p, i) == i \in Folders /\ p # NONE /\ p \in WithContents(i)

\* Folders each of which lies in another of them.
Loop(S) == S # {} /\ \A d \in S : Exists(d) /\ row[d].parent \in S

----------------------------------------------------------------------------
(* Helpers *)

Fault == faults < MaxFaults /\ faults' = faults + 1
Goto(h, label) == pc' = [pc EXCEPT ![h] = label]
Finish(h) == pc' = [pc EXCEPT ![h] = "idle"] /\ req' = [req EXCEPT ![h] = NoRequest]
Start(h, label, r) == /\ pc[h] = "idle"
                      /\ pc' = [pc EXCEPT ![h] = label]
                      /\ req' = [req EXCEPT ![h] = r]

\* History: the kinds of fact that changed between a handler's check and the
\* transaction that relies on it.
Cross(kinds) == crossed' = crossed \cup kinds
Changed(kind, p) == IF p THEN {kind} ELSE {}
ParentLeft(h) == Changed("parent", req[h].seen.active /\ ~ParentActive(req[h].parent))

\* A handler that may have given a folder another parent is done: those on their
\* way to moving one may have walked up the old tree.
FinishMoving(h) ==
  /\ pc' = [pc EXCEPT ![h] = "idle"]
  /\ req' = [v \in Handlers |->
       IF v = h THEN NoRequest
       ELSE IF pc[v] \in {"walk", "move"} THEN [req[v] EXCEPT !.seen.moved = TRUE] ELSE req[v]]

----------------------------------------------------------------------------
(* Create a folder, upload a file *)

Create(w, i, p) ==
  /\ row[i].st = "new" /\ \A v \in Workers : req[v].item # i
  /\ ParentActive(p)
  /\ Start(w, "insert", [NoRequest EXCEPT !.item = i, !.parent = p,
                                          !.seen.active = ParentActive(p)])
  /\ UNCHANGED <<row, blobs, used, batches, expired, faults, crossed>>

\* The foreign key wants the parent's row, trashed or not.
Insert(w) ==
  LET i == req[w].item
      p == req[w].parent
  IN
  /\ pc[w] = "insert"
  /\ \/ /\ ParentExists(p)
        /\ row' = [row EXCEPT ![i].st = "active", ![i].parent = p]
        /\ blobs' = blobs \cup ({i} \cap Files)
        /\ used' = used + Cardinality({i} \cap Files)
        /\ Cross(ParentLeft(w))
     \/ /\ ~ParentExists(p)
        /\ UNCHANGED <<row, blobs, used, crossed>>
  /\ Finish(w)
  /\ UNCHANGED <<batches, expired, faults>>

----------------------------------------------------------------------------
(* Move *)

BeginMove(w, i, p) ==
  /\ Active(i) /\ p # i
  /\ ParentActive(p)
  /\ Start(w, IF i \in Folders /\ p # NONE THEN "walk" ELSE "move",
           [NoRequest EXCEPT !.item = i, !.parent = p, !.at = p,
                             !.seen.active = ParentActive(p)])
  /\ UNCHANGED <<row, blobs, used, batches, expired, faults, crossed>>

\* Mutant of WalkUp: only the new parent itself is compared with the folder.
WalkUpOnce(w) ==
  LET a == req[w].at
  IN
  /\ pc[w] = "walk"
  /\ \/ a # req[w].item /\ Goto(w, "move") /\ UNCHANGED req
     \/ a = req[w].item /\ Finish(w)
  /\ UNCHANGED <<row, blobs, used, batches, expired, faults, crossed>>

\* assertNoCycle, one ancestor per read; a walk round a loop gives up.
WalkUp(w) ==
  LET a == req[w].at
  IN
  /\ pc[w] = "walk"
  /\ \/ /\ a # req[w].item /\ Exists(a) /\ row[a].parent # NONE
        /\ req' = [req EXCEPT ![w].at = row[a].parent]
        /\ UNCHANGED pc
     \/ /\ a # req[w].item /\ Exists(a) /\ row[a].parent = NONE
        /\ Goto(w, "move")
        /\ UNCHANGED req
     \/ /\ a = req[w].item \/ ~Exists(a) \/ \E S \in SUBSET Folders : a \in S /\ Loop(S)
        /\ Finish(w)
  /\ UNCHANGED <<row, blobs, used, batches, expired, faults, crossed>>

Move(w) ==
  LET i == req[w].item
      p == req[w].parent
  IN
  /\ pc[w] = "move"
  /\ \/ /\ Active(i) /\ ParentExists(p)
        /\ row' = [row EXCEPT ![i].parent = p]
        /\ Cross(ParentLeft(w) \cup Changed("cycle", req[w].seen.moved /\ IsUnder(p, i)))
        /\ FinishMoving(w)
     \/ /\ ~Active(i) \/ ~ParentExists(p)
        /\ Finish(w)
        /\ UNCHANGED <<row, crossed>>
  /\ UNCHANGED <<blobs, used, batches, expired, faults>>

----------------------------------------------------------------------------
(* Delete, which only trashes *)

TrashRow(r, b, isRoot) == [r EXCEPT !.st = "trashed", !.batch = b, !.root = isRoot]

\* Mutant of TrashFile: the quota is given back at once.
TrashFileFreeing(f) ==
  /\ Active(f) /\ batches < MaxBatches
  /\ batches' = batches + 1
  /\ row' = [row EXCEPT ![f] = TrashRow(@, batches + 1, TRUE)]
  /\ used' = used - 1
  /\ UNCHANGED <<blobs, expired, pc, req, faults, crossed>>

TrashFile(f) ==
  /\ Active(f) /\ batches < MaxBatches
  /\ batches' = batches + 1
  /\ row' = [row EXCEPT ![f] = TrashRow(@, batches + 1, TRUE)]
  /\ UNCHANGED <<blobs, used, expired, pc, req, faults, crossed>>

\* activeSubtreeIDs; on a loop of folders its recursion does not end.
BeginTrash(w, d) ==
  /\ Active(d) /\ batches < MaxBatches
  /\ \A S \in SUBSET Subtree(d) : ~Loop(S)
  /\ Start(w, "trash", [NoRequest EXCEPT !.item = d, !.set = Subtree(d),
                                         !.seen.set = Subtree(d)])
  /\ UNCHANGED <<row, blobs, used, batches, expired, faults, crossed>>

Trash(w) ==
  LET S == req[w].set
      b == batches + 1
  IN
  /\ pc[w] = "trash" /\ batches < MaxBatches
  /\ batches' = b
  /\ row' = [i \in Items |->
       IF Active(i) /\ (i \in S \/ (i \in Files /\ row[i].parent \in S))
       THEN TrashRow(row[i], b, i = req[w].item) ELSE row[i]]
  /\ Cross(Changed("subtree", Subtree(req[w].item) # req[w].seen.set))
  /\ Finish(w)
  /\ UNCHANGED <<blobs, used, expired, faults>>

----------------------------------------------------------------------------
(* Restore *)

IsRoot(i, b) == row[i].st = "trashed" /\ row[i].batch = b /\ row[i].root

BeginRestore(w, i, b) ==
  /\ IsRoot(i, b)
  /\ Start(w, IF row[i].parent = NONE THEN "restore" ELSE "restoreParent",
           [NoRequest EXCEPT !.item = i, !.parent = row[i].parent, !.batch = b])
  /\ UNCHANGED <<row, blobs, used, batches, expired, faults, crossed>>

\* Mutant of RestoreParent: any parent that still has a row will do.
RestoreParentAny(w) ==
  /\ pc[w] = "restoreParent"
  /\ LET p == IF Exists(req[w].parent) THEN req[w].parent ELSE NONE
     IN  req' = [req EXCEPT ![w] = [@ EXCEPT !.parent = p, !.seen.active = ParentActive(p)]]
  /\ Goto(w, "restore")
  /\ UNCHANGED <<row, blobs, used, batches, expired, faults, crossed>>

\* The old parent if it is active again, else the root.
RestoreParent(w) ==
  /\ pc[w] = "restoreParent"
  /\ LET p == IF Active(req[w].parent) THEN req[w].parent ELSE NONE
     IN  req' = [req EXCEPT ![w] = [@ EXCEPT !.parent = p, !.seen.active = ParentActive(p)]]
  /\ Goto(w, "restore")
  /\ UNCHANGED <<row, blobs, used, batches, expired, faults, crossed>>

\* Mutant of Reactivate: the batch number stays on the rows.
ReactivateInBatch(r) == [r EXCEPT !.st = "active", !.root = FALSE]

Reactivate(r) == [r EXCEPT !.st = "active", !.batch = 0, !.root = FALSE]

\* The root's row is redirected whatever its status is by now, then the rows
\* that still belong to the batch become active.
Restore(w) ==
  LET i == req[w].item
      p == req[w].parent
      b == req[w].batch
      Redirected(j) == IF j = i /\ Exists(i) THEN [row[j] EXCEPT !.parent = p] ELSE row[j]
  IN
  /\ pc[w] = "restore"
  /\ \/ /\ ParentExists(p) \/ ~Exists(i)
        /\ row' = [j \in Items |->
             IF j \in InBatch(b) THEN Reactivate(Redirected(j)) ELSE Redirected(j)]
        /\ Cross(ParentLeft(w) \cup Changed("restore", ~IsRoot(i, b)))
        /\ FinishMoving(w)
     \/ /\ ~ParentExists(p) /\ Exists(i)
        /\ Finish(w)
        /\ UNCHANGED <<row, crossed>>
  /\ UNCHANGED <<blobs, used, batches, expired, faults>>

----------------------------------------------------------------------------
(* Purge: a user's, gated by the batch's root, or the janitor's *)

BeginPurge(w, b) ==
  /\ \E i \in Items : IsRoot(i, b)
  /\ Start(w, "gather", [NoRequest EXCEPT !.todo = {b}])
  /\ UNCHANGED <<row, blobs, used, batches, expired, faults, crossed>>

Expire ==
  /\ expired < batches /\ expired < MaxExpired
  /\ expired' = expired + 1
  /\ UNCHANGED <<row, blobs, used, batches, pc, req, faults, crossed>>

\* Mutant of Due: only batches the trash list shows are purged.
DueListed == {b \in 1..expired : \E i \in Items : IsRoot(i, b)}

Due == {b \in 1..expired : InBatch(b) # {}}

PurgeExpired ==
  /\ Due # {}
  /\ Start(janitor, "gather", [NoRequest EXCEPT !.todo = Due])
  /\ UNCHANGED <<row, blobs, used, batches, expired, faults, crossed>>

Gathered(r, b, F) ==
  [r EXCEPT !.batch = b, !.todo = @ \ {b}, !.set = F, !.seen.set = InBatch(b) \cap Files]

\* Mutants of Gather: the bytes go before the rows; only the batch's root is gathered.
GatherDropping(h) ==
  /\ pc[h] = "gather"
  /\ \E b \in req[h].todo :
       /\ req' = [req EXCEPT ![h] = Gathered(@, b, InBatch(b) \cap Files)]
       /\ blobs' = blobs \ InBatch(b)
  /\ Goto(h, "purge")
  /\ UNCHANGED <<row, used, batches, expired, faults, crossed>>
GatherRoot(h) ==
  /\ pc[h] = "gather"
  /\ \E b \in req[h].todo :
       req' = [req EXCEPT ![h] = Gathered(@, b, {f \in Files : IsRoot(f, b)})]
  /\ Goto(h, "purge")
  /\ UNCHANGED <<row, blobs, used, batches, expired, faults, crossed>>

Gather(h) ==
  /\ pc[h] = "gather"
  /\ \E b \in req[h].todo :
       req' = [req EXCEPT ![h] = Gathered(@, b, InBatch(b) \cap Files)]
  /\ Goto(h, "purge")
  /\ UNCHANGED <<row, blobs, used, batches, expired, faults, crossed>>

NextBatch(h) == \/ req[h].todo # {} /\ Goto(h, "gather") /\ UNCHANGED req
                \/ req[h].todo = {} /\ Finish(h)

\* Mutant of DeleteRows: the files are deleted by what was gathered.
DeleteRowsGathered(b, F) ==
  LET D == UNION {WithContents(d) : d \in InBatch(b) \cap Folders}
  IN  row' = [i \in Items |->
        IF i \in D \cup F THEN NoRow("gone")
        ELSE IF i \in Files /\ row[i].parent \in D THEN [row[i] EXCEPT !.parent = NONE]
        ELSE row[i]]

\* DELETE of the batch's files and folders.  folders.parent_folder_id cascades;
\* the files of a folder that goes float to the root.
DeleteRows(b, F) ==
  LET D == UNION {WithContents(d) : d \in InBatch(b) \cap Folders}
  IN  row' = [i \in Items |->
        IF i \in D \cup InBatch(b) THEN NoRow("gone")
        ELSE IF i \in Files /\ row[i].parent \in D THEN [row[i] EXCEPT !.parent = NONE]
        ELSE row[i]]

\* The transaction frees what was gathered before it.
Purge(h) ==
  LET F == req[h].set
      b == req[h].batch
  IN
  /\ pc[h] = "purge"
  /\ \/ /\ DeleteRows(b, F)
        /\ used' = IF used < Cardinality(F) THEN 0 ELSE used - Cardinality(F)
        /\ Cross(Changed("purge", req[h].seen.set # InBatch(b) \cap Files))
        /\ Goto(h, "dropBlobs")
        /\ UNCHANGED <<req, faults>>
     \/ /\ Fault
        /\ NextBatch(h)
        /\ UNCHANGED <<row, used, crossed>>
  /\ UNCHANGED <<blobs, batches, expired>>

\* After the commit; a deletion that fails is only logged.
DropBlobs(h) ==
  /\ pc[h] = "dropBlobs"
  /\ \/ blobs' = blobs \ req[h].set /\ UNCHANGED faults
     \/ Fault /\ \E F \in SUBSET req[h].set : blobs' = blobs \ F
  /\ NextBatch(h)
  /\ UNCHANGED <<row, used, batches, expired, crossed>>

----------------------------------------------------------------------------
\* The client goes away or the node dies between two steps.
DropRequest(h) ==
  /\ pc[h] # "idle"
  /\ Fault
  /\ Finish(h)
  /\ UNCHANGED <<row, blobs, used, batches, expired, crossed>>

PurgeStep(h) == Gather(h) \/ Purge(h) \/ DropBlobs(h)

Next ==
  \/ \E w \in Workers :
       \/ \E i \in Items, p \in Folders \cup {NONE} : Create(w, i, p) \/ BeginMove(w, i, p)
       \/ \E d \in Folders : BeginTrash(w, d)
       \/ \E i \in Items, b \in 1..MaxBatches : BeginRestore(w, i, b)
       \/ \E b \in 1..MaxBatches : BeginPurge(w, b)
       \/ Insert(w) \/ WalkUp(w) \/ Move(w) \/ Trash(w) \/ RestoreParent(w) \/ Restore(w)
  \/ \E f \in Files : TrashFile(f)
  \/ Expire \/ PurgeExpired
  \/ \E h \in Handlers : PurgeStep(h) \/ DropRequest(h)

Spec == Init /\ [][Next]_vars

\* Days pass and the job loop keeps running; nothing is assumed of the clients.
FairSpec == Spec /\ WF_vars(Expire) /\ WF_vars(PurgeExpired \/ PurgeStep(janitor))

----------------------------------------------------------------------------
(* Properties *)

\* An active file is never deleted, whatever purges, restores, moves and cascading
\* deletions cross: PurgeBatch deletes by batch, and leaving the trash clears it.
ActiveNeverPurged ==
  [][\A f \in Files : Active(f) => row'[f].st # "gone"]_vars

\* Every listed or trashed file can be downloaded (or will be, once restored),
\* unless a purge went on with files it had gathered before a restore.
BlobKept ==
  "purge" \notin crossed => \A f \in Files : Exists(f) => f \in blobs

\* Under the same proviso storage_bytes_used counts the files there are, those
\* in the trash included.
UsageExact ==
  "purge" \notin crossed => used = Cardinality({f \in Files : Exists(f)})

\* A purged file leaves no blob behind except by a fault.
BytesFreed ==
  \A f \in blobs : row[f].st = "gone" =>
    faults > 0 \/ \E h \in Handlers : pc[h] = "dropBlobs" /\ f \in req[h].set

\* Nothing active lies in a folder that is trashed or gone, as long as no
\* transaction acted on a parent, subtree or root that had changed since it
\* was read: trash, restore and purge in any order keep the tree navigable.
ActiveUnderActive ==
  crossed \cap {"parent", "subtree", "restore"} = {} =>
    \A i \in Items : Active(i) => ParentActive(row[i].parent)

\* The folders form a tree unless a move was overtaken by another, or one batch
\* was restored twice at once.
Acyclic ==
  crossed \cap {"cycle", "restore"} = {} => \A S \in SUBSET Folders : ~Loop(S)

\* Whatever is in the trash leaves it: restored, or purged by the janitor.
TrashEmptied == \A i \in Items : row[i].st = "trashed" ~> row[i].st # "trashed"

\* What the comment on Restore says: when the parent was purged the batch is
\* restored at the root.  So within its seven days a trashed item has a batch
\* root to restore it by.
Restorable ==
  \A i \in Items : row[i].st = "trashed" /\ row[i].batch > expired =>
    \E r \in Items : IsRoot(r, row[i].batch)
=============================================================================
