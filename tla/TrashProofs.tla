---------------------------- MODULE TrashProofs ----------------------------
(***************************************************************************)
(* For every set of folders, files and handlers: the rows of one workspace *)
(* keep their types, no step deletes an active file, and, unless a purge   *)
(* acted on a batch that changed after it was read, every file that has a  *)
(* row has its blob and is counted once in the quota; nothing active lies  *)
(* under what is trashed, a purge leaves no blob behind, and the folders   *)
(* stay a tree, unless transactions crossed as the properties say.  The    *)
(* sections at the end are about the pages that show the files of a        *)
(* workspace: the trash with the sidebar (TrashView), and Starred, Recent  *)
(* and the audit log (PagedLists).                                         *)
(***************************************************************************)
EXTENDS Trash, Sequences, FiniteSetTheorems, TLAPS

\* TypeOK by the part of the state an action touches.
RowType ==
  /\ row \in [Items -> Row]
  /\ \A i \in Items : row[i].st = "trashed" <=> row[i].batch # 0
CountType ==
  /\ batches \in 0..MaxBatches /\ expired \in 0..batches
  /\ blobs \subseteq Files /\ used \in Nat /\ faults \in Nat
  /\ crossed \subseteq {"parent", "cycle", "subtree", "restore", "purge"}
WorkType == pc \in [Handlers -> Pc] /\ req \in [Handlers -> Request]

\* What the handlers on their way rely on: the item they are about, a walk that
\* stands at a folder, a batch that was drawn, and the files gathered for it.
OnItem == {"insert", "walk", "move", "trash", "restoreParent", "restore"}
HoldOK(h) ==
  /\ pc[h] \in OnItem => req[h].item \in Items
  /\ pc[h] = "walk" => req[h].at \in Folders
  /\ pc[h] = "restoreParent" => req[h].parent \in Folders
  /\ pc[h] \in {"restoreParent", "restore", "purge"} => req[h].batch \in 1..MaxBatches
  /\ pc[h] \in {"purge", "dropBlobs"} => req[h].set \subseteq Files
  /\ pc[h] = "purge" => req[h].set = req[h].seen.set
HoldInv == \A h \in Handlers : HoldOK(h)

\* An id that is being inserted has no row yet and is one handler's only.
FreshInv ==
  /\ pc[janitor] \notin OnItem
  /\ \A h \in Handlers : pc[h] = "insert" => row[req[h].item].st = "new"
  /\ \A h, v \in Handlers :
       pc[h] = "insert" /\ pc[v] = "insert" /\ req[h].item = req[v].item => h = v

TypeInv == RowType /\ CountType /\ WorkType /\ HoldInv

----------------------------------------------------------------------------
(* The helpers *)

LEMMA BoundsFacts == 0 \in 0..MaxBatches /\ 1..MaxBatches \subseteq 0..MaxBatches
  BY BoundsAssumption

LEMMA NoRequestType ==
  /\ NoRequest \in Request /\ NoRequest.todo = {} /\ NoRequest.set = {}
  /\ NoFacts \in Facts
  BY BoundsFacts DEF NoRequest, Request, NoFacts, Facts

\* Below(d, R) is d and some of R.
LEMMA BelowType ==
  ASSUME NEW d \in Folders, NEW R \in SUBSET Folders
  PROVE  Below(d, R) \subseteq R \cup {d}
<1> SUFFICES ASSUME NEW e \in Below(d, R)
             PROVE  e \in R \cup {d}
    OBVIOUS
<1>1. R \cup {d} \in SUBSET Folders /\ d \in R \cup {d}
  OBVIOUS
<1>2. QED
  BY <1>1 DEF Below

LEMMA SubtreeType ==
  ASSUME NEW d \in Folders
  PROVE  Subtree(d) \subseteq Folders
<1>1. Below(d, {f \in Folders : Active(f)}) \subseteq {f \in Folders : Active(f)} \cup {d}
  BY BelowType
<1>2. QED
  BY <1>1 DEF Subtree

LEMMA WithContentsType ==
  ASSUME NEW d \in Folders
  PROVE  WithContents(d) \subseteq {f \in Folders : Exists(f)} \cup {d}
  BY BelowType DEF WithContents

\* What DELETE of a drawn batch takes: trashed rows of that batch and folders
\* that have a row.
LEMMA DeletedRows ==
  ASSUME RowType, NEW b \in 1..MaxBatches
  PROVE  /\ UNION {WithContents(d) : d \in InBatch(b) \cap Folders} \subseteq {f \in Folders : Exists(f)}
         /\ \A i \in InBatch(b) : i \in Items /\ row[i].st = "trashed"
<1>1. \A i \in InBatch(b) : i \in Items /\ row[i].st = "trashed"
  BY DEF InBatch, RowType
<1>2. ASSUME NEW d \in InBatch(b) \cap Folders
      PROVE  WithContents(d) \subseteq {f \in Folders : Exists(f)}
  BY <1>1, <1>2, WithContentsType DEF Exists
<1>3. QED
  BY <1>1, <1>2

LEMMA FaultType ==
  ASSUME CountType, Fault \/ UNCHANGED faults
  PROVE  faults' \in Nat
  BY DEF CountType, Fault

\* A handler that ends, starts or goes on leaves the others' work alone.
LEMMA FinishType ==
  ASSUME WorkType, HoldInv, NEW h \in Handlers, Finish(h)
  PROVE  WorkType' /\ HoldInv'
<1>1. WorkType'
  BY NoRequestType DEF WorkType, Finish, Pc
<1>2. ASSUME NEW v \in Handlers
      PROVE  HoldOK(v)'
  BY <1>2 DEF WorkType, HoldInv, HoldOK, Finish, OnItem
<1>3. QED
  BY <1>1, <1>2 DEF HoldInv

LEMMA FinishMovingType ==
  ASSUME WorkType, HoldInv, NEW h \in Handlers, FinishMoving(h)
  PROVE  WorkType' /\ HoldInv'
<1>1. \A r \in Request : [r EXCEPT !.seen.moved = TRUE] \in Request
  BY DEF Request, Facts
<1>2. WorkType'
  BY <1>1, NoRequestType DEF WorkType, FinishMoving, Pc
<1>3. ASSUME NEW v \in Handlers
      PROVE  HoldOK(v)'
  <2>1. CASE v = h
    BY <2>1 DEF WorkType, FinishMoving, HoldOK, OnItem
  <2>2. CASE v # h
    <3>1. /\ pc'[v] = pc[v]
          /\ req'[v].item = req[v].item /\ req'[v].at = req[v].at /\ req'[v].set = req[v].set
          /\ req'[v].parent = req[v].parent /\ req'[v].batch = req[v].batch
          /\ pc[v] \notin {"walk", "move"} => req'[v] = req[v]
      BY <2>2 DEF WorkType, FinishMoving, Request
    <3>2. QED
      BY <3>1 DEF HoldInv, HoldOK
  <2>3. QED
    BY <2>1, <2>2
<1>4. QED
  BY <1>2, <1>3 DEF HoldInv

LEMMA GoOnType ==
  ASSUME WorkType, HoldInv, NEW h \in Handlers, NEW label \in Pc, NEW r \in Request,
         pc' = [pc EXCEPT ![h] = label], req' = [req EXCEPT ![h] = r],
         HoldOK(h)'
  PROVE  WorkType' /\ HoldInv'
<1>1. WorkType'
  BY DEF WorkType
<1>2. ASSUME NEW v \in Handlers, v # h
      PROVE  HoldOK(v)'
  BY <1>2 DEF WorkType, HoldInv, HoldOK
<1>3. QED
  BY <1>1, <1>2 DEF HoldInv

LEMMA NextBatchType ==
  ASSUME WorkType, HoldInv, NEW h \in Handlers, NextBatch(h)
  PROVE  WorkType' /\ HoldInv'
<1>1. CASE Finish(h)
  BY <1>1, FinishType
<1>2. CASE Goto(h, "gather") /\ UNCHANGED req
  <2>1. WorkType'
    BY <1>2 DEF WorkType, Goto, Pc
  <2>2. ASSUME NEW v \in Handlers
        PROVE  HoldOK(v)'
    BY <1>2 DEF WorkType, HoldInv, HoldOK, Goto, OnItem
  <2>3. QED
    BY <2>1, <2>2 DEF HoldInv
<1>3. QED
  BY <1>1, <1>2 DEF NextBatch

----------------------------------------------------------------------------
(* Types *)

LEMMA InitType == Init => TypeInv /\ FreshInv
<1> SUFFICES ASSUME Init
             PROVE  TypeInv /\ FreshInv
    OBVIOUS
<1>1. RowType
  BY BoundsFacts DEF Init, RowType, NoRow, Row
<1>2. CountType
  BY BoundsAssumption DEF Init, CountType
<1>3. WorkType
  BY NoRequestType DEF Init, WorkType, Pc
<1>4. HoldInv /\ FreshInv
  BY DEF Init, HoldInv, HoldOK, FreshInv, OnItem, Handlers
<1>5. QED
  BY <1>1, <1>2, <1>3, <1>4 DEF TypeInv

\* Finishing and going on keep rows apart from those of the handler's own step.
LEMMA StartType ==
  ASSUME WorkType, HoldInv, NEW h \in Handlers, NEW label \in Pc, NEW r \in Request,
         Start(h, label, r),
         label \in OnItem => r.item \in Items,
         label = "walk" => r.at \in Folders,
         label = "restoreParent" => r.parent \in Folders,
         label \in {"restoreParent", "restore"} => r.batch \in 1..MaxBatches,
         label \notin {"purge", "dropBlobs"}
  PROVE  WorkType' /\ HoldInv'
<1>1. HoldOK(h)'
  BY DEF Start, WorkType, HoldOK
<1>2. QED
  BY <1>1, GoOnType DEF Start

\* A handler is admitted.
LEMMA BeginType ==
  ASSUME TypeInv, NEW w \in Workers,
         \/ \E i \in Items, p \in Folders \cup {NONE} : Create(w, i, p) \/ BeginMove(w, i, p)
         \/ \E d \in Folders : BeginTrash(w, d)
         \/ \E i \in Items, b \in 1..MaxBatches : BeginRestore(w, i, b)
         \/ \E b \in 1..MaxBatches : BeginPurge(w, b)
  PROVE  TypeInv'
<1> USE DEF TypeInv
<1>1. w \in Handlers
  BY DEF Handlers
<1>2. RowType' /\ CountType'
  <2>1. UNCHANGED <<row, blobs, used, batches, expired, faults, crossed>>
    BY DEF Create, BeginMove, BeginTrash, BeginRestore, BeginPurge
  <2>2. QED
    BY <2>1 DEF RowType, CountType
<1>3. ASSUME NEW i \in Items, NEW p \in Folders \cup {NONE}, Create(w, i, p)
      PROVE  WorkType' /\ HoldInv'
  <2> DEFINE r == [NoRequest EXCEPT !.item = i, !.parent = p, !.seen.active = ParentActive(p)]
  <2>1. r \in Request /\ r.item = i
    BY NoRequestType DEF NoRequest, Request, Facts, NoFacts, ParentActive, Active
  <2>2. Start(w, "insert", r) /\ "insert" \in Pc
    BY <1>3 DEF Create, Pc
  <2>3. QED
    BY <1>1, <2>1, <2>2, StartType
<1>4. ASSUME NEW i \in Items, NEW p \in Folders \cup {NONE}, BeginMove(w, i, p)
      PROVE  WorkType' /\ HoldInv'
  <2> DEFINE r == [NoRequest EXCEPT !.item = i, !.parent = p, !.at = p,
                                    !.seen.active = ParentActive(p)]
  <2>1. r \in Request /\ r.item = i /\ r.at = p
    BY NoRequestType DEF NoRequest, Request, Facts, NoFacts, ParentActive, Active
  <2>2. PICK label \in {"walk", "move"} : Start(w, label, r) /\ (label = "walk" => p \in Folders)
    BY <1>4 DEF BeginMove
  <2>3. label \in Pc
    BY DEF Pc
  <2>4. QED
    BY <1>1, <2>1, <2>2, <2>3, StartType
<1>5. ASSUME NEW d \in Folders, BeginTrash(w, d)
      PROVE  WorkType' /\ HoldInv'
  <2> DEFINE r == [NoRequest EXCEPT !.item = d, !.set = Subtree(d), !.seen.set = Subtree(d)]
  <2>1. r \in Request /\ r.item = d
    BY NoRequestType, SubtreeType DEF NoRequest, Request, Facts, NoFacts, Items
  <2>2. Start(w, "trash", r) /\ "trash" \in Pc /\ d \in Items
    BY <1>5 DEF BeginTrash, Pc, Items
  <2>3. QED
    BY <1>1, <2>1, <2>2, StartType
<1>6. ASSUME NEW i \in Items, NEW b \in 1..MaxBatches, BeginRestore(w, i, b)
      PROVE  WorkType' /\ HoldInv'
  <2> DEFINE r == [NoRequest EXCEPT !.item = i, !.parent = row[i].parent, !.batch = b]
  <2>1. row[i].parent \in Folders \cup {NONE}
    BY DEF RowType, Row
  <2>2. r \in Request /\ r.item = i /\ r.parent = row[i].parent /\ r.batch = b
    BY <2>1, BoundsFacts, NoRequestType DEF NoRequest, Request
  <2>3. PICK label \in {"restore", "restoreParent"} :
          Start(w, label, r) /\ (label = "restoreParent" => row[i].parent # NONE)
    BY <1>6 DEF BeginRestore
  <2>4. label \in Pc
    BY DEF Pc
  <2>5. QED
    BY <1>1, <2>1, <2>2, <2>3, <2>4, StartType
<1>7. ASSUME NEW b \in 1..MaxBatches, BeginPurge(w, b)
      PROVE  WorkType' /\ HoldInv'
  <2>1. [NoRequest EXCEPT !.todo = {b}] \in Request
    BY NoRequestType DEF NoRequest, Request
  <2>2. Start(w, "gather", [NoRequest EXCEPT !.todo = {b}]) /\ "gather" \in Pc
    BY <1>7 DEF BeginPurge, Pc
  <2>3. QED
    BY <1>1, <2>1, <2>2, StartType DEF OnItem
<1>8. QED
  BY <1>2, <1>3, <1>4, <1>5, <1>6, <1>7

\* A handler goes up the tree, or finds out where to restore to.
LEMMA WalkType ==
  ASSUME TypeInv, NEW w \in Workers, WalkUp(w) \/ RestoreParent(w)
  PROVE  TypeInv'
<1> USE DEF TypeInv
<1>1. w \in Handlers /\ req[w] \in Request
  BY DEF Handlers, WorkType
<1>2. RowType' /\ CountType'
  BY DEF WalkUp, RestoreParent, RowType, CountType
<1>3. CASE WalkUp(w)
  <2>1. pc[w] = "walk" /\ req[w].item \in Items /\ req[w].at \in Items
    BY <1>1, <1>3 DEF WalkUp, HoldInv, HoldOK, OnItem, Items
  <2>2. CASE row[req[w].at].parent # NONE /\ req' = [req EXCEPT ![w].at = row[req[w].at].parent]
             /\ UNCHANGED pc
    <3> DEFINE r == [req[w] EXCEPT !.at = row[req[w].at].parent]
    <3>1. row[req[w].at].parent \in Folders
      BY <2>1, <2>2 DEF RowType, Row
    <3>2. r \in Request /\ r.item = req[w].item /\ r.at \in Folders
      BY <1>1, <3>1 DEF Request
    <3>3. pc' = [pc EXCEPT ![w] = "walk"] /\ req' = [req EXCEPT ![w] = r] /\ "walk" \in Pc
      BY <2>1, <2>2 DEF WorkType, Pc
    <3>4. HoldOK(w)'
      BY <1>1, <2>1, <3>2, <3>3 DEF HoldOK, WorkType
    <3>5. QED
      BY <1>1, <1>2, <3>2, <3>3, <3>4, GoOnType
  <2>3. CASE Goto(w, "move") /\ UNCHANGED req
    <3>1. pc' = [pc EXCEPT ![w] = "move"] /\ req' = [req EXCEPT ![w] = req[w]] /\ "move" \in Pc
      BY <2>3 DEF Goto, WorkType, Pc
    <3>2. HoldOK(w)'
      BY <1>1, <2>1, <2>3, <3>1 DEF HoldOK, WorkType
    <3>3. QED
      BY <1>1, <1>2, <3>1, <3>2, GoOnType
  <2>4. CASE Finish(w)
    BY <1>1, <1>2, <2>4, FinishType
  <2>5. QED
    BY <1>3, <2>2, <2>3, <2>4 DEF WalkUp
<1>4. CASE RestoreParent(w)
  <2>1. /\ pc[w] = "restoreParent" /\ req[w].item \in Items /\ req[w].parent \in Folders
        /\ req[w].batch \in 1..MaxBatches
    BY <1>1, <1>4 DEF RestoreParent, HoldInv, HoldOK, OnItem
  <2> DEFINE p == IF Active(req[w].parent) THEN req[w].parent ELSE NONE
             r == [req[w] EXCEPT !.parent = p, !.seen.active = ParentActive(p)]
  <2>2. p \in Folders \cup {NONE} /\ ParentActive(p) \in BOOLEAN
    BY <2>1 DEF ParentActive, Active
  <2>3. r \in Request /\ r.item = req[w].item /\ r.batch = req[w].batch
    BY <1>1, <2>2 DEF Request, Facts
  <2>4. pc' = [pc EXCEPT ![w] = "restore"] /\ req' = [req EXCEPT ![w] = r] /\ "restore" \in Pc
    BY <1>4 DEF RestoreParent, Goto, WorkType, Pc
  <2>5. HoldOK(w)'
    BY <1>1, <2>1, <2>3, <2>4 DEF HoldOK, WorkType
  <2>6. QED
    BY <1>1, <1>2, <2>3, <2>4, <2>5, GoOnType
<1>5. QED
  BY <1>3, <1>4

\* What a handler holds, by its call.
LEMMA HeldFacts ==
  ASSUME TypeInv, NEW h \in Handlers
  PROVE  /\ req[h] \in Request
         /\ pc[h] \in OnItem => req[h].item \in Items
         /\ req[h].parent \in Folders \cup {NONE}
         /\ pc[h] \in {"restore", "purge"} => req[h].batch \in 1..MaxBatches
         /\ pc[h] \in {"purge", "dropBlobs"} => req[h].set \subseteq Files
         /\ pc[h] = "purge" => req[h].set = req[h].seen.set
  BY DEF TypeInv, WorkType, HoldInv, HoldOK, Request

LEMMA CrossType ==
  ASSUME CountType, NEW K \in SUBSET {"parent", "cycle", "subtree", "restore", "purge"},
         Cross(K) \/ UNCHANGED crossed
  PROVE  crossed' \subseteq {"parent", "cycle", "subtree", "restore", "purge"}
  BY DEF CountType, Cross

LEMMA ChangedType == \A k, p : Changed(k, p) \subseteq {k}
  BY DEF Changed

LEMMA OneBlob ==
  ASSUME NEW i
  PROVE  Cardinality({i} \cap Files) = IF i \in Files THEN 1 ELSE 0
<1>1. CASE i \in Files
  <2>1. {i} \cap Files = {i}
    BY <1>1
  <2>2. QED
    BY <1>1, <2>1, FS_Singleton
<1>2. CASE i \notin Files
  <2>1. {i} \cap Files = {}
    BY <1>2
  <2>2. QED
    BY <1>2, <2>1, FS_EmptySet
<1>3. QED
  BY <1>1, <1>2

\* Rows come in, and move.
LEMMA InsertType ==
  ASSUME TypeInv, FreshInv, NEW w \in Workers, Insert(w)
  PROVE  TypeInv'
<1> USE DEF TypeInv
<1> DEFINE i == req[w].item
           p == req[w].parent
<1>1. w \in Handlers /\ pc[w] = "insert" /\ Finish(w)
  BY DEF Insert, Handlers
<1>2. i \in Items /\ p \in Folders \cup {NONE}
  BY <1>1, HeldFacts DEF OnItem
<1>3. row[i].st = "new" /\ row[i] \in Row /\ row[i].batch = 0
  BY <1>1, <1>2 DEF FreshInv, RowType
<1>4. WorkType' /\ HoldInv'
  BY <1>1, FinishType
<1>5. CASE UNCHANGED <<row, blobs, used, crossed>>
  BY <1>4, <1>5 DEF Insert, RowType, CountType
<1>6. CASE /\ row' = [row EXCEPT ![i].st = "active", ![i].parent = p]
           /\ blobs' = blobs \cup ({i} \cap Files)
           /\ used' = used + Cardinality({i} \cap Files)
           /\ Cross(ParentLeft(w))
  <2>1. RowType'
    <3>1. row' \in [Items -> Row]
      BY <1>2, <1>3, <1>6 DEF RowType, Row
    <3>2. \A j \in Items : j # i => row'[j] = row[j]
      BY <1>6 DEF RowType
    <3>3. row'[i].st = "active" /\ row'[i].batch = 0
      BY <1>2, <1>3, <1>6 DEF RowType, Row
    <3>4. QED
      BY <3>1, <3>2, <3>3 DEF RowType
  <2>2. CountType'
    <3>1. used' \in Nat
      BY <1>6, OneBlob DEF CountType
    <3>2. crossed' \subseteq {"parent", "cycle", "subtree", "restore", "purge"}
      BY <1>6, ChangedType, CrossType DEF ParentLeft
    <3>3. UNCHANGED <<batches, expired, faults>>
      BY DEF Insert
    <3>4. QED
      BY <1>6, <3>1, <3>2, <3>3 DEF CountType
  <2>3. QED
    BY <1>4, <2>1, <2>2
<1>7. QED
  BY <1>5, <1>6 DEF Insert

LEMMA MoveType ==
  ASSUME TypeInv, NEW w \in Workers, Move(w)
  PROVE  TypeInv'
<1> USE DEF TypeInv
<1> DEFINE i == req[w].item
           p == req[w].parent
<1>1. w \in Handlers /\ pc[w] = "move"
  BY DEF Move, Handlers
<1>2. i \in Items /\ p \in Folders \cup {NONE}
  BY <1>1, HeldFacts DEF OnItem
<1>3. WorkType' /\ HoldInv'
  BY <1>1, FinishType, FinishMovingType DEF Move
<1>4. RowType'
  <2>1. CASE row' = [row EXCEPT ![i].parent = p]
    <3>1. row' \in [Items -> Row]
      BY <1>2, <2>1 DEF RowType, Row
    <3>2. \A j \in Items : row'[j].st = row[j].st /\ row'[j].batch = row[j].batch
      BY <1>2, <2>1 DEF RowType, Row
    <3>3. QED
      BY <3>1, <3>2 DEF RowType
  <2>2. CASE UNCHANGED row
    BY <2>2 DEF RowType
  <2>3. QED
    BY <2>1, <2>2 DEF Move
<1>5. CountType'
  <2>1. crossed' \subseteq {"parent", "cycle", "subtree", "restore", "purge"}
    BY ChangedType, CrossType DEF ParentLeft, Move
  <2>2. QED
    BY <2>1 DEF Move, CountType
<1>6. QED
  BY <1>3, <1>4, <1>5

\* Rows go to the trash and come back.
LEMMA TrashedType ==
  ASSUME RowType, CountType, batches < MaxBatches, NEW S \in SUBSET Items, NEW root,
         root \in [Items -> BOOLEAN],
         row' = [i \in Items |-> IF i \in S THEN TrashRow(row[i], batches + 1, root[i]) ELSE row[i]]
  PROVE  RowType'
<1>1. batches + 1 \in 0..MaxBatches /\ batches + 1 # 0
  BY BoundsAssumption DEF CountType
<1>2. ASSUME NEW i \in Items
      PROVE  row'[i] \in Row /\ (row'[i].st = "trashed" <=> row'[i].batch # 0)
  <2>1. CASE i \in S
    <3>1. row'[i] = TrashRow(row[i], batches + 1, root[i]) /\ row[i] \in Row /\ root[i] \in BOOLEAN
      BY <2>1 DEF RowType
    <3>2. QED
      BY <1>1, <3>1 DEF TrashRow, Row
  <2>2. CASE i \notin S
    BY <2>2 DEF RowType
  <2>3. QED
    BY <2>1, <2>2
<1>3. QED
  BY <1>2 DEF RowType

LEMMA TrashType ==
  ASSUME TypeInv, (\E w \in Workers : Trash(w)) \/ (\E f \in Files : TrashFile(f))
  PROVE  TypeInv'
<1> USE DEF TypeInv
<1>1. ASSUME NEW w \in Workers, Trash(w)
      PROVE  TypeInv'
  <2> DEFINE root == [i \in Items |-> i = req[w].item]
             T == {i \in Items : Active(i) /\ (i \in req[w].set \/ (i \in Files /\ row[i].parent \in req[w].set))}
  <2>1. RowType'
    <3>1. batches < MaxBatches
      BY <1>1 DEF Trash
    <3>2. row' = [i \in Items |-> IF i \in T THEN TrashRow(row[i], batches + 1, root[i]) ELSE row[i]]
      BY <1>1 DEF Trash
    <3>3. QED
      BY <3>1, <3>2, TrashedType
  <2>2. CountType'
    <3>1. crossed' \subseteq {"parent", "cycle", "subtree", "restore", "purge"}
      BY <1>1, ChangedType, CrossType DEF Trash
    <3>2. QED
      BY <1>1, <3>1, BoundsAssumption DEF Trash, CountType
  <2>3. WorkType' /\ HoldInv'
    BY <1>1, FinishType DEF Trash, Handlers
  <2>4. QED
    BY <2>1, <2>2, <2>3
<1>2. ASSUME NEW f \in Files, TrashFile(f)
      PROVE  TypeInv'
  <2> DEFINE root == [i \in Items |-> TRUE]
  <2>1. row' = [i \in Items |-> IF i \in {f} THEN TrashRow(row[i], batches + 1, root[i]) ELSE row[i]]
    BY <1>2 DEF TrashFile, RowType, TrashRow, Items
  <2>2. RowType'
    <3>1. batches < MaxBatches /\ {f} \in SUBSET Items /\ root \in [Items -> BOOLEAN]
      BY <1>2 DEF TrashFile, Items
    <3> HIDE DEF root
    <3>2. QED
      BY <2>1, <3>1, TrashedType
  <2>3. CountType'
    BY <1>2, BoundsAssumption DEF TrashFile, CountType
  <2>4. WorkType' /\ HoldInv'
    BY <1>2 DEF TrashFile, WorkType, HoldInv, HoldOK
  <2>5. QED
    BY <2>2, <2>3, <2>4
<1>3. QED
  BY <1>1, <1>2

LEMMA RestoreType ==
  ASSUME TypeInv, NEW w \in Workers, Restore(w)
  PROVE  TypeInv'
<1> USE DEF TypeInv
<1>1. w \in Handlers /\ pc[w] = "restore"
  BY DEF Restore, Handlers
<1>2. /\ req[w].item \in Items /\ req[w].parent \in Folders \cup {NONE}
      /\ req[w].batch \in 1..MaxBatches
  BY <1>1, HeldFacts DEF OnItem
<1>3. WorkType' /\ HoldInv'
  BY <1>1, FinishType, FinishMovingType DEF Restore
<1>4. CountType'
  <2>1. crossed' \subseteq {"parent", "cycle", "subtree", "restore", "purge"}
    BY ChangedType, CrossType DEF ParentLeft, Restore
  <2>2. QED
    BY <2>1 DEF Restore, CountType
<1>5. RowType'
  <2> DEFINE i == req[w].item
             p == req[w].parent
             b == req[w].batch
             Redirected(j) == IF j = i /\ Exists(i) THEN [row[j] EXCEPT !.parent = p] ELSE row[j]
  <2>1. CASE row' = [j \in Items |->
               IF j \in InBatch(b) THEN Reactivate(Redirected(j)) ELSE Redirected(j)]
    <3>1. ASSUME NEW j \in Items
          PROVE  row'[j] \in Row /\ (row'[j].st = "trashed" <=> row'[j].batch # 0)
      <4>1. /\ Redirected(j) \in Row /\ Redirected(j).st = row[j].st
            /\ Redirected(j).batch = row[j].batch
        BY <1>2 DEF RowType, Row
      <4>2. Reactivate(Redirected(j)) \in Row /\ Reactivate(Redirected(j)).st = "active"
            /\ Reactivate(Redirected(j)).batch = 0
        <5> HIDE DEF Redirected
        <5>1. QED
          BY <4>1, BoundsFacts DEF Reactivate, Row
      <4>3. row'[j] = IF j \in InBatch(b) THEN Reactivate(Redirected(j)) ELSE Redirected(j)
        BY <2>1
      <4> HIDE DEF Redirected
      <4>4. QED
        BY <4>1, <4>2, <4>3 DEF RowType
    <3>2. QED
      BY <2>1, <3>1 DEF RowType
  <2>2. CASE UNCHANGED row
    BY <2>2 DEF RowType
  <2>3. QED
    BY <2>1, <2>2 DEF Restore
<1>6. QED
  BY <1>3, <1>4, <1>5

\* Batches expire and rows go for good.
LEMMA PurgeExpiredType ==
  ASSUME TypeInv, PurgeExpired \/ Expire
  PROVE  TypeInv'
<1> USE DEF TypeInv
<1>1. CASE PurgeExpired
  <2>1. Due \subseteq 1..MaxBatches
    BY BoundsAssumption DEF Due, CountType
  <2>2. [NoRequest EXCEPT !.todo = Due] \in Request
    BY <2>1, NoRequestType DEF NoRequest, Request
  <2>3. Start(janitor, "gather", [NoRequest EXCEPT !.todo = Due]) /\ "gather" \in Pc
        /\ janitor \in Handlers
    BY <1>1 DEF PurgeExpired, Pc, Handlers
  <2>4. WorkType' /\ HoldInv'
    BY <2>2, <2>3, StartType DEF OnItem
  <2>5. QED
    BY <1>1, <2>4 DEF PurgeExpired, RowType, CountType
<1>2. CASE Expire
  BY <1>2, BoundsAssumption DEF Expire, RowType, CountType, WorkType, HoldInv, HoldOK
<1>3. QED
  BY <1>1, <1>2

LEMMA GatherType ==
  ASSUME TypeInv, NEW h \in Handlers, Gather(h)
  PROVE  TypeInv'
<1> USE DEF TypeInv
<1>1. PICK b \in req[h].todo : req' = [req EXCEPT ![h] = Gathered(@, b, InBatch(b) \cap Files)]
  BY DEF Gather
<1>2. req[h] \in Request /\ b \in 1..MaxBatches /\ b \in 0..MaxBatches
  BY BoundsFacts DEF WorkType, Request
<1> DEFINE r == Gathered(req[h], b, InBatch(b) \cap Files)
<1>3. InBatch(b) \cap Files \subseteq Items
  BY DEF Items
<1>4. r \in Request /\ r.batch = b /\ r.set = InBatch(b) \cap Files /\ r.seen.set = r.set
  BY <1>2, <1>3 DEF Gathered, Request, Facts
<1>5. pc' = [pc EXCEPT ![h] = "purge"] /\ req' = [req EXCEPT ![h] = r] /\ "purge" \in Pc
  BY <1>1 DEF Gather, Goto, Pc
<1> HIDE DEF r
<1>6. HoldOK(h)'
  BY <1>2, <1>4, <1>5 DEF HoldOK, WorkType, OnItem
<1>7. WorkType' /\ HoldInv'
  BY <1>4, <1>5, <1>6, GoOnType
<1>8. QED
  BY <1>7 DEF Gather, RowType, CountType

LEMMA DeleteType ==
  ASSUME RowType, NEW b \in 1..MaxBatches, NEW F, DeleteRows(b, F)
  PROVE  RowType'
<1> DEFINE D == UNION {WithContents(d) : d \in InBatch(b) \cap Folders}
<1>1. row' = [i \in Items |->
        IF i \in D \cup InBatch(b) THEN NoRow("gone")
        ELSE IF i \in Files /\ row[i].parent \in D THEN [row[i] EXCEPT !.parent = NONE]
        ELSE row[i]]
  BY DEF DeleteRows
<1> HIDE DEF D
<1>2. NoRow("gone") \in Row /\ NoRow("gone").st = "gone" /\ NoRow("gone").batch = 0
  BY BoundsFacts DEF NoRow, Row
<1>3. ASSUME NEW i \in Items
      PROVE  row'[i] \in Row /\ (row'[i].st = "trashed" <=> row'[i].batch # 0)
  <2>1. LET r == [row[i] EXCEPT !.parent = NONE]
        IN  r \in Row /\ r.st = row[i].st /\ r.batch = row[i].batch
    BY DEF RowType, Row
  <2>2. row'[i] \in {NoRow("gone"), [row[i] EXCEPT !.parent = NONE], row[i]}
    BY <1>1
  <2>3. QED
    BY <1>2, <2>1, <2>2 DEF RowType
<1>4. QED
  BY <1>1, <1>3 DEF RowType

LEMMA PurgeType ==
  ASSUME TypeInv, NEW h \in Handlers, Purge(h)
  PROVE  TypeInv'
<1> USE DEF TypeInv
<1> DEFINE F == req[h].set
           b == req[h].batch
<1>1. /\ pc[h] = "purge" /\ req[h] \in Request /\ b \in 1..MaxBatches /\ F \subseteq Files
      /\ UNCHANGED <<blobs, batches, expired>>
  BY HeldFacts DEF Purge
<1>2. CASE /\ DeleteRows(b, F)
           /\ used' = IF used < Cardinality(F) THEN 0 ELSE used - Cardinality(F)
           /\ Cross(Changed("purge", req[h].seen.set # InBatch(b) \cap Files))
           /\ Goto(h, "dropBlobs")
           /\ UNCHANGED <<req, faults>>
  <2>1. RowType'
    BY <1>1, <1>2, DeleteType
  <2>2. CountType'
    <3>1. Cardinality(F) \in Nat
      BY <1>1, FiniteAssumption, FS_Subset, FS_CardinalityType
    <3>2. used' \in Nat
      BY <1>2, <3>1 DEF CountType
    <3>3. crossed' \subseteq {"parent", "cycle", "subtree", "restore", "purge"}
      BY <1>2, ChangedType, CrossType
    <3>4. QED
      BY <1>1, <1>2, <3>2, <3>3 DEF CountType
  <2>3. WorkType' /\ HoldInv'
    <3>1. pc' = [pc EXCEPT ![h] = "dropBlobs"] /\ req' = [req EXCEPT ![h] = req[h]] /\ "dropBlobs" \in Pc
      BY <1>2 DEF Goto, WorkType, Pc
    <3>2. HoldOK(h)'
      BY <1>1, <1>2, <3>1 DEF HoldOK, WorkType, OnItem
    <3>3. QED
      BY <1>1, <3>1, <3>2, GoOnType
  <2>4. QED
    BY <2>1, <2>2, <2>3
<1>3. CASE Fault /\ NextBatch(h) /\ UNCHANGED <<row, used, crossed>>
  <2>1. WorkType' /\ HoldInv'
    BY <1>3, NextBatchType
  <2>2. RowType' /\ CountType'
    BY <1>1, <1>3, FaultType DEF RowType, CountType
  <2>3. QED
    BY <2>1, <2>2
<1>4. QED
  BY <1>2, <1>3 DEF Purge

LEMMA DropType ==
  ASSUME TypeInv, NEW h \in Handlers, DropBlobs(h) \/ DropRequest(h)
  PROVE  TypeInv'
<1> USE DEF TypeInv
<1>1. WorkType' /\ HoldInv'
  BY FinishType, NextBatchType DEF DropBlobs, DropRequest
<1>2. UNCHANGED <<row, used, batches, expired, crossed>> /\ blobs' \subseteq blobs
  BY DEF DropBlobs, DropRequest
<1>3. faults' \in Nat
  BY FaultType DEF DropBlobs, DropRequest
<1>4. RowType' /\ CountType'
  BY <1>2, <1>3 DEF RowType, CountType
<1>5. QED
  BY <1>1, <1>4

LEMMA NextType == TypeInv /\ FreshInv /\ [Next]_vars => TypeInv'
<1> SUFFICES ASSUME TypeInv, FreshInv, [Next]_vars
             PROVE  TypeInv'
    OBVIOUS
<1>1. CASE UNCHANGED vars
  BY <1>1 DEF vars, TypeInv, RowType, CountType, WorkType, HoldInv, HoldOK
<1>2. ASSUME NEW w \in Workers, NEW i \in Items, NEW p \in Folders \cup {NONE},
             Create(w, i, p) \/ BeginMove(w, i, p)
      PROVE  TypeInv'
  BY <1>2, BeginType
<1>3. ASSUME NEW w \in Workers,
             \/ \E d \in Folders : BeginTrash(w, d)
             \/ \E i \in Items, b \in 1..MaxBatches : BeginRestore(w, i, b)
             \/ \E b \in 1..MaxBatches : BeginPurge(w, b)
      PROVE  TypeInv'
  BY <1>3, BeginType
<1>4. ASSUME NEW w \in Workers,
             Insert(w) \/ WalkUp(w) \/ Move(w) \/ Trash(w) \/ RestoreParent(w) \/ Restore(w)
      PROVE  TypeInv'
  BY <1>4, InsertType, WalkType, MoveType, TrashType, RestoreType
<1>5. ASSUME NEW f \in Files, TrashFile(f)
      PROVE  TypeInv'
  BY <1>5, TrashType
<1>6. CASE Expire \/ PurgeExpired
  BY <1>6, PurgeExpiredType
<1>7. ASSUME NEW h \in Handlers, PurgeStep(h) \/ DropRequest(h)
      PROVE  TypeInv'
  BY <1>7, GatherType, PurgeType, DropType DEF PurgeStep
<1>8. QED
  BY <1>1, <1>2, <1>3, <1>4, <1>5, <1>6, <1>7 DEF Next

----------------------------------------------------------------------------
(* What a step does to the files *)

\* An item stays what it is, or changes between active and trashed.
SameLife(i) == row'[i].st = row[i].st \/ (Exists(i) /\ Exists(i)')

\* A step that neither stores nor deletes, and admits no insert.
QuietPc ==
  /\ \A h \in Handlers : pc'[h] \in {"insert", "dropBlobs"} =>
       pc'[h] = pc[h] /\ req'[h].item = req[h].item /\ req'[h].set = req[h].set
  /\ pc'[janitor] \notin OnItem
Quiet ==
  /\ \A i \in Items : SameLife(i)
  /\ UNCHANGED <<blobs, used>> /\ crossed \subseteq crossed'
  /\ QuietPc

LEMMA QuietGoto ==
  ASSUME TypeInv, FreshInv, NEW h \in Handlers, NEW label,
         label \notin {"insert", "dropBlobs"}, h = janitor => label \notin OnItem,
         pc' = [pc EXCEPT ![h] = label],
         \A v \in Handlers : v # h => req'[v].item = req[v].item /\ req'[v].set = req[v].set
  PROVE  QuietPc
<1>1. janitor \in Handlers
  BY DEF Handlers
<1>2. QED
  BY <1>1 DEF TypeInv, WorkType, FreshInv, QuietPc

LEMMA QuietFinish ==
  ASSUME TypeInv, FreshInv, NEW h \in Handlers, Finish(h) \/ FinishMoving(h)
  PROVE  QuietPc
<1>1. "idle" \notin OnItem
  BY DEF OnItem
<1>2. pc' = [pc EXCEPT ![h] = "idle"]
  BY DEF Finish, FinishMoving
<1>3. ASSUME NEW v \in Handlers, v # h
      PROVE  req'[v].item = req[v].item /\ req'[v].set = req[v].set
  BY <1>3 DEF Finish, FinishMoving, TypeInv, WorkType, Request
<1>4. QED
  BY <1>1, <1>2, <1>3, QuietGoto

LEMMA QuietWorker ==
  ASSUME TypeInv, FreshInv, NEW w \in Workers, NEW label,
         label \notin {"insert", "dropBlobs"}, NEW r,
         pc' = [pc EXCEPT ![w] = label], req' = [req EXCEPT ![w] = r] \/ UNCHANGED req
  PROVE  QuietPc
<1>1. w \in Handlers /\ w # janitor
  BY JanitorAssumption DEF Handlers
<1>2. \A v \in Handlers : v # w => req'[v].item = req[v].item /\ req'[v].set = req[v].set
  BY DEF TypeInv, WorkType
<1>3. QED
  BY <1>1, <1>2, QuietGoto

\* Reading, checking, starting.
LEMMA QuietRead ==
  ASSUME TypeInv, FreshInv, NEW w \in Workers,
         \/ \E i \in Items, p \in Folders \cup {NONE} : BeginMove(w, i, p)
         \/ \E d \in Folders : BeginTrash(w, d)
         \/ \E i \in Items, b \in 1..MaxBatches : BeginRestore(w, i, b)
         \/ \E b \in 1..MaxBatches : BeginPurge(w, b)
         \/ WalkUp(w) \/ RestoreParent(w)
  PROVE  Quiet
<1>1. UNCHANGED <<row, blobs, used, crossed>>
  BY DEF BeginMove, BeginTrash, BeginRestore, BeginPurge, WalkUp, RestoreParent
<1>2. QuietPc
  <2>1. ASSUME NEW label, NEW r, Start(w, label, r), label \notin {"insert", "dropBlobs"}
        PROVE  QuietPc
    BY <2>1, QuietWorker DEF Start
  <2>2. CASE \E i \in Items, p \in Folders \cup {NONE} : BeginMove(w, i, p)
    <3>1. \E label \in {"walk", "move"} : \E r : Start(w, label, r)
      BY <2>2, Zenon DEF BeginMove
    <3>2. QED
      BY <2>1, <3>1
  <2>3. CASE \E d \in Folders : BeginTrash(w, d)
    <3>1. \E label \in {"trash"} : \E r : Start(w, label, r)
      BY <2>3, Zenon DEF BeginTrash
    <3>2. QED
      BY <2>1, <3>1
  <2>4. CASE \E i \in Items, b \in 1..MaxBatches : BeginRestore(w, i, b)
    <3>1. \E label \in {"restore", "restoreParent"} : \E r : Start(w, label, r)
      BY <2>4, Zenon DEF BeginRestore
    <3>2. QED
      BY <2>1, <3>1
  <2>5. CASE \E b \in 1..MaxBatches : BeginPurge(w, b)
    BY <2>1, <2>5 DEF BeginPurge
  <2>6. CASE WalkUp(w)
    <3>1. CASE req' = [req EXCEPT ![w].at = row[req[w].at].parent] /\ UNCHANGED pc
      <4>1. pc' = [pc EXCEPT ![w] = "walk"]
        BY <2>6, <3>1 DEF WalkUp, TypeInv, WorkType
      <4>2. req' = [req EXCEPT ![w] = [req[w] EXCEPT !.at = row[req[w].at].parent]]
        BY <3>1
      <4>3. QED
        BY <4>1, <4>2, QuietWorker
    <3>2. CASE Goto(w, "move") /\ UNCHANGED req
      BY <3>2, QuietWorker DEF Goto
    <3>3. CASE Finish(w)
      BY <3>3, QuietFinish DEF Handlers
    <3>4. QED
      BY <2>6, <3>1, <3>2, <3>3 DEF WalkUp
  <2>7. CASE RestoreParent(w)
    <3>1. PICK r : req' = [req EXCEPT ![w] = r]
      BY <2>7 DEF RestoreParent
    <3>2. QED
      BY <2>7, <3>1, QuietWorker DEF RestoreParent, Goto
  <2>8. QED
    BY <2>2, <2>3, <2>4, <2>5, <2>6, <2>7
<1>3. QED
  BY <1>1, <1>2 DEF Quiet, SameLife

LEMMA QuietMove ==
  ASSUME TypeInv, FreshInv, NEW w \in Workers, Move(w)
  PROVE  Quiet
<1>1. QuietPc
  BY QuietFinish DEF Move, Handlers
<1>2. \A i \in Items : row'[i].st = row[i].st
  BY DEF Move, TypeInv, RowType, Row
<1>3. QED
  BY <1>1, <1>2 DEF Move, Quiet, SameLife, Cross

LEMMA QuietTrash ==
  ASSUME TypeInv, FreshInv, (\E w \in Workers : Trash(w)) \/ (\E f \in Files : TrashFile(f))
  PROVE  Quiet
<1>1. ASSUME NEW w \in Workers, Trash(w)
      PROVE  Quiet
  <2>1. QuietPc
    BY <1>1, QuietFinish DEF Trash, Handlers
  <2>2. ASSUME NEW i \in Items
        PROVE  SameLife(i)
    <3>1. row'[i] = row[i] \/ (Active(i) /\ \E root : row'[i] = TrashRow(row[i], batches + 1, root))
      BY <1>1 DEF Trash
    <3>2. \A root : TrashRow(row[i], batches + 1, root).st = "trashed"
      BY DEF TypeInv, RowType, Row, TrashRow
    <3>3. QED
      BY <3>1, <3>2 DEF SameLife, Exists, Active
  <2>3. QED
    BY <1>1, <2>1, <2>2 DEF Trash, Quiet, Cross
<1>2. ASSUME NEW f \in Files, TrashFile(f)
      PROVE  Quiet
  <2>1. QuietPc
    BY <1>2 DEF TrashFile, QuietPc, FreshInv
  <2>2. ASSUME NEW i \in Items
        PROVE  SameLife(i)
    <3>1. row'[i] = row[i] \/ (Active(i) /\ row'[i] = TrashRow(row[i], batches + 1, TRUE))
      BY <1>2 DEF TrashFile, TypeInv, RowType, TrashRow
    <3>2. TrashRow(row[i], batches + 1, TRUE).st = "trashed"
      BY DEF TypeInv, RowType, Row, TrashRow
    <3>3. QED
      BY <3>1, <3>2 DEF SameLife, Exists, Active
  <2>3. QED
    BY <1>2, <2>1, <2>2 DEF TrashFile, Quiet
<1>3. QED
  BY <1>1, <1>2

LEMMA QuietRestore ==
  ASSUME TypeInv, FreshInv, NEW w \in Workers, Restore(w)
  PROVE  Quiet
<1> DEFINE i == req[w].item
           p == req[w].parent
           b == req[w].batch
           Redirected(j) == IF j = i /\ Exists(i) THEN [row[j] EXCEPT !.parent = p] ELSE row[j]
<1>1. QuietPc
  BY QuietFinish DEF Restore, Handlers
<1>2. b \in 1..MaxBatches
  BY HeldFacts DEF Restore, Handlers
<1>3. CASE row' = [j \in Items |->
             IF j \in InBatch(b) THEN Reactivate(Redirected(j)) ELSE Redirected(j)]
  <2>1. ASSUME NEW j \in Items
        PROVE  SameLife(j)
    <3>1. Redirected(j).st = row[j].st
      BY DEF TypeInv, RowType, Row
    <3>2. Reactivate(Redirected(j)).st = "active"
      BY DEF Reactivate, TypeInv, RowType, Row
    <3>3. j \in InBatch(b) => row[j].st = "trashed"
      BY <1>2, DeletedRows DEF TypeInv
    <3>4. row'[j] = IF j \in InBatch(b) THEN Reactivate(Redirected(j)) ELSE Redirected(j)
      BY <1>3
    <3> HIDE DEF Redirected
    <3>5. QED
      BY <3>1, <3>2, <3>3, <3>4 DEF SameLife, Exists
  <2>2. QED
    BY <1>1, <2>1 DEF Restore, Quiet, Cross
<1>4. CASE UNCHANGED <<row, crossed>>
  BY <1>1, <1>4 DEF Restore, Quiet, SameLife
<1>5. QED
  BY <1>3, <1>4 DEF Restore

LEMMA QuietRest ==
  ASSUME TypeInv, FreshInv,
         Expire \/ PurgeExpired \/ \E h \in Handlers : Gather(h) \/ DropRequest(h)
  PROVE  Quiet
<1>1. UNCHANGED <<row, blobs, used, crossed>>
  BY DEF Expire, PurgeExpired, Gather, DropRequest
<1>2. QuietPc
  <2>1. CASE Expire
    BY <2>1 DEF Expire, QuietPc, FreshInv
  <2>2. CASE PurgeExpired
    <3>1. pc' = [pc EXCEPT ![janitor] = "gather"] /\ janitor \in Handlers /\ "gather" \notin OnItem
      BY <2>2 DEF PurgeExpired, Start, Handlers, OnItem
    <3>2. \A v \in Handlers : v # janitor => req'[v].item = req[v].item /\ req'[v].set = req[v].set
      BY <2>2 DEF PurgeExpired, Start, TypeInv, WorkType
    <3>3. QED
      BY <3>1, <3>2, QuietGoto
  <2>3. ASSUME NEW h \in Handlers, Gather(h)
        PROVE  QuietPc
    <3>1. pc' = [pc EXCEPT ![h] = "purge"] /\ "purge" \notin OnItem
      BY <2>3 DEF Gather, Goto, OnItem
    <3>2. \A v \in Handlers : v # h => req'[v].item = req[v].item /\ req'[v].set = req[v].set
      BY <2>3 DEF Gather, TypeInv, WorkType
    <3>3. QED
      BY <3>1, <3>2, QuietGoto
  <2>4. ASSUME NEW h \in Handlers, DropRequest(h)
        PROVE  QuietPc
    BY <2>4, QuietFinish DEF DropRequest
  <2>5. QED
    BY <2>1, <2>2, <2>3, <2>4
<1>3. QED
  BY <1>1, <1>2 DEF Quiet, SameLife

\* Every step is quiet, or creates, inserts, purges or drops blobs.
LEMMA StepKinds ==
  ASSUME TypeInv, FreshInv, [Next]_vars
  PROVE  \/ Quiet
         \/ \E w \in Workers, i \in Items, p \in Folders \cup {NONE} : Create(w, i, p)
         \/ \E w \in Workers : Insert(w)
         \/ \E h \in Handlers : Purge(h) \/ DropBlobs(h)
<1>1. CASE UNCHANGED vars
  BY <1>1 DEF vars, Quiet, QuietPc, SameLife, FreshInv
<1>2. CASE Next
  BY <1>2, QuietRead, QuietMove, QuietTrash, QuietRestore, QuietRest DEF Next, PurgeStep
<1>3. QED
  BY <1>1, <1>2

----------------------------------------------------------------------------
(* The invariant, and what it gives *)

LEMMA FreshNext == TypeInv /\ FreshInv /\ [Next]_vars => FreshInv'
<1> SUFFICES ASSUME TypeInv, FreshInv, [Next]_vars
             PROVE  FreshInv'
    OBVIOUS
<1> DEFINE Inserting(h) == pc[h] = "insert"
<1>1. \A h \in Handlers : Inserting(h) => req[h].item \in Items
  BY HeldFacts DEF OnItem
<1>2. CASE Quiet
  <2>1. \A h \in Handlers : Inserting(h)' => Inserting(h) /\ req'[h].item = req[h].item
    BY <1>2 DEF Quiet, QuietPc
  <2>2. \A h \in Handlers : Inserting(h)' => row'[req'[h].item].st = "new"
    BY <1>1, <1>2, <2>1 DEF Quiet, SameLife, FreshInv, Exists
  <2>3. QED
    BY <1>2, <2>1, <2>2 DEF Quiet, QuietPc, FreshInv
<1>3. ASSUME NEW w \in Workers, NEW i \in Items, NEW p \in Folders \cup {NONE}, Create(w, i, p)
      PROVE  FreshInv'
  <2>1. w \in Handlers /\ w # janitor /\ janitor \in Handlers
    BY JanitorAssumption DEF Handlers
  <2>2. /\ pc'[w] = "insert" /\ req'[w].item = i /\ UNCHANGED row /\ row[i].st = "new"
        /\ \A v \in Handlers : v # w => pc'[v] = pc[v] /\ req'[v] = req[v]
    BY <1>3, <2>1 DEF Create, Start, TypeInv, WorkType, NoRequest
  <2>3. \A v \in Handlers : Inserting(v) => req[v].item # i
    BY <1>3 DEF Create, Handlers, FreshInv, OnItem
  <2>4. QED
    BY <2>1, <2>2, <2>3 DEF FreshInv
<1>4. ASSUME NEW w \in Workers, Insert(w)
      PROVE  FreshInv'
  <2>1. w \in Handlers /\ Inserting(w) /\ janitor \in Handlers
    BY <1>4 DEF Insert, Handlers
  <2>2. /\ pc'[w] = "idle"
        /\ \A v \in Handlers : v # w => pc'[v] = pc[v] /\ req'[v] = req[v]
    BY <1>4, <2>1 DEF Insert, Finish, TypeInv, WorkType
  <2>3. \A j \in Items : j # req[w].item => row'[j] = row[j]
    BY <1>4 DEF Insert, TypeInv, RowType
  <2>4. QED
    BY <1>1, <2>1, <2>2, <2>3 DEF FreshInv, OnItem
<1>5. ASSUME NEW h \in Handlers, Purge(h) \/ DropBlobs(h)
      PROVE  FreshInv'
  <2>1. \A i \in Items : row[i].st = "new" => row'[i].st = "new"
    <3>1. CASE UNCHANGED row
      BY <3>1
    <3>2. CASE pc[h] = "purge" /\ DeleteRows(req[h].batch, req[h].set)
      <4>1. req[h].batch \in 1..MaxBatches
        BY <3>2, HeldFacts
      <4> DEFINE b == req[h].batch
                 D == UNION {WithContents(d) : d \in InBatch(b) \cap Folders}
      <4>2. \A i \in D \cup InBatch(b) : row[i].st # "new"
        BY <4>1, DeletedRows DEF TypeInv, Exists
      <4>3. row' = [i \in Items |->
              IF i \in D \cup InBatch(b) THEN NoRow("gone")
              ELSE IF i \in Files /\ row[i].parent \in D THEN [row[i] EXCEPT !.parent = NONE]
              ELSE row[i]]
        BY <3>2 DEF DeleteRows
      <4> HIDE DEF D, b
      <4>4. QED
        BY <4>2, <4>3 DEF TypeInv, RowType, Row
    <3>3. QED
      BY <1>5, <3>1, <3>2 DEF Purge, DropBlobs
  <2>2. /\ pc'[h] \in {"dropBlobs", "gather", "idle"}
        /\ \A v \in Handlers : v # h => pc'[v] = pc[v] /\ req'[v] = req[v]
    BY <1>5 DEF Purge, DropBlobs, NextBatch, Finish, Goto, TypeInv, WorkType
  <2>3. \A v \in Handlers : Inserting(v)' => v # h /\ Inserting(v) /\ req'[v] = req[v]
    BY <2>2
  <2>4. pc'[janitor] \notin OnItem
    BY <2>2 DEF FreshInv, OnItem, Handlers
  <2>5. QED
    BY <1>1, <2>1, <2>3, <2>4 DEF FreshInv
<1>6. QED
  BY <1>2, <1>3, <1>4, <1>5, StepKinds

LEMMA TypeInvImplies == TypeInv => TypeOK
  BY DEF TypeInv, RowType, CountType, WorkType, TypeOK

LEMMA AlwaysTyped == Spec => [](TypeInv /\ FreshInv)
<1>1. TypeInv /\ FreshInv /\ [Next]_vars => TypeInv' /\ FreshInv'
  BY NextType, FreshNext
<1>2. QED
  BY InitType, <1>1, PTL DEF Spec

\* Types: every row, request and counter of the workspace stays what the schema
\* and the handlers declare, and a row has a batch exactly while it is trashed.
THEOREM TrashTypeCorrect == Spec => []TypeOK
  BY AlwaysTyped, TypeInvImplies, PTL

\* PurgeBatch, Restore, Move and the cascade, in any order and however stale what
\* they read: no step deletes the row of an active file.
THEOREM TrashActiveNeverPurged == Spec => ActiveNeverPurged
<1>1. ASSUME TypeInv, FreshInv, [Next]_vars, NEW f \in Files, Active(f)
      PROVE  row'[f].st # "gone"
  <2>1. f \in Items
    BY DEF Items
  <2>2. CASE Quiet
    BY <1>1, <2>1, <2>2 DEF Quiet, SameLife, Exists, Active
  <2>3. CASE UNCHANGED row
    BY <1>1, <2>3 DEF Active
  <2>4. ASSUME NEW w \in Workers, Insert(w)
        PROVE  row'[f].st # "gone"
    BY <1>1, <2>1, <2>4 DEF Insert, Active, TypeInv, RowType, Row
  <2>5. ASSUME NEW h \in Handlers, Purge(h)
        PROVE  row'[f].st # "gone"
    <3> DEFINE b == req[h].batch
               D == UNION {WithContents(d) : d \in InBatch(b) \cap Folders}
    <3>1. b \in 1..MaxBatches
      BY <1>1, <2>5, HeldFacts DEF Purge
    <3>2. f \notin D \cup InBatch(b)
      BY <1>1, <3>1, DeletedRows, IdsAssumption DEF TypeInv, Active
    <3>3. CASE row' = [i \in Items |->
                 IF i \in D \cup InBatch(b) THEN NoRow("gone")
                 ELSE IF i \in Files /\ row[i].parent \in D THEN [row[i] EXCEPT !.parent = NONE]
                 ELSE row[i]]
      <4> HIDE DEF D, b
      <4>1. QED
        BY <1>1, <2>1, <3>2, <3>3 DEF TypeInv, RowType, Row, Active
    <3>4. QED
      BY <2>3, <2>5, <3>3 DEF Purge, DeleteRows
  <2>6. QED
    BY <1>1, <2>2, <2>3, <2>4, <2>5, StepKinds DEF Create, DropBlobs
<1>2. TypeInv /\ FreshInv /\ [Next]_vars =>
        [\A f \in Files : Active(f) => row'[f].st # "gone"]_vars
  BY <1>1
<1>3. QED
  BY AlwaysTyped, <1>2, PTL DEF Spec, ActiveNeverPurged

----------------------------------------------------------------------------
(* Blobs and the quota *)

\* A purge about to drop blobs has deleted the rows of all of them: what it
\* gathered was the batch it deleted, unless crossed says otherwise.
Kept == {f \in Files : Exists(f)}
GoneInv ==
  "purge" \notin crossed =>
    \A h \in Handlers : pc[h] = "dropBlobs" => \A f \in req[h].set : row[f].st = "gone"

LEMMA KeptFinite == IsFiniteSet(Kept) /\ Cardinality(Kept) \in Nat
<1>1. Kept \in SUBSET Files
  BY DEF Kept
<1>2. QED
  BY <1>1, FiniteAssumption, FS_Subset, FS_CardinalityType

LEMMA PurgedFiles ==
  ASSUME TypeInv, NEW b \in 1..MaxBatches, NEW F, DeleteRows(b, F), F = InBatch(b) \cap Files
  PROVE  \A f \in Files : /\ f \in F => Exists(f) /\ row'[f].st = "gone"
                          /\ f \notin F => row'[f].st = row[f].st
<1> DEFINE D == UNION {WithContents(d) : d \in InBatch(b) \cap Folders}
<1>1. row' = [i \in Items |->
        IF i \in D \cup InBatch(b) THEN NoRow("gone")
        ELSE IF i \in Files /\ row[i].parent \in D THEN [row[i] EXCEPT !.parent = NONE]
        ELSE row[i]]
  BY DEF DeleteRows
<1>2. D \cap Files = {}
  BY DeletedRows, IdsAssumption DEF TypeInv
<1>3. \A f \in InBatch(b) : Exists(f)
  BY DeletedRows DEF TypeInv, Exists
<1> HIDE DEF D
<1>4. QED
  BY <1>1, <1>2, <1>3 DEF Items, NoRow, TypeInv, RowType, Row

LEMMA SafeQuiet ==
  ASSUME TypeInv, GoneInv, BlobKept, UsageExact, Quiet
  PROVE  GoneInv' /\ BlobKept' /\ UsageExact'
<1> SUFFICES ASSUME "purge" \notin crossed'
             PROVE  GoneInv' /\ BlobKept' /\ UsageExact'
    BY DEF GoneInv, BlobKept, UsageExact
<1>1. "purge" \notin crossed /\ UNCHANGED <<blobs, used>>
  BY DEF Quiet
<1>2. \A f \in Files : SameLife(f) /\ (Exists(f)' <=> Exists(f))
  BY DEF Quiet, SameLife, Exists, Items
<1>3. GoneInv'
  <2>1. ASSUME NEW h \in Handlers, pc'[h] = "dropBlobs", NEW f \in req'[h].set
        PROVE  row'[f].st = "gone"
    <3>1. pc[h] = "dropBlobs" /\ f \in req[h].set
      BY <2>1 DEF Quiet, QuietPc
    <3>2. f \in Files /\ row[f].st = "gone"
      BY <1>1, <3>1, HeldFacts DEF GoneInv
    <3>3. QED
      BY <1>2, <3>2 DEF SameLife, Exists
  <2>2. QED
    BY <2>1 DEF GoneInv
<1>4. BlobKept'
  BY <1>1, <1>2 DEF BlobKept
<1>5. UsageExact'
  <2>1. Kept' = Kept
    BY <1>2 DEF Kept
  <2>2. QED
    BY <1>1, <2>1 DEF UsageExact, Kept
<1>6. QED
  BY <1>3, <1>4, <1>5

LEMMA SafeInsert ==
  ASSUME TypeInv, FreshInv, GoneInv, BlobKept, UsageExact, NEW w \in Workers, Insert(w)
  PROVE  GoneInv' /\ BlobKept' /\ UsageExact'
<1> SUFFICES ASSUME "purge" \notin crossed'
             PROVE  GoneInv' /\ BlobKept' /\ UsageExact'
    BY DEF GoneInv, BlobKept, UsageExact
<1> DEFINE i == req[w].item
<1>1. w \in Handlers /\ pc[w] = "insert"
  BY DEF Insert, Handlers
<1>2. i \in Items /\ row[i].st = "new"
  BY <1>1, HeldFacts DEF OnItem, FreshInv
<1>3. "purge" \notin crossed
  BY DEF Insert, Cross
<1>4. \A h \in Handlers : pc'[h] = "dropBlobs" => pc[h] = "dropBlobs" /\ req'[h] = req[h]
  BY <1>1 DEF Insert, Finish, TypeInv, WorkType
<1>5. \A h \in Handlers : pc[h] = "dropBlobs" => \A f \in req[h].set : f \in Files /\ row[f].st = "gone"
  BY <1>3, HeldFacts DEF GoneInv
<1>6. CASE UNCHANGED <<row, blobs, used, crossed>>
  <2>1. Kept' = Kept
    BY <1>6 DEF Kept, Exists
  <2>2. QED
    BY <1>3, <1>4, <1>5, <1>6, <2>1 DEF GoneInv, BlobKept, UsageExact, Kept, Exists
<1>7. CASE /\ row' = [row EXCEPT ![i].st = "active", ![i].parent = req[w].parent]
           /\ blobs' = blobs \cup ({i} \cap Files)
           /\ used' = used + Cardinality({i} \cap Files)
  <2>1. row'[i].st = "active" /\ \A j \in Items : j # i => row'[j] = row[j]
    BY <1>2, <1>7 DEF TypeInv, RowType, Row
  <2>2. GoneInv'
    BY <1>2, <1>4, <1>5, <2>1 DEF GoneInv, Items
  <2>3. BlobKept'
    BY <1>3, <1>7, <2>1 DEF BlobKept, Exists, Items
  <2>4. Kept' = Kept \cup ({i} \cap Files) /\ i \notin Kept
    BY <1>2, <2>1 DEF Kept, Exists, Items
  <2>5. used' = Cardinality(Kept')
    <3>1. used = Cardinality(Kept)
      BY <1>3 DEF UsageExact, Kept
    <3>2. CASE i \in Files
      <4>1. Kept' = Kept \cup {i}
        BY <2>4, <3>2
      <4>2. Cardinality(Kept') = Cardinality(Kept) + 1
        BY <2>4, <4>1, KeptFinite, FS_AddElement
      <4>3. QED
        BY <1>7, <3>1, <3>2, <4>2, OneBlob
    <3>3. CASE i \notin Files
      <4>1. Kept' = Kept
        BY <2>4, <3>3
      <4>2. QED
        BY <1>7, <3>1, <3>3, <4>1, OneBlob, KeptFinite
    <3>4. QED
      BY <3>2, <3>3
  <2>6. QED
    BY <2>2, <2>3, <2>5 DEF UsageExact, Kept
<1>8. QED
  BY <1>6, <1>7 DEF Insert

LEMMA SafePurge ==
  ASSUME TypeInv, GoneInv, BlobKept, UsageExact, NEW h \in Handlers, Purge(h)
  PROVE  GoneInv' /\ BlobKept' /\ UsageExact'
<1> SUFFICES ASSUME "purge" \notin crossed'
             PROVE  GoneInv' /\ BlobKept' /\ UsageExact'
    BY DEF GoneInv, BlobKept, UsageExact
<1> DEFINE F == req[h].set
           b == req[h].batch
<1>1. /\ pc[h] = "purge" /\ UNCHANGED blobs /\ b \in 1..MaxBatches
      /\ F \subseteq Files /\ F = req[h].seen.set
  BY HeldFacts DEF Purge
<1>2. "purge" \notin crossed
  BY DEF Purge, Cross
<1>3. \A v \in Handlers : pc[v] = "dropBlobs" => \A f \in req[v].set : f \in Files /\ row[f].st = "gone"
  BY <1>2, HeldFacts DEF GoneInv
<1>4. used = Cardinality(Kept)
  BY <1>2 DEF UsageExact, Kept
<1>5. CASE /\ DeleteRows(b, F)
           /\ used' = IF used < Cardinality(F) THEN 0 ELSE used - Cardinality(F)
           /\ Cross(Changed("purge", req[h].seen.set # InBatch(b) \cap Files))
           /\ Goto(h, "dropBlobs")
           /\ UNCHANGED req
  <2>1. F = InBatch(b) \cap Files
    BY <1>1, <1>5 DEF Cross, Changed
  <2>2. \A f \in Files : /\ f \in F => Exists(f) /\ row'[f].st = "gone"
                         /\ f \notin F => row'[f].st = row[f].st
    BY <1>1, <1>5, <2>1, PurgedFiles
  <2>3. \A v \in Handlers : v # h => pc'[v] = pc[v]
    BY <1>5 DEF Goto, TypeInv, WorkType
  <2>4. GoneInv'
    BY <1>1, <1>3, <1>5, <2>2, <2>3 DEF GoneInv
  <2>5. BlobKept'
    BY <1>1, <1>2, <2>2 DEF BlobKept, Exists
  <2>6. Kept' = Kept \ F /\ F \subseteq Kept
    BY <1>1, <2>2 DEF Kept, Exists
  <2>7. Cardinality(Kept') = Cardinality(Kept) - Cardinality(F) /\ Cardinality(F) \in Nat
        /\ Cardinality(F) <= Cardinality(Kept)
    <3>1. Kept \cap F = F
      BY <2>6
    <3>2. IsFiniteSet(F) /\ Cardinality(F) \in Nat /\ Cardinality(F) <= Cardinality(Kept)
      BY <2>6, KeptFinite, FS_Subset, FS_CardinalityType
    <3>3. QED
      BY <2>6, <3>1, <3>2, KeptFinite, FS_Difference
  <2>8. used' = Cardinality(Kept')
    BY <1>4, <1>5, <2>7, KeptFinite
  <2>9. QED
    BY <2>4, <2>5, <2>8 DEF UsageExact, Kept
<1>6. CASE NextBatch(h) /\ UNCHANGED <<row, used, crossed>>
  <2>1. \A v \in Handlers : pc'[v] = "dropBlobs" => pc[v] = "dropBlobs" /\ req'[v] = req[v]
    BY <1>1, <1>6 DEF NextBatch, Finish, Goto, TypeInv, WorkType
  <2>2. Kept' = Kept
    BY <1>6 DEF Kept, Exists
  <2>3. QED
    BY <1>1, <1>2, <1>3, <1>4, <1>6, <2>1, <2>2 DEF GoneInv, BlobKept, UsageExact, Kept, Exists
<1>7. QED
  BY <1>5, <1>6 DEF Purge

LEMMA SafeDrop ==
  ASSUME TypeInv, GoneInv, BlobKept, UsageExact, NEW h \in Handlers, DropBlobs(h)
  PROVE  GoneInv' /\ BlobKept' /\ UsageExact'
<1>1. /\ pc[h] = "dropBlobs" /\ UNCHANGED <<row, used, crossed>>
      /\ blobs \ req[h].set \subseteq blobs'
  BY DEF DropBlobs
<1>2. \A v \in Handlers : pc'[v] = "dropBlobs" => pc[v] = "dropBlobs" /\ req'[v] = req[v]
  BY DEF DropBlobs, NextBatch, Finish, Goto, TypeInv, WorkType
<1>3. GoneInv'
  BY <1>1, <1>2 DEF GoneInv
<1>4. BlobKept'
  BY <1>1 DEF BlobKept, GoneInv, Exists
<1>5. UsageExact'
  <2>1. Kept' = Kept
    BY <1>1 DEF Kept, Exists
  <2>2. QED
    BY <1>1, <2>1 DEF UsageExact, Kept
<1>6. QED
  BY <1>3, <1>4, <1>5

LEMMA AlwaysSafe == Spec => [](GoneInv /\ BlobKept /\ UsageExact)
<1>1. Init => GoneInv /\ BlobKept /\ UsageExact
  <2> SUFFICES ASSUME Init
               PROVE  GoneInv /\ BlobKept /\ UsageExact
      OBVIOUS
  <2>1. \A f \in Files : ~Exists(f)
    BY DEF Init, Exists, NoRow, Items
  <2>2. Kept = {}
    BY <2>1 DEF Kept
  <2>3. QED
    BY <2>1, <2>2, FS_EmptySet DEF Init, GoneInv, BlobKept, UsageExact, Kept
<1>2. TypeInv /\ FreshInv /\ [Next]_vars /\ GoneInv /\ BlobKept /\ UsageExact
        => GoneInv' /\ BlobKept' /\ UsageExact'
  <2> SUFFICES ASSUME TypeInv, FreshInv, [Next]_vars, GoneInv, BlobKept, UsageExact
               PROVE  GoneInv' /\ BlobKept' /\ UsageExact'
      OBVIOUS
  <2>1. ASSUME NEW w \in Workers, NEW i \in Items, NEW p \in Folders \cup {NONE}, Create(w, i, p)
        PROVE  GoneInv' /\ BlobKept' /\ UsageExact'
    <3>1. \A v \in Handlers : pc'[v] = "dropBlobs" => pc[v] = "dropBlobs" /\ req'[v] = req[v]
      BY <2>1 DEF Create, Start, TypeInv, WorkType
    <3>2. UNCHANGED <<row, blobs, used, crossed>> /\ Kept' = Kept
      BY <2>1 DEF Create, Kept, Exists
    <3>3. QED
      BY <3>1, <3>2 DEF GoneInv, BlobKept, UsageExact, Kept, Exists
  <2>2. QED
    BY <2>1, StepKinds, SafeQuiet, SafeInsert, SafePurge, SafeDrop
<1>3. QED
  BY AlwaysTyped, <1>1, <1>2, PTL DEF Spec

\* PurgeBatch deletes blobs only after their rows, so that what is listed or in
\* the trash has its bytes, unless a purge used a stale batch.
THEOREM TrashBlobKept == Spec => []BlobKept
  BY AlwaysSafe, PTL

\* storage_bytes_used is the number of files that have a row, under the same
\* proviso: deleting frees nothing and a purge frees each file once.
THEOREM TrashUsageExact == Spec => []UsageExact
  BY AlwaysSafe, PTL

----------------------------------------------------------------------------
(* The tree the folders form.                                              *)

\* A handler that will give an item a parent found it active; one that will trash
\* holds the subtree it found.
SeenOK(h) ==
  /\ pc[h] \in {"insert", "walk", "move", "restore"} => req[h].seen.active
  /\ pc[h] = "trash" => req[h].item \in Folders /\ req[h].set = req[h].seen.set
SeenInv == \A h \in Handlers : SeenOK(h)

\* Batch numbers were drawn, and a batch has one root.
BatchInv ==
  /\ \A i \in Items : row[i].batch <= batches
  /\ \A i, j \in Items :
       row[i].root /\ row[j].root /\ row[i].batch = row[j].batch /\ row[i].batch # 0 => i = j

\* What is trashed below a batch's root lies in a folder of the same batch, or
\* floats at the workspace's root.
Calm == crossed \cap {"parent", "subtree", "restore"} = {}
ActiveInv == \A i \in Items : Active(i) => ParentActive(row[i].parent)
InsideInv ==
  \A i \in Items : row[i].st = "trashed" /\ ~row[i].root /\ row[i].parent # NONE =>
    row[row[i].parent].st = "trashed" /\ row[row[i].parent].batch = row[i].batch
TreeInv == ActiveInv /\ InsideInv

----------------------------------------------------------------------------
(* The subtree *)

LEMMA BelowFacts ==
  ASSUME NEW d \in Folders, NEW R \in SUBSET Folders
  PROVE  /\ d \in Below(d, R)
         /\ \A f \in R : row[f].parent \in Below(d, R) => f \in Below(d, R)
         /\ \A e \in Below(d, R) : e # d => row[e].parent \in Below(d, R)
<1>1. d \in Below(d, R)
  BY DEF Below
<1>2. ASSUME NEW f \in R, row[f].parent \in Below(d, R)
      PROVE  f \in Below(d, R)
  BY <1>2 DEF Below
<1>3. ASSUME NEW e \in Below(d, R), e # d, row[e].parent \notin Below(d, R)
      PROVE  FALSE
  <2> DEFINE B == Below(d, R) \ {e}
  <2>1. d \in B /\ B \in SUBSET Folders
    BY <1>1, <1>3 DEF Below
  <2>2. \A f \in R : row[f].parent \in B => f \in B
    BY <1>2, <1>3
  <2>3. e \in B
    <3> HIDE DEF B
    <3>1. QED
      BY <2>1, <2>2, <1>3 DEF Below
  <2>4. QED
    BY <2>3
<1>4. QED
  BY <1>1, <1>2, <1>3

\* Below a folder that is not active there is nothing active.
LEMMA NothingActiveBelow ==
  ASSUME ActiveInv, NEW d \in Folders, ~Active(d)
  PROVE  \A e \in WithContents(d) : ~Active(e)
<1> DEFINE S == {f \in Folders : ~Active(f)}
<1>1. d \in S /\ S \in SUBSET Folders
  OBVIOUS
<1>2. \A f \in {f \in Folders : Exists(f)} : row[f].parent \in S => f \in S
  BY IdsAssumption DEF ActiveInv, ParentActive, Items
<1>3. \A e \in WithContents(d) : e \in S
  <2> HIDE DEF S
  <2>1. QED
    BY <1>1, <1>2 DEF WithContents, Below
<1>4. QED
  BY <1>3

----------------------------------------------------------------------------
(* What handlers saw *)

LEMMA SeenNext ==
  ASSUME TypeInv, FreshInv, SeenInv, [Next]_vars
  PROVE  SeenInv'
<1>1. ASSUME NEW h \in Handlers, NEW label, NEW r, pc' = [pc EXCEPT ![h] = label],
             req' = [req EXCEPT ![h] = r],
             label \in {"insert", "walk", "move", "restore"} => r.seen.active,
             label = "trash" => r.item \in Folders /\ r.set = r.seen.set
      PROVE  SeenInv'
  BY <1>1 DEF SeenInv, SeenOK, TypeInv, WorkType
<1>2. ASSUME NEW h \in Handlers, Finish(h)
      PROVE  SeenInv'
  BY <1>2 DEF Finish, SeenInv, SeenOK, TypeInv, WorkType
<1>3. ASSUME NEW h \in Handlers, FinishMoving(h)
      PROVE  SeenInv'
  <2>1. ASSUME NEW v \in Handlers, v # h
        PROVE  /\ pc'[v] = pc[v] /\ req'[v].seen.active = req[v].seen.active
               /\ req'[v].set = req[v].set /\ req'[v].seen.set = req[v].seen.set
               /\ req'[v].item = req[v].item
    BY <1>3, <2>1 DEF FinishMoving, TypeInv, WorkType, Request, Facts
  <2>2. pc'[h] = "idle"
    BY <1>3 DEF FinishMoving, TypeInv, WorkType
  <2>3. QED
    BY <2>1, <2>2 DEF SeenInv, SeenOK
<1>4. ASSUME NEW h \in Handlers, NextBatch(h)
      PROVE  SeenInv'
  BY <1>2, <1>4 DEF NextBatch, Goto, SeenInv, SeenOK, TypeInv, WorkType
<1>5. ASSUME NEW w \in Workers, NEW i \in Items, NEW p \in Folders \cup {NONE}, Create(w, i, p)
      PROVE  SeenInv'
  <2> DEFINE r == [NoRequest EXCEPT !.item = i, !.parent = p, !.seen.active = ParentActive(p)]
  <2>1. r.seen.active
    BY <1>5 DEF Create, NoRequest, NoFacts
  <2>2. w \in Handlers /\ Start(w, "insert", r)
    BY <1>5 DEF Create, Handlers
  <2> HIDE DEF r
  <2>3. QED
    BY <1>1, <2>1, <2>2 DEF Start
<1>6. ASSUME NEW w \in Workers, NEW i \in Items, NEW p \in Folders \cup {NONE}, BeginMove(w, i, p)
      PROVE  SeenInv'
  <2> DEFINE r == [NoRequest EXCEPT !.item = i, !.parent = p, !.at = p,
                                    !.seen.active = ParentActive(p)]
  <2>1. r.seen.active
    BY <1>6 DEF BeginMove, NoRequest, NoFacts
  <2>2. w \in Handlers /\ \E label \in {"walk", "move"} : Start(w, label, r)
    BY <1>6 DEF BeginMove, Handlers
  <2> HIDE DEF r
  <2>3. QED
    BY <1>1, <2>1, <2>2 DEF Start
<1>7. ASSUME NEW w \in Workers, NEW d \in Folders, BeginTrash(w, d)
      PROVE  SeenInv'
  <2> DEFINE r == [NoRequest EXCEPT !.item = d, !.set = Subtree(d), !.seen.set = Subtree(d)]
  <2>1. r.item \in Folders /\ r.set = r.seen.set
    BY DEF NoRequest, NoFacts
  <2>2. w \in Handlers /\ Start(w, "trash", r)
    BY <1>7 DEF BeginTrash, Handlers
  <2> HIDE DEF r
  <2>3. QED
    BY <1>1, <2>1, <2>2 DEF Start
<1>8. ASSUME NEW w \in Workers, NEW i \in Items, NEW b \in 1..MaxBatches, BeginRestore(w, i, b)
      PROVE  SeenInv'
  <2> DEFINE r == [NoRequest EXCEPT !.item = i, !.parent = row[i].parent, !.batch = b]
  <2>1. r.seen.active
    BY DEF NoRequest, NoFacts
  <2>2. w \in Handlers /\ \E label \in {"restore", "restoreParent"} : Start(w, label, r)
    BY <1>8 DEF BeginRestore, Handlers
  <2> HIDE DEF r
  <2>3. QED
    BY <1>1, <2>1, <2>2 DEF Start
<1>9. ASSUME NEW w \in Workers, WalkUp(w)
      PROVE  SeenInv'
  <2>1. w \in Handlers /\ pc[w] = "walk" /\ req[w].seen.active
    BY <1>9 DEF WalkUp, Handlers, SeenInv, SeenOK
  <2>2. CASE req' = [req EXCEPT ![w].at = row[req[w].at].parent] /\ UNCHANGED pc
    <3>1. pc' = [pc EXCEPT ![w] = "walk"]
      BY <2>1, <2>2 DEF TypeInv, WorkType
    <3>2. req' = [req EXCEPT ![w] = [req[w] EXCEPT !.at = row[req[w].at].parent]]
      BY <2>2
    <3>3. [req[w] EXCEPT !.at = row[req[w].at].parent].seen = req[w].seen
      BY <2>1 DEF TypeInv, WorkType, Request
    <3>4. QED
      BY <1>1, <2>1, <3>1, <3>2, <3>3
  <2>3. CASE Goto(w, "move") /\ UNCHANGED req
    BY <2>1, <2>3 DEF Goto, SeenInv, SeenOK, TypeInv, WorkType
  <2>4. QED
    BY <1>2, <1>9, <2>1, <2>2, <2>3 DEF WalkUp
<1>10. ASSUME NEW w \in Workers, RestoreParent(w)
       PROVE  SeenInv'
  <2> DEFINE p == IF Active(req[w].parent) THEN req[w].parent ELSE NONE
             r == [req[w] EXCEPT !.parent = p, !.seen.active = ParentActive(p)]
  <2>1. w \in Handlers /\ req[w] \in Request /\ ParentActive(p)
    BY <1>10 DEF Handlers, TypeInv, WorkType, ParentActive
  <2>2. r.seen.active
    BY <2>1 DEF Request, Facts
  <2>3. pc' = [pc EXCEPT ![w] = "restore"] /\ req' = [req EXCEPT ![w] = r]
    BY <1>10 DEF RestoreParent, Goto
  <2> HIDE DEF r
  <2>4. QED
    BY <1>1, <2>1, <2>2, <2>3
<1>11. ASSUME NEW h \in Handlers, Gather(h)
       PROVE  SeenInv'
  <2>1. PICK r : pc' = [pc EXCEPT ![h] = "purge"] /\ req' = [req EXCEPT ![h] = r]
    BY <1>11 DEF Gather, Goto
  <2>2. QED
    BY <1>1, <2>1
<1>12. ASSUME NEW h \in Handlers, Purge(h)
       PROVE  SeenInv'
  BY <1>4, <1>12 DEF Purge, Goto, SeenInv, SeenOK, TypeInv, WorkType
<1>13. ASSUME NEW w \in Workers, NEW b \in 1..MaxBatches, BeginPurge(w, b)
       PROVE  SeenInv'
  <2>1. w \in Handlers /\ Start(w, "gather", [NoRequest EXCEPT !.todo = {b}])
    BY <1>13 DEF BeginPurge, Handlers
  <2>2. QED
    BY <1>1, <2>1 DEF Start
<1>14. CASE PurgeExpired
  <2>1. janitor \in Handlers /\ Start(janitor, "gather", [NoRequest EXCEPT !.todo = Due])
    BY <1>14 DEF PurgeExpired, Handlers
  <2>2. QED
    BY <1>1, <2>1 DEF Start
<1>15. ASSUME UNCHANGED <<pc, req>>
       PROVE  SeenInv'
  BY <1>15 DEF SeenInv, SeenOK
<1>16. ASSUME NEW w \in Workers, Insert(w) \/ Move(w) \/ Trash(w) \/ Restore(w)
       PROVE  SeenInv'
  BY <1>2, <1>3, <1>16 DEF Insert, Move, Trash, Restore, Handlers
<1>17. ASSUME NEW h \in Handlers, DropBlobs(h) \/ DropRequest(h)
       PROVE  SeenInv'
  BY <1>2, <1>4, <1>17 DEF DropBlobs, DropRequest
<1>18. CASE UNCHANGED vars \/ Expire \/ \E f \in Files : TrashFile(f)
  BY <1>15, <1>18 DEF vars, Expire, TrashFile
<1>19. CASE Next
  BY <1>5, <1>6, <1>7, <1>8, <1>9, <1>10, <1>11, <1>12, <1>13, <1>14, <1>16, <1>17, <1>18, <1>19
     DEF Next, PurgeStep
<1>20. QED
  BY <1>18, <1>19

----------------------------------------------------------------------------
(* Batches and their contents, step by step *)

LEMMA TreeUnchanged ==
  ASSUME BatchInv, Calm => TreeInv, UNCHANGED row, batches' >= batches, crossed \subseteq crossed',
         TypeInv, TypeInv'
  PROVE  BatchInv' /\ (Calm' => TreeInv')
<1>1. BatchInv'
  BY DEF BatchInv, TypeInv, RowType, CountType, Row
<1>2. ASSUME Calm'
      PROVE  TreeInv'
  <2>1. TreeInv
    BY <1>2 DEF Calm
  <2>2. QED
    BY <2>1 DEF TreeInv, ActiveInv, InsideInv, Active, ParentActive
<1>3. QED
  BY <1>1, <1>2

\* A parent that was active when it was checked still is.
LEMMA ParentStays ==
  ASSUME SeenInv, NEW w \in Handlers, pc[w] \in {"insert", "move", "restore"},
         NEW K, Cross(ParentLeft(w) \cup K), Calm'
  PROVE  Calm /\ ParentActive(req[w].parent)
  BY DEF SeenInv, SeenOK, Cross, ParentLeft, Changed, Calm

LEMMA TreeInsert ==
  ASSUME TypeInv, FreshInv, SeenInv, BatchInv, Calm => TreeInv, NEW w \in Workers, Insert(w)
  PROVE  BatchInv' /\ (Calm' => TreeInv')
<1> DEFINE i == req[w].item
           p == req[w].parent
<1>1. w \in Handlers /\ pc[w] = "insert"
  BY DEF Insert, Handlers
<1>2. i \in Items /\ row[i].st = "new" /\ row[i].batch = 0 /\ p \in Folders \cup {NONE}
  BY <1>1, HeldFacts DEF OnItem, FreshInv, TypeInv, RowType
<1>3. CASE UNCHANGED <<row, crossed>>
  <2>1. TypeInv' /\ UNCHANGED batches
    BY InsertType DEF Insert
  <2>2. batches' >= batches
    BY <2>1, BoundsAssumption DEF TypeInv, CountType
  <2>3. QED
    BY <1>3, <2>1, <2>2, TreeUnchanged
<1>4. CASE /\ row' = [row EXCEPT ![i].st = "active", ![i].parent = p]
           /\ Cross(ParentLeft(w))
  <2>1. /\ row'[i].st = "active" /\ row'[i].parent = p /\ row'[i].batch = 0
        /\ \A j \in Items : j # i => row'[j] = row[j]
    BY <1>2, <1>4 DEF TypeInv, RowType, Row
  <2>2. BatchInv'
    BY <1>2, <2>1 DEF BatchInv, Insert, TypeInv, CountType
  <2>3. ASSUME Calm'
        PROVE  TreeInv'
    <3>1. TreeInv /\ ParentActive(p)
      <4>1. Cross(ParentLeft(w) \cup {})
        BY <1>4
      <4>2. QED
        BY <1>1, <2>3, <4>1, ParentStays
    <3>2. \A j \in Items : row[j].parent \in Folders \cup {NONE}
      BY DEF TypeInv, RowType, Row
    <3>3. ActiveInv'
      BY <1>2, <2>1, <3>1, <3>2 DEF TreeInv, ActiveInv, Active, ParentActive, Items
    <3>4. InsideInv'
      BY <1>2, <2>1, <3>1, <3>2 DEF TreeInv, InsideInv, Items
    <3>5. QED
      BY <3>3, <3>4 DEF TreeInv
  <2>4. QED
    BY <2>2, <2>3
<1>5. QED
  BY <1>3, <1>4 DEF Insert

LEMMA TreeMove ==
  ASSUME TypeInv, FreshInv, SeenInv, BatchInv, Calm => TreeInv, NEW w \in Workers, Move(w)
  PROVE  BatchInv' /\ (Calm' => TreeInv')
<1> DEFINE i == req[w].item
           p == req[w].parent
<1>1. w \in Handlers /\ pc[w] = "move"
  BY DEF Move, Handlers
<1>2. i \in Items /\ p \in Folders \cup {NONE}
  BY <1>1, HeldFacts DEF OnItem
<1>3. CASE UNCHANGED <<row, crossed>>
  <2>1. TypeInv' /\ UNCHANGED batches
    BY MoveType DEF Move
  <2>2. batches' >= batches
    BY <2>1, BoundsAssumption DEF TypeInv, CountType
  <2>3. QED
    BY <1>3, <2>1, <2>2, TreeUnchanged
<1>4. CASE /\ Active(i) /\ row' = [row EXCEPT ![i].parent = p]
           /\ Cross(ParentLeft(w) \cup Changed("cycle", req[w].seen.moved /\ IsUnder(p, i)))
  <2>1. /\ \A j \in Items : /\ row'[j].st = row[j].st /\ row'[j].batch = row[j].batch
                            /\ row'[j].root = row[j].root /\ (j # i => row'[j].parent = row[j].parent)
        /\ row'[i].parent = p
    BY <1>2, <1>4 DEF TypeInv, RowType, Row
  <2>2. BatchInv'
    BY <2>1 DEF BatchInv, Move
  <2>3. ASSUME Calm'
        PROVE  TreeInv'
    <3>1. TreeInv /\ ParentActive(p)
      BY <1>1, <1>4, <2>3, ParentStays
    <3>2. \A j \in Items : row[j].parent \in Folders \cup {NONE}
      BY DEF TypeInv, RowType, Row
    <3>3. ActiveInv'
      BY <1>2, <1>4, <2>1, <3>1, <3>2 DEF TreeInv, ActiveInv, Active, ParentActive, Items
    <3>4. InsideInv'
      BY <1>2, <1>4, <2>1, <3>1, <3>2 DEF TreeInv, InsideInv, Items, Active
    <3>5. QED
      BY <3>3, <3>4 DEF TreeInv
  <2>4. QED
    BY <2>2, <2>3
<1>5. QED
  BY <1>3, <1>4 DEF Move

LEMMA TreeTrashFile ==
  ASSUME TypeInv, BatchInv, Calm => TreeInv, NEW f \in Files, TrashFile(f)
  PROVE  BatchInv' /\ (Calm' => TreeInv')
<1>1. /\ f \in Items /\ f \notin Folders /\ Active(f) /\ batches' = batches + 1 /\ UNCHANGED crossed
      /\ batches \in Nat /\ \A j \in Items : row[j].batch \in Nat
  BY IdsAssumption, BoundsAssumption DEF TrashFile, Items, TypeInv, CountType, RowType, Row
<1>2. /\ row'[f].st = "trashed" /\ row'[f].batch = batches + 1 /\ row'[f].root
      /\ \A j \in Items : j # f => row'[j] = row[j]
  BY <1>1 DEF TrashFile, TrashRow, TypeInv, RowType, Row
<1>3. BatchInv'
  BY <1>1, <1>2 DEF BatchInv
<1>4. ASSUME Calm'
      PROVE  TreeInv'
  <2>1. TreeInv
    BY <1>1, <1>4 DEF Calm
  <2>2. \A j \in Items : row[j].parent \in Folders \cup {NONE}
    BY DEF TypeInv, RowType, Row
  <2>3. ActiveInv' /\ InsideInv'
    BY <1>1, <1>2, <2>1, <2>2 DEF TreeInv, ActiveInv, InsideInv, Active, ParentActive, Items
  <2>4. QED
    BY <2>3 DEF TreeInv
<1>5. QED
  BY <1>3, <1>4

LEMMA TreeTrash ==
  ASSUME TypeInv, SeenInv, BatchInv, Calm => TreeInv, NEW w \in Workers, Trash(w)
  PROVE  BatchInv' /\ (Calm' => TreeInv')
<1> DEFINE d == req[w].item
           S == req[w].set
           b == batches + 1
           T == {i \in Items : Active(i) /\ (i \in S \/ (i \in Files /\ row[i].parent \in S))}
<1>1. /\ w \in Handlers /\ pc[w] = "trash" /\ d \in Items /\ batches' = b /\ S = req[w].seen.set
      /\ batches \in Nat /\ \A j \in Items : row[j].batch \in Nat
      /\ \A j \in Items : row[j].parent \in Folders \cup {NONE}
  BY BoundsAssumption, HeldFacts
     DEF Trash, Handlers, OnItem, SeenInv, SeenOK, TypeInv, CountType, RowType, Row
<1>2. \A j \in Items : /\ j \in T => /\ row'[j].st = "trashed" /\ row'[j].batch = b
                                     /\ (row'[j].root <=> j = d) /\ row'[j].parent = row[j].parent
                       /\ j \notin T => row'[j] = row[j]
  BY DEF Trash, TrashRow, TypeInv, RowType, Row
<1>3. BatchInv'
  <2>1. \A j \in Items : row'[j].batch <= b /\ (row'[j].batch = b /\ row'[j].root => j = d)
    <3> HIDE DEF T
    <3>1. QED
      BY <1>1, <1>2 DEF BatchInv
  <2>2. \A i, j \in Items :
          row'[i].root /\ row'[j].root /\ row'[i].batch = row'[j].batch /\ row'[i].batch # 0 => i = j
    <3> HIDE DEF T
    <3>1. QED
      BY <1>1, <1>2, <2>1 DEF BatchInv
  <2>3. QED
    BY <1>1, <2>1, <2>2 DEF BatchInv
<1>4. ASSUME Calm'
      PROVE  TreeInv'
  <2>1. TreeInv /\ Subtree(d) = S
    BY <1>1, <1>4 DEF Calm, Trash, Cross, Changed
  <2>2. CASE S = {}
    <3>1. \A j \in Items : row'[j] = row[j]
      BY <1>2, <2>2
    <3>2. \A j \in Items : row[j].parent # NONE => row[j].parent \in Items
      BY <1>1 DEF Items
    <3>3. QED
      BY <2>1, <3>1, <3>2 DEF TreeInv, ActiveInv, InsideInv, Active, ParentActive
  <2>3. CASE S # {}
    <3> DEFINE R == {f \in Folders : Active(f)}
    <3>1. S = Below(d, R) /\ Active(d)
      BY <2>1, <2>3 DEF Subtree
    <3>2. d \in Folders
      BY <1>1 DEF SeenInv, SeenOK
    <3>3. /\ S \subseteq R /\ d \in S
          /\ \A f \in R : row[f].parent \in S => f \in S
          /\ \A e \in S : e # d => row[e].parent \in S
      <4>1. R \in SUBSET Folders /\ d \in R
        BY <3>1, <3>2
      <4> HIDE DEF R
      <4>2. QED
        BY <3>1, <3>2, <4>1, BelowFacts, BelowType
    <3>4. /\ \A j \in T : j # d => row[j].parent \in S
          /\ \A e \in S : e \in T /\ e \in Items
      BY <3>3 DEF Items
    <3>5. \A j \in Items : Active(j) /\ j \notin T => row[j].parent \notin S
      BY <3>3 DEF Items
    <3>6. ASSUME NEW j \in Items, Active(j)', row[j].parent # NONE
          PROVE  Active(row[j].parent)' /\ row'[j] = row[j]
      <4>1. j \notin T /\ row'[j] = row[j] /\ Active(j)
        BY <1>2, <3>6 DEF Active
      <4>2. row[j].parent \in Folders /\ Active(row[j].parent) /\ row[j].parent \notin S
        BY <1>1, <2>1, <3>5, <3>6, <4>1 DEF TreeInv, ActiveInv, ParentActive
      <4>3. row[j].parent \in Items /\ row[j].parent \notin T
        BY <4>2, IdsAssumption DEF Items
      <4>4. QED
        BY <1>2, <4>1, <4>2, <4>3 DEF Active
    <3>7. ActiveInv'
      BY <1>2, <3>6 DEF ActiveInv, ParentActive, Active
    <3>8. InsideInv'
      <4> SUFFICES ASSUME NEW j \in Items, row'[j].st = "trashed", ~row'[j].root, row'[j].parent # NONE
                   PROVE  /\ row'[row'[j].parent].st = "trashed"
                          /\ row'[row'[j].parent].batch = row'[j].batch
          BY DEF InsideInv
      <4>1. CASE j \in T
        BY <1>2, <3>4, <4>1
      <4>2. CASE j \notin T
        <5>1. row'[j] = row[j] /\ row[j].parent \in Items
          BY <1>1, <1>2, <4>2 DEF Items
        <5>2. row[row[j].parent].st = "trashed" /\ row[row[j].parent].batch = row[j].batch
          BY <2>1, <5>1 DEF TreeInv, InsideInv
        <5>3. row[j].parent \notin T
          BY <5>2 DEF Active
        <5>4. QED
          BY <1>2, <5>1, <5>2, <5>3
      <4>3. QED
        BY <4>1, <4>2
    <3>9. QED
      BY <3>7, <3>8 DEF TreeInv
  <2>4. QED
    BY <2>2, <2>3
<1>5. QED
  BY <1>3, <1>4

LEMMA TreeRestore ==
  ASSUME TypeInv, FreshInv, SeenInv, BatchInv, Calm => TreeInv, NEW w \in Workers, Restore(w)
  PROVE  BatchInv' /\ (Calm' => TreeInv')
<1> DEFINE i == req[w].item
           p == req[w].parent
           b == req[w].batch
           Redirected(j) == IF j = i /\ Exists(i) THEN [row[j] EXCEPT !.parent = p] ELSE row[j]
<1>1. /\ w \in Handlers /\ pc[w] = "restore" /\ i \in Items /\ p \in Folders \cup {NONE}
      /\ b \in 1..MaxBatches
  BY HeldFacts DEF Restore, Handlers, OnItem
<1>2. CASE UNCHANGED <<row, crossed>>
  <2>1. TypeInv' /\ UNCHANGED batches
    BY RestoreType DEF Restore
  <2>2. batches' >= batches
    BY <2>1, BoundsAssumption DEF TypeInv, CountType
  <2>3. QED
    BY <1>2, <2>1, <2>2, TreeUnchanged
<1>3. CASE /\ row' = [j \in Items |->
                IF j \in InBatch(b) THEN Reactivate(Redirected(j)) ELSE Redirected(j)]
           /\ Cross(ParentLeft(w) \cup Changed("restore", ~IsRoot(i, b)))
  <2>1. ASSUME NEW j \in Items
        PROVE  /\ j \in InBatch(b) => row'[j].st = "active" /\ row'[j].batch = 0 /\ ~row'[j].root
               /\ j \notin InBatch(b) => /\ row'[j].st = row[j].st /\ row'[j].batch = row[j].batch
                                         /\ row'[j].root = row[j].root
               /\ j # i => row'[j].parent = row[j].parent
               /\ j = i /\ Exists(i) => row'[j].parent = p
    <3>1. /\ Redirected(j).st = row[j].st /\ Redirected(j).batch = row[j].batch
          /\ Redirected(j).root = row[j].root
          /\ j # i => Redirected(j) = row[j]
          /\ j = i /\ Exists(i) => Redirected(j).parent = p
          /\ Redirected(j) \in Row
      BY <1>1 DEF TypeInv, RowType, Row
    <3>2. row'[j] = IF j \in InBatch(b) THEN Reactivate(Redirected(j)) ELSE Redirected(j)
      BY <1>3
    <3> HIDE DEF Redirected
    <3>3. Reactivate(Redirected(j)).st = "active" /\ Reactivate(Redirected(j)).batch = 0
          /\ ~Reactivate(Redirected(j)).root /\ Reactivate(Redirected(j)).parent = Redirected(j).parent
      BY <3>1 DEF Reactivate, Row
    <3>4. QED
      BY <3>1, <3>2, <3>3
  <2> HIDE DEF Redirected
  <2>2. BatchInv'
    <3>1. /\ batches' = batches /\ batches \in Nat
          /\ \A j \in Items : row'[j].batch = 0 \/ (row'[j].batch = row[j].batch /\ row'[j].root = row[j].root)
      BY <2>1, BoundsAssumption DEF Restore, TypeInv, CountType
    <3>2. QED
      BY <3>1 DEF BatchInv
  <2>3. ASSUME Calm'
        PROVE  TreeInv'
    <3>1. TreeInv /\ ParentActive(p) /\ IsRoot(i, b)
      BY <1>1, <1>3, <2>3, ParentStays DEF Calm, Cross, Changed
    <3>2. i \in InBatch(b) /\ Exists(i)
      BY <1>1, <3>1 DEF IsRoot, InBatch, Exists
    <3>3. \A j \in Items : /\ j \in InBatch(b) <=> row[j].batch = b
                           /\ row[j].batch = b => row[j].st = "trashed"
                           /\ row[j].parent \in Folders \cup {NONE}
      BY <1>1, DeletedRows DEF InBatch, TypeInv, RowType, Row
    <3>4. \A j \in InBatch(b) : j # i => j \in Items /\ ~row[j].root
      BY <1>1, <3>1, <3>2, <3>3 DEF BatchInv, IsRoot, InBatch
    <3>5. ActiveInv'
      <4> SUFFICES ASSUME NEW j \in Items, row'[j].st = "active", row'[j].parent # NONE
                   PROVE  row'[row'[j].parent].st = "active"
          BY DEF ActiveInv, ParentActive, Active
      <4>1. CASE j = i
        <5>1. row'[j].parent = p /\ p \in Items /\ row[p].st = "active"
          BY <1>1, <2>1, <3>1, <3>2, <4>1 DEF ParentActive, Active, Items
        <5>2. p \notin InBatch(b)
          BY <3>3, <5>1
        <5>3. QED
          BY <2>1, <5>1, <5>2
      <4>2. CASE j \in InBatch(b) /\ j # i
        <5>1. row[j].parent # NONE /\ row'[j].parent = row[j].parent /\ row[j].parent \in Items
          BY <2>1, <3>3, <4>2 DEF Items
        <5>2. row[row[j].parent].batch = b
          BY <3>1, <3>3, <3>4, <4>2, <5>1 DEF TreeInv, InsideInv
        <5>3. QED
          BY <2>1, <3>3, <5>1, <5>2
      <4>3. CASE j \notin InBatch(b)
        <5>1. row[j].st = "active" /\ j # i /\ row'[j].parent = row[j].parent
          BY <2>1, <3>2, <4>3
        <5>2. row[row[j].parent].st = "active" /\ row[j].parent \in Items
          BY <3>1, <3>3, <5>1 DEF TreeInv, ActiveInv, ParentActive, Active, Items
        <5>3. row[j].parent \notin InBatch(b)
          BY <3>3, <5>2
        <5>4. QED
          BY <2>1, <5>1, <5>2, <5>3
      <4>4. QED
        BY <4>1, <4>2, <4>3
    <3>6. InsideInv'
      <4> SUFFICES ASSUME NEW j \in Items, row'[j].st = "trashed", ~row'[j].root, row'[j].parent # NONE
                   PROVE  /\ row'[row'[j].parent].st = "trashed"
                          /\ row'[row'[j].parent].batch = row'[j].batch
          BY DEF InsideInv
      <4>1. j \notin InBatch(b) /\ j # i
        BY <2>1, <3>2
      <4>2. /\ row'[j].parent = row[j].parent /\ row[j].parent \in Items
            /\ row'[j].batch = row[j].batch /\ row[j].batch # b
            /\ row[j].st = "trashed" /\ ~row[j].root
        BY <2>1, <3>3, <4>1 DEF Items
      <4>3. row[row[j].parent].st = "trashed" /\ row[row[j].parent].batch = row[j].batch
        BY <3>1, <4>2 DEF TreeInv, InsideInv
      <4>4. row[j].parent \notin InBatch(b)
        BY <3>3, <4>2, <4>3
      <4>5. QED
        BY <2>1, <4>2, <4>3, <4>4
    <3>7. QED
      BY <3>5, <3>6 DEF TreeInv
  <2>4. QED
    BY <2>2, <2>3
<1>4. QED
  BY <1>2, <1>3 DEF Restore

LEMMA TreePurge ==
  ASSUME TypeInv, FreshInv, BatchInv, Calm => TreeInv, NEW h \in Handlers, Purge(h)
  PROVE  BatchInv' /\ (Calm' => TreeInv')
<1> DEFINE b == req[h].batch
           D == UNION {WithContents(d) : d \in InBatch(b) \cap Folders}
<1>1. b \in 1..MaxBatches /\ UNCHANGED batches /\ crossed \subseteq crossed' /\ batches \in Nat
  BY HeldFacts, BoundsAssumption DEF Purge, Cross, TypeInv, CountType
<1>2. CASE UNCHANGED row
  BY <1>1, <1>2, PurgeType, TreeUnchanged
<1>3. CASE DeleteRows(b, req[h].set)
  <2>1. row' = [i \in Items |->
          IF i \in D \cup InBatch(b) THEN NoRow("gone")
          ELSE IF i \in Files /\ row[i].parent \in D THEN [row[i] EXCEPT !.parent = NONE]
          ELSE row[i]]
    BY <1>3 DEF DeleteRows
  <2>2. /\ \A d \in InBatch(b) : d \in Items /\ row[d].st = "trashed"
        /\ D \subseteq {f \in Folders : Exists(f)}
    BY <1>1, DeletedRows DEF TypeInv
  <2>3. \A f \in Folders : Exists(f) /\ row[f].parent \in D => f \in D
    <3>1. ASSUME NEW f \in Folders, Exists(f), NEW d \in InBatch(b) \cap Folders,
                 row[f].parent \in WithContents(d)
          PROVE  f \in WithContents(d)
      BY <3>1, BelowFacts DEF WithContents
    <3>2. QED
      BY <3>1
  <2>4. \A d \in InBatch(b) \cap Folders : d \in D
    BY BelowFacts DEF WithContents
  <2>5. ActiveInv => \A e \in D : ~Active(e)
    BY <2>2, NothingActiveBelow DEF Active
  <2> HIDE DEF D
  <2>6. ASSUME NEW j \in Items
        PROVE  /\ j \in D \cup InBatch(b) => row'[j].st = "gone" /\ row'[j].batch = 0 /\ ~row'[j].root
               /\ j \notin D \cup InBatch(b) =>
                    /\ row'[j].st = row[j].st /\ row'[j].batch = row[j].batch /\ row'[j].root = row[j].root
                    /\ row'[j].parent = (IF j \in Files /\ row[j].parent \in D THEN NONE ELSE row[j].parent)
    BY <2>1 DEF NoRow, TypeInv, RowType, Row
  <2>7. BatchInv'
    <3>1. \A j \in Items : row'[j].batch = 0 \/ (row'[j].batch = row[j].batch /\ row'[j].root = row[j].root)
      BY <2>6
    <3>2. QED
      BY <1>1, <3>1 DEF BatchInv
  <2>8. ASSUME Calm'
        PROVE  TreeInv'
    <3>1. TreeInv /\ \A e \in D : ~Active(e)
      BY <1>1, <2>5, <2>8 DEF Calm, TreeInv
    <3>2. \A j \in Items : row[j].parent \in Folders \cup {NONE}
      BY DEF TypeInv, RowType, Row
    <3>3. ActiveInv'
      <4> SUFFICES ASSUME NEW j \in Items, row'[j].st = "active", row'[j].parent # NONE
                   PROVE  row'[row'[j].parent].st = "active"
          BY DEF ActiveInv, ParentActive, Active
      <4>1. /\ j \notin D \cup InBatch(b) /\ row[j].st = "active"
            /\ row'[j].parent = row[j].parent /\ row[j].parent \in Items
        BY <2>6, <3>2 DEF Items
      <4>2. row[row[j].parent].st = "active"
        BY <3>1, <4>1 DEF TreeInv, ActiveInv, ParentActive, Active
      <4>3. row[j].parent \notin D \cup InBatch(b)
        BY <2>2, <3>1, <4>2 DEF Active
      <4>4. QED
        BY <2>6, <4>1, <4>2, <4>3
    <3>4. InsideInv'
      <4> SUFFICES ASSUME NEW j \in Items, row'[j].st = "trashed", ~row'[j].root, row'[j].parent # NONE
                   PROVE  /\ row'[row'[j].parent].st = "trashed"
                          /\ row'[row'[j].parent].batch = row'[j].batch
          BY DEF InsideInv
      <4>1. /\ j \notin D \cup InBatch(b) /\ row[j].st = "trashed" /\ ~row[j].root
            /\ row'[j].batch = row[j].batch /\ row'[j].parent = row[j].parent
            /\ row[j].parent \in Items
        BY <2>6, <3>2 DEF Items
      <4>2. row[j].parent \notin D
        BY <2>3, <2>6, <4>1 DEF Exists, Items
      <4>3. row[row[j].parent].st = "trashed" /\ row[row[j].parent].batch = row[j].batch
        BY <3>1, <4>1 DEF TreeInv, InsideInv
      <4>4. row[j].parent \notin InBatch(b)
        BY <4>1, <4>3 DEF InBatch
      <4>5. QED
        BY <2>6, <4>1, <4>2, <4>3, <4>4
    <3>5. QED
      BY <3>3, <3>4 DEF TreeInv
  <2>9. QED
    BY <2>7, <2>8
<1>4. QED
  BY <1>2, <1>3 DEF Purge

----------------------------------------------------------------------------
LEMMA TreeNext ==
  ASSUME TypeInv, FreshInv, SeenInv, BatchInv, Calm => TreeInv, [Next]_vars
  PROVE  BatchInv' /\ (Calm' => TreeInv')
<1>1. ASSUME UNCHANGED <<row, batches, crossed>>
      PROVE  BatchInv' /\ (Calm' => TreeInv')
  <2>1. batches' >= batches
    BY <1>1, BoundsAssumption DEF TypeInv, CountType
  <2>2. TypeInv'
    BY NextType
  <2>3. QED
    BY <1>1, <2>1, <2>2, TreeUnchanged
<1>2. CASE UNCHANGED vars \/ Expire \/ PurgeExpired
  BY <1>1, <1>2 DEF vars, Expire, PurgeExpired
<1>3. ASSUME NEW w \in Workers,
             \/ \E i \in Items, p \in Folders \cup {NONE} : Create(w, i, p) \/ BeginMove(w, i, p)
             \/ \E d \in Folders : BeginTrash(w, d)
             \/ \E i \in Items, b \in 1..MaxBatches : BeginRestore(w, i, b)
             \/ \E b \in 1..MaxBatches : BeginPurge(w, b)
             \/ WalkUp(w) \/ RestoreParent(w)
      PROVE  BatchInv' /\ (Calm' => TreeInv')
  BY <1>1, <1>3 DEF Create, BeginMove, BeginTrash, BeginRestore, BeginPurge, WalkUp, RestoreParent
<1>4. ASSUME NEW w \in Workers, Insert(w) \/ Move(w) \/ Trash(w) \/ Restore(w)
      PROVE  BatchInv' /\ (Calm' => TreeInv')
  BY <1>4, TreeInsert, TreeMove, TreeTrash, TreeRestore
<1>5. ASSUME NEW h \in Handlers, PurgeStep(h) \/ DropRequest(h)
      PROVE  BatchInv' /\ (Calm' => TreeInv')
  BY <1>1, <1>5, TreePurge DEF PurgeStep, Gather, DropBlobs, DropRequest
<1>6. ASSUME NEW f \in Files, TrashFile(f)
      PROVE  BatchInv' /\ (Calm' => TreeInv')
  BY <1>6, TreeTrashFile
<1>7. CASE Next
  BY <1>2, <1>3, <1>4, <1>5, <1>6, <1>7 DEF Next
<1>8. QED
  BY <1>2, <1>7

LEMMA AlwaysTree == Spec => [](SeenInv /\ BatchInv /\ (Calm => TreeInv))
<1>1. Init => SeenInv /\ BatchInv /\ (Calm => TreeInv)
  BY DEF Init, SeenInv, SeenOK, BatchInv, TreeInv, ActiveInv, InsideInv, Active, NoRow
<1>2. TypeInv /\ FreshInv /\ SeenInv /\ BatchInv /\ (Calm => TreeInv) /\ [Next]_vars
        => SeenInv' /\ BatchInv' /\ (Calm => TreeInv)'
  BY SeenNext, TreeNext
<1>3. QED
  BY AlwaysTyped, <1>1, <1>2, PTL DEF Spec

\* Create, upload, move, delete, restore and purge, with the cascade of folder
\* rows: nothing active lies in a folder that is trashed or gone, as long as no
\* transaction relied on a parent, subtree or root that had changed.
THEOREM TrashActiveUnderActive == Spec => []ActiveUnderActive
<1>1. (Calm => TreeInv) => ActiveUnderActive
  BY DEF Calm, TreeInv, ActiveInv, ActiveUnderActive
<1>2. QED
  BY AlwaysTree, <1>1, PTL

----------------------------------------------------------------------------
(* What a purge gathered *)

\* Batches still to purge were drawn.  A batch that was drawn only loses items, so
\* that the files gathered from one hold those its rows are deleted for.
DrawnOK(h) ==
  /\ req[h].todo \subseteq 1..batches
  /\ pc[h] = "purge" =>
       req[h].batch \in 1..batches /\ InBatch(req[h].batch) \cap Files \subseteq req[h].set
DrawnInv == \A h \in Handlers : DrawnOK(h)

\* Batch numbers go up, and a row's goes to 0 or to the next one.
BatchStep ==
  /\ batches \in Nat /\ batches' \in {batches, batches + 1}
  /\ \A i \in Items : row[i].batch \in Nat /\ row'[i].batch \in {row[i].batch, 0, batches + 1}

LEMMA StepBatch ==
  ASSUME TypeInv, FreshInv, [Next]_vars
  PROVE  BatchStep
<1>1. batches \in Nat /\ \A i \in Items : row[i].batch \in Nat
  BY BoundsAssumption DEF TypeInv, CountType, RowType, Row
<1>2. ASSUME UNCHANGED <<row, batches>>
      PROVE  BatchStep
  BY <1>1, <1>2 DEF BatchStep
<1>3. ASSUME NEW w \in Workers, Insert(w) \/ Move(w)
      PROVE  BatchStep
  <2>1. \A i \in Items : row'[i].batch = row[i].batch
    BY <1>3 DEF Insert, Move, TypeInv, RowType, Row
  <2>2. UNCHANGED batches
    BY <1>3 DEF Insert, Move
  <2>3. QED
    BY <1>1, <2>1, <2>2 DEF BatchStep
<1>4. ASSUME NEW f \in Files, TrashFile(f)
      PROVE  BatchStep
  <2>1. \A i \in Items : row'[i].batch \in {row[i].batch, batches + 1}
    BY <1>4 DEF TrashFile, TrashRow, TypeInv, RowType, Row
  <2>2. batches' = batches + 1
    BY <1>4 DEF TrashFile
  <2>3. QED
    BY <1>1, <2>1, <2>2 DEF BatchStep
<1>5. ASSUME NEW w \in Workers, Trash(w)
      PROVE  BatchStep
  <2>1. \A i \in Items : row'[i].batch \in {row[i].batch, batches + 1}
    BY <1>5 DEF Trash, TrashRow, TypeInv, RowType, Row
  <2>2. batches' = batches + 1
    BY <1>5 DEF Trash
  <2>3. QED
    BY <1>1, <2>1, <2>2 DEF BatchStep
<1>6. ASSUME NEW w \in Workers, Restore(w), ~UNCHANGED row
      PROVE  BatchStep
  <2> DEFINE i == req[w].item
             p == req[w].parent
             b == req[w].batch
             Redirected(j) == IF j = i /\ Exists(i) THEN [row[j] EXCEPT !.parent = p] ELSE row[j]
  <2>1. row' = [j \in Items |->
          IF j \in InBatch(b) THEN Reactivate(Redirected(j)) ELSE Redirected(j)]
    BY <1>6 DEF Restore
  <2>2. ASSUME NEW j \in Items
        PROVE  row'[j].batch \in {row[j].batch, 0}
    <3>1. Redirected(j).batch = row[j].batch /\ Reactivate(Redirected(j)).batch = 0
      BY DEF Reactivate, TypeInv, RowType, Row
    <3>2. row'[j] \in {Reactivate(Redirected(j)), Redirected(j)}
      BY <2>1
    <3>3. QED
      BY <3>1, <3>2
  <2>3. UNCHANGED batches
    BY <1>6 DEF Restore
  <2>4. QED
    BY <1>1, <2>2, <2>3 DEF BatchStep
<1>7. ASSUME NEW h \in Handlers, Purge(h), ~UNCHANGED row
      PROVE  BatchStep
  <2> DEFINE b == req[h].batch
             D == UNION {WithContents(d) : d \in InBatch(b) \cap Folders}
  <2>1. row' = [i \in Items |->
          IF i \in D \cup InBatch(b) THEN NoRow("gone")
          ELSE IF i \in Files /\ row[i].parent \in D THEN [row[i] EXCEPT !.parent = NONE]
          ELSE row[i]]
    BY <1>7 DEF Purge, DeleteRows
  <2> HIDE DEF D
  <2>2. \A i \in Items : row'[i].batch \in {row[i].batch, 0}
    BY <2>1 DEF NoRow, TypeInv, RowType, Row
  <2>3. UNCHANGED batches
    BY <1>7 DEF Purge
  <2>4. QED
    BY <1>1, <2>2, <2>3 DEF BatchStep
<1>8. CASE UNCHANGED vars \/ Expire \/ PurgeExpired
  BY <1>2, <1>8 DEF vars, Expire, PurgeExpired
<1>9. ASSUME NEW w \in Workers,
             \/ \E i \in Items, p \in Folders \cup {NONE} : Create(w, i, p) \/ BeginMove(w, i, p)
             \/ \E d \in Folders : BeginTrash(w, d)
             \/ \E i \in Items, b \in 1..MaxBatches : BeginRestore(w, i, b)
             \/ \E b \in 1..MaxBatches : BeginPurge(w, b)
             \/ WalkUp(w) \/ RestoreParent(w)
      PROVE  BatchStep
  BY <1>2, <1>9 DEF Create, BeginMove, BeginTrash, BeginRestore, BeginPurge, WalkUp, RestoreParent
<1>10. ASSUME NEW h \in Handlers, PurgeStep(h) \/ DropRequest(h)
       PROVE  BatchStep
  BY <1>2, <1>7, <1>10 DEF PurgeStep, Gather, DropBlobs, DropRequest, Purge
<1>11. ASSUME NEW w \in Workers, Restore(w)
       PROVE  BatchStep
  BY <1>2, <1>6, <1>11 DEF Restore
<1>12. CASE Next
  BY <1>3, <1>4, <1>5, <1>8, <1>9, <1>10, <1>11, <1>12 DEF Next
<1>13. QED
  BY <1>8, <1>12

\* The work of a handler on a batch goes on, or it has just gathered one, drops the
\* blobs it holds, or has had a fault.
SameBatch(v) ==
  /\ pc'[v] = pc[v] /\ req'[v].todo = req[v].todo
  /\ req'[v].batch = req[v].batch /\ req'[v].set = req[v].set
HandStep(v) ==
  /\ req'[v].todo \subseteq req[v].todo \cup 1..batches
  /\ pc'[v] = "purge" => SameBatch(v) \/ Gather(v)
  /\ pc[v] = "dropBlobs" => SameBatch(v) \/ DropBlobs(v) \/ faults' > 0

LEMMA HandOne ==
  ASSUME NEW h \in Handlers, \A v \in Handlers : v # h => SameBatch(v), HandStep(h)
  PROVE  \A v \in Handlers : HandStep(v)
  BY DEF HandStep, SameBatch

LEMMA HandGoto ==
  ASSUME TypeInv, NEW h \in Handlers, NEW label, label # "purge", pc[h] # "dropBlobs",
         NEW r, r.todo \subseteq 1..batches,
         pc' = [pc EXCEPT ![h] = label], req' = [req EXCEPT ![h] = r]
  PROVE  \A v \in Handlers : HandStep(v)
<1>1. \A v \in Handlers : v # h => SameBatch(v)
  BY DEF SameBatch, TypeInv, WorkType
<1>2. HandStep(h)
  BY DEF HandStep, TypeInv, WorkType
<1>3. QED
  BY <1>1, <1>2, HandOne

LEMMA HandFinish ==
  ASSUME TypeInv, NEW h \in Handlers, Finish(h) \/ FinishMoving(h) \/ NextBatch(h),
         pc[h] = "dropBlobs" => DropBlobs(h) \/ faults' > 0
  PROVE  \A v \in Handlers : HandStep(v)
<1>1. ASSUME NEW v \in Handlers, v # h
      PROVE  SameBatch(v)
  BY <1>1 DEF SameBatch, Finish, FinishMoving, NextBatch, Goto, TypeInv, WorkType, Request
<1>2. pc'[h] # "purge" /\ (req'[h] = NoRequest \/ req'[h] = req[h])
  BY DEF Finish, FinishMoving, NextBatch, Goto, TypeInv, WorkType
<1>3. HandStep(h)
  BY <1>2 DEF HandStep, NoRequest
<1>4. QED
  BY <1>1, <1>3, HandOne

LEMMA StepHands ==
  ASSUME TypeInv, FreshInv, BatchInv, [Next]_vars
  PROVE  \A v \in Handlers : HandStep(v)
<1>1. ASSUME NEW h \in Handlers, NEW label, NEW r, Start(h, label, r), label # "purge",
             r.todo \subseteq 1..batches
      PROVE  \A v \in Handlers : HandStep(v)
  BY <1>1, HandGoto DEF Start
<1>2. batches \in Nat
  BY BoundsAssumption DEF TypeInv, CountType
<1>3. ASSUME NEW w \in Workers,
             \/ \E i \in Items, p \in Folders \cup {NONE} : Create(w, i, p) \/ BeginMove(w, i, p)
             \/ \E d \in Folders : BeginTrash(w, d)
             \/ \E i \in Items, b \in 1..MaxBatches : BeginRestore(w, i, b)
      PROVE  \A v \in Handlers : HandStep(v)
  <2>1. w \in Handlers
    BY DEF Handlers
  <2>2. CASE \E i \in Items, p \in Folders \cup {NONE} : Create(w, i, p)
    <3>1. PICK i \in Items, p \in Folders \cup {NONE} : Create(w, i, p)
      BY <2>2
    <3> DEFINE r == [NoRequest EXCEPT !.item = i, !.parent = p, !.seen.active = ParentActive(p)]
    <3>2. r.todo = {} /\ Start(w, "insert", r)
      BY <3>1 DEF Create, NoRequest
    <3> HIDE DEF r
    <3>3. QED
      BY <1>1, <2>1, <3>2
  <2>3. CASE \E i \in Items, p \in Folders \cup {NONE} : BeginMove(w, i, p)
    <3>1. PICK i \in Items, p \in Folders \cup {NONE} : BeginMove(w, i, p)
      BY <2>3
    <3> DEFINE r == [NoRequest EXCEPT !.item = i, !.parent = p, !.at = p,
                                      !.seen.active = ParentActive(p)]
    <3>2. r.todo = {} /\ \E label \in {"walk", "move"} : Start(w, label, r)
      BY <3>1 DEF BeginMove, NoRequest
    <3> HIDE DEF r
    <3>3. QED
      BY <1>1, <2>1, <3>2
  <2>4. CASE \E d \in Folders : BeginTrash(w, d)
    <3>1. PICK d \in Folders : BeginTrash(w, d)
      BY <2>4
    <3> DEFINE r == [NoRequest EXCEPT !.item = d, !.set = Subtree(d), !.seen.set = Subtree(d)]
    <3>2. r.todo = {} /\ Start(w, "trash", r)
      BY <3>1 DEF BeginTrash, NoRequest
    <3> HIDE DEF r
    <3>3. QED
      BY <1>1, <2>1, <3>2
  <2>5. CASE \E i \in Items, b \in 1..MaxBatches : BeginRestore(w, i, b)
    <3>1. PICK i \in Items, b \in 1..MaxBatches : BeginRestore(w, i, b)
      BY <2>5
    <3> DEFINE r == [NoRequest EXCEPT !.item = i, !.parent = row[i].parent, !.batch = b]
    <3>2. r.todo = {} /\ \E label \in {"restore", "restoreParent"} : Start(w, label, r)
      BY <3>1 DEF BeginRestore, NoRequest
    <3> HIDE DEF r
    <3>3. QED
      BY <1>1, <2>1, <3>2
  <2>6. QED
    BY <1>3, <2>2, <2>3, <2>4, <2>5
<1>4. ASSUME NEW w \in Workers, NEW b \in 1..MaxBatches, BeginPurge(w, b)
      PROVE  \A v \in Handlers : HandStep(v)
  <2>1. b \in 1..batches
    <3>1. PICK i \in Items : row[i].batch = b
      BY <1>4 DEF BeginPurge, IsRoot
    <3>2. QED
      BY <1>2, <3>1 DEF BatchInv
  <2>2. [NoRequest EXCEPT !.todo = {b}].todo = {b}
    BY DEF NoRequest
  <2>3. w \in Handlers /\ Start(w, "gather", [NoRequest EXCEPT !.todo = {b}])
    BY <1>4 DEF BeginPurge, Handlers
  <2>4. QED
    BY <1>1, <2>1, <2>2, <2>3
<1>5. CASE PurgeExpired
  <2>1. Due \subseteq 1..batches
    BY <1>2 DEF Due, TypeInv, CountType
  <2>2. [NoRequest EXCEPT !.todo = Due].todo = Due
    BY DEF NoRequest
  <2>3. janitor \in Handlers /\ Start(janitor, "gather", [NoRequest EXCEPT !.todo = Due])
    BY <1>5 DEF PurgeExpired, Handlers
  <2>4. QED
    BY <1>1, <2>1, <2>2, <2>3
<1>6. ASSUME NEW w \in Workers, WalkUp(w)
      PROVE  \A v \in Handlers : HandStep(v)
  <2>1. w \in Handlers /\ pc[w] = "walk" /\ req[w] \in Request
    BY <1>6, HeldFacts DEF WalkUp, Handlers
  <2>2. CASE Finish(w)
    BY <2>1, <2>2, HandFinish
  <2>3. CASE ~Finish(w)
    <3>1. \A v \in Handlers : req'[v].todo = req[v].todo
      BY <1>6, <2>3 DEF WalkUp, TypeInv, WorkType, Request
    <3>2. \A v \in Handlers : req'[v].batch = req[v].batch /\ req'[v].set = req[v].set
      BY <1>6, <2>3 DEF WalkUp, TypeInv, WorkType, Request
    <3>3. pc'[w] \in {"walk", "move"} /\ \A v \in Handlers : v # w => pc'[v] = pc[v]
      BY <1>6, <2>1, <2>3 DEF WalkUp, Goto, TypeInv, WorkType
    <3>4. HandStep(w)
      BY <2>1, <3>1, <3>3 DEF HandStep
    <3>5. QED
      BY <2>1, <3>1, <3>2, <3>3, <3>4, HandOne DEF SameBatch
  <2>4. QED
    BY <2>2, <2>3
<1>7. ASSUME NEW w \in Workers, RestoreParent(w)
      PROVE  \A v \in Handlers : HandStep(v)
  <2> DEFINE p == IF Active(req[w].parent) THEN req[w].parent ELSE NONE
             r == [req[w] EXCEPT !.parent = p, !.seen.active = ParentActive(p)]
  <2>1. w \in Handlers /\ pc[w] = "restoreParent" /\ req[w] \in Request
    BY <1>7, HeldFacts DEF RestoreParent, Handlers
  <2>2. r.todo = req[w].todo
    BY <2>1 DEF Request
  <2>3. pc' = [pc EXCEPT ![w] = "restore"] /\ req' = [req EXCEPT ![w] = r]
    BY <1>7 DEF RestoreParent, Goto
  <2> HIDE DEF r
  <2>4. HandStep(w) /\ \A v \in Handlers : v # w => SameBatch(v)
    BY <2>1, <2>2, <2>3 DEF HandStep, SameBatch, TypeInv, WorkType
  <2>5. QED
    BY <2>1, <2>4, HandOne
<1>8. ASSUME NEW h \in Handlers, Gather(h)
      PROVE  \A v \in Handlers : HandStep(v)
  <2>1. PICK b \in req[h].todo : req' = [req EXCEPT ![h] = Gathered(@, b, InBatch(b) \cap Files)]
    BY <1>8 DEF Gather
  <2>2. req'[h].todo = req[h].todo \ {b} /\ \A v \in Handlers : v # h => req'[v] = req[v]
    BY <2>1 DEF Gathered, TypeInv, WorkType, Request
  <2>3. pc[h] = "gather" /\ \A v \in Handlers : v # h => pc'[v] = pc[v]
    BY <1>8 DEF Gather, Goto, TypeInv, WorkType
  <2>4. HandStep(h) /\ \A v \in Handlers : v # h => SameBatch(v)
    BY <1>8, <2>2, <2>3 DEF HandStep, SameBatch
  <2>5. QED
    BY <2>4, HandOne
<1>9. ASSUME NEW h \in Handlers, Purge(h)
      PROVE  \A v \in Handlers : HandStep(v)
  <2>1. pc[h] = "purge"
    BY <1>9 DEF Purge
  <2>2. CASE NextBatch(h)
    BY <2>1, <2>2, HandFinish
  <2>3. CASE Goto(h, "dropBlobs") /\ UNCHANGED req
    <3>1. HandStep(h) /\ \A v \in Handlers : v # h => SameBatch(v)
      BY <2>1, <2>3 DEF Goto, HandStep, SameBatch, TypeInv, WorkType
    <3>2. QED
      BY <3>1, HandOne
  <2>4. QED
    BY <1>9, <2>2, <2>3 DEF Purge
<1>10. ASSUME UNCHANGED <<pc, req>>
       PROVE  \A v \in Handlers : HandStep(v)
  BY <1>10 DEF HandStep, SameBatch
<1>11. ASSUME NEW w \in Workers, Insert(w) \/ Move(w) \/ Trash(w) \/ Restore(w)
       PROVE  \A v \in Handlers : HandStep(v)
  <2>1. w \in Handlers /\ pc[w] # "dropBlobs" /\ (Finish(w) \/ FinishMoving(w))
    BY <1>11 DEF Insert, Move, Trash, Restore, Handlers
  <2>2. QED
    BY <2>1, HandFinish
<1>12. ASSUME NEW h \in Handlers, DropBlobs(h) \/ DropRequest(h)
       PROVE  \A v \in Handlers : HandStep(v)
  <2>1. Finish(h) \/ NextBatch(h)
    BY <1>12 DEF DropBlobs, DropRequest
  <2>2. DropBlobs(h) \/ faults' > 0
    BY <1>12 DEF DropRequest, Fault, TypeInv, CountType
  <2>3. QED
    BY <2>1, <2>2, HandFinish
<1>13. CASE UNCHANGED vars \/ Expire \/ \E f \in Files : TrashFile(f)
  BY <1>10, <1>13 DEF vars, Expire, TrashFile
<1>14. CASE Next
  BY <1>3, <1>4, <1>5, <1>6, <1>7, <1>8, <1>9, <1>11, <1>12, <1>13, <1>14 DEF Next, PurgeStep
<1>15. QED
  BY <1>13, <1>14

LEMMA DrawnNext ==
  ASSUME TypeInv, FreshInv, BatchInv, DrawnInv, [Next]_vars
  PROVE  DrawnInv'
<1> SUFFICES ASSUME NEW h \in Handlers
             PROVE  DrawnOK(h)'
    BY DEF DrawnInv
<1>1. HandStep(h) /\ BatchStep
  BY StepHands, StepBatch
<1>2. 1..batches \subseteq 1..batches'
  BY <1>1 DEF BatchStep
<1>3. req'[h].todo \subseteq 1..batches'
  BY <1>1, <1>2 DEF HandStep, DrawnInv, DrawnOK
<1>4. ASSUME pc'[h] = "purge", SameBatch(h)
      PROVE  /\ req'[h].batch \in 1..batches'
             /\ (InBatch(req[h].batch) \cap Files)' \subseteq req'[h].set
  <2> DEFINE b == req[h].batch
  <2>1. pc[h] = "purge" /\ req'[h].batch = b /\ req'[h].set = req[h].set
    BY <1>4 DEF SameBatch
  <2>2. b \in 1..batches /\ InBatch(b) \cap Files \subseteq req[h].set
    BY <2>1 DEF DrawnInv, DrawnOK
  <2>3. \A i \in Items : row'[i].batch = b => row[i].batch = b
    BY <1>1, <2>2 DEF BatchStep
  <2>4. \A i \in Items : row'[i].batch = req'[h].batch => row[i].batch = b
    BY <2>1, <2>3
  <2>5. (InBatch(req[h].batch) \cap Files)' \subseteq InBatch(b) \cap Files
    BY <2>4 DEF InBatch
  <2>6. QED
    BY <1>2, <2>1, <2>2, <2>5
<1>5. ASSUME Gather(h)
      PROVE  /\ req'[h].batch \in 1..batches'
             /\ (InBatch(req[h].batch) \cap Files)' \subseteq req'[h].set
  <2>1. PICK b \in req[h].todo : req' = [req EXCEPT ![h] = Gathered(@, b, InBatch(b) \cap Files)]
    BY <1>5 DEF Gather
  <2>2. req'[h].batch = b /\ req'[h].set = InBatch(b) \cap Files /\ UNCHANGED <<row, batches>>
    BY <1>5, <2>1 DEF Gather, Gathered, TypeInv, WorkType, Request
  <2>3. b \in 1..batches
    BY DEF DrawnInv, DrawnOK
  <2>4. (InBatch(req[h].batch) \cap Files)' = InBatch(b) \cap Files
    BY <2>2 DEF InBatch
  <2>5. QED
    BY <2>2, <2>3, <2>4
<1>6. QED
  BY <1>1, <1>3, <1>4, <1>5 DEF HandStep, DrawnOK

LEMMA FreedNext ==
  ASSUME TypeInv, FreshInv, BatchInv, DrawnInv, BytesFreed, [Next]_vars
  PROVE  BytesFreed'
<1> SUFFICES ASSUME NEW f \in blobs', row'[f].st = "gone", faults' = 0
             PROVE  \E h \in Handlers : pc'[h] = "dropBlobs" /\ f \in req'[h].set
    <2>1. faults' \in Nat
      BY NextType DEF TypeInv, CountType
    <2>2. QED
      BY <2>1 DEF BytesFreed
<1>1. faults = 0
  <2>1. ASSUME Fault \/ UNCHANGED faults
        PROVE  faults = 0
    BY <2>1 DEF Fault, TypeInv, CountType
  <2>2. ASSUME NEW w \in Workers,
               \/ \E i \in Items, p \in Folders \cup {NONE} : Create(w, i, p) \/ BeginMove(w, i, p)
               \/ \E d \in Folders : BeginTrash(w, d)
               \/ \E i \in Items, b \in 1..MaxBatches : BeginRestore(w, i, b)
               \/ \E b \in 1..MaxBatches : BeginPurge(w, b)
        PROVE  UNCHANGED faults
    BY <2>2 DEF Create, BeginMove, BeginTrash, BeginRestore, BeginPurge
  <2>3. ASSUME NEW w \in Workers,
               Insert(w) \/ WalkUp(w) \/ Move(w) \/ Trash(w) \/ RestoreParent(w) \/ Restore(w)
        PROVE  UNCHANGED faults
    BY <2>3 DEF Insert, WalkUp, Move, Trash, RestoreParent, Restore
  <2>4. ASSUME NEW h \in Handlers, PurgeStep(h) \/ DropRequest(h)
        PROVE  Fault \/ UNCHANGED faults
    BY <2>4 DEF PurgeStep, Gather, Purge, DropBlobs, DropRequest
  <2>5. CASE UNCHANGED vars \/ Expire \/ PurgeExpired \/ \E g \in Files : TrashFile(g)
    BY <2>1, <2>5 DEF vars, Expire, PurgeExpired, TrashFile
  <2>6. QED
    BY <2>1, <2>2, <2>3, <2>4, <2>5 DEF Next
<1>2. \A h \in Handlers : HandStep(h)
  BY StepHands
<1>3. ASSUME f \in blobs, row[f].st = "gone", \A h \in Handlers : ~DropBlobs(h)
      PROVE  \E h \in Handlers : pc'[h] = "dropBlobs" /\ f \in req'[h].set
  <2>1. PICK h \in Handlers : pc[h] = "dropBlobs" /\ f \in req[h].set
    BY <1>1, <1>3 DEF BytesFreed
  <2>2. SameBatch(h)
    BY <1>2, <1>3, <2>1 DEF HandStep
  <2>3. QED
    BY <2>1, <2>2 DEF SameBatch
<1>4. ASSUME NEW g \in Handlers, DropBlobs(g)
      PROVE  \E h \in Handlers : pc'[h] = "dropBlobs" /\ f \in req'[h].set
  <2>1. blobs' = blobs \ req[g].set /\ UNCHANGED row
    BY <1>1, <1>4 DEF DropBlobs, Fault
  <2>2. PICK h \in Handlers : pc[h] = "dropBlobs" /\ f \in req[h].set
    BY <1>1, <2>1 DEF BytesFreed
  <2>3. h # g
    BY <2>1, <2>2
  <2>4. SameBatch(h)
    BY <1>4, <2>3 DEF DropBlobs, NextBatch, Goto, Finish, SameBatch, TypeInv, WorkType
  <2>5. QED
    BY <2>2, <2>4 DEF SameBatch
<1>5. ASSUME NEW g \in Handlers, Purge(g)
      PROVE  \E h \in Handlers : pc'[h] = "dropBlobs" /\ f \in req'[h].set
  <2> DEFINE b == req[g].batch
             D == UNION {WithContents(d) : d \in InBatch(b) \cap Folders}
  <2>1. pc[g] = "purge" /\ f \in blobs /\ f \in Files /\ b \in 1..MaxBatches
    BY <1>5, HeldFacts DEF Purge, TypeInv, CountType
  <2>2. DeleteRows(b, req[g].set) /\ Goto(g, "dropBlobs") /\ UNCHANGED req
    BY <1>1, <1>5 DEF Purge, Fault
  <2>3. CASE f \in InBatch(b)
    <3>1. f \in req[g].set
      BY <2>1, <2>3 DEF DrawnInv, DrawnOK
    <3>2. QED
      BY <2>2, <3>1 DEF Goto, TypeInv, WorkType
  <2>4. CASE f \notin InBatch(b)
    <3>1. row' = [i \in Items |->
            IF i \in D \cup InBatch(b) THEN NoRow("gone")
            ELSE IF i \in Files /\ row[i].parent \in D THEN [row[i] EXCEPT !.parent = NONE]
            ELSE row[i]]
      BY <2>2 DEF DeleteRows
    <3>2. f \in Items /\ f \notin D \cup InBatch(b)
      BY <2>1, <2>4, DeletedRows, IdsAssumption DEF TypeInv, Items
    <3> HIDE DEF D
    <3>3. row'[f].st = row[f].st
      BY <3>1, <3>2 DEF TypeInv, RowType, Row
    <3>4. PICK h \in Handlers : pc[h] = "dropBlobs" /\ f \in req[h].set
      BY <1>1, <2>1, <3>3 DEF BytesFreed
    <3>5. pc'[h] = "dropBlobs" /\ req'[h] = req[h]
      BY <2>2, <3>4 DEF Goto, TypeInv, WorkType
    <3>6. QED
      BY <3>4, <3>5
  <2>5. QED
    BY <2>3, <2>4
<1>6. ASSUME NEW w \in Workers, Insert(w)
      PROVE  \E h \in Handlers : pc'[h] = "dropBlobs" /\ f \in req'[h].set
  <2> DEFINE i == req[w].item
  <2>1. w \in Handlers /\ pc[w] = "insert" /\ i \in Items /\ row[i].st = "new"
    BY <1>6, HeldFacts DEF Insert, Handlers, OnItem, FreshInv
  <2>2. row'[f].st = row[f].st /\ f \in blobs
    <3>1. CASE UNCHANGED <<row, blobs>>
      BY <3>1
    <3>2. CASE /\ row' = [row EXCEPT ![i].st = "active", ![i].parent = req[w].parent]
               /\ blobs' = blobs \cup ({i} \cap Files)
      <4>1. row'[i].st = "active" /\ \A j \in Items : j # i => row'[j] = row[j]
        BY <2>1, <3>2 DEF TypeInv, RowType, Row
      <4>2. f # i /\ f \in blobs /\ f \in Items
        BY <3>2, <4>1 DEF TypeInv, CountType, Items
      <4>3. QED
        BY <4>1, <4>2
    <3>3. QED
      BY <1>6, <3>1, <3>2 DEF Insert
  <2>3. PICK h \in Handlers : pc[h] = "dropBlobs" /\ f \in req[h].set
    BY <1>1, <2>2 DEF BytesFreed
  <2>4. pc'[h] = "dropBlobs" /\ req'[h] = req[h]
    BY <1>6, <2>1, <2>3 DEF Insert, Finish, TypeInv, WorkType
  <2>5. QED
    BY <2>3, <2>4
<1>7. ASSUME NEW w \in Workers, NEW i \in Items, NEW p \in Folders \cup {NONE}, Create(w, i, p)
      PROVE  \E h \in Handlers : pc'[h] = "dropBlobs" /\ f \in req'[h].set
  <2>1. PICK h \in Handlers : pc[h] = "dropBlobs" /\ f \in req[h].set
    BY <1>1, <1>7 DEF Create, BytesFreed
  <2>2. pc'[h] = "dropBlobs" /\ req'[h] = req[h]
    BY <1>7, <2>1 DEF Create, Start, TypeInv, WorkType
  <2>3. QED
    BY <2>1, <2>2
<1>8. CASE Quiet /\ \A h \in Handlers : ~DropBlobs(h)
  <2>1. f \in blobs /\ f \in Items
    BY <1>8 DEF Quiet, TypeInv, CountType, Items
  <2>2. row[f].st = "gone"
    BY <1>8, <2>1 DEF Quiet, SameLife, Exists
  <2>3. QED
    BY <1>3, <1>8, <2>1, <2>2
<1>9. QED
  BY <1>4, <1>5, <1>6, <1>7, <1>8, StepKinds

LEMMA AlwaysFreed == Spec => [](DrawnInv /\ BytesFreed)
<1>1. Init => DrawnInv /\ BytesFreed
  BY DEF Init, DrawnInv, DrawnOK, NoRequest, BytesFreed
<1>2. TypeInv /\ FreshInv /\ BatchInv /\ DrawnInv /\ BytesFreed /\ [Next]_vars
        => DrawnInv' /\ BytesFreed'
  BY DrawnNext, FreedNext
<1>3. QED
  BY AlwaysTyped, AlwaysTree, <1>1, <1>2, PTL DEF Spec

\* PurgeBatch deletes the blobs of the files it gathered, and the rows of a batch
\* that can only have shrunk since: no purged file leaves its bytes behind unless
\* a call failed or the handler was dropped.
THEOREM TrashBytesFreed == Spec => []BytesFreed
  BY AlwaysFreed, PTL

----------------------------------------------------------------------------
(* The folders form a tree *)

\* The parent of a folder that has a row has one: the foreign key.
RowsInv == \A f \in Folders : Exists(f) => ParentExists(row[f].parent)

\* U is a way up the tree from p to below top that does not meet i.
WayUp(U, p, i, top) ==
  /\ p \in U \cup {top} /\ i \notin U
  /\ \A f \in U : Exists(f) /\ row[f].parent \in U \cup {top, NONE}

\* A folder that is to be moved has not been met on the way up from its new parent,
\* unless a folder was moved since.
WalkOK(h) ==
  pc[h] \in {"walk", "move"} /\ req[h].parent # NONE =>
    /\ row[req[h].parent].st # "new"
    /\ req[h].item \in Folders /\ ~req[h].seen.moved /\ Exists(req[h].parent) =>
         \E U \in SUBSET Folders :
           WayUp(U, req[h].parent, req[h].item, IF pc[h] = "walk" THEN req[h].at ELSE NONE)
WalkInv == \A h \in Handlers : WalkOK(h)

\* A restored root goes back where its row says, or to the workspace's root.
Tame == crossed \cap {"cycle", "restore"} = {}
HomeOK(h) ==
  pc[h] \in {"restoreParent", "restore"} =>
    /\ req[h].batch \in 1..batches
    /\ IsRoot(req[h].item, req[h].batch) /\ req[h].item \in Folders =>
         \/ req[h].parent = row[req[h].item].parent
         \/ pc[h] = "restore" /\ req[h].parent = NONE
HomeInv == \A h \in Handlers : HomeOK(h)

NoLoop == \A S \in SUBSET Folders : ~Loop(S)

\* A handler goes on with the request it has, or has left the moves and restores.
SameWay(v) ==
  pc'[v] \in {"walk", "move", "restoreParent", "restore"} =>
    /\ pc'[v] = pc[v]
    /\ req'[v].item = req[v].item /\ req'[v].parent = req[v].parent /\ req'[v].at = req[v].at
    /\ req'[v].batch = req[v].batch /\ (~req'[v].seen.moved => ~req[v].seen.moved)

\* Folders only go, and one that stays keeps its place.
OnlyGo ==
  \A f \in Folders :
    /\ row'[f].st = "new" => row[f].st = "new"
    /\ Exists(f)' => /\ Exists(f) /\ row'[f].parent = row[f].parent
                     /\ ParentExists(row[f].parent)'

----------------------------------------------------------------------------
LEMMA GoFacts ==
  ASSUME TypeInv, RowsInv, OnlyGo
  PROVE  RowsInv' /\ (NoLoop => NoLoop')
<1>1. RowsInv'
  BY DEF RowsInv, OnlyGo, ParentExists
<1>2. ASSUME NEW S \in SUBSET Folders, Loop(S)'
      PROVE  Loop(S)
  BY <1>2 DEF Loop, OnlyGo
<1>3. QED
  BY <1>1, <1>2 DEF NoLoop

\* A way up is shortened by what goes.
LEMMA WayShrinks ==
  ASSUME OnlyGo, NEW p, NEW i, NEW top, NEW U \in SUBSET Folders, WayUp(U, p, i, top), Exists(p)'
  PROVE  \E T \in SUBSET Folders :
           /\ p \in T \cup {top} /\ i \notin T
           /\ \A f \in T : Exists(f)' /\ row'[f].parent \in T \cup {top, NONE}
<1> DEFINE T == {f \in U : Exists(f)'}
<1>1. \A f \in T : /\ f \in U /\ Exists(f)' /\ row'[f].parent = row[f].parent
                   /\ ParentExists(row[f].parent)'
  BY DEF OnlyGo
<1>2. \A f \in T : row'[f].parent \in T \cup {top, NONE}
  BY <1>1 DEF WayUp, ParentExists
<1>3. p \in T \cup {top} /\ i \notin T /\ T \in SUBSET Folders
  BY DEF WayUp
<1>4. QED
  BY <1>1, <1>2, <1>3

LEMMA GoWalk ==
  ASSUME TypeInv, OnlyGo, NEW v \in Handlers, WalkOK(v), SameWay(v)
  PROVE  WalkOK(v)'
<1> SUFFICES ASSUME pc'[v] \in {"walk", "move"}, req'[v].parent # NONE
             PROVE  WalkOK(v)'
    BY DEF WalkOK
<1>1. /\ pc'[v] = pc[v] /\ req'[v].item = req[v].item /\ req'[v].parent = req[v].parent
      /\ req'[v].at = req[v].at /\ (~req'[v].seen.moved => ~req[v].seen.moved)
  BY DEF SameWay
<1>2. req[v].parent \in Folders /\ row[req[v].parent].st # "new"
  BY <1>1, HeldFacts DEF WalkOK
<1>3. row'[req[v].parent].st # "new"
  BY <1>2 DEF OnlyGo
<1>4. ASSUME req[v].item \in Folders, ~req'[v].seen.moved, Exists(req[v].parent)'
      PROVE  (\E U \in SUBSET Folders :
                WayUp(U, req[v].parent, req[v].item, IF pc[v] = "walk" THEN req[v].at ELSE NONE))'
  <2>1. Exists(req[v].parent)
    BY <1>1, <1>2, <1>4 DEF OnlyGo, Exists
  <2>2. PICK U \in SUBSET Folders :
          WayUp(U, req[v].parent, req[v].item, IF pc[v] = "walk" THEN req[v].at ELSE NONE)
    BY <1>1, <1>4, <2>1 DEF WalkOK
  <2>3. PICK T \in SUBSET Folders :
          /\ req[v].parent \in T \cup {IF pc[v] = "walk" THEN req[v].at ELSE NONE}
          /\ req[v].item \notin T
          /\ \A f \in T : /\ Exists(f)'
                         /\ row'[f].parent \in T \cup {IF pc[v] = "walk" THEN req[v].at ELSE NONE, NONE}
    <3>1. row'[req[v].parent].st \in {"active", "trashed"}
      BY <1>1, <1>4 DEF Exists
    <3>2. QED
      BY <2>2, <3>1, WayShrinks DEF Exists
  <2>4. QED
    BY <1>1, <2>3 DEF WayUp
<1>5. QED
  BY <1>1, <1>3, <1>4 DEF WalkOK

----------------------------------------------------------------------------
(* What a step does to the handlers on their way *)

\* The steps of a handler that change what it is about to do.
OwnWay(v) ==
  /\ v \in Workers
  /\ \/ \E i \in Items, p \in Folders \cup {NONE} : BeginMove(v, i, p)
     \/ \E i \in Items, b \in 1..MaxBatches : BeginRestore(v, i, b)
     \/ WalkUp(v) \/ RestoreParent(v)

LEMMA StepWays ==
  ASSUME TypeInv, FreshInv, [Next]_vars
  PROVE  \A v \in Handlers : SameWay(v) \/ OwnWay(v)
<1>1. ASSUME NEW h \in Handlers, \A v \in Handlers : v # h => pc'[v] = pc[v] /\ req'[v] = req[v],
             OwnWay(h) \/ pc'[h] \notin {"walk", "move", "restoreParent", "restore"}
      PROVE  \A v \in Handlers : SameWay(v) \/ OwnWay(v)
  BY <1>1 DEF SameWay
<1>2. ASSUME NEW h \in Handlers, NEW label, NEW r, Start(h, label, r),
             OwnWay(h) \/ label \notin {"walk", "move", "restoreParent", "restore"}
      PROVE  \A v \in Handlers : SameWay(v) \/ OwnWay(v)
  <2>1. pc'[h] = label /\ \A v \in Handlers : v # h => pc'[v] = pc[v] /\ req'[v] = req[v]
    BY <1>2 DEF Start, TypeInv, WorkType
  <2>2. QED
    BY <1>1, <1>2, <2>1
<1>3. ASSUME NEW h \in Handlers, Finish(h) \/ NextBatch(h)
      PROVE  \A v \in Handlers : SameWay(v) \/ OwnWay(v)
  <2>1. pc'[h] \in {"idle", "gather"} /\ \A v \in Handlers : v # h => pc'[v] = pc[v] /\ req'[v] = req[v]
    BY <1>3 DEF Finish, NextBatch, Goto, TypeInv, WorkType
  <2>2. QED
    BY <1>1, <2>1
<1>4. ASSUME NEW h \in Handlers, FinishMoving(h)
      PROVE  \A v \in Handlers : SameWay(v) \/ OwnWay(v)
  <2>1. ASSUME NEW v \in Handlers, v # h
        PROVE  /\ pc'[v] = pc[v] /\ req'[v].item = req[v].item /\ req'[v].parent = req[v].parent
               /\ req'[v].at = req[v].at /\ req'[v].batch = req[v].batch
               /\ ~req'[v].seen.moved => ~req[v].seen.moved
    BY <1>4, <2>1 DEF FinishMoving, TypeInv, WorkType, Request, Facts
  <2>2. pc'[h] = "idle"
    BY <1>4 DEF FinishMoving, TypeInv, WorkType
  <2>3. QED
    BY <2>1, <2>2 DEF SameWay
<1>5. ASSUME NEW w \in Workers, OwnWay(w)
      PROVE  \A v \in Handlers : SameWay(v) \/ OwnWay(v)
  <2>1. w \in Handlers
    BY DEF Handlers
  <2>2. \A v \in Handlers : v # w => pc'[v] = pc[v] /\ req'[v] = req[v]
    <3>1. CASE \E i \in Items, p \in Folders \cup {NONE} : BeginMove(w, i, p)
      BY <3>1 DEF BeginMove, Start, TypeInv, WorkType
    <3>2. CASE \E i \in Items, b \in 1..MaxBatches : BeginRestore(w, i, b)
      BY <3>2 DEF BeginRestore, Start, TypeInv, WorkType
    <3>3. CASE WalkUp(w)
      BY <3>3 DEF WalkUp, Goto, Finish, TypeInv, WorkType
    <3>4. CASE RestoreParent(w)
      BY <3>4 DEF RestoreParent, Goto, TypeInv, WorkType
    <3>5. QED
      BY <1>5, <3>1, <3>2, <3>3, <3>4 DEF OwnWay
  <2>3. QED
    BY <1>1, <1>5, <2>1, <2>2
<1>6. ASSUME NEW w \in Workers,
             \/ \E i \in Items, p \in Folders \cup {NONE} : Create(w, i, p)
             \/ \E d \in Folders : BeginTrash(w, d)
             \/ \E b \in 1..MaxBatches : BeginPurge(w, b)
      PROVE  \A v \in Handlers : SameWay(v) \/ OwnWay(v)
  <2>1. w \in Handlers /\ \E label \in {"insert", "trash", "gather"} : \E r : Start(w, label, r)
    BY <1>6, Zenon DEF Create, BeginTrash, BeginPurge, Handlers
  <2>2. QED
    BY <1>2, <2>1
<1>7. CASE PurgeExpired
  BY <1>2, <1>7 DEF PurgeExpired, Handlers
<1>8. ASSUME NEW h \in Handlers, Gather(h) \/ Purge(h) \/ DropBlobs(h) \/ DropRequest(h)
      PROVE  \A v \in Handlers : SameWay(v) \/ OwnWay(v)
  <2>1. CASE Finish(h) \/ NextBatch(h)
    BY <1>3, <2>1
  <2>2. CASE \E label \in {"purge", "dropBlobs"} : Goto(h, label)
    <3>1. \A v \in Handlers : v # h => req'[v] = req[v]
      BY <1>8 DEF Gather, Purge, DropBlobs, DropRequest, NextBatch, Finish, TypeInv, WorkType
    <3>2. pc'[h] \in {"purge", "dropBlobs"} /\ \A v \in Handlers : v # h => pc'[v] = pc[v]
      BY <2>2 DEF Goto, TypeInv, WorkType
    <3>3. QED
      BY <1>1, <3>1, <3>2
  <2>3. QED
    BY <1>8, <2>1, <2>2 DEF Gather, Purge, DropBlobs, DropRequest
<1>9. ASSUME NEW w \in Workers, Insert(w) \/ Move(w) \/ Trash(w) \/ Restore(w)
      PROVE  \A v \in Handlers : SameWay(v) \/ OwnWay(v)
  BY <1>3, <1>4, <1>9 DEF Insert, Move, Trash, Restore, Handlers
<1>10. CASE UNCHANGED vars \/ Expire \/ \E f \in Files : TrashFile(f)
  BY <1>10 DEF vars, Expire, TrashFile, SameWay
<1>11. CASE Next
  <2>1. ASSUME NEW w \in Workers, NEW i \in Items, NEW p \in Folders \cup {NONE},
               Create(w, i, p) \/ BeginMove(w, i, p)
        PROVE  \A v \in Handlers : SameWay(v) \/ OwnWay(v)
    BY <1>5, <1>6, <2>1 DEF OwnWay
  <2>2. ASSUME NEW w \in Workers, NEW i \in Items, NEW b \in 1..MaxBatches, BeginRestore(w, i, b)
        PROVE  \A v \in Handlers : SameWay(v) \/ OwnWay(v)
    BY <1>5, <2>2 DEF OwnWay
  <2>3. ASSUME NEW w \in Workers,
               \/ \E d \in Folders : BeginTrash(w, d)
               \/ \E b \in 1..MaxBatches : BeginPurge(w, b)
               \/ WalkUp(w) \/ RestoreParent(w)
        PROVE  \A v \in Handlers : SameWay(v) \/ OwnWay(v)
    BY <1>5, <1>6, <2>3 DEF OwnWay
  <2>4. ASSUME NEW h \in Handlers, PurgeStep(h) \/ DropRequest(h)
        PROVE  \A v \in Handlers : SameWay(v) \/ OwnWay(v)
    BY <1>8, <2>4 DEF PurgeStep
  <2>5. QED
    BY <1>7, <1>9, <1>10, <1>11, <2>1, <2>2, <2>3, <2>4 DEF Next
<1>12. QED
  BY <1>10, <1>11

----------------------------------------------------------------------------
(* What a step does to the folders *)

LEMMA TrashGoes ==
  ASSUME TypeInv, RowsInv, (\E w \in Workers : Trash(w)) \/ (\E f \in Files : TrashFile(f))
  PROVE  OnlyGo
<1>1. \A i \in Items : /\ row'[i].parent = row[i].parent
                       /\ row'[i].st = row[i].st \/ (row[i].st = "active" /\ row'[i].st = "trashed")
  <2>1. ASSUME NEW w \in Workers, Trash(w), NEW i \in Items
        PROVE  /\ row'[i].parent = row[i].parent
               /\ row'[i].st = row[i].st \/ (row[i].st = "active" /\ row'[i].st = "trashed")
    <3>1. row'[i] = row[i] \/ (Active(i) /\ \E root : row'[i] = TrashRow(row[i], batches + 1, root))
      BY <2>1 DEF Trash
    <3>2. \A root : /\ TrashRow(row[i], batches + 1, root).st = "trashed"
                    /\ TrashRow(row[i], batches + 1, root).parent = row[i].parent
      BY DEF TypeInv, RowType, Row, TrashRow
    <3>3. QED
      BY <3>1, <3>2 DEF Active
  <2>2. ASSUME NEW f \in Files, TrashFile(f), NEW i \in Items
        PROVE  /\ row'[i].parent = row[i].parent
               /\ row'[i].st = row[i].st \/ (row[i].st = "active" /\ row'[i].st = "trashed")
    <3>1. row'[i] = row[i] \/ (Active(i) /\ row'[i] = TrashRow(row[i], batches + 1, TRUE))
      BY <2>2 DEF TrashFile, TypeInv, RowType, TrashRow
    <3>2. /\ TrashRow(row[i], batches + 1, TRUE).st = "trashed"
          /\ TrashRow(row[i], batches + 1, TRUE).parent = row[i].parent
      BY DEF TypeInv, RowType, Row, TrashRow
    <3>3. QED
      BY <3>1, <3>2 DEF Active
  <2>3. QED
    BY <2>1, <2>2
<1>2. \A f \in Folders : row[f].parent # NONE => row[f].parent \in Items
  BY DEF TypeInv, RowType, Row, Items
<1>3. QED
  BY <1>1, <1>2 DEF OnlyGo, RowsInv, ParentExists, Exists, Items

LEMMA PurgeGoes ==
  ASSUME TypeInv, RowsInv, NEW h \in Handlers, Purge(h), ~UNCHANGED row
  PROVE  OnlyGo
<1> DEFINE b == req[h].batch
           D == UNION {WithContents(d) : d \in InBatch(b) \cap Folders}
<1>1. b \in 1..MaxBatches /\ DeleteRows(b, req[h].set)
  BY HeldFacts DEF Purge
<1>2. row' = [i \in Items |->
        IF i \in D \cup InBatch(b) THEN NoRow("gone")
        ELSE IF i \in Files /\ row[i].parent \in D THEN [row[i] EXCEPT !.parent = NONE]
        ELSE row[i]]
  BY <1>1 DEF DeleteRows
<1>3. \A f \in Folders : Exists(f) /\ row[f].parent \in D => f \in D
  <2>1. ASSUME NEW f \in Folders, Exists(f), NEW d \in InBatch(b) \cap Folders,
               row[f].parent \in WithContents(d)
        PROVE  f \in WithContents(d)
    BY <2>1, BelowFacts DEF WithContents
  <2>2. QED
    BY <2>1
<1>4. \A d \in InBatch(b) \cap Folders : d \in D
  BY BelowFacts DEF WithContents
<1> HIDE DEF D
<1>5. ASSUME NEW f \in Folders
      PROVE  /\ f \in D => row'[f].st = "gone"
             /\ f \notin D => row'[f] = row[f]
  BY <1>2, <1>4, IdsAssumption DEF NoRow, Items
<1>6. \A f \in Folders : row[f].parent # NONE => row[f].parent \in Folders
  BY DEF TypeInv, RowType, Row, Items
<1>7. QED
  BY <1>3, <1>5, <1>6 DEF OnlyGo, RowsInv, ParentExists, Exists

LEMMA StepGo ==
  ASSUME TypeInv, RowsInv, [Next]_vars
  PROVE  OnlyGo \/ \E w \in Workers : (Insert(w) \/ Move(w) \/ Restore(w)) /\ ~UNCHANGED row
<1>1. ASSUME UNCHANGED row
      PROVE  OnlyGo
  BY <1>1 DEF OnlyGo, RowsInv, ParentExists, Exists
<1>2. CASE ~UNCHANGED row
  <2>1. CASE \E w \in Workers : Trash(w)
    BY <2>1, TrashGoes
  <2>2. CASE \E f \in Files : TrashFile(f)
    BY <2>2, TrashGoes
  <2>3. CASE \E h \in Handlers : Purge(h)
    BY <1>2, <2>3, PurgeGoes
  <2>4. QED
    BY <1>2, <2>1, <2>2, <2>3
       DEF Next, vars, Create, BeginMove, BeginTrash, BeginRestore, BeginPurge, WalkUp, RestoreParent,
           Expire, PurgeExpired, PurgeStep, Gather, DropBlobs, DropRequest
<1>3. QED
  BY <1>1, <1>2

LEMMA CrossedGrows ==
  ASSUME TypeInv, FreshInv, [Next]_vars
  PROVE  crossed \subseteq crossed'
<1>1. ASSUME NEW w \in Workers, NEW i \in Items, NEW p \in Folders \cup {NONE}, Create(w, i, p)
      PROVE  crossed \subseteq crossed'
  BY <1>1 DEF Create
<1>2. ASSUME NEW h \in Handlers, Purge(h) \/ DropBlobs(h)
      PROVE  crossed \subseteq crossed'
  BY <1>2 DEF Purge, DropBlobs, Cross
<1>3. ASSUME NEW w \in Workers, Insert(w)
      PROVE  crossed \subseteq crossed'
  BY <1>3 DEF Insert, Cross
<1>4. QED
  BY <1>1, <1>2, <1>3, StepKinds DEF Quiet

----------------------------------------------------------------------------
(* The walk, the insert, the move *)

LEMMA OwnWalk ==
  ASSUME TypeInv, WalkInv, NEW v \in Handlers, OwnWay(v)
  PROVE  WalkOK(v)'
<1>1. ASSUME NEW i \in Items, NEW p \in Folders \cup {NONE}, BeginMove(v, i, p)
      PROVE  WalkOK(v)'
  <2> DEFINE r == [NoRequest EXCEPT !.item = i, !.parent = p, !.at = p,
                                    !.seen.active = ParentActive(p)]
             label == IF i \in Folders /\ p # NONE THEN "walk" ELSE "move"
  <2>1. r.item = i /\ r.parent = p /\ r.at = p
    BY DEF NoRequest
  <2>2. Start(v, label, r) /\ UNCHANGED row /\ ParentActive(p)
    BY <1>1 DEF BeginMove
  <2> HIDE DEF r, label
  <2>3. pc'[v] = label /\ req'[v].item = i /\ req'[v].parent = p /\ req'[v].at = p
    BY <2>1, <2>2 DEF Start, TypeInv, WorkType
  <2>4. p # NONE => row'[p].st # "new"
    BY <2>2 DEF ParentActive, Active
  <2>5. CASE label = "walk"
    <3>1. {} \in SUBSET Folders /\ p \in {} \cup {p} /\ i \notin {}
      OBVIOUS
    <3>2. QED
      BY <2>3, <2>4, <2>5, <3>1 DEF WalkOK, WayUp
  <2>6. CASE label = "move"
    <3>1. i \notin Folders \/ p = NONE
      BY <2>6 DEF label
    <3>2. QED
      BY <2>3, <2>4, <2>6, <3>1 DEF WalkOK
  <2>7. QED
    BY <2>5, <2>6 DEF label
<1>2. ASSUME WalkUp(v)
      PROVE  WalkOK(v)'
  <2> DEFINE a == req[v].at
             p == req[v].parent
             i == req[v].item
  <2>1. pc[v] = "walk" /\ UNCHANGED row /\ a \in Folders /\ req[v] \in Request
    BY <1>2 DEF WalkUp, TypeInv, WorkType, HoldInv, HoldOK
  <2>2. CASE Finish(v)
    BY <2>2 DEF Finish, WalkOK, TypeInv, WorkType
  <2>3. CASE ~Finish(v)
    <3>1. a # i /\ Exists(a)
      BY <1>2, <2>3 DEF WalkUp
    <3> DEFINE q == row[a].parent
    <3>2. \/ q # NONE /\ req' = [req EXCEPT ![v].at = q] /\ UNCHANGED pc
          \/ q = NONE /\ Goto(v, "move") /\ UNCHANGED req
      BY <1>2, <2>3 DEF WalkUp
    <3>3. /\ req'[v].item = i /\ req'[v].parent = p /\ req'[v].seen = req[v].seen
          /\ pc'[v] \in {"walk", "move"}
          /\ q = IF pc'[v] = "walk" THEN req'[v].at ELSE NONE
      <4>1. CASE q # NONE
        BY <2>1, <3>2, <4>1 DEF TypeInv, WorkType, Request
      <4>2. CASE q = NONE
        BY <2>1, <3>2, <4>2 DEF Goto, TypeInv, WorkType, Request
      <4>3. QED
        BY <4>1, <4>2
    <3>4. p # NONE => row[p].st # "new"
      BY <2>1 DEF WalkInv, WalkOK
    <3>5. ASSUME p # NONE, i \in Folders, ~req[v].seen.moved, Exists(p)
          PROVE  \E U \in SUBSET Folders : WayUp(U, p, i, q)
      <4>1. PICK U \in SUBSET Folders : WayUp(U, p, i, a)
        BY <2>1, <3>5 DEF WalkInv, WalkOK
      <4>2. U \cup {a} \in SUBSET Folders
        BY <2>1
      <4>3. WayUp(U \cup {a}, p, i, q)
        BY <3>1, <4>1 DEF WayUp
      <4>4. QED
        BY <4>2, <4>3
    <3>6. QED
      BY <2>1, <3>3, <3>4, <3>5 DEF WalkOK, WayUp, Exists
  <2>4. QED
    BY <2>2, <2>3
<1>3. ASSUME (\E i \in Items, b \in 1..MaxBatches : BeginRestore(v, i, b)) \/ RestoreParent(v)
      PROVE  WalkOK(v)'
  BY <1>3 DEF BeginRestore, RestoreParent, Start, Goto, WalkOK, TypeInv, WorkType
<1>4. QED
  BY <1>1, <1>2, <1>3 DEF OwnWay

\* A new folder is a leaf.
LEMMA InsertTree ==
  ASSUME TypeInv, FreshInv, RowsInv, NEW w \in Workers, Insert(w), ~UNCHANGED row
  PROVE  /\ RowsInv'
         /\ NoLoop => NoLoop'
         /\ \A v \in Handlers : WalkOK(v) /\ SameWay(v) => WalkOK(v)'
<1> DEFINE i == req[w].item
           p == req[w].parent
<1>1. w \in Handlers /\ pc[w] = "insert"
  BY DEF Insert, Handlers
<1>2. i \in Items /\ row[i].st = "new" /\ p \in Folders \cup {NONE}
  BY <1>1, HeldFacts DEF OnItem, FreshInv
<1>3. ParentExists(p) /\ row' = [row EXCEPT ![i].st = "active", ![i].parent = p]
  BY DEF Insert
<1>4. /\ row'[i].st = "active" /\ row'[i].parent = p
      /\ \A j \in Items : j # i => row'[j] = row[j]
  BY <1>2, <1>3 DEF TypeInv, RowType, Row
<1>5. /\ \A f \in Folders : f \in Items /\ row[f].parent \in Folders \cup {NONE}
      /\ p # i /\ ~Exists(i)
  BY <1>2, <1>3, IdsAssumption DEF TypeInv, RowType, Row, Items, ParentExists, Exists
<1>6. \A f \in Folders : Exists(f) => row[f].parent # i
  BY <1>2, <1>5, IdsAssumption DEF RowsInv, ParentExists, Items
<1> HIDE DEF i, p
<1>7. RowsInv'
  <2> SUFFICES ASSUME NEW f \in Folders, row'[f].st \in {"active", "trashed"}, row'[f].parent # NONE
               PROVE  row'[row'[f].parent].st \in {"active", "trashed"}
      BY DEF RowsInv, ParentExists, Exists
  <2>1. CASE f = i
    <3>1. row'[f].parent = p /\ p \in Items /\ p # i /\ Exists(p)
      BY <1>2, <1>3, <1>4, <1>5, <2>1 DEF ParentExists, Items
    <3>2. QED
      BY <1>4, <3>1 DEF Exists
  <2>2. CASE f # i
    <3>1. row'[f] = row[f] /\ row[f].parent \in Items /\ Exists(f)
      BY <1>4, <1>5, <2>2 DEF Exists
    <3>2. row[f].parent # i /\ Exists(row[f].parent)
      BY <1>6, <3>1 DEF RowsInv, ParentExists
    <3>3. QED
      BY <1>4, <3>1, <3>2 DEF Exists
  <2>3. QED
    BY <2>1, <2>2
<1>8. ASSUME NoLoop
      PROVE  NoLoop'
  <2> SUFFICES ASSUME NEW S \in SUBSET Folders, S # {},
                      \A d \in S : row'[d].st \in {"active", "trashed"} /\ row'[d].parent \in S
               PROVE  FALSE
      BY DEF NoLoop, Loop, Exists
  <2> DEFINE T == S \ {i}
  <2>1. \A d \in T : Exists(d) /\ row[d].parent \in T
    BY <1>4, <1>5, <1>6 DEF Exists
  <2>2. T # {}
    BY <1>4, <1>5
  <2>3. Loop(T) /\ T \in SUBSET Folders
    BY <2>1, <2>2 DEF Loop
  <2>4. QED
    BY <1>8, <2>3 DEF NoLoop
<1>9. ASSUME NEW v \in Handlers, WalkOK(v), SameWay(v)
      PROVE  WalkOK(v)'
  <2> SUFFICES ASSUME pc'[v] \in {"walk", "move"}, req'[v].parent # NONE
               PROVE  WalkOK(v)'
      BY DEF WalkOK
  <2>1. /\ pc'[v] = pc[v] /\ req'[v].item = req[v].item /\ req'[v].parent = req[v].parent
        /\ req'[v].at = req[v].at /\ (~req'[v].seen.moved => ~req[v].seen.moved)
    BY <1>9 DEF SameWay
  <2>2. req[v].parent \in Folders /\ row[req[v].parent].st # "new"
    BY <1>9, <2>1, HeldFacts DEF WalkOK
  <2>3. row'[req[v].parent] = row[req[v].parent]
    BY <1>2, <1>4, <1>5, <2>2
  <2>4. ASSUME req[v].item \in Folders, ~req[v].seen.moved, Exists(req[v].parent)
        PROVE  \E U \in SUBSET Folders :
                 WayUp(U, req[v].parent, req[v].item, IF pc[v] = "walk" THEN req[v].at ELSE NONE)
    BY <1>9, <2>1, <2>4 DEF WalkOK
  <2>5. ASSUME req[v].item \in Folders, ~req'[v].seen.moved, Exists(req[v].parent)'
        PROVE  (\E U \in SUBSET Folders :
                  WayUp(U, req[v].parent, req[v].item, IF pc[v] = "walk" THEN req[v].at ELSE NONE))'
    <3>1. Exists(req[v].parent)
      BY <2>1, <2>3, <2>5 DEF Exists
    <3>2. PICK top : top = IF pc[v] = "walk" THEN req[v].at ELSE NONE
      OBVIOUS
    <3>3. PICK U \in SUBSET Folders : WayUp(U, req[v].parent, req[v].item, top)
      BY <2>1, <2>4, <2>5, <3>1, <3>2
    <3>4. /\ req[v].parent \in U \cup {top} /\ req[v].item \notin U
          /\ \A f \in U : row'[f].st \in {"active", "trashed"} /\ row'[f].parent \in U \cup {top, NONE}
      <4>1. \A f \in U : row'[f] = row[f]
        BY <1>4, <1>5, <3>3 DEF WayUp
      <4>2. QED
        BY <3>3, <4>1 DEF WayUp, Exists
    <3>5. QED
      BY <2>1, <3>2, <3>4 DEF WayUp, Exists
  <2>6. QED
    BY <2>1, <2>2, <2>3, <2>5 DEF WalkOK
<1>10. QED
  BY <1>7, <1>8, <1>9

\* After a move or a restore that changed the tree every walk is out of date.
LEMMA MovedWalk ==
  ASSUME TypeInv, NEW w \in Handlers, FinishMoving(w),
         \A f \in Folders : row'[f].st = "new" => row[f].st = "new",
         NEW v \in Handlers, WalkOK(v), SameWay(v)
  PROVE  WalkOK(v)'
<1> SUFFICES ASSUME pc'[v] \in {"walk", "move"}, req'[v].parent # NONE
             PROVE  WalkOK(v)'
    BY DEF WalkOK
<1>1. pc'[v] = pc[v] /\ req'[v].parent = req[v].parent /\ v # w
  BY DEF SameWay, FinishMoving, TypeInv, WorkType
<1>2. req'[v].seen.moved
  <2>1. req'[v] = [req[v] EXCEPT !.seen.moved = TRUE] /\ req[v] \in Request
    BY <1>1 DEF FinishMoving, TypeInv, WorkType
  <2>2. QED
    BY <2>1 DEF Request, Facts
<1>3. req[v].parent \in Folders /\ row[req[v].parent].st # "new"
  BY <1>1, HeldFacts DEF WalkOK
<1>4. QED
  BY <1>1, <1>2, <1>3 DEF WalkOK

\* There is a way up from the new parent that does not meet the folder: the walk
\* found it, or nothing was crossed.
LEMMA MoveTree ==
  ASSUME TypeInv, RowsInv, NEW w \in Workers, WalkOK(w), Move(w), ~UNCHANGED row
  PROVE  /\ RowsInv'
         /\ NoLoop /\ Tame' => NoLoop'
         /\ \A v \in Handlers : WalkOK(v) /\ SameWay(v) => WalkOK(v)'
<1> DEFINE i == req[w].item
           p == req[w].parent
<1>1. w \in Handlers /\ pc[w] = "move" /\ i \in Items /\ p \in Folders \cup {NONE}
  BY HeldFacts DEF Move, Handlers, OnItem
<1>2. /\ Active(i) /\ ParentExists(p) /\ row' = [row EXCEPT ![i].parent = p]
      /\ Cross(ParentLeft(w) \cup Changed("cycle", req[w].seen.moved /\ IsUnder(p, i)))
      /\ FinishMoving(w)
  BY DEF Move
<1>3. /\ \A j \in Items : row'[j].st = row[j].st /\ (j # i => row'[j].parent = row[j].parent)
      /\ row'[i].parent = p
  BY <1>1, <1>2 DEF TypeInv, RowType, Row
<1>4. \A f \in Folders : f \in Items /\ row[f].parent \in Folders \cup {NONE}
  BY DEF TypeInv, RowType, Row, Items
<1>5. RowsInv'
  BY <1>1, <1>2, <1>3, <1>4 DEF RowsInv, ParentExists, Exists
<1>6. ASSUME NoLoop, Tame'
      PROVE  NoLoop'
  <2> SUFFICES ASSUME NEW S \in SUBSET Folders, S # {},
                      \A d \in S : row'[d].st \in {"active", "trashed"} /\ row'[d].parent \in S
               PROVE  FALSE
      BY DEF NoLoop, Loop, Exists
  <2> HIDE DEF i, p
  <2>1. CASE i \notin S
    <3>1. \A d \in S : Exists(d) /\ row[d].parent \in S
      BY <1>3, <1>4, <2>1 DEF Exists
    <3>2. QED
      BY <1>6, <3>1 DEF NoLoop, Loop
  <2>2. CASE i \in S
    <3>1. p \in S /\ p \in Folders /\ p # NONE /\ i \in Folders /\ Exists(p)
      BY <1>2, <1>3, <2>2, IdsAssumption DEF ParentExists
    <3>2. \E U \in SUBSET Folders : WayUp(U, p, i, NONE)
      <4>1. CASE ~req[w].seen.moved
        BY <1>1, <3>1, <4>1 DEF WalkOK, i, p
      <4>2. CASE req[w].seen.moved
        <5>1. ~IsUnder(p, i)
          BY <1>2, <1>6, <4>2 DEF Tame, Cross, Changed
        <5>2. p \notin WithContents(i)
          BY <3>1, <5>1 DEF IsUnder
        <5> DEFINE U == {f \in Folders : Exists(f)} \ WithContents(i)
        <5>3. i \notin U
          BY <3>1, BelowFacts DEF WithContents
        <5>4. \A f \in U : row[f].parent \notin WithContents(i)
          BY <3>1, BelowFacts DEF WithContents
        <5>5. \A f \in U : Exists(f) /\ row[f].parent \in U \cup {NONE}
          BY <1>4, <5>4 DEF RowsInv, ParentExists
        <5>6. p \in U /\ U \in SUBSET Folders
          BY <3>1, <5>2
        <5>7. WayUp(U, p, i, NONE)
          BY <5>3, <5>5, <5>6 DEF WayUp
        <5>8. QED
          BY <5>6, <5>7
      <4>3. QED
        BY <4>1, <4>2
    <3>3. PICK U \in SUBSET Folders : WayUp(U, p, i, NONE)
      BY <3>2
    <3>4. p \in U /\ i \notin U /\ \A f \in U : Exists(f) /\ row[f].parent \in U \cup {NONE}
      BY <3>1, <3>3 DEF WayUp
    <3>5. \A d \in S \cap U : row[d].parent \in S
      BY <1>3, <1>4, <3>4
    <3>6. \A d \in S \cap U : Exists(d) /\ row[d].parent \in S \cap U
      BY <3>4, <3>5, IdsAssumption
    <3>7. Loop(S \cap U) /\ S \cap U \in SUBSET Folders
      BY <3>1, <3>4, <3>6 DEF Loop
    <3>8. QED
      BY <1>6, <3>7 DEF NoLoop
  <2>3. QED
    BY <2>1, <2>2
<1>7. \A f \in Folders : row'[f].st = "new" => row[f].st = "new"
  BY <1>3, <1>4
<1>8. QED
  BY <1>1, <1>2, <1>5, <1>6, <1>7, MovedWalk

----------------------------------------------------------------------------
(* Restore *)

LEMMA RestoredRows ==
  ASSUME TypeInv, NEW w \in Workers, Restore(w), ~UNCHANGED row, NEW j \in Items
  PROVE  LET i == req[w].item
             b == req[w].batch
         IN  /\ j \in InBatch(b) => /\ row[j].st = "trashed" /\ row'[j].st = "active"
                                    /\ ~row'[j].root
             /\ j \notin InBatch(b) => /\ row'[j].st = row[j].st /\ row'[j].batch = row[j].batch
                                       /\ row'[j].root = row[j].root
             /\ j # i => row'[j].parent = row[j].parent
             /\ j = i /\ Exists(i) => row'[j].parent = req[w].parent
             /\ j = i /\ ~Exists(i) => row'[j].parent = row[j].parent
<1> DEFINE i == req[w].item
           p == req[w].parent
           b == req[w].batch
           Redirected(k) == IF k = i /\ Exists(i) THEN [row[k] EXCEPT !.parent = p] ELSE row[k]
<1>1. b \in 1..MaxBatches /\ p \in Folders \cup {NONE}
  BY HeldFacts DEF Restore, Handlers
<1>2. row' = [k \in Items |->
        IF k \in InBatch(b) THEN Reactivate(Redirected(k)) ELSE Redirected(k)]
  BY DEF Restore
<1>3. /\ Redirected(j).st = row[j].st /\ Redirected(j).batch = row[j].batch
      /\ Redirected(j).root = row[j].root
      /\ j # i => Redirected(j) = row[j]
      /\ j = i /\ Exists(i) => Redirected(j).parent = p
      /\ j = i /\ ~Exists(i) => Redirected(j) = row[j]
      /\ Redirected(j) \in Row
  BY <1>1 DEF TypeInv, RowType, Row
<1>4. row'[j] = IF j \in InBatch(b) THEN Reactivate(Redirected(j)) ELSE Redirected(j)
  BY <1>2
<1>5. j \in InBatch(b) => row[j].st = "trashed"
  BY <1>1, DeletedRows DEF TypeInv
<1> HIDE DEF Redirected
<1>6. Reactivate(Redirected(j)).st = "active" /\ ~Reactivate(Redirected(j)).root
      /\ Reactivate(Redirected(j)).parent = Redirected(j).parent
  BY <1>3 DEF Reactivate, Row
<1>7. QED
  BY <1>3, <1>4, <1>5, <1>6

LEMMA RestoreTree ==
  ASSUME TypeInv, RowsInv, NEW w \in Workers, Restore(w), ~UNCHANGED row
  PROVE  /\ RowsInv'
         /\ NoLoop /\ HomeOK(w) /\ Tame' => NoLoop'
         /\ \A v \in Handlers : WalkOK(v) /\ SameWay(v) => WalkOK(v)'
<1> DEFINE i == req[w].item
           p == req[w].parent
           b == req[w].batch
<1>1. w \in Handlers /\ pc[w] = "restore" /\ i \in Items /\ p \in Folders \cup {NONE}
  BY HeldFacts DEF Restore, Handlers, OnItem
<1>2. /\ ParentExists(p) \/ ~Exists(i)
      /\ Cross(ParentLeft(w) \cup Changed("restore", ~IsRoot(i, b)))
      /\ FinishMoving(w)
  BY DEF Restore
<1>3. \A j \in Items : /\ row'[j].st = row[j].st \/ (row[j].st = "trashed" /\ row'[j].st = "active")
                       /\ row'[j].parent = row[j].parent \/ (j = i /\ Exists(i) /\ row'[j].parent = p)
  BY RestoredRows
<1>4. \A f \in Folders : f \in Items /\ row[f].parent \in Folders \cup {NONE}
  BY DEF TypeInv, RowType, Row, Items
<1>5. RowsInv'
  <2> SUFFICES ASSUME NEW f \in Folders, Exists(f)', row'[f].parent # NONE
               PROVE  row'[row'[f].parent].st \in {"active", "trashed"}
      BY DEF RowsInv, ParentExists, Exists
  <2>1. row'[f].parent \in Folders /\ Exists(row'[f].parent)
    BY <1>1, <1>2, <1>3, <1>4 DEF RowsInv, ParentExists, Exists
  <2>2. QED
    BY <1>3, <1>4, <2>1 DEF Exists
<1>6. ASSUME NoLoop, HomeOK(w), Tame'
      PROVE  NoLoop'
  <2> SUFFICES ASSUME NEW S \in SUBSET Folders, S # {},
                      \A d \in S : row'[d].st \in {"active", "trashed"} /\ row'[d].parent \in S
               PROVE  FALSE
      BY DEF NoLoop, Loop, Exists
  <2>1. IsRoot(i, b)
    BY <1>2, <1>6 DEF Tame, Cross, Changed
  <2>2. i \in Folders => p = row[i].parent \/ p = NONE
    BY <1>1, <1>6, <2>1 DEF HomeOK
  <2> HIDE DEF i, p, b
  <2>3. ASSUME NEW d \in S
        PROVE  Exists(d) /\ row[d].parent \in S
    <3>1. Exists(d)
      BY <1>3, <1>4 DEF Exists
    <3>2. row'[d].parent = row[d].parent
      BY <1>3, <1>4, <2>2, IdsAssumption
    <3>3. QED
      BY <3>1, <3>2
  <2>4. QED
    BY <1>6, <2>3 DEF NoLoop, Loop
<1>7. \A f \in Folders : row'[f].st = "new" => row[f].st = "new"
  BY <1>3, <1>4
<1>8. QED
  BY <1>1, <1>2, <1>5, <1>6, <1>7, MovedWalk

\* A folder that is the root of a batch that was drawn has been so, and has not moved.
RootsStay ==
  \A i \in Folders, b \in 1..batches :
    row'[i].st = "trashed" /\ row'[i].batch = b /\ row'[i].root =>
      IsRoot(i, b) /\ row'[i].parent = row[i].parent

LEMMA StepRoots ==
  ASSUME TypeInv, FreshInv, [Next]_vars, Tame'
  PROVE  RootsStay
<1>1. \A f \in Folders : f \in Items
  BY DEF Items
<1>2. batches \in Nat
  BY BoundsAssumption DEF TypeInv, CountType
<1>3. ASSUME UNCHANGED row
      PROVE  RootsStay
  BY <1>3 DEF RootsStay, IsRoot
<1>4. ASSUME NEW w \in Workers, Insert(w), ~UNCHANGED row
      PROVE  RootsStay
  <2> DEFINE i == req[w].item
  <2>1. i \in Items /\ row' = [row EXCEPT ![i].st = "active", ![i].parent = req[w].parent]
    BY <1>4, HeldFacts DEF Insert, Handlers, OnItem
  <2>2. row'[i].st = "active" /\ \A j \in Items : j # i => row'[j] = row[j]
    BY <2>1 DEF TypeInv, RowType, Row
  <2>3. QED
    BY <1>1, <2>2 DEF RootsStay, IsRoot
<1>5. ASSUME NEW w \in Workers, Move(w), ~UNCHANGED row
      PROVE  RootsStay
  <2> DEFINE i == req[w].item
  <2>1. /\ i \in Items /\ row[i].st = "active"
        /\ row' = [row EXCEPT ![i].parent = req[w].parent]
    BY <1>5, HeldFacts DEF Move, Handlers, OnItem, Active
  <2>2. row'[i].st = "active" /\ \A j \in Items : j # i => row'[j] = row[j]
    BY <2>1 DEF TypeInv, RowType, Row
  <2>3. QED
    BY <1>1, <2>2 DEF RootsStay, IsRoot
<1>6. ASSUME NEW w \in Workers, Trash(w)
      PROVE  RootsStay
  <2>1. ASSUME NEW j \in Items
        PROVE  row'[j] = row[j] \/ row'[j].batch = batches + 1
    BY <1>6 DEF Trash, TrashRow, TypeInv, RowType, Row
  <2>2. \A j \in Folders : row'[j] = row[j] \/ row'[j].batch = batches + 1
    BY <1>1, <2>1
  <2>3. QED
    BY <1>2, <2>2 DEF RootsStay, IsRoot
<1>7. ASSUME NEW f \in Files, TrashFile(f)
      PROVE  RootsStay
  <2>1. \A j \in Folders : row'[j] = row[j]
    BY <1>1, <1>7, IdsAssumption DEF TrashFile, TypeInv, RowType
  <2>2. QED
    BY <2>1 DEF RootsStay, IsRoot
<1>8. ASSUME NEW w \in Workers, Restore(w), ~UNCHANGED row
      PROVE  RootsStay
  <2> DEFINE i == req[w].item
             c == req[w].batch
  <2>1. IsRoot(i, c)
    BY <1>8 DEF Restore, Tame, Cross, Changed
  <2> SUFFICES ASSUME NEW j \in Folders, NEW b \in 1..batches,
                      row'[j].st = "trashed", row'[j].batch = b, row'[j].root
               PROVE  IsRoot(j, b) /\ row'[j].parent = row[j].parent
      BY DEF RootsStay
  <2>2. /\ j \notin InBatch(c) /\ row'[j].st = row[j].st /\ row'[j].batch = row[j].batch
        /\ row'[j].root = row[j].root
        /\ j # i => row'[j].parent = row[j].parent
    BY <1>1, <1>8, RestoredRows
  <2>3. j # i
    BY <1>1, <2>1, <2>2 DEF IsRoot, InBatch
  <2>4. QED
    BY <2>2, <2>3 DEF IsRoot
<1>9. ASSUME NEW h \in Handlers, Purge(h), ~UNCHANGED row
      PROVE  RootsStay
  <2> DEFINE c == req[h].batch
             D == UNION {WithContents(d) : d \in InBatch(c) \cap Folders}
  <2>1. row' = [i \in Items |->
          IF i \in D \cup InBatch(c) THEN NoRow("gone")
          ELSE IF i \in Files /\ row[i].parent \in D THEN [row[i] EXCEPT !.parent = NONE]
          ELSE row[i]]
    BY <1>9 DEF Purge, DeleteRows
  <2> HIDE DEF D, c
  <2>2. \A j \in Folders : row'[j] = row[j] \/ row'[j].st = "gone"
    BY <1>1, <2>1, IdsAssumption DEF NoRow
  <2>3. QED
    BY <2>2 DEF RootsStay, IsRoot
<1>10. CASE UNCHANGED row
  BY <1>3, <1>10
<1>11. CASE ~UNCHANGED row
  BY <1>4, <1>5, <1>6, <1>7, <1>8, <1>9, <1>11
     DEF Next, vars, Create, BeginMove, BeginTrash, BeginRestore, BeginPurge, WalkUp, RestoreParent,
         Expire, PurgeExpired, PurgeStep, Gather, DropBlobs, DropRequest
<1>12. QED
  BY <1>10, <1>11

LEMMA HomeNext ==
  ASSUME TypeInv, FreshInv, BatchInv, HomeInv, [Next]_vars, Tame'
  PROVE  HomeInv'
<1> SUFFICES ASSUME NEW v \in Handlers
             PROVE  HomeOK(v)'
    BY DEF HomeInv
<1>1. RootsStay /\ BatchStep /\ (SameWay(v) \/ OwnWay(v))
  BY StepRoots, StepBatch, StepWays
<1>2. 1..batches \subseteq 1..batches' /\ batches \in Nat
  BY <1>1 DEF BatchStep
<1>3. CASE SameWay(v)
  <2> SUFFICES ASSUME pc'[v] \in {"restoreParent", "restore"}
               PROVE  HomeOK(v)'
      BY DEF HomeOK
  <2>1. /\ pc'[v] = pc[v] /\ req'[v].item = req[v].item /\ req'[v].parent = req[v].parent
        /\ req'[v].batch = req[v].batch
    BY <1>3 DEF SameWay
  <2>2. /\ req[v].batch \in 1..batches
        /\ IsRoot(req[v].item, req[v].batch) /\ req[v].item \in Folders =>
             \/ req[v].parent = row[req[v].item].parent
             \/ pc[v] = "restore" /\ req[v].parent = NONE
    BY <2>1 DEF HomeInv, HomeOK
  <2>3. ASSUME req[v].item \in Folders, row'[req[v].item].st = "trashed",
               row'[req[v].item].batch = req[v].batch, row'[req[v].item].root
        PROVE  /\ IsRoot(req[v].item, req[v].batch)
               /\ row'[req[v].item].parent = row[req[v].item].parent
    BY <1>1, <2>2, <2>3 DEF RootsStay
  <2>4. QED
    BY <1>2, <2>1, <2>2, <2>3 DEF HomeOK, IsRoot
<1>4. CASE \E i \in Items, b \in 1..MaxBatches : BeginRestore(v, i, b)
  <2>1. PICK i \in Items, b \in 1..MaxBatches : BeginRestore(v, i, b)
    BY <1>4
  <2> DEFINE r == [NoRequest EXCEPT !.item = i, !.parent = row[i].parent, !.batch = b]
             label == IF row[i].parent = NONE THEN "restore" ELSE "restoreParent"
  <2>2. r.item = i /\ r.parent = row[i].parent /\ r.batch = b
    BY DEF NoRequest
  <2>3. Start(v, label, r) /\ UNCHANGED <<row, batches>> /\ row[i].batch = b
    BY <2>1 DEF BeginRestore, IsRoot
  <2> HIDE DEF r, label
  <2>4. req'[v] = r
    BY <2>3 DEF Start, TypeInv, WorkType
  <2>5. b \in 1..batches
    BY <1>2, <2>3 DEF BatchInv
  <2>6. QED
    BY <2>2, <2>3, <2>4, <2>5 DEF HomeOK
<1>5. CASE RestoreParent(v)
  <2> DEFINE p == IF Active(req[v].parent) THEN req[v].parent ELSE NONE
             r == [req[v] EXCEPT !.parent = p, !.seen.active = ParentActive(p)]
  <2>1. pc[v] = "restoreParent" /\ UNCHANGED <<row, batches>> /\ req[v] \in Request
    BY <1>5, HeldFacts DEF RestoreParent
  <2>2. r.item = req[v].item /\ r.batch = req[v].batch /\ r.parent \in {req[v].parent, NONE}
    BY <2>1 DEF Request
  <2>3. pc' = [pc EXCEPT ![v] = "restore"] /\ req' = [req EXCEPT ![v] = r]
    BY <1>5 DEF RestoreParent, Goto
  <2> HIDE DEF r
  <2>4. pc'[v] = "restore" /\ req'[v] = r
    BY <2>3 DEF TypeInv, WorkType
  <2>5. QED
    BY <2>1, <2>2, <2>4 DEF HomeInv, HomeOK, IsRoot
<1>6. CASE (\E i \in Items, p \in Folders \cup {NONE} : BeginMove(v, i, p)) \/ WalkUp(v)
  <2>1. pc'[v] \notin {"restoreParent", "restore"}
    BY <1>6 DEF BeginMove, WalkUp, Start, Goto, Finish, TypeInv, WorkType
  <2>2. QED
    BY <2>1 DEF HomeOK
<1>7. QED
  BY <1>1, <1>3, <1>4, <1>5, <1>6 DEF OwnWay

----------------------------------------------------------------------------
LEMMA LoopNext ==
  ASSUME TypeInv, FreshInv, BatchInv, RowsInv, WalkInv, Tame => NoLoop /\ HomeInv, [Next]_vars
  PROVE  RowsInv' /\ WalkInv' /\ (Tame => NoLoop /\ HomeInv)'
<1>1. Tame' => Tame
  BY CrossedGrows DEF Tame
<1>2. Tame' => HomeInv'
  BY <1>1, HomeNext
<1>3. /\ RowsInv' /\ (NoLoop /\ HomeInv /\ Tame' => NoLoop')
      /\ \A v \in Handlers : SameWay(v) => WalkOK(v)'
  <2>1. CASE OnlyGo
    BY <2>1, GoFacts, GoWalk DEF WalkInv
  <2>2. ASSUME NEW w \in Workers, ~UNCHANGED row, Insert(w)
        PROVE  /\ RowsInv' /\ (NoLoop /\ HomeInv /\ Tame' => NoLoop')
               /\ \A v \in Handlers : SameWay(v) => WalkOK(v)'
    BY <2>2, InsertTree DEF WalkInv
  <2>3. ASSUME NEW w \in Workers, ~UNCHANGED row, Move(w)
        PROVE  /\ RowsInv' /\ (NoLoop /\ HomeInv /\ Tame' => NoLoop')
               /\ \A v \in Handlers : SameWay(v) => WalkOK(v)'
    BY <2>3, MoveTree DEF WalkInv, Handlers
  <2>4. ASSUME NEW w \in Workers, ~UNCHANGED row, Restore(w)
        PROVE  /\ RowsInv' /\ (NoLoop /\ HomeInv /\ Tame' => NoLoop')
               /\ \A v \in Handlers : SameWay(v) => WalkOK(v)'
    BY <2>4, RestoreTree DEF WalkInv, HomeInv, Handlers
  <2>5. QED
    BY <2>1, <2>2, <2>3, <2>4, StepGo
<1>4. WalkInv'
  <2>1. \A v \in Handlers : WalkOK(v)'
    BY <1>3, StepWays, OwnWalk
  <2>2. QED
    BY <2>1 DEF WalkInv
<1>5. QED
  BY <1>1, <1>2, <1>3, <1>4

LEMMA AlwaysLoopless == Spec => [](RowsInv /\ WalkInv /\ (Tame => NoLoop /\ HomeInv))
<1>1. Init => RowsInv /\ WalkInv /\ (Tame => NoLoop /\ HomeInv)
  BY DEF Init, RowsInv, WalkInv, WalkOK, NoLoop, Loop, HomeInv, HomeOK, Exists, NoRow, Items
<1>2. TypeInv /\ FreshInv /\ BatchInv /\ [Next]_vars /\ RowsInv /\ WalkInv
        /\ (Tame => NoLoop /\ HomeInv) => RowsInv' /\ WalkInv' /\ (Tame => NoLoop /\ HomeInv)'
  BY LoopNext
<1>3. QED
  BY AlwaysTyped, AlwaysTree, <1>1, <1>2, PTL DEF Spec

\* Move, with assertNoCycle's reads one by one, create, delete, restore and purge:
\* no folder comes to lie in itself, as long as no move was overtaken by another
\* and no batch restored twice at once.
THEOREM TrashAcyclic == Spec => []Acyclic
<1>1. (Tame => NoLoop) => Acyclic
  BY DEF Tame, NoLoop, Acyclic
<1>2. QED
  BY AlwaysLoopless, <1>1, PTL
-----------------------------------------------------------------------------
(* The trash as the pages show it.                                         *)

CONSTANTS Things, Hidden, Routes, Faults, MaxTasks, Patient
VARIABLES where, at, page, dialog, side, tasks, told
Bin == INSTANCE TrashView WITH Items <- Things

\* The user waits for the answers, and no request fails.
Smooth == Patient /\ ~Faults /\ NONE \notin {"purge", "bulk", "files", "home"} /\ Routes \subseteq {"trash", "files", "home"}

CallKeys == {"kind", "n", "item", "by", "rest", "mount", "said", "ans"}
PageKeys == {"list", "loading", "selected", "search", "row", "bulk"}
AskKeys == {"kind", "item", "busy"}
Changers == {"trash", "restore", "purge"}
Readers == {"list", "count", "quota"}
Trashed == Bin!In("bin")
\* What the page of a route lists, and what a reader has to bring.
Target == IF at.route = "files" THEN Bin!In("live") ELSE IF at.route = "trash" THEN Trashed ELSE {}
Changing == \E t \in tasks : t.kind \in Changers

\* A request that changes something changes what is there: a single one from a
\* row, a dialog or the bulk bar, or those of one drop, each of its own item.
ChangeFits(t) ==
  /\ t.item \in Things /\ t.rest \subseteq Trashed \ {t.item}
  /\ t.said = "no" => Bin!Possible(t)
  /\ \/ t.kind = "restore" /\ t.by \in {"row", "bulk"} /\ at.route = "trash"
     \/ t.kind = "purge" /\ t.by \in {"purge", "bulk"} /\ at.route = "trash"
     \/ t.kind = "trash" /\ t.by \in {"files", "drop"} /\ at.route = "files"
     \/ t.kind = "trash" /\ t.by = "home" /\ at.route = "home"
  /\ t.by = "bulk" \/ page.selected = {}
  /\ t.by = "drop" => ~told
CallFits(t) ==
  /\ DOMAIN t = CallKeys /\ t.kind \in Changers \cup Readers /\ t.said \in {"no", "ok"}
  /\ t.kind \in Changers => ChangeFits(t) /\ t.mount = at.mount
  /\ t.kind \in Readers => t.by = "page"
  /\ t.kind = "list" => t.mount = at.mount
  /\ t.kind = "list" /\ t.said = "ok" => t.ans = Target
  /\ t.kind = "count" /\ t.said = "ok" => t.ans = Trashed
Calls == \A t \in tasks : CallFits(t)
\* Nothing is read while something changes.
Apart == \A t, u \in tasks : t.kind \in Changers =>
           /\ u.kind \in Changers
           /\ t = u \/ (t.by = "drop" /\ u.by = "drop" /\ t.item # u.item)
\* A dialog that waits for its confirmation is about what is there.
DialogFits ==
  /\ DOMAIN dialog = AskKeys /\ dialog.kind \in {NONE, "purge", "bulk", "files", "home"}
  /\ dialog.kind # NONE /\ ~dialog.busy =>
       /\ tasks = {}
       /\ dialog.kind = "bulk" => at.route = "trash"
       /\ dialog.kind = "purge" => dialog.item \in Trashed /\ at.route = "trash" /\ page.selected = {}
       /\ dialog.kind \in {"files", "home"} => dialog.item \in Bin!In("live") /\ at.route = dialog.kind
Shape == /\ at.route \in Routes /\ DOMAIN at = {"route", "mount"} /\ DOMAIN page = PageKeys /\ DOMAIN side = {"badge", "meter"}
         /\ where = [i \in Things |-> where[i]]
         /\ at.route # "trash" => page.selected = {}
\* With nothing changing, the list is right or asked for, and so is the badge.
ListFits == ~Changing => /\ page.selected \subseteq Trashed
                         /\ at.route = "home" \/ page.list = Target \/ \E t \in tasks : t.kind = "list"
BadgeFits == ~Changing => side.badge = Bin!Cardinality(Trashed) \/ \E t \in tasks : t.kind = "count"
BinInv == Shape /\ Calls /\ Apart /\ DialogFits /\ ListFits

\* A request that is sent is out, and reads nothing yet.
LEMMA SentCall ==
  ASSUME NEW ts, NEW kind, NEW item, NEW by, NEW rest
  PROVE  \E r : /\ Bin!Send(ts, kind, item, by, rest) = ts \cup {r} /\ r = [r EXCEPT !.said = "no"]
                /\ DOMAIN r = CallKeys /\ r.kind = kind /\ r.item = item /\ r.by = by /\ r.rest = rest
                /\ r.mount = at.mount /\ r.said = "no"
<1>1. PICK r : r = Bin!Request(ts, kind, item, by, rest)
  OBVIOUS
<1> QED
  BY <1>1 DEF Bin!Send, Bin!Request, CallKeys

LEMMA BinStart == Smooth /\ Bin!Init => BinInv
<1> SUFFICES ASSUME Smooth, Bin!Init PROVE BinInv
  OBVIOUS
<1>1. Shape
  BY DEF Bin!Init, Shape, Bin!Fresh, PageKeys
<1>2. Calls
  BY DEF Bin!Init, Calls, CallFits, CallKeys, Changers, Readers
<1>3. Apart /\ ~Changing
  BY DEF Bin!Init, Apart, Changers, Changing
<1>4. DialogFits
  BY DEF Bin!Init, DialogFits, Bin!Closed, AskKeys
<1>5. ListFits
  BY <1>3 DEF Bin!Init, ListFits, Bin!Fresh
<1> QED
  BY <1>1, <1>2, <1>3, <1>4, <1>5 DEF BinInv

\* A step that leaves the items and the requests alone.
LEMMA CalmStep ==
  ASSUME Smooth, BinInv, UNCHANGED <<where, at, side, tasks, told>>, DOMAIN page' = PageKeys, page'.list = page.list,
         tasks = {}, page'.selected \subseteq Trashed, at.route # "trash" => page'.selected = {}, DialogFits'
  PROVE  BinInv' /\ (BadgeFits => BadgeFits')
<1>1. Shape'
  BY DEF BinInv, Shape
<1>2. Calls' /\ Apart' /\ ~Changing /\ ~Changing'
  BY DEF Calls, Apart, Changing
<1>3. Trashed' = Trashed /\ Target' = Target
  BY DEF Trashed, Target, Bin!In
<1>4. ListFits'
  BY <1>2, <1>3 DEF BinInv, ListFits
<1>5. BadgeFits => BadgeFits'
  BY <1>2, <1>3 DEF BadgeFits
<1> QED
  BY <1>1, <1>2, <1>4, <1>5 DEF BinInv

\* The first request that changes something, sent when nothing is on its way.
LEMMA FirstChange ==
  ASSUME Smooth, BinInv, tasks = {}, UNCHANGED <<where, at, side>>, DOMAIN page' = PageKeys, page'.selected = page.selected, DialogFits',
         NEW r, tasks' = {r}, CallFits(r)', r.kind \in Changers
  PROVE  BinInv' /\ BadgeFits'
<1>1. Shape'
  BY DEF BinInv, Shape
<1>2. Calls' /\ Apart' /\ Changing'
  BY DEF Calls, Apart, Changing
<1> QED
  BY <1>1, <1>2 DEF BinInv, ListFits, BadgeFits

LEMMA UserChanges ==
  ASSUME Smooth, BinInv,
         \/ \E i \in Things : Bin!Restore(i)
         \/ Bin!BulkRestore \/ Bin!Confirm
         \/ \E S \in SUBSET Things : Bin!Drop(S)
  PROVE  BinInv' /\ BadgeFits'
<1>0. Patient /\ ~Faults /\ Shape /\ DialogFits /\ Routes \subseteq {"trash", "files", "home"}
  BY DEF Smooth, BinInv
<1>1. ASSUME NEW i \in Things, Bin!Restore(i) PROVE BinInv' /\ BadgeFits'
  <2>1. /\ tasks = {} /\ at.route = "trash" /\ dialog.kind = NONE /\ page.selected = {} /\ i \in page.list
        /\ page' = [page EXCEPT !.row = i] /\ UNCHANGED <<where, at, dialog, side, told>>
        /\ tasks' = Bin!Send(tasks, "restore", i, "row", {})
    BY <1>0, <1>1 DEF Bin!Restore, Bin!On, Bin!MayAct, Bin!RowOf, Bin!Act, Bin!Rows, Bin!Filtered
  <2>2. i \in Trashed
    BY <2>1, <1>0 DEF BinInv, ListFits, Changing, Target
  <2>3. PICK r : /\ tasks' = tasks \cup {r} /\ DOMAIN r = CallKeys /\ r.kind = "restore" /\ r.item = i /\ r.by = "row" /\ r.rest = {}
                 /\ r.mount = at.mount /\ r.said = "no"
    BY <2>1, SentCall
  <2>4. ChangeFits(r)'
    BY <2>1, <2>2, <2>3, <1>0 DEF ChangeFits, Bin!Possible, Trashed, Bin!In, Shape, PageKeys
  <2>5. CallFits(r)'
    BY <2>1, <2>3, <2>4 DEF CallFits, Changers, Readers
  <2>6. DialogFits'
    BY <2>1, <1>0 DEF DialogFits
  <2> QED
    BY <2>1, <2>3, <2>5, <2>6, <1>0, FirstChange DEF Shape, PageKeys, Changers
<1>2. ASSUME Bin!BulkRestore PROVE BinInv' /\ BadgeFits'
  <2>1. PICK i \in page.selected :
        /\ tasks = {} /\ at.route = "trash" /\ dialog.kind = NONE
        /\ page' = [page EXCEPT !.bulk = TRUE] /\ UNCHANGED <<where, at, dialog, side, told>>
        /\ tasks' = Bin!Send(tasks, "restore", i, "bulk", page.selected \ {i})
    BY <1>0, <1>2 DEF Bin!BulkRestore, Bin!On, Bin!MayAct, Bin!Act
  <2>2. page.selected \subseteq Trashed
    BY <2>1 DEF BinInv, ListFits, Changing
  <2>3. PICK r : /\ tasks' = tasks \cup {r} /\ DOMAIN r = CallKeys /\ r.kind = "restore" /\ r.item = i /\ r.by = "bulk"
                 /\ r.rest = page.selected \ {i} /\ r.mount = at.mount /\ r.said = "no"
    BY <2>1, SentCall
  <2>4. ChangeFits(r)'
    BY <2>1, <2>2, <2>3, <1>0 DEF ChangeFits, Bin!Possible, Trashed, Bin!In, Shape, PageKeys
  <2>5. CallFits(r)'
    BY <2>1, <2>3, <2>4 DEF CallFits, Changers, Readers
  <2>6. DialogFits'
    BY <2>1, <1>0 DEF DialogFits
  <2> QED
    BY <2>1, <2>3, <2>5, <2>6, <1>0, FirstChange DEF Shape, PageKeys, Changers
<1>3. ASSUME Bin!Confirm PROVE BinInv' /\ BadgeFits'
  <2>1. /\ dialog.kind # NONE /\ ~dialog.busy /\ tasks = {} /\ dialog' = [dialog EXCEPT !.busy = TRUE]
        /\ UNCHANGED <<where, at, page, side, told>>
    BY <1>0, <1>3 DEF Bin!Confirm, DialogFits
  <2>2. PICK i, k, by, rest :
          /\ tasks' = Bin!Send(tasks, k, i, by, rest)
          /\ \/ i \in page.selected /\ rest = page.selected \ {i} /\ k = "purge" /\ by = "bulk" /\ dialog.kind = "bulk"
             \/ /\ i = dialog.item /\ rest = {} /\ k = (IF dialog.kind = "purge" THEN "purge" ELSE "trash") /\ by = dialog.kind
                /\ dialog.kind # "bulk"
    BY <1>3 DEF Bin!Confirm
  <2>3. PICK r : /\ tasks' = tasks \cup {r} /\ DOMAIN r = CallKeys /\ r.kind = k /\ r.item = i /\ r.by = by
                 /\ r.rest = rest /\ r.mount = at.mount /\ r.said = "no"
    BY <2>2, SentCall
  <2>4. DialogFits'
    BY <2>1, <1>0 DEF DialogFits, AskKeys
  <2>5. page.selected \subseteq Trashed
    BY <2>1 DEF BinInv, ListFits, Changing
  <2>6. ChangeFits(r)'
    <3>1. CASE dialog.kind = "bulk"
      BY <3>1, <2>1, <2>2, <2>3, <2>5, <1>0 DEF ChangeFits, Bin!Possible, Trashed, Bin!In, DialogFits
    <3>2. CASE dialog.kind = "purge"
      BY <3>2, <2>1, <2>2, <2>3, <1>0 DEF ChangeFits, Bin!Possible, Trashed, Bin!In, DialogFits
    <3>3. CASE dialog.kind \in {"files", "home"}
      <4>1. page.selected = {}
        BY <3>3, <2>1, <1>0 DEF DialogFits, Shape
      <4> QED
        BY <3>3, <4>1, <2>1, <2>2, <2>3, <1>0 DEF ChangeFits, Bin!Possible, Trashed, Bin!In, DialogFits
    <3> QED
      BY <3>1, <3>2, <3>3, <2>1, <1>0 DEF DialogFits
  <2>7. r.kind \in Changers
    BY <2>2, <2>3 DEF Changers
  <2>8. CallFits(r)'
    BY <2>1, <2>3, <2>6, <2>7 DEF CallFits, Changers, Readers
  <2> QED
    BY <2>1, <2>3, <2>4, <2>7, <2>8, <1>0, FirstChange DEF Shape
<1>4. ASSUME NEW S \in SUBSET Things, Bin!Drop(S) PROVE BinInv' /\ BadgeFits'
  <2>1. /\ tasks = {} /\ at.route = "files" /\ dialog.kind = NONE /\ S # {} /\ S \subseteq page.list
        /\ told' = FALSE /\ UNCHANGED <<where, at, page, dialog, side>>
    BY <1>0, <1>4 DEF Bin!Drop, Bin!On, Bin!MayAct, Bin!Rows, Bin!Filtered
  <2>2. PICK f : tasks' = tasks \cup {[Bin!Request(tasks, "trash", i, "drop", {}) EXCEPT !.n = f[i]] : i \in S}
    <3>1. \E f \in [S -> Bin!Numbers] :
            /\ \A i, j \in S : f[i] = f[j] => i = j
            /\ \A i \in S, t \in tasks : f[i] # t.n /\ f[i] <= Bin!Cardinality(tasks) + Bin!Cardinality(S)
            /\ tasks' = tasks \cup {[Bin!Request(tasks, "trash", i, "drop", {}) EXCEPT !.n = f[i]] : i \in S}
      BY <1>4, Zenon DEF Bin!Drop
    <3> QED
      BY <3>1, Zenon
  <2>3. S \subseteq Bin!In("live")
    BY <2>1, <1>0 DEF BinInv, ListFits, Changing, Target
  <2>4. ASSUME NEW t \in tasks' PROVE /\ DOMAIN t = CallKeys /\ t.kind = "trash" /\ t.item \in S /\ t.by = "drop" /\ t.rest = {}
                                      /\ t.mount = at.mount /\ t.said = "no"
                                      /\ t = [Bin!Request(tasks, "trash", t.item, "drop", {}) EXCEPT !.n = f[t.item]]
    <3>1. PICK i \in S : t = [Bin!Request(tasks, "trash", i, "drop", {}) EXCEPT !.n = f[i]]
      BY <2>1, <2>2
    <3> QED
      BY <3>1 DEF Bin!Request, CallKeys
  <2>5. ASSUME NEW t \in tasks', NEW u \in tasks', t.item = u.item PROVE t = u
    BY <2>4, <2>5
  <2>6. Apart'
    BY <2>4, <2>5 DEF Apart, Changers
  <2>7. page.selected = {}
    BY <2>1, <1>0 DEF Shape
  <2>8. Calls'
    <3>1. SUFFICES ASSUME NEW t \in tasks' PROVE CallFits(t)'
      BY DEF Calls
    <3>2. ChangeFits(t)'
      BY <2>1, <2>3, <2>4, <2>7 DEF ChangeFits, Bin!Possible, Bin!In
    <3> QED
      BY <2>1, <2>4, <3>2 DEF CallFits, Changers, Readers
  <2>9. Changing'
    <3>1. PICK i \in S : TRUE
      BY <2>1
    <3>2. [Bin!Request(tasks, "trash", i, "drop", {}) EXCEPT !.n = f[i]] \in tasks'
      BY <2>2, <3>1
    <3> QED
      BY <2>4, <3>2 DEF Changing, Changers
  <2>10. Shape' /\ DialogFits'
    BY <2>1, <1>0 DEF Shape, DialogFits
  <2> QED
    BY <2>6, <2>8, <2>9, <2>10 DEF BinInv, ListFits, BadgeFits
<1> QED
  BY <1>1, <1>2, <1>3, <1>4

\* What the user does without a request, and the way to another page.
LEMMA UserLooks ==
  ASSUME Smooth, BinInv,
         \/ \E i \in Things : Bin!ToggleOne(i) \/ Bin!AskPurge(i) \/ Bin!AskTrash(i)
         \/ Bin!ToggleAll \/ Bin!Deselect \/ Bin!SearchFor \/ Bin!AskBulk \/ Bin!Cancel
  PROVE  BinInv' /\ (BadgeFits => BadgeFits')
<1>0. Patient /\ Shape /\ DialogFits /\ NONE \notin {"purge", "bulk", "files", "home"}
  BY DEF Smooth, BinInv
<1>1. ASSUME tasks = {}, at.route = "trash" PROVE page.selected \subseteq Trashed /\ page.list = Trashed
  BY <1>1 DEF BinInv, ListFits, Changing, Target
<1>2. ASSUME NEW i \in Things, Bin!ToggleOne(i) PROVE BinInv' /\ (BadgeFits => BadgeFits')
  <2>1. /\ tasks = {} /\ at.route = "trash" /\ dialog.kind = NONE /\ i \in page.list
        /\ page' = [page EXCEPT !.selected = IF i \in @ THEN @ \ {i} ELSE @ \cup {i}] /\ UNCHANGED <<where, at, dialog, side, tasks, told>>
    BY <1>0, <1>2 DEF Bin!ToggleOne, Bin!On, Bin!MayAct, Bin!Rows, Bin!Filtered, Bin!Page
  <2>2. DOMAIN page' = PageKeys /\ page'.list = page.list /\ page'.selected \subseteq page.selected \cup {i}
    BY <2>1, <1>0 DEF Shape, PageKeys
  <2>3. DialogFits'
    BY <2>1, <1>0 DEF DialogFits
  <2> QED
    BY <2>1, <2>2, <2>3, <1>1, CalmStep
<1>3. ASSUME Bin!ToggleAll \/ Bin!Deselect \/ Bin!SearchFor PROVE BinInv' /\ (BadgeFits => BadgeFits')
  <2>1. /\ tasks = {} /\ at.route = "trash" /\ dialog.kind = NONE /\ UNCHANGED <<where, at, dialog, side, tasks, told>>
        /\ \/ page' = [page EXCEPT !.selected = IF Bin!Filtered \subseteq @ THEN {} ELSE Bin!Filtered]
           \/ page' = [page EXCEPT !.selected = {}]
           \/ page' = [page EXCEPT !.search = ~@, !.selected = {}]
    BY <1>0, <1>3 DEF Bin!ToggleAll, Bin!Deselect, Bin!SearchFor, Bin!On, Bin!MayAct, Bin!Page
  <2>2. Bin!Filtered \subseteq page.list
    BY DEF Bin!Filtered
  <2>4. PICK S \in SUBSET page.list : page' = [page EXCEPT !.selected = S] \/ page' = [page EXCEPT !.search = ~@, !.selected = S]
    BY <2>1, <2>2
  <2>5. DOMAIN page' = PageKeys /\ page'.list = page.list /\ page'.selected \subseteq page.list
    BY <2>4, <1>0 DEF Shape, PageKeys
  <2>3. DialogFits'
    BY <2>1, <1>0 DEF DialogFits
  <2> QED
    BY <2>1, <2>5, <2>3, <1>1, CalmStep
<1>4. ASSUME NEW i \in Things, Bin!AskPurge(i) \/ Bin!AskTrash(i) PROVE BinInv' /\ (BadgeFits => BadgeFits')
  <2>1. tasks = {} /\ UNCHANGED <<where, at, page, side, tasks, told>>
    BY <1>0, <1>4 DEF Bin!AskPurge, Bin!AskTrash, Bin!On, Bin!MayAct, Bin!Open
  <2>2. page.selected \subseteq Trashed
    BY <2>1 DEF BinInv, ListFits, Changing
  <2>3. DialogFits'
    <3>1. CASE Bin!AskPurge(i)
      <4>1. /\ at.route = "trash" /\ i \in page.list /\ page.selected = {} /\ dialog' = [kind |-> "purge", item |-> i, busy |-> FALSE]
        BY <1>0, <3>1 DEF Bin!AskPurge, Bin!On, Bin!RowOf, Bin!Rows, Bin!Filtered, Bin!Open
      <4>2. Trashed' = Trashed
        BY <2>1 DEF Trashed, Bin!In
      <4> QED
        BY <2>1, <4>1, <4>2, <1>1 DEF DialogFits, AskKeys
    <3>2. CASE Bin!AskTrash(i)
      <4>1. /\ at.route \in {"files", "home"} /\ dialog' = [kind |-> at.route, item |-> i, busy |-> FALSE]
            /\ at.route = "files" => i \in page.list
            /\ at.route = "home" => where[i] = "live"
        BY <3>2 DEF Bin!AskTrash, Bin!On, Bin!Rows, Bin!Filtered, Bin!Open
      <4>2. i \in Bin!In("live")'
        BY <4>1, <2>1 DEF BinInv, ListFits, Changing, Target, Bin!In
      <4> QED
        BY <2>1, <4>1, <4>2 DEF DialogFits, AskKeys
    <3> QED
      BY <3>1, <3>2, <1>4
  <2> QED
    BY <2>1, <2>2, <2>3, <1>0, CalmStep DEF Shape
<1>5. ASSUME Bin!AskBulk \/ Bin!Cancel PROVE BinInv' /\ (BadgeFits => BadgeFits')
  <2>1. tasks = {} /\ UNCHANGED <<where, at, page, side, tasks, told>>
    BY <1>0, <1>5 DEF Bin!AskBulk, Bin!Cancel, Bin!On, Bin!MayAct, Bin!Open, DialogFits
  <2>2. page.selected \subseteq Trashed
    BY <2>1 DEF BinInv, ListFits, Changing
  <2>3. DialogFits'
    BY <1>0, <1>5, <2>1 DEF DialogFits, AskKeys, Bin!AskBulk, Bin!Cancel, Bin!On, Bin!Open, Bin!Closed
  <2> QED
    BY <2>1, <2>2, <2>3, <1>0, CalmStep DEF Shape
<1> QED
  BY <1>2, <1>3, <1>4, <1>5

LEMMA UserLeaves ==
  ASSUME Smooth, BinInv, NEW route \in Routes, Bin!Navigate(route)
  PROVE  BinInv' /\ BadgeFits'
<1>1. /\ Patient /\ tasks = {} /\ dialog.kind = NONE /\ at' = [route |-> route, mount |-> 3 - at.mount] /\ page' = Bin!Fresh
      /\ UNCHANGED <<where, dialog, side, told>>
  BY DEF Smooth, Bin!Navigate, Bin!On, Bin!MayAct
<1>2. PICK ts : /\ ts = Bin!Get(Bin!Get(tasks, "count"), "quota")
                /\ tasks' = ts \cup {[Bin!Request(ts, "list", NONE, "page", {}) EXCEPT !.mount = 3 - at.mount]}
  BY DEF Bin!Navigate
<1>3. PICK c : /\ Bin!Get(tasks, "count") = tasks \cup {c}
               /\ DOMAIN c = CallKeys /\ c.kind = "count" /\ c.by = "page" /\ c.said = "no"
  BY SentCall DEF Bin!Get
<1>4. PICK q : /\ ts = {c, q}
               /\ DOMAIN q = CallKeys /\ q.kind = "quota" /\ q.by = "page" /\ q.said = "no"
  <2>1. PICK q : /\ Bin!Get(Bin!Get(tasks, "count"), "quota") = Bin!Get(tasks, "count") \cup {q}
                 /\ DOMAIN q = CallKeys /\ q.kind = "quota" /\ q.by = "page" /\ q.said = "no"
    BY SentCall DEF Bin!Get
  <2> QED
    BY <2>1, <1>1, <1>2, <1>3
<1>5. PICK r : /\ tasks' = {c, q, r}
               /\ DOMAIN r = CallKeys /\ r.kind = "list" /\ r.by = "page" /\ r.said = "no" /\ r.mount = at'.mount
  <2>1. PICK r : r = [Bin!Request(ts, "list", NONE, "page", {}) EXCEPT !.mount = 3 - at.mount]
    OBVIOUS
  <2>2. DOMAIN r = CallKeys /\ r.kind = "list" /\ r.by = "page" /\ r.said = "no" /\ r.mount = at'.mount
    BY <2>1, <1>1 DEF Bin!Request, CallKeys
  <2> QED
    BY <2>1, <2>2, <1>2, <1>4
<1>6. Shape'
  BY <1>1 DEF BinInv, Shape, Bin!Fresh, PageKeys
<1>7. Calls' /\ Apart' /\ ~Changing'
  BY <1>3, <1>4, <1>5 DEF Calls, Apart, CallFits, Changing, Changers, Readers
<1>8. DialogFits'
  BY <1>1 DEF BinInv, DialogFits
<1>9. ListFits' /\ BadgeFits'
  BY <1>1, <1>3, <1>5 DEF ListFits, BadgeFits, Bin!Fresh
<1> QED
  BY <1>6, <1>7, <1>8, <1>9 DEF BinInv

\* While anything is on its way, no dialog waits for its confirmation.
LEMMA NothingAsked == ASSUME BinInv, tasks # {} PROVE dialog.kind = NONE \/ dialog.busy
  BY DEF BinInv, DialogFits

LEMMA ReadStep ==
  ASSUME Smooth, BinInv, NEW t \in tasks, Bin!Read(t)
  PROVE  BinInv' /\ (BadgeFits => BadgeFits')
<1>1. /\ t.said = "no" /\ t.kind \in Readers /\ UNCHANGED <<where, at, page, dialog, side, told>>
      /\ tasks' = (tasks \ {t}) \cup {[t EXCEPT !.said = "ok", !.ans = Bin!Reading(t)]}
  BY DEF Bin!Read, Readers
<1>2. PICK r : r = [t EXCEPT !.said = "ok", !.ans = Bin!Reading(t)]
  OBVIOUS
<1>3. CallFits(t) /\ ~Changing
  BY <1>1 DEF BinInv, Calls, Apart, Changing, Changers, Readers
<1>4. /\ DOMAIN r = CallKeys /\ r.kind = t.kind /\ r.by = t.by /\ r.mount = t.mount /\ r.said = "ok"
      /\ r.ans = Bin!Reading(t)
  BY <1>2, <1>3 DEF CallFits, CallKeys
<1>5. (t.kind = "list" => r.ans = Target') /\ (t.kind = "count" => r.ans = Trashed')
  BY <1>1, <1>4 DEF Bin!Reading, Target, Trashed, Bin!In
<1>6. Trashed' = Trashed /\ Target' = Target
  BY <1>1 DEF Target, Trashed, Bin!In
<1>7. Calls'
  <2>1. ASSUME NEW u \in tasks, u # t PROVE CallFits(u)'
    BY <2>1, <1>1, <1>3, <1>6 DEF BinInv, Calls, CallFits, Changing
  <2>2. CallFits(r)'
    BY <1>1, <1>3, <1>4, <1>5 DEF CallFits, Changing, Readers, Changers
  <2> QED
    BY <1>1, <1>2, <2>1, <2>2 DEF Calls
<1>8. ~Changing' /\ Apart'
  BY <1>1, <1>2, <1>3, <1>4 DEF Changing, Apart, Readers, Changers
<1>9. DialogFits'
  BY <1>1, NothingAsked DEF BinInv, DialogFits
<1>10. Shape'
  BY <1>1 DEF BinInv, Shape
<1>11. ListFits' /\ (BadgeFits => BadgeFits')
  BY <1>1, <1>2, <1>3, <1>4, <1>6 DEF BinInv, ListFits, BadgeFits
<1> QED
  BY <1>7, <1>8, <1>9, <1>10, <1>11 DEF BinInv

LEMMA ServeStep ==
  ASSUME Smooth, BinInv, NEW t \in tasks, Bin!Serve(t)
  PROVE  BinInv' /\ BadgeFits'
<1>0. ~Faults /\ t.said = "no" /\ t.kind \in Changers /\ UNCHANGED <<at, page, dialog, side, told>>
  BY DEF Smooth, Bin!Serve, Changers
<1>1. CallFits(t) /\ ChangeFits(t) /\ t.mount = at.mount /\ Bin!Possible(t)
  BY <1>0 DEF BinInv, Calls, CallFits, ChangeFits
<1>2. PICK r : r = [t EXCEPT !.said = "ok"]
  OBVIOUS
<1>3. where' = [where EXCEPT ![t.item] = Bin!Becomes(t)] /\ tasks' = (tasks \ {t}) \cup {r}
  BY <1>0, <1>1, <1>2 DEF Bin!Serve
<1>4. /\ DOMAIN r = CallKeys /\ r.kind = t.kind /\ r.by = t.by /\ r.mount = t.mount /\ r.said = "ok"
      /\ r.item = t.item /\ r.rest = t.rest
  BY <1>1, <1>2 DEF CallFits, CallKeys
<1>5. Shape'
  <2>1. PICK x : x = Bin!Becomes(t)
    OBVIOUS
  <2>2. where' = [i \in Things |-> where'[i]]
    BY <1>3, <2>1 DEF BinInv, Shape
  <2> QED
    BY <1>0, <2>2 DEF BinInv, Shape
<1>6. ASSUME NEW i \in Things, i # t.item PROVE where'[i] = where[i]
  BY <1>3, <1>6 DEF BinInv, Shape
<1>7. t.rest \subseteq Trashed' \ {t.item}
  BY <1>1, <1>6 DEF ChangeFits, Trashed, Bin!In
<1>8. CallFits(r)'
  <2>1. ChangeFits(r)'
    BY <1>0, <1>1, <1>4, <1>7 DEF ChangeFits
  <2> QED
    BY <1>0, <1>1, <1>4, <2>1 DEF CallFits, Changers, Readers
<1>9. ASSUME NEW u \in tasks, u # t PROVE CallFits(u)'
  <2>1. u.kind \in Changers /\ t.by = "drop" /\ u.by = "drop" /\ t.item # u.item /\ CallFits(u) /\ ChangeFits(u)
    BY <1>0, <1>9 DEF BinInv, Apart, Calls, CallFits
  <2>2. Trashed \subseteq Trashed'
    <3>1. t.kind = "trash" /\ t.item \in Things /\ where[t.item] = "live"
      BY <1>1, <2>1 DEF ChangeFits, Bin!Possible
    <3> QED
      BY <3>1, <1>6 DEF Trashed, Bin!In
  <2>3. ChangeFits(u)'
    BY <1>0, <2>1, <2>2, <1>6 DEF ChangeFits, Bin!Possible
  <2> QED
    BY <1>0, <2>1, <2>3 DEF CallFits, Changers, Readers
<1>10. Calls'
  BY <1>3, <1>8, <1>9 DEF Calls
<1>11. Apart' /\ Changing'
  <2>1. Changing'
    BY <1>0, <1>3, <1>4 DEF Changing
  <2>2. ASSUME NEW u \in tasks, u # t PROVE u.kind \in Changers /\ u.by = "drop" /\ r.by = "drop" /\ r.item # u.item
    BY <1>0, <1>4, <2>2 DEF BinInv, Apart
  <2>3. ASSUME NEW u \in tasks, u # t, NEW v \in tasks, v # t PROVE u = v \/ (u.by = "drop" /\ v.by = "drop" /\ u.item # v.item)
    BY <2>2, <2>3 DEF BinInv, Apart
  <2> QED
    BY <1>0, <1>3, <1>4, <2>1, <2>2, <2>3 DEF Apart
<1>12. DialogFits'
  BY <1>0, NothingAsked DEF BinInv, DialogFits
<1> QED
  BY <1>5, <1>10, <1>11, <1>12 DEF BinInv, ListFits, BadgeFits

\* An answer that is shown, after which only the readers go on.
LEMMA ShowStep ==
  ASSUME Smooth, BinInv, NEW t \in tasks, Bin!ShowList(t) \/ Bin!ShowSide(t)
  PROVE  BinInv' /\ (BadgeFits => BadgeFits')
<1>0. t.said = "ok" /\ t.kind \in Readers /\ UNCHANGED <<where, at, dialog, told>> /\ CallFits(t) /\ Shape
  BY DEF Bin!ShowList, Bin!ShowSide, Readers, BinInv, Calls
<1>1. ~Changing
  BY <1>0 DEF BinInv, Apart, Changing, Changers, Readers
<1>a. PICK q : /\ Bin!Send(Bin!Rest(t), "quota", NONE, "page", {}) = Bin!Rest(t) \cup {q}
               /\ DOMAIN q = CallKeys /\ q.kind = "quota" /\ q.by = "page" /\ q.said = "no"
  BY SentCall
<1>b. tasks' \in {Bin!Rest(t), Bin!StorageChanged(Bin!Rest(t))}
  BY DEF Bin!ShowList, Bin!ShowSide
<1>2. /\ tasks' \in {tasks \ {t}, (tasks \ {t}) \cup {q}}
      /\ DOMAIN q = CallKeys /\ q.kind = "quota" /\ q.by = "page" /\ q.said = "no"
  BY <1>a, <1>b DEF Bin!StorageChanged, Bin!Get, Bin!Rest
<1>3. Trashed' = Trashed /\ Target' = Target
  BY <1>0 DEF Target, Trashed, Bin!In
<1>4. Calls'
  <2>1. ASSUME NEW u \in tasks PROVE CallFits(u)'
    BY <1>0, <1>1, <1>3 DEF BinInv, Calls, CallFits, Changing
  <2>2. CallFits(q)'
    BY <1>2 DEF CallFits, Changers, Readers
  <2> QED
    BY <1>2, <2>1, <2>2 DEF Calls
<1>5. ~Changing' /\ Apart'
  BY <1>1, <1>2 DEF Changing, Apart, Changers
<1>6. DialogFits'
  BY <1>0, NothingAsked DEF BinInv, DialogFits
<1>7. CASE t.kind = "list"
  <2>1. page' = [page EXCEPT !.list = t.ans, !.loading = FALSE] /\ UNCHANGED side /\ t.ans = Target
    BY <1>0, <1>7 DEF Bin!ShowList, Bin!ShowSide, Bin!Mounted, CallFits
  <2>2. DOMAIN page' = PageKeys /\ page'.list = Target' /\ page'.selected = page.selected
    BY <1>0, <1>3, <2>1 DEF Shape, PageKeys
  <2>3. Shape'
    BY <1>0, <2>1, <2>2 DEF Shape
  <2>4. ListFits'
    BY <1>1, <1>3, <2>2 DEF BinInv, ListFits
  <2>5. BadgeFits => BadgeFits'
    BY <1>1, <1>2, <1>3, <1>7, <2>1 DEF BadgeFits
  <2> QED
    BY <1>4, <1>5, <1>6, <2>3, <2>4, <2>5 DEF BinInv
<1>8. CASE t.kind # "list"
  <2>1. UNCHANGED page /\ tasks' = tasks \ {t}
        /\ side' = (IF t.kind = "count" THEN [side EXCEPT !.badge = Bin!Cardinality(t.ans)] ELSE [side EXCEPT !.meter = Bin!Cardinality(t.ans)])
    BY <1>8 DEF Bin!ShowList, Bin!ShowSide, Bin!Rest
  <2>2. DOMAIN side' = {"badge", "meter"} /\ (IF t.kind = "count" THEN side'.badge = Bin!Cardinality(t.ans) ELSE side'.badge = side.badge)
    BY <1>0, <2>1 DEF Shape
  <2>3. Shape'
    BY <1>0, <2>1, <2>2 DEF Shape
  <2>4. ListFits'
    BY <1>0, <1>1, <1>3, <1>8, <2>1 DEF BinInv, ListFits
  <2>5. BadgeFits => BadgeFits'
    <3>1. t.kind = "count" => t.ans = Trashed
      BY <1>0 DEF CallFits
    <3> QED
      BY <1>1, <1>3, <2>1, <2>2, <3>1 DEF BadgeFits
  <2> QED
    BY <1>4, <1>5, <1>6, <2>3, <2>4, <2>5 DEF BinInv
<1> QED
  BY <1>7, <1>8

\* A change has ended: nothing changes, and what shows it is asked again.
LEMMA EndedStep ==
  ASSUME Smooth, BinInv, UNCHANGED <<where, at, side>>, tasks' = Bin!TrashChanged(Bin!Load({})),
         DOMAIN page' = PageKeys, page'.selected = {}, DialogFits'
  PROVE  BinInv' /\ BadgeFits'
<1>1. PICK l : /\ Bin!Load({}) = {l}
               /\ DOMAIN l = CallKeys /\ l.kind = "list" /\ l.by = "page" /\ l.said = "no" /\ l.mount = at.mount
  <2>1. PICK l : /\ Bin!Load({}) = {} \cup {l}
                 /\ DOMAIN l = CallKeys /\ l.kind = "list" /\ l.by = "page" /\ l.said = "no" /\ l.mount = at.mount
    BY SentCall DEF Bin!Load, Bin!Get
  <2> QED
    BY <2>1
<1>2. PICK c : /\ tasks' = {l, c}
               /\ DOMAIN c = CallKeys /\ c.kind = "count" /\ c.by = "page" /\ c.said = "no"
  <2>1. PICK c : /\ Bin!TrashChanged(Bin!Load({})) = Bin!Load({}) \cup {c}
                 /\ DOMAIN c = CallKeys /\ c.kind = "count" /\ c.by = "page" /\ c.said = "no"
    BY SentCall DEF Bin!TrashChanged, Bin!Get
  <2> QED
    BY <1>1, <2>1
<1>3. Calls' /\ Apart' /\ ~Changing'
  BY <1>1, <1>2 DEF Calls, Apart, CallFits, Changing, Changers, Readers
<1>4. Shape'
  BY DEF BinInv, Shape
<1>5. ListFits' /\ BadgeFits'
  BY <1>1, <1>2 DEF ListFits, BadgeFits
<1> QED
  BY <1>3, <1>4, <1>5 DEF BinInv

LEMMA SingleStep ==
  ASSUME Smooth, BinInv, NEW t \in tasks, Bin!Restored(t) \/ Bin!Looped(t) \/ Bin!Answered(t)
  PROVE  BinInv' /\ ("home" \notin Routes => BadgeFits')
<1>0. /\ t.by # "page" /\ t.by # "drop" /\ t.said = "ok" /\ CallFits(t) /\ UNCHANGED <<where, at, side, told>> /\ Shape
  <2>1. t.by # "page" /\ t.by # "drop" /\ t.said # "no" /\ UNCHANGED <<where, at, side, told>>
    BY DEF Bin!Restored, Bin!Looped, Bin!Answered
  <2> QED
    BY <2>1 DEF BinInv, Calls, CallFits
<1>1. /\ t.kind \in Changers /\ t.mount = at.mount /\ ChangeFits(t) /\ (t.by = "bulk" \/ page.selected = {})
  BY <1>0 DEF CallFits, ChangeFits
<1>2. tasks = {t} /\ Bin!Rest(t) = {} /\ Bin!Mounted(t)
  BY <1>0, <1>1 DEF BinInv, Apart, Bin!Rest, Bin!Mounted
<1>3. dialog.kind = NONE \/ dialog.busy
  BY NothingAsked
<1>4. CASE Bin!Restored(t)
  <2>1. /\ tasks' = Bin!TrashChanged(Bin!Load({})) /\ UNCHANGED dialog
        /\ page' = [page EXCEPT !.row = NONE, !.loading = (@ \/ t.said = "ok")] /\ page.selected = {}
    BY <1>0, <1>1, <1>2, <1>4 DEF Bin!Restored, Bin!OnPage
  <2>2. DOMAIN page' = PageKeys /\ page'.selected = {}
    BY <1>0, <2>1 DEF Shape, PageKeys
  <2>3. DialogFits'
    BY <1>3, <2>1 DEF BinInv, DialogFits
  <2> QED
    BY <1>0, <2>1, <2>2, <2>3, EndedStep
<1>5. CASE Bin!Looped(t)
  <2>1. CASE t.rest # {}
    <3>1. PICK i \in t.rest : tasks' = Bin!Send({}, t.kind, i, "bulk", t.rest \ {i}) /\ UNCHANGED <<page, dialog>>
      BY <1>0, <1>2, <1>5, <2>1 DEF Bin!Looped
    <3>2. PICK r : /\ tasks' = {} \cup {r} /\ DOMAIN r = CallKeys /\ r.kind = t.kind /\ r.item = i /\ r.by = "bulk"
                   /\ r.rest = t.rest \ {i} /\ r.mount = at.mount /\ r.said = "no"
      BY <3>1, SentCall
    <3>3. ChangeFits(r)'
      <4>1. i \in Trashed /\ i \in Things /\ where[i] = "bin" /\ t.by = "bulk"
        BY <1>1, <1>5 DEF ChangeFits, Trashed, Bin!In, Bin!Looped
      <4> QED
        BY <1>0, <1>1, <3>1, <3>2, <4>1 DEF ChangeFits, Bin!Possible, Trashed, Bin!In
    <3>4. CallFits(r)'
      BY <1>0, <1>1, <3>2, <3>3 DEF CallFits, Changers, Readers
    <3>5. Calls' /\ Apart' /\ Changing'
      BY <1>1, <3>2, <3>4 DEF Calls, Apart, Changing
    <3>6. Shape' /\ DialogFits'
      BY <1>0, <1>3, <3>1 DEF Shape, BinInv, DialogFits
    <3> QED
      BY <3>5, <3>6 DEF BinInv, ListFits, BadgeFits
  <2>2. CASE t.rest = {}
    <3>1. /\ tasks' = Bin!TrashChanged(Bin!Load({})) /\ page' = Bin!Settled(t) /\ dialog' \in {dialog, Bin!Closed}
      BY <1>0, <1>2, <1>5, <2>2 DEF Bin!Looped, Bin!OnPage
    <3>2. DOMAIN page' = PageKeys /\ page'.selected = {}
      BY <1>0, <3>1 DEF Shape, PageKeys, Bin!Settled
    <3>3. DialogFits'
      BY <1>3, <3>1 DEF BinInv, DialogFits, Bin!Closed, AskKeys
    <3> QED
      BY <1>0, <3>1, <3>2, <3>3, EndedStep
  <2> QED
    BY <2>1, <2>2
<1>6. CASE Bin!Answered(t)
  <2>1. /\ tasks' = Bin!After(t) /\ dialog' = Bin!Closed /\ page' \in {page, [page EXCEPT !.loading = TRUE]} /\ page.selected = {}
        /\ t.by \in {"purge", "files", "home"}
    BY <1>0, <1>1, <1>6 DEF Bin!Answered
  <2>2. DOMAIN page' = PageKeys /\ page'.selected = {}
    BY <1>0, <2>1 DEF Shape, PageKeys
  <2>3. DialogFits'
    BY <2>1 DEF DialogFits, Bin!Closed, AskKeys
  <2>4. CASE t.by # "home"
    <3>1. tasks' = Bin!TrashChanged(Bin!Load({}))
      BY <1>2, <2>1, <2>4 DEF Bin!After
    <3> QED
      BY <1>0, <2>2, <2>3, <3>1, EndedStep
  <2>5. CASE t.by = "home"
    <3>1. tasks' = {} /\ at.route = "home"
      BY <1>1, <1>2, <2>1, <2>5 DEF Bin!After, ChangeFits
    <3>2. Shape' /\ ListFits' /\ Calls' /\ Apart'
      BY <1>0, <2>2, <3>1 DEF Shape, ListFits, Calls, Apart
    <3>3. "home" \in Routes
      BY <1>0, <3>1 DEF Shape
    <3> QED
      BY <2>3, <3>2, <3>3 DEF BinInv
  <2> QED
    BY <2>4, <2>5
<1> QED
  BY <1>4, <1>5, <1>6

LEMMA DropStep ==
  ASSUME Smooth, BinInv, NEW t \in tasks, Bin!Dropped(t)
  PROVE  BinInv' /\ BadgeFits'
<1>1. /\ t.by = "drop" /\ t.said = "ok" /\ CallFits(t) /\ UNCHANGED <<where, at, page, dialog, side>> /\ Shape
  BY DEF Bin!Dropped, BinInv, Calls, CallFits
<1>2. t.kind \in Changers /\ ~told /\ at.route = "files" /\ page.selected = {}
  BY <1>1 DEF CallFits, ChangeFits
<1>3. ASSUME NEW u \in tasks PROVE CallFits(u) /\ u.kind \in Changers /\ u.by = "drop"
  BY <1>1, <1>2 DEF BinInv, Calls, Apart
<1>4. DialogFits'
  BY <1>1, NothingAsked DEF BinInv, DialogFits
<1>5. CASE tasks = {t}
  <2>1. tasks' = Bin!TrashChanged(Bin!Load({}))
    BY <1>1, <1>2, <1>5 DEF Bin!Dropped, Bin!Rest, Bin!ItemsTrashed
  <2> QED
    BY <1>1, <1>2, <1>4, <2>1, EndedStep DEF Shape
<1>6. CASE tasks # {t}
  <2>1. PICK u \in tasks : u # t
    BY <1>6
  <2>2. tasks' = tasks \ {t} /\ ~told'
    <3>1. u \in Bin!Rest(t) /\ u.by = "drop"
      BY <1>3, <2>1 DEF Bin!Rest
    <3> QED
      BY <1>1, <1>2, <3>1 DEF Bin!Dropped, Bin!Rest
  <2>3. Trashed' = Trashed /\ Target' = Target
    BY <1>1 DEF Target, Trashed, Bin!In
  <2>4. ASSUME NEW v \in tasks PROVE CallFits(v)'
    <3>1. CallFits(v) /\ ChangeFits(v) /\ v.kind \in Changers
      BY <1>3 DEF CallFits
    <3>2. ChangeFits(v)'
      BY <1>1, <2>2, <2>3, <3>1 DEF ChangeFits, Bin!Possible
    <3> QED
      BY <1>1, <3>1, <3>2 DEF CallFits, Changers, Readers
  <2>5. Calls' /\ Apart' /\ Changing'
    BY <1>3, <2>1, <2>2, <2>4 DEF Calls, BinInv, Apart, Changing
  <2>6. Shape'
    BY <1>1 DEF Shape
  <2> QED
    BY <1>4, <2>5, <2>6 DEF BinInv, ListFits, BadgeFits
<1> QED
  BY <1>5, <1>6

LEMMA BinStep ==
  ASSUME Smooth, BinInv, [Bin!Next]_Bin!vars
  PROVE  BinInv' /\ ("home" \notin Routes /\ BadgeFits => BadgeFits')
<1>1. CASE UNCHANGED Bin!vars
  <2>1. UNCHANGED <<where, at, page, dialog, side, tasks, told>>
    BY <1>1 DEF Bin!vars
  <2>2. Trashed' = Trashed /\ Target' = Target /\ Changing' = Changing
    BY <2>1 DEF Target, Trashed, Bin!In, Changing
  <2>3. ASSUME NEW t \in tasks PROVE CallFits(t)'
    <3>1. CallFits(t) /\ (t.kind \in Changers => ChangeFits(t))
      BY DEF BinInv, Calls, CallFits
    <3>2. t.kind \in Changers => ChangeFits(t)'
      BY <2>1, <2>2, <3>1 DEF ChangeFits, Bin!Possible
    <3> QED
      BY <2>1, <2>2, <3>1, <3>2 DEF CallFits
  <2>4. Calls' /\ Apart' /\ Shape'
    BY <2>1, <2>3 DEF BinInv, Calls, Apart, Shape
  <2>5. DialogFits'
    BY <2>1, <2>2 DEF BinInv, DialogFits, Bin!In
  <2>6. ListFits' /\ (BadgeFits => BadgeFits')
    BY <2>1, <2>2 DEF BinInv, ListFits, BadgeFits
  <2> QED
    BY <2>4, <2>5, <2>6 DEF BinInv
<1>2. CASE Bin!User
  <2>1. CASE \E route \in Routes : Bin!Navigate(route)
    BY <2>1, UserLeaves
  <2>2. CASE \/ \E i \in Things : Bin!Restore(i)
             \/ Bin!BulkRestore \/ Bin!Confirm
             \/ \E S \in SUBSET Things : Bin!Drop(S)
    BY <2>2, UserChanges
  <2>3. CASE \/ \E i \in Things : Bin!ToggleOne(i) \/ Bin!AskPurge(i) \/ Bin!AskTrash(i)
             \/ Bin!ToggleAll \/ Bin!Deselect \/ Bin!SearchFor \/ Bin!AskBulk \/ Bin!Cancel
    BY <2>3, UserLooks
  <2> QED
    BY <1>2, <2>1, <2>2, <2>3 DEF Bin!User
<1>3. ASSUME NEW t \in tasks, Bin!Answer(t) PROVE BinInv' /\ ("home" \notin Routes /\ BadgeFits => BadgeFits')
  BY <1>3, ReadStep, ServeStep, ShowStep, SingleStep, DropStep DEF Bin!Answer
<1> QED
  BY <1>1, <1>2, <1>3 DEF Bin!Next, Bin!Answering

\* The page lists what is in the trash when nothing is on its way: what was
\* restored or purged, one by one or together, is off it.
THEOREM BinListTrue == ASSUME Smooth PROVE Bin!Spec => []Bin!ListTrue
<1>1. Bin!Init => BinInv
  BY BinStart
<1>2. BinInv /\ [Bin!Next]_Bin!vars => BinInv'
  BY BinStep
<1>3. BinInv => Bin!ListTrue
  BY DEF BinInv, ListFits, Changing, Target, Trashed, Bin!ListTrue, Bin!Rested
<1> QED
  BY <1>1, <1>2, <1>3, PTL DEF Bin!Spec

\* Nor does the file browser list what was trashed, by a dialog or a drop.
THEOREM BinFilesTrue == ASSUME Smooth PROVE Bin!Spec => []Bin!FilesTrue
<1>1. Bin!Init => BinInv
  BY BinStart
<1>2. BinInv /\ [Bin!Next]_Bin!vars => BinInv'
  BY BinStep
<1>3. BinInv => Bin!FilesTrue
  BY DEF BinInv, ListFits, Changing, Target, Bin!FilesTrue, Bin!Rested
<1> QED
  BY <1>1, <1>2, <1>3, PTL DEF Bin!Spec

\* The badge counts the trash, if nothing is trashed from Home, which tells
\* nobody.
THEOREM BinBadgeTrue == ASSUME Smooth, "home" \notin Routes PROVE Bin!Spec => []Bin!BadgeTrue
<1>1. Bin!Init => BinInv /\ BadgeFits
  BY BinStart DEF Bin!Init, BadgeFits, Trashed
<1>2. BinInv /\ BadgeFits /\ [Bin!Next]_Bin!vars => (BinInv /\ BadgeFits)'
  BY BinStep
<1>3. BadgeFits => Bin!BadgeTrue
  BY DEF BadgeFits, Changing, Trashed, Bin!BadgeTrue, Bin!Rested
<1> QED
  BY <1>1, <1>2, <1>3, PTL DEF Bin!Spec
----------------------------------------------------------------------------
(* The pages that list the account's files.                                *)

CONSTANTS Which, N, PageSize, Odd, Match
VARIABLES live, stars, ui
Lists == INSTANCE PagedLists

LoadKeys == {"kind", "n", "served", "live", "about", "back"}
UiKeys == {"at", "dir", "type", "query", "page", "hits", "preview", "clicked", "dialog"}
LoadShape(t) == DOMAIN t = LoadKeys /\ t.kind \in {"page", "search", "star", "trash"} /\ t.live \in BOOLEAN /\ t.served \in BOOLEAN
ListShape == DOMAIN ui = UiKeys /\ \A t \in tasks : LoadShape(t)

\* What a step of the user is: a change of what the controls show, with the
\* request it sends; a request from a row or a dialog; or a look.
ByControl(u) ==
  /\ ui' = u /\ DOMAIN u = UiKeys /\ u.page = ui.page /\ u.dialog = ui.dialog
  /\ Which = "activity" /\ ~ui.query => ~u.query
  /\ ~u.query => u.hits = Lists!NoHits \/ (~ui.query /\ u.hits = ui.hits)
  /\ ui.at \in Nat \ {0} => u.at \in Nat \ {0}
  /\ Lists!Free /\ Lists!Refetch(u) /\ Lists!Server
BySend(r) ==
  /\ tasks' = tasks \cup {r} /\ LoadShape(r) /\ r.kind \in {"star", "trash"} /\ ~r.served /\ ui' = ui /\ Lists!Server
  /\ r.kind = "star" => Lists!Free /\ Which # "activity" /\ r.back.page = ui.page
  /\ r.kind = "trash" => ui.dialog # 0 /\ ~\E t \in tasks : t.kind = "trash"
ByLook ==
  /\ tasks' = tasks /\ DOMAIN ui' = UiKeys /\ Lists!Server
  /\ ui'.at = ui.at /\ ui'.dir = ui.dir /\ ui'.type = ui.type /\ ui'.query = ui.query /\ ui'.page = ui.page /\ ui'.hits = ui.hits
  /\ ui'.dialog = ui.dialog \/ (Which # "activity" /\ Lists!Free)

LEMMA NewLoad ==
  ASSUME NEW ts, NEW kind, NEW about
  PROVE  \E r : /\ r = Lists!Task(ts, kind, about) /\ DOMAIN r = LoadKeys /\ r.kind = kind /\ r.about = about
                /\ r.served \in BOOLEAN /\ r.live \in BOOLEAN /\ ~r.served /\ r.live
<1>1. PICK r : r = Lists!Task(ts, kind, about)
  OBVIOUS
<1>2. DOMAIN r = LoadKeys /\ r.kind = kind /\ r.about = about /\ r.served = FALSE /\ r.live = TRUE
  BY <1>1 DEF Lists!Task, LoadKeys
<1> QED
  BY <1>1, <1>2

\* The clean-ups keep the requests, and cancel the searches and the log's pages.
LEMMA DroppedLoads ==
  ASSUME ListShape
  PROVE  \A d \in Lists!Drop : /\ LoadShape(d) /\ (d.kind = "search" => ~d.live) /\ (d.kind = "page" /\ Which = "activity" => ~d.live)
                               /\ \E t \in tasks : d.kind = t.kind /\ d.about = t.about /\ d.back = t.back /\ d.served = t.served /\ (d.live => t.live)
<1> SUFFICES ASSUME NEW d \in Lists!Drop
             PROVE  /\ LoadShape(d) /\ (d.kind = "search" => ~d.live) /\ (d.kind = "page" /\ Which = "activity" => ~d.live)
                    /\ \E t \in tasks : d.kind = t.kind /\ d.about = t.about /\ d.back = t.back /\ d.served = t.served /\ (d.live => t.live)
  OBVIOUS
<1>1. PICK t \in tasks : d = IF t.kind = "search" \/ (t.kind = "page" /\ Which = "activity") THEN [t EXCEPT !.live = FALSE] ELSE t
  BY DEF Lists!Drop
<1>2. LoadShape(t)
  BY DEF ListShape
<1>3. CASE d = t
  BY <1>1, <1>2, <1>3 DEF LoadShape, LoadKeys
<1>4. CASE d = [t EXCEPT !.live = FALSE]
  BY <1>2, <1>4 DEF LoadShape, LoadKeys
<1> QED
  BY <1>1, <1>3, <1>4

LEMMA UserKinds == ASSUME ListShape, Lists!User PROVE (\E u : ByControl(u)) \/ (\E r : BySend(r)) \/ ByLook
<1>1. ASSUME NEW n \in 1..Lists!TotalPages(N), Lists!Jump(n) PROVE \E u : ByControl(u)
  <2>1. PICK u : u = [ui EXCEPT !.at = n]
    OBVIOUS
  <2>2. DOMAIN u = UiKeys /\ u.page = ui.page /\ u.dialog = ui.dialog /\ u.query = ui.query /\ u.hits = ui.hits /\ u.at \in {n}
    BY <2>1 DEF ListShape, UiKeys
  <2>3. ui' = u /\ Lists!Free /\ Lists!Refetch(u) /\ Lists!Server /\ ~ui.query
    BY <1>1, <2>1, <2>2 DEF Lists!Jump, Lists!Ask
  <2>4. u.at \in Nat \ {0}
    BY <2>2, <1>1
  <2> QED
    BY <1>1, <2>1, <2>2, <2>3, <2>4 DEF ByControl
<1>2. ASSUME NEW type, Lists!PickType(type) PROVE \E u : ByControl(u)
  <2>1. CASE Which = "activity"
    <3>1. PICK u : u = [ui EXCEPT !.type = type, !.at = 1]
      OBVIOUS
    <3>2. DOMAIN u = UiKeys /\ u.page = ui.page /\ u.dialog = ui.dialog /\ u.query = ui.query /\ u.hits = ui.hits /\ u.at \in {1}
      BY <3>1 DEF ListShape, UiKeys
    <3>3. ui' = u /\ Lists!Free /\ Lists!Refetch(u) /\ Lists!Server
      BY <1>2, <2>1, <3>1, <3>2 DEF Lists!PickType, Lists!Ask
    <3>4. u.at \in Nat \ {0}
      BY <3>2
    <3> QED
      BY <1>2, <2>1, <3>1, <3>2, <3>3, <3>4 DEF ByControl
  <2>2. CASE Which # "activity"
    <3>1. PICK u : u = [ui EXCEPT !.type = type, !.at = 1, !.query = FALSE, !.hits = Lists!NoHits]
      OBVIOUS
    <3>2. DOMAIN u = UiKeys /\ u.page = ui.page /\ u.dialog = ui.dialog /\ u.query = FALSE /\ u.hits = Lists!NoHits /\ u.at \in {1}
      BY <3>1 DEF ListShape, UiKeys
    <3>3. ui' = u /\ Lists!Free /\ Lists!Refetch(u) /\ Lists!Server
      BY <1>2, <2>2, <3>1, <3>2 DEF Lists!PickType, Lists!Ask
    <3>4. u.at \in Nat \ {0}
      BY <3>2
    <3> QED
      BY <1>2, <2>2, <3>1, <3>2, <3>3, <3>4 DEF ByControl
  <2> QED
    BY <2>1, <2>2
<1>3. ASSUME Lists!Sort PROVE \E u : ByControl(u)
  <2>1. PICK u : u = [ui EXCEPT !.dir = IF @ = "asc" THEN "desc" ELSE "asc", !.at = 1]
    OBVIOUS
  <2>2. DOMAIN u = UiKeys /\ u.page = ui.page /\ u.dialog = ui.dialog /\ u.query = ui.query /\ u.hits = ui.hits /\ u.at \in {1}
    BY <2>1 DEF ListShape, UiKeys
  <2>3. ui' = u /\ Lists!Free /\ Lists!Refetch(u) /\ Lists!Server /\ Which # "activity" /\ ~ui.query
    BY <1>3, <2>1, <2>2 DEF Lists!Sort, Lists!Ask
  <2>4. u.at \in Nat \ {0}
    BY <2>2
  <2> QED
    BY <1>3, <2>1, <2>2, <2>3, <2>4 DEF ByControl
<1>4. ASSUME Lists!Search PROVE \E u : ByControl(u)
  <2>1. PICK u : u = [ui EXCEPT !.query = TRUE, !.at = 1, !.type = "any"]
    OBVIOUS
  <2>2. DOMAIN u = UiKeys /\ u.page = ui.page /\ u.dialog = ui.dialog /\ u.query = TRUE /\ u.at \in {1}
    BY <2>1 DEF ListShape, UiKeys
  <2>3. ui' = u /\ Lists!Free /\ Lists!Refetch(u) /\ Lists!Server /\ Which # "activity"
    BY <1>4, <2>1, <2>2 DEF Lists!Search, Lists!Ask
  <2>4. u.at \in Nat \ {0}
    BY <2>2
  <2> QED
    BY <1>4, <2>1, <2>2, <2>3, <2>4 DEF ByControl
<1>5. ASSUME Lists!ClearSearch PROVE \E u : ByControl(u)
  <2>1. PICK u : u = [ui EXCEPT !.query = FALSE, !.hits = Lists!NoHits]
    OBVIOUS
  <2>2. DOMAIN u = UiKeys /\ u.page = ui.page /\ u.dialog = ui.dialog /\ u.query = FALSE /\ u.hits = Lists!NoHits /\ u.at \in {ui.at}
    BY <2>1 DEF ListShape, UiKeys
  <2>3. ui' = u /\ Lists!Free /\ Lists!Refetch(u) /\ Lists!Server
    BY <1>5, <2>1, <2>2 DEF Lists!ClearSearch, Lists!Ask
  <2> QED
    BY <1>5, <2>1, <2>2, <2>3 DEF ByControl
<1>6. ASSUME NEW f, Lists!ToggleStar(f) PROVE \E r : BySend(r)
  <2>0. PICK back : back = [page |-> ui.page, hits |-> ui.hits]
    OBVIOUS
  <2>a. back.page = ui.page
    BY <2>0
  <2>1. PICK about : /\ tasks' = tasks \cup {[Lists!Task(tasks, "star", about) EXCEPT !.back = back]}
                     /\ ui' = ui /\ Lists!Server /\ Lists!Free /\ Which # "activity"
    BY <1>6, <2>0 DEF Lists!ToggleStar, Lists!Offers
  <2>2. PICK s : /\ s = Lists!Task(tasks, "star", about) /\ DOMAIN s = LoadKeys /\ s.kind = "star"
                 /\ s.served \in BOOLEAN /\ s.live \in BOOLEAN /\ ~s.served
    BY NewLoad
  <2>3. PICK r : r = [s EXCEPT !.back = back]
    OBVIOUS
  <2>4. LoadShape(r) /\ r.kind = "star" /\ ~r.served /\ r.back = back
    BY <2>2, <2>3 DEF LoadShape, LoadKeys
  <2>5. tasks' = tasks \cup {r}
    BY <2>1, <2>2, <2>3
  <2> QED
    BY <2>a, <2>1, <2>4, <2>5 DEF BySend
<1>7. ASSUME Lists!Confirm PROVE \E r : BySend(r)
  <2>1. PICK about : /\ tasks' = tasks \cup {Lists!Task(tasks, "trash", about)} /\ ui.dialog # 0
                     /\ ui' = ui /\ Lists!Server /\ ~\E t \in tasks : t.kind = "trash"
    BY <1>7 DEF Lists!Confirm
  <2>2. PICK r : /\ r = Lists!Task(tasks, "trash", about) /\ DOMAIN r = LoadKeys /\ r.kind = "trash"
                 /\ r.served \in BOOLEAN /\ r.live \in BOOLEAN /\ ~r.served
    BY NewLoad
  <2>3. LoadShape(r)
    BY <2>2 DEF LoadShape
  <2> QED
    BY <2>1, <2>2, <2>3 DEF BySend
<1>8. ASSUME NEW f, Lists!AskTrash(f) PROVE ByLook
  BY <1>8 DEF Lists!AskTrash, Lists!Offers, ByLook, ListShape, UiKeys
<1>9. ASSUME NEW i, Lists!OpenPreview(i) \/ Lists!Arrow(i) \/ Lists!ClosePreview PROVE ByLook
  <2>1. PICK c, k : /\ ui' = [ui EXCEPT !.preview = k, !.clicked = c] \/ ui' = [ui EXCEPT !.preview = k]
                    /\ tasks' = tasks /\ Lists!Server
    BY <1>9 DEF Lists!OpenPreview, Lists!Arrow, Lists!ClosePreview
  <2> QED
    BY <2>1 DEF ByLook, ListShape, UiKeys
<1> QED
  BY <1>1, <1>2, <1>3, <1>4, <1>5, <1>6, <1>7, <1>8, <1>9 DEF Lists!User

\* A request that is served: only a star and a trash change the server.
LEMMA ServeKinds ==
  ASSUME ListShape, NEW t \in tasks, Lists!Serve(t)
  PROVE  \E r : /\ tasks' = (tasks \ {t}) \cup {r} /\ LoadShape(r) /\ r.kind = t.kind /\ r.live = t.live /\ r.about = t.about
                /\ r.served /\ ui' = ui /\ (t.kind \in {"page", "search"} => Lists!Server)
                /\ (t.kind = "page" => r.back = Lists!Listing(t.about)) /\ (t.kind \in {"star", "trash"} => r.back = t.back)
<1>0. LoadShape(t)
  BY DEF ListShape
<1>1. ASSUME NEW ts, Lists!Served(t, ts), ui' = ui, t.kind \in {"page", "search"} => Lists!Server, t.kind = "page" => ts = Lists!Listing(t.about)
      PROVE  \E r : /\ tasks' = (tasks \ {t}) \cup {r} /\ LoadShape(r) /\ r.kind = t.kind /\ r.live = t.live /\ r.about = t.about
                    /\ r.served /\ (t.kind = "page" => r.back = Lists!Listing(t.about)) /\ (t.kind \in {"star", "trash"} => r.back = t.back)
  <2>1. PICK r : r = [t EXCEPT !.served = TRUE, !.back = IF t.kind \in {"star", "trash"} THEN @ ELSE ts]
    OBVIOUS
  <2>2. tasks' = (tasks \ {t}) \cup {r}
    BY <1>1, <2>1 DEF Lists!Served
  <2>3. DOMAIN t = LoadKeys
    BY <1>0 DEF LoadShape
  <2>4. DOMAIN r = LoadKeys /\ r.kind = t.kind /\ r.live = t.live /\ r.about = t.about /\ r.served \in BOOLEAN /\ r.served
        /\ (t.kind = "page" => r.back = ts) /\ (t.kind \in {"star", "trash"} => r.back = t.back)
    BY <2>1, <2>3 DEF LoadKeys
  <2>5. LoadShape(r)
    BY <1>0, <2>4 DEF LoadShape
  <2> QED
    BY <1>1, <2>2, <2>4, <2>5
<1>2. ui' = ui /\ (t.kind \in {"page", "search"} => Lists!Server)
  BY DEF Lists!Serve
<1>3. PICK ts : Lists!Served(t, ts) /\ (t.kind = "page" => ts = Lists!Listing(t.about))
  BY DEF Lists!Serve
<1> QED
  BY <1>1, <1>2, <1>3

\* The audit log: no search, no dialog, and every page that is still wanted is
\* the one the controls ask for.
LogInv ==
  /\ ListShape /\ ~ui.query /\ ui.dialog = 0
  /\ \A t \in tasks : /\ t.kind = "page"
                      /\ t.live => t.about = Lists!Asked(ui)
                      /\ t.served => t.back.asked = t.about
  /\ (\E t \in tasks : t.live) \/ ui.page.asked = Lists!Asked(ui)

LEMMA PageStart ==
  ASSUME Lists!Init
  PROVE  \E t : /\ tasks = {t} /\ LoadShape(t) /\ t.kind = "page" /\ t.live /\ ~t.served /\ t.about = Lists!Asked(ui)
                /\ DOMAIN ui = UiKeys /\ ~ui.query /\ ui.dialog = 0 /\ ui.page = Lists!Nothing /\ ui.hits = Lists!NoHits
<1>1. PICK asked : asked = [at |-> 1, dir |-> "desc", type |-> "any"]
  OBVIOUS
<1>2. PICK t : t = [kind |-> "page", n |-> 1, served |-> FALSE, live |-> TRUE, about |-> asked, back |-> Lists!Nothing]
  OBVIOUS
<1>3. DOMAIN t = LoadKeys /\ t.kind = "page" /\ t.live = TRUE /\ t.served = FALSE /\ t.about = asked
  BY <1>2 DEF LoadKeys
<1>4. /\ ui = [at |-> 1, dir |-> "desc", type |-> "any", query |-> FALSE, page |-> Lists!Nothing, hits |-> Lists!NoHits,
               preview |-> 0, clicked |-> 0, dialog |-> 0]
      /\ tasks = {t}
  BY <1>1, <1>2 DEF Lists!Init
<1>5. /\ DOMAIN ui = UiKeys /\ ui.query = FALSE /\ ui.dialog = 0 /\ ui.page = Lists!Nothing /\ ui.hits = Lists!NoHits
      /\ ui.at = 1 /\ ui.dir = "desc" /\ ui.type = "any"
  BY <1>4 DEF UiKeys
<1>6. asked = Lists!Asked(ui)
  BY <1>1, <1>5 DEF Lists!Asked
<1>7. LoadShape(t)
  BY <1>3 DEF LoadShape
<1> QED
  BY <1>3, <1>4, <1>5, <1>6, <1>7

LEMMA ListShapeStays == ASSUME ListShape, Lists!Next PROVE ListShape'
<1>1. ASSUME NEW u, ByControl(u) PROVE ListShape'
  <2>1. PICK r : r = Lists!Task(Lists!Drop, IF u.query THEN "search" ELSE "page", Lists!Asked(u)) /\ DOMAIN r = LoadKeys
                 /\ r.kind = (IF u.query THEN "search" ELSE "page") /\ r.served \in BOOLEAN /\ r.live \in BOOLEAN
    BY NewLoad
  <2>2. LoadShape(r)
    BY <2>1 DEF LoadShape
  <2>3. tasks' = Lists!Drop \cup {r} /\ DOMAIN ui' = UiKeys
    BY <1>1, <2>1 DEF ByControl, Lists!Refetch
  <2> QED
    BY <2>2, <2>3, DroppedLoads DEF ListShape
<1>2. ASSUME NEW r, BySend(r) PROVE ListShape'
  BY <1>2 DEF BySend, ListShape
<1>3. CASE ByLook
  BY <1>3 DEF ByLook, ListShape
<1>4. ASSUME NEW t \in tasks, Lists!Serve(t) PROVE ListShape'
  BY <1>4, ServeKinds DEF ListShape
<1>5. ASSUME NEW t \in tasks, Lists!ShowPage(t) \/ Lists!ShowHits(t) \/ (Lists!Starred(t) /\ Which = "recent") PROVE ListShape'
  <2>1. tasks' = tasks \ {t} /\ DOMAIN ui' = DOMAIN ui
    BY <1>5 DEF Lists!ShowPage, Lists!ShowHits, Lists!Starred, Lists!Done
  <2> QED
    BY <2>1 DEF ListShape
<1>6. ASSUME NEW t \in tasks, Lists!Reload(t), DOMAIN ui' = DOMAIN ui PROVE ListShape'
  <2>1. PICK ts : ts = Lists!Drop \ {t}
    OBVIOUS
  <2>2. PICK r : r = Lists!Task(ts, IF ui.query THEN "search" ELSE "page", Lists!Asked(ui)) /\ DOMAIN r = LoadKeys
                 /\ r.kind = (IF ui.query THEN "search" ELSE "page") /\ r.served \in BOOLEAN /\ r.live \in BOOLEAN
    BY NewLoad
  <2>3. LoadShape(r)
    BY <2>2 DEF LoadShape
  <2>4. tasks' = ts \cup {r}
    BY <1>6, <2>1, <2>2 DEF Lists!Reload
  <2> QED
    BY <1>6, <2>1, <2>3, <2>4, DroppedLoads DEF ListShape
<1>7. ASSUME NEW t \in tasks, (Lists!Starred(t) /\ Which # "recent") \/ Lists!Trashed(t) PROVE ListShape'
  <2>1. Lists!Reload(t) /\ DOMAIN ui' = DOMAIN ui
    BY <1>7 DEF Lists!Starred, Lists!Trashed
  <2> QED
    BY <2>1, <1>6
<1> QED
  BY <1>1, <1>2, <1>3, <1>4, <1>5, <1>7, UserKinds DEF Lists!Next

LEMMA LogStep == ASSUME Which = "activity", LogInv, Lists!Next PROVE LogInv'
<1>0. ListShape /\ ListShape'
  BY ListShapeStays DEF LogInv
<1>1. ASSUME NEW u, ByControl(u) PROVE LogInv'
  <2>1. PICK r : /\ r = Lists!Task(Lists!Drop, IF u.query THEN "search" ELSE "page", Lists!Asked(u))
                 /\ r.kind = (IF u.query THEN "search" ELSE "page") /\ r.about = Lists!Asked(u) /\ ~r.served /\ r.live
    BY NewLoad
  <2>2. ~u.query /\ ui' = u /\ u.dialog = 0 /\ tasks' = Lists!Drop \cup {r} /\ r.kind = "page"
    BY <1>1, <2>1 DEF ByControl, LogInv, Lists!Refetch
  <2>3. \A d \in Lists!Drop : d.kind = "page" /\ ~d.live /\ (d.served => d.back.asked = d.about)
    BY <1>0, DroppedLoads DEF LogInv
  <2>4. Lists!Asked(ui)' = Lists!Asked(u)
    BY <2>2 DEF Lists!Asked
  <2> QED
    BY <1>0, <2>1, <2>2, <2>3, <2>4 DEF LogInv
<1>2. ASSUME NEW r, BySend(r) PROVE FALSE
  BY <1>2 DEF BySend, LogInv
<1>3. CASE ByLook
  <2>1. Lists!Asked(ui)' = Lists!Asked(ui)
    BY <1>3 DEF ByLook, Lists!Asked
  <2> QED
    BY <1>0, <1>3, <2>1 DEF ByLook, LogInv
<1>4. ASSUME NEW t \in tasks, Lists!Serve(t) PROVE LogInv'
  <2>1. PICK r : /\ tasks' = (tasks \ {t}) \cup {r} /\ r.kind = t.kind /\ r.live = t.live /\ r.about = t.about /\ ui' = ui
                 /\ t.kind = "page" => r.back = Lists!Listing(t.about)
    BY <1>0, <1>4, ServeKinds
  <2>2. t.kind = "page" /\ r.back.asked = r.about
    BY <2>1 DEF LogInv, Lists!Listing
  <2>3. Lists!Asked(ui)' = Lists!Asked(ui)
    BY <2>1 DEF Lists!Asked
  <2> QED
    BY <1>0, <2>1, <2>2, <2>3 DEF LogInv
<1>5. ASSUME NEW t \in tasks, Lists!ShowPage(t) PROVE LogInv'
  <2>1. tasks' = tasks \ {t} /\ t.served /\ ui' = IF t.live THEN [ui EXCEPT !.page = t.back] ELSE ui
    BY <1>5 DEF Lists!ShowPage, Lists!Done
  <2>2. CASE t.live
    <3>1. /\ ui'.query = ui.query /\ ui'.dialog = ui.dialog /\ ui'.at = ui.at /\ ui'.dir = ui.dir /\ ui'.type = ui.type
          /\ ui'.page = t.back
      BY <1>0, <2>1, <2>2 DEF ListShape, UiKeys
    <3>2. Lists!Asked(ui)' = Lists!Asked(ui)
      BY <3>1 DEF Lists!Asked
    <3> QED
      BY <1>0, <2>1, <2>2, <3>1, <3>2 DEF LogInv
  <2>3. CASE ~t.live
    BY <1>0, <2>1, <2>3 DEF LogInv, Lists!Asked
  <2> QED
    BY <2>2, <2>3
<1>6. ASSUME NEW t \in tasks, Lists!ShowHits(t) \/ Lists!Starred(t) \/ Lists!Trashed(t) PROVE FALSE
  BY <1>6 DEF LogInv, Lists!ShowHits, Lists!Starred, Lists!Trashed
<1> QED
  BY <1>0, <1>1, <1>2, <1>3, <1>4, <1>5, <1>6, UserKinds DEF Lists!Next

\* Activity.tsx: the rows of the audit log are those of the page and the filter
\* the controls show once that page's request is answered, whatever was asked
\* for before it and in whatever order the answers come.
THEOREM ListsShownAsked == ASSUME Which = "activity" PROVE Lists!Spec => []Lists!ShownAsked
<1>1. Lists!Init => LogInv
  BY PageStart DEF LogInv, ListShape
<1>2. LogInv /\ [Lists!Next]_Lists!vars => LogInv'
  <2>1. CASE UNCHANGED Lists!vars
    <3>1. UNCHANGED <<ui, tasks>>
      BY <2>1 DEF Lists!vars
    <3> QED
      BY <3>1 DEF LogInv, ListShape, LoadShape, Lists!Asked
  <2> QED
    BY <2>1, LogStep
<1>3. LogInv => Lists!ShownAsked
  BY DEF LogInv, Lists!ShownAsked, Lists!Pending
<1> QED
  BY <1>1, <1>2, <1>3, PTL DEF Lists!Spec

\* One search at most is wanted, and none when the box is empty.
SearchInv ==
  /\ ListShape
  /\ \A t, u \in tasks : t.kind = "search" /\ t.live /\ u.kind = "search" /\ u.live => t = u
  /\ ~ui.query => ui.hits = Lists!NoHits /\ \A t \in tasks : t.kind = "search" => ~t.live

LEMMA SearchStep == ASSUME Which # "recent", SearchInv, Lists!Next PROVE SearchInv'
<1>0. ListShape /\ ListShape'
  BY ListShapeStays DEF SearchInv
<1>1. ASSUME NEW u, ByControl(u) PROVE SearchInv'
  <2>1. PICK r : /\ r = Lists!Task(Lists!Drop, IF u.query THEN "search" ELSE "page", Lists!Asked(u))
                 /\ r.kind = (IF u.query THEN "search" ELSE "page")
    BY NewLoad
  <2>2. ui' = u /\ tasks' = Lists!Drop \cup {r} /\ (~u.query => u.hits = Lists!NoHits)
    BY <1>1, <2>1 DEF ByControl, SearchInv, Lists!Refetch
  <2>3. \A d \in Lists!Drop : d.kind = "search" => ~d.live
    BY <1>0, DroppedLoads
  <2> QED
    BY <1>0, <2>1, <2>2, <2>3 DEF SearchInv
<1>2. ASSUME NEW r, BySend(r) PROVE SearchInv'
  BY <1>0, <1>2 DEF BySend, SearchInv
<1>3. CASE ByLook
  BY <1>0, <1>3 DEF ByLook, SearchInv
<1>4. ASSUME NEW t \in tasks, Lists!Serve(t) PROVE SearchInv'
  <2>1. PICK r : tasks' = (tasks \ {t}) \cup {r} /\ r.kind = t.kind /\ r.live = t.live /\ ui' = ui
    BY <1>0, <1>4, ServeKinds
  <2> QED
    BY <1>0, <2>1 DEF SearchInv
<1>5. ASSUME NEW t \in tasks, Lists!ShowPage(t) \/ Lists!ShowHits(t) PROVE SearchInv'
  <2>1. /\ tasks' = tasks \ {t} /\ ui'.query = ui.query /\ (ui'.hits = ui.hits \/ (t.kind = "search" /\ t.live))
    BY <1>0, <1>5 DEF Lists!ShowPage, Lists!ShowHits, Lists!Done, ListShape, UiKeys
  <2> QED
    BY <1>0, <2>1 DEF SearchInv
<1>6. ASSUME NEW t \in tasks, Lists!Starred(t) \/ Lists!Trashed(t) PROVE SearchInv'
  <2>1. Lists!Reload(t) /\ (ui' = ui \/ ui' = [ui EXCEPT !.dialog = 0])
    BY <1>6 DEF Lists!Starred, Lists!Trashed
  <2>2. ui'.query = ui.query /\ ui'.hits = ui.hits
    BY <1>0, <2>1 DEF ListShape, UiKeys
  <2>3. PICK ts : ts = Lists!Drop \ {t}
    OBVIOUS
  <2>4. PICK r : /\ r = Lists!Task(ts, IF ui.query THEN "search" ELSE "page", Lists!Asked(ui))
                 /\ r.kind = (IF ui.query THEN "search" ELSE "page")
    BY NewLoad
  <2>5. tasks' = ts \cup {r}
    BY <2>1, <2>3, <2>4 DEF Lists!Reload
  <2>6. \A d \in Lists!Drop : d.kind = "search" => ~d.live
    BY <1>0, DroppedLoads
  <2> QED
    BY <1>0, <2>2, <2>3, <2>4, <2>5, <2>6 DEF SearchInv
<1> QED
  BY <1>0, <1>1, <1>2, <1>3, <1>4, <1>5, <1>6, UserKinds DEF Lists!Next

\* The effects' clean-ups on Starred: of all the searches sent, at most one can
\* still be shown, and none once the box was cleared.
THEOREM ListsOneSearch == ASSUME Which # "recent" PROVE Lists!Spec => []Lists!OneSearch
<1>1. Lists!Init => SearchInv
  BY PageStart DEF SearchInv, ListShape
<1>2. SearchInv /\ [Lists!Next]_Lists!vars => SearchInv'
  <2>1. CASE UNCHANGED Lists!vars
    <3>1. UNCHANGED <<ui, tasks>>
      BY <2>1 DEF Lists!vars
    <3> QED
      BY <3>1 DEF SearchInv, ListShape, LoadShape
  <2> QED
    BY <2>1, SearchStep
<1>3. SearchInv => Lists!OneSearch
  <2> SUFFICES ASSUME SearchInv PROVE Lists!OneSearch
    OBVIOUS
  <2> DEFINE S == {t \in tasks : t.kind = "search" /\ t.live}
  <2>1. S = {} \/ \E t : S = {t}
    <3>1. ASSUME NEW t \in S PROVE S = {t}
      BY <3>1 DEF SearchInv
    <3> QED
      BY <3>1
  <2> HIDE DEF S
  <2>2. Cardinality(S) <= 1
    <3>1. CASE S = {}
      BY <3>1, FS_EmptySet
    <3>2. ASSUME NEW t, S = {t} PROVE Cardinality(S) = 1
      <4>1. Cardinality({t}) = 1
        BY FS_Singleton
      <4> QED
        BY <3>2, <4>1
    <3> QED
      BY <2>1, <3>1, <3>2
  <2>3. Lists!Cardinality(S) = Cardinality(S)
    BY DEF Lists!Cardinality, Cardinality
  <2> QED
    BY <2>2, <2>3 DEF S, SearchInv, Lists!OneSearch
<1> QED
  BY <1>1, <1>2, <1>3, PTL DEF Lists!Spec

\* A user who waits has one request out at a time; a page that was served is
\* the server's list, and so is the page on the screen with nothing out.
Waiting == Patient /\ Which # "recent"
RowsFreshInv ==
  /\ ListShape
  /\ \A t, u \in tasks : t = u
  /\ ui.dialog # 0 => \A t \in tasks : t.kind = "trash"
  /\ \A t \in tasks : t.kind = "page" => t.live /\ (t.served => t.back = Lists!Listing(t.about))
  /\ \A t \in tasks : t.kind = "search" => ui.query
  /\ tasks = {} /\ ~ui.query /\ ui.page # Lists!Nothing => ui.page.rows = Lists!Listing(ui.page.asked).rows

LEMMA ListingStays == ASSUME Lists!Server, NEW asked PROVE Lists!Listing(asked)' = Lists!Listing(asked)
<1>1. \A type : Lists!Listed(type)' = Lists!Listed(type)
  BY DEF Lists!Server, Lists!Listed
<1>2. \A S, dir : Lists!Rows(S, dir)' = Lists!Rows(S, dir)
  BY DEF Lists!Server, Lists!Rows, Lists!Row
<1> QED
  BY <1>1, <1>2 DEF Lists!Listing

LEMMA FreshStep == ASSUME Waiting, RowsFreshInv, Lists!Next PROVE RowsFreshInv'
<1>0. ListShape /\ ListShape'
  BY ListShapeStays DEF RowsFreshInv
<1>1. ASSUME NEW u, ByControl(u) PROVE RowsFreshInv'
  <2>1. PICK r : /\ r = Lists!Task(Lists!Drop, IF u.query THEN "search" ELSE "page", Lists!Asked(u))
                 /\ r.kind = (IF u.query THEN "search" ELSE "page") /\ ~r.served /\ r.live
    BY NewLoad
  <2>2. tasks = {} /\ ui.dialog = 0
    BY <1>1 DEF ByControl, Lists!Free, Lists!Ready, Waiting
  <2>3. ui' = u /\ u.dialog = 0 /\ tasks' = {r}
    BY <1>1, <2>1, <2>2 DEF ByControl, Lists!Refetch, Lists!Drop
  <2> QED
    BY <1>0, <2>1, <2>3 DEF RowsFreshInv
<1>2. ASSUME NEW r, BySend(r) PROVE RowsFreshInv'
  <2>1. tasks = {} /\ (r.kind = "trash" \/ ui.dialog = 0)
    BY <1>2 DEF BySend, RowsFreshInv, Lists!Free, Lists!Ready, Waiting
  <2> QED
    BY <1>0, <1>2, <2>1 DEF BySend, RowsFreshInv
<1>3. CASE ByLook
  <2>1. ui'.dialog # 0 => \A t \in tasks : t.kind = "trash"
    BY <1>3 DEF ByLook, RowsFreshInv, Lists!Free, Lists!Ready, Waiting
  <2> QED
    BY <1>0, <1>3, <2>1, ListingStays DEF ByLook, RowsFreshInv
<1>4. ASSUME NEW t \in tasks, Lists!Serve(t) PROVE RowsFreshInv'
  <2>1. PICK r : /\ tasks' = (tasks \ {t}) \cup {r} /\ r.kind = t.kind /\ r.live = t.live /\ r.about = t.about /\ ui' = ui
                 /\ (t.kind \in {"page", "search"} => Lists!Server) /\ (t.kind = "page" => r.back = Lists!Listing(t.about))
    BY <1>0, <1>4, ServeKinds
  <2>2. tasks' = {r}
    BY <2>1 DEF RowsFreshInv
  <2>3. r.kind = "page" => r.live /\ r.back = Lists!Listing(r.about)'
    BY <2>1, ListingStays DEF RowsFreshInv
  <2> QED
    BY <1>0, <2>1, <2>2, <2>3 DEF RowsFreshInv
<1>5. ASSUME NEW t \in tasks, Lists!ShowPage(t) PROVE RowsFreshInv'
  <2>1. tasks' = {} /\ t.kind = "page" /\ t.live /\ ui' = [ui EXCEPT !.page = t.back] /\ Lists!Server /\ t.back = Lists!Listing(t.about)
    BY <1>5 DEF Lists!ShowPage, Lists!Done, RowsFreshInv
  <2>2. ui'.dialog = ui.dialog /\ ui'.query = ui.query /\ ui'.page = t.back
    BY <1>0, <2>1 DEF ListShape, UiKeys
  <2>3. t.back.asked = t.about
    BY <2>1 DEF Lists!Listing
  <2>4. Lists!Listing(t.about)' = Lists!Listing(t.about)
    BY <2>1, ListingStays
  <2>5. ui'.page.asked = t.about /\ ui'.page.rows = Lists!Listing(t.about).rows
    BY <2>1, <2>2, <2>3
  <2>6. (ui.page.rows = Lists!Listing(ui.page.asked).rows)'
    BY <2>4, <2>5
  <2> QED
    BY <1>0, <2>1, <2>2, <2>6 DEF RowsFreshInv
<1>6. ASSUME NEW t \in tasks, Lists!ShowHits(t) PROVE RowsFreshInv'
  <2>1. tasks' = {} /\ ui.query /\ ui'.query = ui.query
    BY <1>0, <1>6 DEF Lists!ShowHits, Lists!Done, RowsFreshInv, ListShape, UiKeys
  <2> QED
    BY <1>0, <2>1 DEF RowsFreshInv
<1>7. ASSUME NEW t \in tasks, Lists!Starred(t) \/ Lists!Trashed(t) PROVE RowsFreshInv'
  <2>1. Lists!Reload(t) /\ (ui' = [ui EXCEPT !.dialog = 0] \/ (t.kind = "star" /\ ui' = ui))
    BY <1>7 DEF Lists!Starred, Lists!Trashed, Waiting
  <2>2. ui'.query = ui.query /\ ui'.dialog = 0
    BY <1>0, <2>1 DEF ListShape, UiKeys, RowsFreshInv
  <2>3. t.kind \in {"star", "trash"}
    BY <1>7 DEF Lists!Starred, Lists!Trashed
  <2>4. Lists!Drop \ {t} = {}
    BY <2>3 DEF Lists!Drop, RowsFreshInv
  <2>5. PICK r : /\ r = Lists!Task(Lists!Drop \ {t}, IF ui.query THEN "search" ELSE "page", Lists!Asked(ui))
                 /\ r.kind = (IF ui.query THEN "search" ELSE "page") /\ ~r.served /\ r.live
    BY NewLoad
  <2>6. tasks' = {r}
    BY <2>1, <2>4, <2>5 DEF Lists!Reload
  <2> QED
    BY <1>0, <2>2, <2>5, <2>6 DEF RowsFreshInv
<1> QED
  BY <1>0, <1>1, <1>2, <1>3, <1>4, <1>5, <1>6, <1>7, UserKinds DEF Lists!Next

\* Starred.tsx's reload after a change: with the answers awaited, the page is
\* the server's list; what was unstarred or trashed is gone, what moved up is there.
THEOREM ListsTrueRows == ASSUME Waiting PROVE Lists!Spec => []Lists!ListTrue
<1>0. Waiting
  OBVIOUS
<1>1. Lists!Init => RowsFreshInv
  BY PageStart DEF RowsFreshInv, ListShape
<1>2. RowsFreshInv /\ [Lists!Next]_Lists!vars => RowsFreshInv'
  <2>1. CASE UNCHANGED Lists!vars
    <3>1. UNCHANGED <<ui, tasks>> /\ Lists!Server
      BY <2>1 DEF Lists!vars, Lists!Server
    <3> QED
      BY <3>1, ListingStays DEF RowsFreshInv, ListShape, LoadShape
  <2> QED
    BY <1>0, <2>1, FreshStep
<1>3. RowsFreshInv => Lists!ListTrue
  BY DEF RowsFreshInv, Lists!ListTrue
<1> QED
  BY <1>1, <1>2, <1>3, PTL DEF Lists!Spec

\* Recent: rows whose stars are the server's, for a user who waits.
Marking == Patient /\ Which = "recent" /\ N \in Nat /\ PageSize \in Nat \ {0}
ListKeys == {"asked", "rows", "total"}
StarsFit(rows, S) == Len(rows) \in Nat /\ \A i \in 1..Len(rows) : DOMAIN rows[i] = {"id", "star"} /\ rows[i].star = (rows[i].id \in S)
\* The rows a served star is about to mark: all but that file's are right.
MarkFits(rows, t) ==
  /\ Len(rows) \in Nat /\ (t.about.type = "on") = (t.about.at \in stars)
  /\ \A i \in 1..Len(rows) : /\ DOMAIN rows[i] = {"id", "star"}
                             /\ rows[i].id # t.about.at => rows[i].star = (rows[i].id \in stars)
MarkInv ==
  /\ ListShape /\ live \subseteq Lists!Files /\ ui.at \in Nat \ {0} /\ DOMAIN ui.page = ListKeys
  /\ \A t, u \in tasks : t = u
  /\ ui.dialog # 0 => \A t \in tasks : t.kind = "trash"
  /\ \A t \in tasks :
       /\ t.kind = "page" => t.about.at \in Nat \ {0} /\ (t.served => DOMAIN t.back = ListKeys /\ StarsFit(t.back.rows, stars))
       /\ t.kind = "star" => t.back.page = ui.page /\ (t.served => MarkFits(ui.page.rows, t))
  /\ (\A t \in tasks : t.kind # "star" \/ ~t.served) => StarsFit(ui.page.rows, stars)

\* What the server lists carries its stars.
LEMMA ListingFits ==
  ASSUME Marking, live \subseteq Lists!Files, NEW asked, asked.at \in Nat \ {0}
  PROVE  DOMAIN Lists!Listing(asked) = ListKeys /\ StarsFit(Lists!Listing(asked).rows, stars)
<1> DEFINE S == Lists!Listed(asked.type)
           all == Lists!Rows(S, asked.dir)
           from == (asked.at - 1) * PageSize + 1
           upto == Lists!Least(asked.at * PageSize, Len(all))
<1>1. PICK n \in Nat : n = Cardinality(S)
  <2>1. IsFiniteSet(1..N)
    BY FS_Interval DEF Marking
  <2>2. S \subseteq 1..N
    BY DEF Lists!Listed, Lists!Files
  <2> QED
    BY <2>1, <2>2, FS_Subset, FS_CardinalityType
<1>2. Lists!Cardinality(S) = n
  BY <1>1 DEF Lists!Cardinality, Cardinality
<1>3. DOMAIN all = 1..n /\ \A i \in 1..n : \E f : all[i] = Lists!Row(f)
  BY <1>2 DEF Lists!Rows
<1>4. ASSUME NEW f PROVE DOMAIN Lists!Row(f) = {"id", "star"} /\ Lists!Row(f).id = f /\ Lists!Row(f).star = (f \in stars)
  BY DEF Lists!Row
<1>5. \A i \in 1..n : DOMAIN all[i] = {"id", "star"} /\ all[i].star = (all[i].id \in stars)
  BY <1>3, <1>4
<1> DEFINE Entries == {all[i] : i \in 1..n}
<1>6. all \in Seq(Entries) /\ Len(all) = n
  <2>1. all = [i \in 1..n |-> all[i]]
    BY <1>2, <1>3 DEF Lists!Rows
  <2> HIDE DEF all
  <2>2. all \in [1..n -> Entries]
    BY <2>1
  <2> QED
    BY <2>2
<1> HIDE DEF all
<1>7. from \in Nat \ {0} /\ upto \in Nat /\ upto <= n
  <2>1. asked.at - 1 \in Nat /\ PageSize \in Nat
    BY DEF Marking
  <2>2. (asked.at - 1) * PageSize \in Nat /\ asked.at * PageSize \in Nat
    BY <2>1
  <2> QED
    BY <1>6, <2>2 DEF Lists!Least
<1>8. Lists!Listing(asked) = [asked |-> asked, total |-> Len(all), rows |-> SubSeq(all, from, upto)]
  BY DEF Lists!Listing, all
<1> HIDE DEF from, upto
<1>9. DOMAIN Lists!Listing(asked) = ListKeys /\ Lists!Listing(asked).rows = SubSeq(all, from, upto)
  <2>1. PICK k, r : k = Len(all) /\ r = SubSeq(all, from, upto)
    OBVIOUS
  <2>2. PICK l : l = [asked |-> asked, total |-> k, rows |-> r]
    OBVIOUS
  <2>3. DOMAIN l = ListKeys /\ l.rows = r
    BY <2>2 DEF ListKeys
  <2> QED
    BY <1>8, <2>1, <2>2, <2>3
<1>10. StarsFit(SubSeq(all, from, upto), stars)
  <2>1. CASE from > upto
    <3>1. Len(SubSeq(all, from, upto)) = 0
      BY <1>6, <1>7, <2>1
    <3> QED
      BY <3>1 DEF StarsFit
  <2>2. CASE from <= upto
    <3>1. /\ Len(SubSeq(all, from, upto)) = upto - from + 1 /\ upto - from + 1 \in Nat
          /\ \A i \in 1..(upto - from + 1) : SubSeq(all, from, upto)[i] = all[from + i - 1] /\ from + i - 1 \in 1..n
      BY <1>6, <1>7, <2>2
    <3>2. ASSUME NEW i \in 1..(upto - from + 1)
          PROVE  /\ DOMAIN SubSeq(all, from, upto)[i] = {"id", "star"}
                 /\ SubSeq(all, from, upto)[i].star = (SubSeq(all, from, upto)[i].id \in stars)
      <4>1. PICK j \in 1..n : SubSeq(all, from, upto)[i] = all[j]
        BY <3>1
      <4> QED
        BY <1>5, <4>1
    <3> QED
      BY <3>1, <3>2 DEF StarsFit
  <2> QED
    BY <1>7, <2>1, <2>2
<1> QED
  BY <1>9, <1>10

LEMMA MarkedFits == ASSUME NEW rows, NEW t, MarkFits(rows, t) PROVE StarsFit(Lists!Mark(rows, t), stars)
<1>1. PICK m : m = Lists!Mark(rows, t)
  OBVIOUS
<1>2. PICK n \in Nat : n = Len(rows)
  BY DEF MarkFits
<1>3. /\ m = [i \in 1..n |-> m[i]]
      /\ \A i \in 1..n : m[i] = IF rows[i].id = t.about.at THEN [rows[i] EXCEPT !.star = (t.about.type = "on")] ELSE rows[i]
  BY <1>1, <1>2 DEF Lists!Mark
<1>4. Len(m) = n
  BY <1>3
<1>5. ASSUME NEW i \in 1..n PROVE DOMAIN m[i] = {"id", "star"} /\ m[i].star = (m[i].id \in stars)
  <2>1. DOMAIN rows[i] = {"id", "star"} /\ (rows[i].id # t.about.at => rows[i].star = (rows[i].id \in stars))
    BY <1>2 DEF MarkFits
  <2>2. CASE rows[i].id = t.about.at
    <3>1. m[i] = [rows[i] EXCEPT !.star = (t.about.type = "on")]
      BY <1>3, <2>2
    <3>2. DOMAIN m[i] = {"id", "star"} /\ m[i].id = t.about.at /\ m[i].star = (t.about.type = "on")
      BY <2>1, <2>2, <3>1
    <3> QED
      BY <3>2 DEF MarkFits
  <2>3. CASE rows[i].id # t.about.at
    BY <1>3, <2>1, <2>3
  <2> QED
    BY <2>2, <2>3
<1> QED
  BY <1>1, <1>2, <1>4, <1>5 DEF StarsFit

LEMMA MarkStep == ASSUME Marking, MarkInv, Lists!Next PROVE MarkInv'
<1>0. ListShape /\ ListShape' /\ Lists!Types = {"any", "odd"}
  BY ListShapeStays DEF MarkInv, Lists!Types
<1>1. ASSUME NEW u, ByControl(u) PROVE MarkInv'
  <2>1. PICK r : /\ r = Lists!Task(Lists!Drop, IF u.query THEN "search" ELSE "page", Lists!Asked(u))
                 /\ r.kind = (IF u.query THEN "search" ELSE "page") /\ r.about = Lists!Asked(u) /\ ~r.served /\ r.live
    BY NewLoad
  <2>2. tasks = {} /\ ui.dialog = 0
    BY <1>1 DEF ByControl, Lists!Free, Lists!Ready, Marking
  <2>3. ui' = u /\ u.dialog = 0 /\ u.page = ui.page /\ tasks' = {r} /\ UNCHANGED <<live, stars>>
    BY <1>1, <2>1, <2>2 DEF ByControl, Lists!Refetch, Lists!Drop, Lists!Server
  <2>4. r.about.at = u.at /\ u.at \in Nat \ {0}
    BY <1>1, <2>1 DEF Lists!Asked, ByControl, MarkInv
  <2> QED
    BY <1>0, <1>1, <2>1, <2>2, <2>3, <2>4 DEF MarkInv, Lists!Files
<1>3. ASSUME NEW r, BySend(r) PROVE MarkInv'
  <2>1. tasks = {} /\ (r.kind = "trash" \/ ui.dialog = 0) /\ tasks' = {r} /\ ui' = ui /\ UNCHANGED <<live, stars>> /\ ~r.served
    BY <1>3 DEF BySend, MarkInv, Lists!Free, Lists!Ready, Marking, Lists!Server
  <2> QED
    BY <1>0, <1>3, <2>1 DEF BySend, MarkInv, Lists!Files
<1>4. CASE ByLook
  <2>1. ui'.dialog # 0 => \A t \in tasks : t.kind = "trash"
    BY <1>4 DEF ByLook, MarkInv, Lists!Free, Lists!Ready, Marking
  <2>2. tasks' = tasks /\ ui'.at = ui.at /\ ui'.page = ui.page /\ UNCHANGED <<live, stars>>
    BY <1>4 DEF ByLook, Lists!Server
  <2> QED
    BY <1>0, <2>1, <2>2 DEF MarkInv, MarkFits, Lists!Files
<1>5. ASSUME NEW t \in tasks, Lists!Serve(t) PROVE MarkInv'
  <2>1. PICK r : /\ tasks' = (tasks \ {t}) \cup {r} /\ r.kind = t.kind /\ r.live = t.live /\ r.about = t.about /\ ui' = ui
                 /\ (t.kind \in {"page", "search"} => Lists!Server) /\ (t.kind = "page" => r.back = Lists!Listing(t.about))
                 /\ (t.kind \in {"star", "trash"} => r.back = t.back) /\ r.served
    BY <1>0, <1>5, ServeKinds
  <2>2. tasks = {t} /\ tasks' = {r} /\ ~t.served
    BY <1>5, <2>1 DEF MarkInv, Lists!Serve
  <2>3. StarsFit(ui.page.rows, stars) /\ live \subseteq Lists!Files
    BY <2>2 DEF MarkInv
  <2>4. CASE t.kind \in {"page", "search"}
    <3>1. UNCHANGED <<live, stars, ui>>
      BY <2>1, <2>4 DEF Lists!Server
    <3>2. t.kind = "page" => DOMAIN r.back = ListKeys /\ StarsFit(r.back.rows, stars)
      BY <2>1, ListingFits DEF MarkInv
    <3> QED
      BY <1>0, <2>1, <2>2, <2>3, <2>4, <3>1, <3>2 DEF MarkInv, Lists!Files
  <2>5. CASE t.kind = "trash"
    <3>1. live' \subseteq live /\ stars' = stars
      BY <1>5, <2>5 DEF Lists!Serve
    <3> QED
      BY <1>0, <2>1, <2>2, <2>3, <2>5, <3>1 DEF MarkInv, Lists!Files
  <2>6. CASE t.kind = "star"
    <3>1. live' = live /\ stars' = IF t.about.type = "on" THEN stars \cup {t.about.at} ELSE stars \ {t.about.at}
      BY <1>5, <2>6 DEF Lists!Serve
    <3>2. (MarkFits(ui.page.rows, r))'
      BY <2>1, <2>3, <3>1 DEF MarkFits, StarsFit
    <3> QED
      BY <1>0, <2>1, <2>2, <2>3, <2>6, <3>1, <3>2 DEF MarkInv, Lists!Files
  <2> QED
    BY <1>0, <2>4, <2>5, <2>6 DEF ListShape, LoadShape
<1>6. ASSUME NEW t \in tasks, Lists!ShowPage(t) PROVE MarkInv'
  <2>1. tasks' = {} /\ t.kind = "page" /\ t.served /\ (ui' = ui \/ ui' = [ui EXCEPT !.page = t.back]) /\ UNCHANGED <<live, stars>>
    BY <1>6 DEF Lists!ShowPage, Lists!Done, MarkInv, Lists!Server
  <2>2. ui'.dialog = ui.dialog /\ ui'.at = ui.at /\ ui'.page \in {ui.page, t.back}
    BY <1>0, <2>1 DEF ListShape, UiKeys
  <2>3. DOMAIN ui'.page = ListKeys /\ StarsFit(ui'.page.rows, stars)
    <3>1. DOMAIN t.back = ListKeys /\ StarsFit(t.back.rows, stars)
      BY <2>1 DEF MarkInv
    <3>2. DOMAIN ui.page = ListKeys /\ StarsFit(ui.page.rows, stars)
      BY <2>1 DEF MarkInv
    <3> QED
      BY <2>2, <3>1, <3>2
  <2> QED
    BY <1>0, <2>1, <2>2, <2>3 DEF MarkInv, Lists!Files
<1>7. ASSUME NEW t \in tasks, Lists!ShowHits(t) PROVE MarkInv'
  <2>1. tasks' = {} /\ t.kind = "search" /\ ui'.dialog = ui.dialog /\ ui'.at = ui.at /\ ui'.page = ui.page /\ UNCHANGED <<live, stars>>
    BY <1>0, <1>7 DEF Lists!ShowHits, Lists!Done, MarkInv, ListShape, UiKeys, Lists!Server
  <2> QED
    BY <1>0, <2>1 DEF MarkInv, Lists!Files
<1>8. ASSUME NEW t \in tasks, Lists!Starred(t) PROVE MarkInv'
  <2>1. /\ tasks' = {} /\ t.kind = "star" /\ t.served /\ UNCHANGED <<live, stars>>
        /\ \E hits : ui' = [ui EXCEPT !.page = [t.back.page EXCEPT !.rows = Lists!Mark(@, t)], !.hits = hits]
    BY <1>8 DEF Lists!Starred, Lists!Done, MarkInv, Lists!Server, Marking
  <2>2. t.back.page = ui.page /\ MarkFits(ui.page.rows, t) /\ DOMAIN ui.page = ListKeys
    BY <2>1 DEF MarkInv
  <2>3. PICK p : p = [ui.page EXCEPT !.rows = Lists!Mark(@, t)]
    OBVIOUS
  <2>4. DOMAIN p = ListKeys /\ p.rows = Lists!Mark(ui.page.rows, t)
    BY <2>2, <2>3 DEF ListKeys
  <2>5. PICK hits : ui' = [ui EXCEPT !.page = p, !.hits = hits]
    BY <2>1, <2>2, <2>3
  <2>6. ui'.dialog = ui.dialog /\ ui'.at = ui.at /\ ui'.page = p
    BY <1>0, <2>5 DEF ListShape, UiKeys
  <2>7. StarsFit(p.rows, stars)
    BY <2>2, <2>4, MarkedFits
  <2> QED
    BY <1>0, <2>1, <2>4, <2>6, <2>7 DEF MarkInv, Lists!Files
<1>9. ASSUME NEW t \in tasks, Lists!Trashed(t) PROVE MarkInv'
  <2>1. Lists!Reload(t) /\ ui' = [ui EXCEPT !.dialog = 0] /\ t.kind = "trash" /\ UNCHANGED <<live, stars>>
    BY <1>9 DEF Lists!Trashed, Lists!Server
  <2>2. ui'.at = ui.at /\ ui'.dialog = 0 /\ ui'.page = ui.page
    BY <1>0, <2>1 DEF ListShape, UiKeys
  <2>4. Lists!Drop \ {t} = {}
    BY <2>1 DEF Lists!Drop, MarkInv
  <2>5. PICK r : /\ r = Lists!Task(Lists!Drop \ {t}, IF ui.query THEN "search" ELSE "page", Lists!Asked(ui))
                 /\ r.kind = (IF ui.query THEN "search" ELSE "page") /\ r.about = Lists!Asked(ui) /\ ~r.served /\ r.live
    BY NewLoad
  <2>6. tasks' = {r} /\ r.about.at = ui.at
    BY <2>1, <2>4, <2>5 DEF Lists!Reload, Lists!Asked
  <2>7. StarsFit(ui.page.rows, stars)
    BY <2>1 DEF MarkInv
  <2> QED
    BY <1>0, <2>1, <2>2, <2>5, <2>6, <2>7 DEF MarkInv, Lists!Files
<1> QED
  BY <1>0, <1>1, <1>3, <1>4, <1>5, <1>6, <1>7, <1>8, <1>9, UserKinds DEF Lists!Next

\* Recent.tsx's handleToggleStar, which writes its answer into the rows the
\* click saw: for a user who waits, the stars of the rows are the server's.
THEOREM ListsStarsShown == ASSUME Marking PROVE Lists!Spec => []Lists!StarsShown
<1>0. Marking
  OBVIOUS
<1>1. Lists!Init => MarkInv
  <2> SUFFICES ASSUME Lists!Init PROVE MarkInv
    OBVIOUS
  <2>1. ui.at = 1 /\ live = Lists!Files
    BY DEF Lists!Init
  <2>2. PICK t : /\ tasks = {t} /\ LoadShape(t) /\ t.kind = "page" /\ ~t.served /\ t.about = Lists!Asked(ui)
                 /\ DOMAIN ui = UiKeys /\ ui.dialog = 0 /\ ui.page = Lists!Nothing
    BY PageStart
  <2>3. t.about.at = 1
    BY <2>1, <2>2 DEF Lists!Asked
  <2>4. DOMAIN ui.page = ListKeys /\ ui.page.rows = <<>>
    BY <2>2 DEF Lists!Nothing, ListKeys
  <2>5. StarsFit(ui.page.rows, stars)
    BY <2>4 DEF StarsFit
  <2> QED
    BY <2>1, <2>2, <2>3, <2>4, <2>5 DEF MarkInv, ListShape
<1>2. MarkInv /\ [Lists!Next]_Lists!vars => MarkInv'
  <2>1. CASE UNCHANGED Lists!vars
    <3>1. UNCHANGED <<ui, tasks, live, stars>>
      BY <2>1 DEF Lists!vars
    <3> QED
      BY <3>1 DEF MarkInv, ListShape, LoadShape, MarkFits, Lists!Files
  <2> QED
    BY <1>0, <2>1, MarkStep
<1>3. MarkInv => Lists!StarsShown
  BY DEF MarkInv, StarsFit, Lists!StarsShown
<1> QED
  BY <1>1, <1>2, <1>3, PTL DEF Lists!Spec
=============================================================================
