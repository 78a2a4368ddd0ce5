------------------------- MODULE EncryptionAtRest -------------------------
(***************************************************************************)
(* Encryption at rest (storage/encryptedstore): the tenant's data key,     *)
(* made by whichever process needs it first and cached by each; the stored *)
(* blobs, new ones encrypted as they are put; and the migration that       *)
(* encrypts, in place, those stored before.  It works on rows it has       *)
(* listed, while requests overwrite and purge the same files.  The job     *)
(* runs under the cluster's lock, the command `encrypt-blobs` beside it.   *)
(* Contents are left out: a blob is Plain, or the key it is written with.  *)
(***************************************************************************)
EXTENDS Naturals, FiniteSets

CONSTANTS Files,    \* numbers: the ids of the rows
          Legacy,   \* the files there are to begin with, stored as they were sent
          Broken,   \* those of them whose blob cannot be read
          Servers, Migrators, \* processes; each does one thing at a time
          Limit,    \* rows a batch lists
          Commands, \* what requests do: a subset of {"upload", "overwrite", "purge"}
          Faults,   \* a call may fail, a process may stop and start again
          Toggles,  \* and may be started without APP_ENCRYPTION_KEY
          MaxBlobs, MaxKeys

EncryptionAssumption ==
  /\ MaxBlobs \in Nat /\ MaxKeys \in Nat /\ Limit \in Nat \ {0}
  /\ Files \subseteq Nat \ {0} /\ Legacy \subseteq Files \cap 1..MaxBlobs /\ Broken \subseteq Legacy
  /\ Servers \cap Migrators = {} /\ Faults \in BOOLEAN /\ Toggles \in BOOLEAN

VARIABLES row,   \* files: [blob, status, enc]; blob 0 for no row
          blob,  \* the blob store, by path: Unused, Gone, Plain, or a key
          dek,   \* tenant_file_keys: the tenant's key, 0 for none
          cache, \* the key each process has cached, 0 for none
          made,  \* keys generated so far
          on,    \* the processes that have a key configured
          proc   \* what each process is doing

vars == <<row, blob, dek, cache, made, on, proc>>
Plain == 0
Unused == MaxKeys + 1
Gone == MaxKeys + 2
Processes == Servers \cup Migrators
Job(at, f, old, path, k, todo) == [at |-> at, file |-> f, old |-> old, path |-> path, key |-> k, todo |-> todo]
Idle == Job("idle", 0, 0, 0, 0, {})
NoRow(status) == [blob |-> 0, status |-> status, enc |-> FALSE]

Steps == {"idle", "next", "key", "insert", "put", "row", "drop", "mark"}
Proc == [at : Steps, file : Files \cup {0}, old : 0..MaxBlobs, path : 0..MaxBlobs, key : 0..MaxKeys,
         todo : SUBSET [file : Files, blob : 1..MaxBlobs]]

TypeOK ==
  /\ row \in [Files -> [blob : 0..MaxBlobs, status : {"none", "active", "trashed", "gone"}, enc : BOOLEAN]]
  /\ blob \in [1..MaxBlobs -> 0..Gone]
  /\ dek \in 0..MaxKeys /\ made \in 0..MaxKeys /\ cache \in [Processes -> 0..MaxKeys] /\ on \subseteq Processes
  /\ proc \in [Processes -> Proc]

Init ==
  /\ row = [f \in Files |-> IF f \in Legacy THEN [blob |-> f, status |-> "active", enc |-> FALSE] ELSE NoRow("none")]
  /\ blob = [b \in 1..MaxBlobs |-> IF b \in Legacy THEN Plain ELSE Unused]
  /\ dek = 0 /\ made = 0 /\ cache = [p \in Processes |-> 0] /\ on = Processes /\ proc = [p \in Processes |-> Idle]
----------------------------------------------------------------------------
Becomes(p, r) == proc' = [proc EXCEPT ![p] = r]
At(p, step) == proc[p].at = step
To(p, at) == Job(at, proc[p].file, proc[p].old, proc[p].path, proc[p].key, proc[p].todo)
Holding(p, at, k) == Job(at, proc[p].file, proc[p].old, proc[p].path, k, proc[p].todo)
Having(p, b) == Job("row", proc[p].file, proc[p].old, b, proc[p].key, {})
Dropping(f, b) == Job("drop", f, b, 0, 0, {})
Store(b, what) == blob' = [blob EXCEPT ![b] = what]
Over(rest) == Job(IF rest = {} THEN "idle" ELSE "next", 0, 0, 0, 0, rest)

(* DEK, create: the first insert wins, the others read it again.           *)

LookUp(p) ==
  /\ At(p, "key") /\ UNCHANGED <<row, blob, dek, on>>
  /\ \/ cache[p] # 0 /\ Becomes(p, Holding(p, "put", cache[p])) /\ UNCHANGED <<cache, made>>
     \/ /\ cache[p] = 0 /\ dek # 0 /\ cache' = [cache EXCEPT ![p] = dek] /\ UNCHANGED made
        /\ Becomes(p, Holding(p, "put", dek))
     \/ /\ cache[p] = 0 /\ dek = 0 /\ made < MaxKeys /\ made' = made + 1 /\ UNCHANGED cache
        /\ Becomes(p, Holding(p, "insert", made + 1))
Canonical(p) == IF dek = 0 THEN proc[p].key ELSE dek
Create(p) == /\ At(p, "insert") /\ dek' = (IF dek = 0 THEN proc[p].key ELSE dek)
             /\ cache' = [cache EXCEPT ![p] = Canonical(p)]
             /\ Becomes(p, Holding(p, "put", Canonical(p))) /\ UNCHANGED <<row, blob, made, on>>

(* Requests: Put stores under a path of its own before the row is written; *)
(* an overwrite drops the blob it has replaced, a purge that of the row.   *)
(* What Uploads and Trash say of rows and sizes is left out here.          *)

PutStep(p) == IF p \in on THEN "key" ELSE "put"
Upload(p, f) == /\ "upload" \in Commands /\ At(p, "idle") /\ row[f].status = "none" /\ \A q \in Servers : proc[q].file # f
                /\ Becomes(p, Job(PutStep(p), f, 0, 0, 0, {})) /\ UNCHANGED <<row, blob, dek, cache, made, on>>
Overwrite(p, f) == /\ "overwrite" \in Commands /\ At(p, "idle") /\ row[f].status = "active"
                   /\ Becomes(p, Job(PutStep(p), f, row[f].blob, 0, 0, {}))
                   /\ UNCHANGED <<row, blob, dek, cache, made, on>>
Put(p) == /\ At(p, "put") /\ UNCHANGED <<row, dek, cache, made, on>>
          /\ \E b \in 1..MaxBlobs : /\ blob[b] = Unused /\ \A c \in 1..b - 1 : blob[c] # Unused
                                    /\ Store(b, IF p \in on THEN proc[p].key ELSE Plain)
                                    /\ Becomes(p, Having(p, b))
\* The row of an upload is new; that of an overwrite is written only while it
\* is active.  The new blob is dropped otherwise, and when the statement fails.
WriteRow(p) ==
  LET f == proc[p].file
      there == proc[p].old = 0 \/ row[f].status = "active"
  IN  /\ At(p, "row") /\ UNCHANGED <<blob, dek, cache, made, on>>
      /\ \/ (~there \/ Faults) /\ UNCHANGED row /\ Becomes(p, Dropping(f, proc[p].path))
         \/ /\ there /\ row' = [row EXCEPT ![f] = [@ EXCEPT !.blob = proc[p].path, !.status = "active"]]
            /\ Becomes(p, IF proc[p].old = 0 THEN Idle ELSE Dropping(f, proc[p].old))
Drop(p) == At(p, "drop") /\ Store(proc[p].old, Gone) /\ Becomes(p, Idle) /\ UNCHANGED <<row, dek, cache, made, on>>
Trash(f) == /\ "purge" \in Commands /\ row[f].status = "active" /\ row' = [row EXCEPT ![f].status = "trashed"]
            /\ UNCHANGED <<blob, dek, cache, made, on, proc>>
Purge(p, f) == /\ "purge" \in Commands /\ At(p, "idle") /\ row[f].status = "trashed"
               /\ row' = [row EXCEPT ![f] = NoRow("gone")]
               /\ Becomes(p, Dropping(f, row[f].blob)) /\ UNCHANGED <<blob, dek, cache, made, on>>

(* MigrateBatch and migrateOne: a file that fails is passed over.          *)

Pending == {f \in Files : row[f].status = "active" /\ ~row[f].enc}
Batch == LET first == {f \in Pending : Cardinality({g \in Pending : g < f}) < Limit}
         IN  {[file |-> f, blob |-> row[f].blob] : f \in first}
Scan(p) == /\ At(p, "idle") /\ p \in on /\ Pending # {} /\ Becomes(p, Over(Batch))
           /\ UNCHANGED <<row, blob, dek, cache, made, on>>
Readable(b) == blob[b] # Gone /\ b \notin Broken
ReadRaw(p) == /\ At(p, "next") /\ UNCHANGED <<row, blob, dek, cache, made, on>> \* in the order of the ids
              /\ \E r \in proc[p].todo :
                   LET rest == proc[p].todo \ {r}
                   IN  /\ \A s \in rest : r.file < s.file
                       /\ \/ ~Readable(r.blob) /\ Becomes(p, Over(rest))
                          \/ /\ Readable(r.blob)
                             /\ Becomes(p, Job(IF blob[r.blob] = Plain THEN "key" ELSE "mark", r.file, 0, r.blob, 0, rest))
PutAt(p) == /\ At(p, "put") /\ Store(proc[p].path, proc[p].key) /\ Becomes(p, To(p, "mark"))
            /\ UNCHANGED <<row, dek, cache, made, on>>
Mark(p) == LET f == proc[p].file
           IN  /\ At(p, "mark") /\ row' = (IF row[f].status = "gone" THEN row ELSE [row EXCEPT ![f].enc = TRUE])
               /\ Becomes(p, Over(proc[p].todo)) /\ UNCHANGED <<blob, dek, cache, made, on>>
\* A call of the store or of the database fails: the request ends, the
\* migration takes the next file.
Fail(p) == /\ Faults /\ proc[p].at \in {"key", "insert", "put", "drop", "mark"}
           /\ Becomes(p, IF p \in Migrators THEN Over(proc[p].todo) ELSE Idle)
           /\ UNCHANGED <<row, blob, dek, cache, made, on>>
\* A process stops between two of its steps.
Restart(p) == /\ Faults /\ cache' = [cache EXCEPT ![p] = 0] /\ Becomes(p, Idle) /\ UNCHANGED <<row, blob, dek, made>>
              /\ on' \in (IF Toggles THEN {on \cup {p}, on \ {p}} ELSE {on})
----------------------------------------------------------------------------
Serve(p) == \/ \E f \in Files : Upload(p, f) \/ Overwrite(p, f) \/ Purge(p, f)
            \/ Put(p) \/ WriteRow(p) \/ Drop(p)
Migrate(p) == Scan(p) \/ ReadRaw(p) \/ PutAt(p) \/ Mark(p)
Step(p) == LookUp(p) \/ Create(p) \/ Fail(p) \/ Restart(p)
Next == \/ \E p \in Servers : Serve(p) \/ Step(p)
        \/ \E p \in Migrators : Migrate(p) \/ Step(p)
        \/ \E f \in Files : Trash(f)
Spec == Init /\ [][Next]_vars
----------------------------------------------------------------------------
\* Whatever is listed or in the trash can be decrypted: it was written with
\* the one key the tenant has, however many processes made one.
Decryptable ==
  \A f \in Files : row[f].status \in {"active", "trashed"} /\ row[f].blob \notin Broken => blob[row[f].blob] \in {Plain, dek}

\* A file that is marked encrypted is: the migration never looks at it again.
MarkTrue == \A f \in Files : row[f].enc => blob[row[f].blob] # Plain

\* Batch after batch, no blob that can be read remains as it was sent.
\* (Kept while a batch lists more rows than there are unreadable blobs.)
Remaining == \E f \in Files : row[f].status = "active" /\ row[f].blob \notin Broken /\ blob[row[f].blob] = Plain
Working(p) == Migrate(p) \/ LookUp(p) \/ Create(p)
NoneRemain == Remaining ~> ~Remaining
FairSpec == Spec /\ \A p \in Migrators : WF_vars(Working(p))

\* A blob belongs to a row, or to a process that is about to write the row or
\* to drop the blob.  (Not kept by the code: see the README.)
NoOrphan == \A b \in 1..MaxBlobs : blob[b] \notin {Unused, Gone} =>
  \/ \E f \in Files : row[f].blob = b
  \/ \E p \in Processes : b \in {proc[p].old, proc[p].path}
=============================================================================
