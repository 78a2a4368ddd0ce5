------------------------- MODULE EncryptionProofs -------------------------
(***************************************************************************)
(* For every number of processes, files, blobs and keys: what is stored    *)
(* can be decrypted, and a file that is marked encrypted is.               *)
(***************************************************************************)
EXTENDS EncryptionAtRest, TLAPS

Live(f) == row[f].status \in {"active", "trashed"}
Stored(b) == b \in 1..MaxBlobs /\ blob[b] # Unused

\* One key: whatever is cached, in use or stored is of the tenant's key, and
\* whoever is about to insert a key has one.
OneKey ==
  /\ \A p \in Processes : cache[p] \in {0, dek}
  /\ \A b \in 1..MaxBlobs : blob[b] \in {Plain, dek, Unused, Gone}
  /\ \A p \in Processes : At(p, "insert") => proc[p].key # 0
  /\ \A p \in Processes : At(p, "put") /\ (p \in Migrators \/ p \in on) => dek # 0 /\ proc[p].key = dek

\* One path for one blob: rows, and requests that have stored a blob or are to
\* drop one, never share a path, except that an overwrite has its file's.
OnePath ==
  /\ \A f \in Files : Live(f) => Stored(row[f].blob) /\ blob[row[f].blob] # Gone
  /\ \A f, g \in Files : Live(f) /\ Live(g) /\ f # g => row[f].blob # row[g].blob
  /\ \A p \in Servers : At(p, "row") =>
       /\ Stored(proc[p].path) /\ blob[proc[p].path] # Gone
       /\ \A f \in Files : Live(f) => row[f].blob # proc[p].path
       /\ \A q \in Servers : q # p /\ At(q, "row") => proc[q].path # proc[p].path
  /\ \A p \in Servers : proc[p].at \in {"key", "insert", "put", "row"} => proc[p].file \in Files
  /\ \A p \in Servers : proc[p].old # 0 =>
       /\ Stored(proc[p].old)
       /\ \A f \in Files : Live(f) /\ (At(p, "drop") \/ f # proc[p].file) => row[f].blob # proc[p].old
       /\ \A q \in Servers : At(q, "row") => proc[q].path # proc[p].old
  /\ \A p \in Servers : At(p, "drop") => proc[p].old # 0
  /\ \A p \in Servers : proc[p].at \notin {"next", "mark"}

\* The migration holds paths that are stored, of files that have been active.
Listed ==
  \A p \in Migrators :
    /\ proc[p].at \notin {"row", "drop"}
    /\ \A r \in proc[p].todo : Stored(r.blob) /\ row[r.file].status # "none"
    /\ proc[p].at \in {"key", "insert", "put", "mark"} =>
         proc[p].file \in Files /\ Stored(proc[p].path) /\ row[proc[p].file].status # "none"

KeyInv == TypeOK /\ OneKey /\ OnePath /\ Listed

\* While no process is started without a key, a row that the migration holds
\* has the path it was listed with, or a blob that is encrypted already.
Sealed(f, b) == Live(f) => row[f].blob = b \/ blob[row[f].blob] # Plain
Marks ==
  /\ on = Processes
  /\ \A f \in Files : row[f].enc => Live(f) /\ blob[row[f].blob] # Plain
  /\ \A p \in Servers : At(p, "row") => blob[proc[p].path] # Plain
  /\ \A p \in Migrators :
       /\ \A r \in proc[p].todo : Sealed(r.file, r.blob)
       /\ proc[p].at \in {"key", "insert", "put", "mark"} => Sealed(proc[p].file, proc[p].path)
       /\ At(p, "mark") => blob[proc[p].path] # Plain
MarkInv == ~Toggles => Marks
----------------------------------------------------------------------------
(* The types *)

\* A request or a batch of the right type goes on as one of that type.
LEMMA ProcType ==
  ASSUME EncryptionAssumption, TypeOK, NEW p \in Processes, NEW r \in Proc, Becomes(p, r)
  PROVE  proc' \in [Processes -> Proc]
  BY DEF TypeOK, Becomes

LEMMA IdleType ==
  ASSUME EncryptionAssumption
  PROVE  /\ Idle \in Proc
         /\ \A rest \in SUBSET [file : Files, blob : 1..MaxBlobs] : Over(rest) \in Proc
<1>1. 0 \in 0..MaxBlobs /\ 0 \in 0..MaxKeys
  BY DEF EncryptionAssumption
<1>2. QED
  BY <1>1 DEF Idle, Over, Job, Proc, Steps

LEMMA BatchType ==
  ASSUME EncryptionAssumption, KeyInv
  PROVE  /\ Batch \subseteq [file : Files, blob : 1..MaxBlobs]
         /\ \A r \in Batch : /\ row[r.file].status = "active" /\ ~row[r.file].enc
                            /\ r.blob = row[r.file].blob /\ Stored(r.blob)
<1>1. ASSUME NEW f \in Pending
      PROVE  f \in Files /\ row[f].status = "active" /\ ~row[f].enc /\ row[f].blob \in 1..MaxBlobs /\ Stored(row[f].blob)
  BY <1>1 DEF Pending, KeyInv, OnePath, Live, Stored
<1>2. ASSUME NEW r \in Batch
      PROVE  \E f \in Pending : r = [file |-> f, blob |-> row[f].blob]
  BY <1>2 DEF Batch
<1>3. QED
  BY <1>1, <1>2

LEMMA InitType ==
  ASSUME EncryptionAssumption, Init
  PROVE  TypeOK
<1>1. 0 \in 0..MaxBlobs /\ 0 \in 0..MaxKeys /\ Plain \in 0..Gone /\ Unused \in 0..Gone
  BY DEF EncryptionAssumption, Plain, Unused, Gone
<1>2. \A f \in Legacy : f \in 0..MaxBlobs
  BY DEF EncryptionAssumption
<1>3. QED
  BY <1>1, <1>2, IdleType DEF Init, TypeOK, NoRow

LEMMA TypeStep ==
  ASSUME EncryptionAssumption, KeyInv, Next
  PROVE  TypeOK'
<1> USE DEF KeyInv
<1>0. TypeOK
  OBVIOUS
<1>1. /\ 0 \in 0..MaxBlobs /\ 0 \in 0..MaxKeys /\ 1..MaxBlobs \subseteq 0..MaxBlobs
      /\ Plain \in 0..Gone /\ Unused \in 0..Gone /\ Gone \in 0..Gone
      /\ 0..MaxKeys \subseteq 0..Gone
  BY DEF EncryptionAssumption, Plain, Unused, Gone
<1>2. ASSUME NEW p \in Processes
      PROVE  /\ proc[p] \in Proc
             /\ Over(proc[p].todo) \in Proc
             /\ To(p, "mark") \in Proc
             /\ \A k \in 0..MaxKeys : Holding(p, "put", k) \in Proc /\ Holding(p, "insert", k) \in Proc
             /\ \A b \in 0..MaxBlobs : Having(p, b) \in Proc /\ Dropping(proc[p].file, b) \in Proc
  <2>1. proc[p] \in Proc
    BY DEF TypeOK
  <2>2. Over(proc[p].todo) \in Proc
    BY <2>1, IdleType DEF Proc
  <2>3. QED
    BY <1>1, <2>1, <2>2 DEF To, Holding, Having, Dropping, Job, Proc, Steps
<1>3. CASE \E p \in Processes : LookUp(p)
  <2> PICK p \in Processes : LookUp(p)
    BY <1>3
  <2>0. /\ cache[p] \in 0..MaxKeys /\ dek \in 0..MaxKeys
        /\ made < MaxKeys => made + 1 \in 0..MaxKeys
    BY DEF TypeOK, EncryptionAssumption
  <2>1. /\ cache' \in [Processes -> 0..MaxKeys] /\ made' \in 0..MaxKeys
        /\ \E k \in 0..MaxKeys, step \in {"put", "insert"} : Becomes(p, Holding(p, step, k))
    BY <2>0 DEF LookUp, TypeOK
  <2>2. proc' \in [Processes -> Proc]
    BY <2>1, <1>2, ProcType DEF Steps
  <2>3. QED
    BY <2>1, <2>2 DEF LookUp, TypeOK
<1>4. CASE \E p \in Processes : Create(p)
  <2> PICK p \in Processes : Create(p)
    BY <1>4
  <2>1. proc[p].key \in 0..MaxKeys /\ Canonical(p) \in 0..MaxKeys
    BY <1>2 DEF TypeOK, Proc, Canonical
  <2>2. proc' \in [Processes -> Proc]
    BY <2>1, <1>2, ProcType DEF Create, Steps
  <2>3. QED
    BY <2>1, <2>2 DEF Create, TypeOK
<1>5. CASE \E p \in Processes, f \in Files : Upload(p, f) \/ Overwrite(p, f)
  <2> PICK p \in Processes, f \in Files : Upload(p, f) \/ Overwrite(p, f)
    BY <1>5
  <2>1. ASSUME NEW b \in 0..MaxBlobs
        PROVE  Job(PutStep(p), f, b, 0, 0, {}) \in Proc
    BY <1>1 DEF Job, Proc, PutStep, Steps
  <2>2. Job(PutStep(p), f, 0, 0, 0, {}) \in Proc
    BY <1>1, <2>1
  <2>3. row[f].blob \in 0..MaxBlobs
    BY DEF TypeOK
  <2>4. CASE Upload(p, f)
    BY <2>2, <2>4, ProcType DEF Upload, TypeOK
  <2>5. CASE Overwrite(p, f)
    BY <2>1, <2>3, <2>5, ProcType DEF Overwrite, TypeOK
  <2>6. QED
    BY <2>4, <2>5
<1>6. CASE \E p \in Processes, f \in Files : Purge(p, f)
  <2> PICK p \in Processes, f \in Files : Purge(p, f)
    BY <1>6
  <2>1. row[f].blob \in 0..MaxBlobs
    BY DEF TypeOK
  <2>2. Dropping(f, row[f].blob) \in Proc
    BY <2>1, <1>1 DEF Dropping, Job, Proc, Steps
  <2>3. proc' \in [Processes -> Proc]
    BY <2>2, ProcType DEF Purge
  <2>4. row' \in [Files -> [blob : 0..MaxBlobs, status : {"none", "active", "trashed", "gone"}, enc : BOOLEAN]]
    BY <1>1 DEF Purge, NoRow, TypeOK
  <2>5. QED
    BY <2>3, <2>4 DEF Purge, TypeOK
<1>7. CASE \E p \in Processes : Put(p)
  <2> PICK p \in Processes : Put(p)
    BY <1>7
  <2>1. PICK b \in 1..MaxBlobs : Store(b, IF p \in on THEN proc[p].key ELSE Plain) /\ Becomes(p, Having(p, b))
    BY DEF Put
  <2>2. proc[p].key \in 0..Gone
    BY <1>1, <1>2 DEF Proc, Steps
  <2>3. blob' \in [1..MaxBlobs -> 0..Gone]
    BY <2>1, <2>2, <1>1 DEF Store, TypeOK
  <2>4. proc' \in [Processes -> Proc]
    BY <1>1, <1>2, <2>1, ProcType DEF Steps
  <2>5. QED
    BY <2>3, <2>4 DEF Put, TypeOK
<1>8. CASE \E p \in Servers : WriteRow(p)
  <2> PICK p \in Servers : WriteRow(p)
    BY <1>8
  <2>0. p \in Processes /\ proc[p].file \in Files /\ proc[p].path \in 0..MaxBlobs
    BY <1>2 DEF WriteRow, At, OnePath, Processes, Proc
  <2>1. \E r \in Proc : Becomes(p, r)
    BY <1>2, <2>0, IdleType DEF WriteRow, Proc
  <2>2. proc' \in [Processes -> Proc]
    BY <2>0, <2>1, ProcType
  <2>3. [row[proc[p].file] EXCEPT !.blob = proc[p].path, !.status = "active"]
          \in [blob : 0..MaxBlobs, status : {"none", "active", "trashed", "gone"}, enc : BOOLEAN]
    BY <2>0 DEF TypeOK
  <2>4. row' \in [Files -> [blob : 0..MaxBlobs, status : {"none", "active", "trashed", "gone"}, enc : BOOLEAN]]
    BY <2>0, <2>3 DEF WriteRow, TypeOK
  <2>5. QED
    BY <2>2, <2>4 DEF WriteRow, TypeOK
<1>9. CASE \E p \in Processes : Drop(p)
  <2> PICK p \in Processes : Drop(p)
    BY <1>9
  <2>1. proc' \in [Processes -> Proc]
    BY IdleType, ProcType DEF Drop
  <2>2. blob' \in [1..MaxBlobs -> 0..Gone]
    BY <1>1 DEF Drop, Store, TypeOK
  <2>3. QED
    BY <2>1, <2>2 DEF Drop, TypeOK
<1>10. CASE \E f \in Files : Trash(f)
  BY <1>10 DEF Trash, TypeOK
<1>11. CASE \E p \in Processes : Scan(p)
  <2> PICK p \in Processes : Scan(p)
    BY <1>11
  <2>1. proc' \in [Processes -> Proc]
    BY IdleType, BatchType, ProcType DEF Scan
  <2>2. QED
    BY <2>1 DEF Scan, TypeOK
<1>12. CASE \E p \in Processes : ReadRaw(p)
  <2> PICK p \in Processes : ReadRaw(p)
    BY <1>12
  <2>1. PICK r \in proc[p].todo : \/ Becomes(p, Over(proc[p].todo \ {r}))
                                \/ \E step \in {"key", "mark"} :
                                     Becomes(p, Job(step, r.file, 0, r.blob, 0, proc[p].todo \ {r}))
    BY DEF ReadRaw
  <2>2. proc[p].todo \in SUBSET [file : Files, blob : 1..MaxBlobs]
    BY <1>2 DEF Proc, Steps
  <2>3. Over(proc[p].todo \ {r}) \in Proc
    BY <2>2, IdleType
  <2>4. ASSUME NEW step \in {"key", "mark"}
        PROVE  Job(step, r.file, 0, r.blob, 0, proc[p].todo \ {r}) \in Proc
    BY <1>1, <2>2 DEF Job, Proc, Steps
  <2>5. proc' \in [Processes -> Proc]
    BY <2>1, <2>3, <2>4, ProcType
  <2>6. QED
    BY <2>5 DEF ReadRaw, TypeOK
<1>13. CASE \E p \in Processes : PutAt(p)
  <2> PICK p \in Processes : PutAt(p)
    BY <1>13
  <2>1. proc[p].key \in 0..Gone
    BY <1>1, <1>2 DEF Proc, Steps
  <2>2. blob' \in [1..MaxBlobs -> 0..Gone] /\ proc' \in [Processes -> Proc]
    BY <2>1, <1>2, ProcType DEF PutAt, Store, TypeOK, Steps
  <2>3. QED
    BY <2>2 DEF PutAt, TypeOK
<1>14. CASE \E p \in Processes : Mark(p)
  <2> PICK p \in Processes : Mark(p)
    BY <1>14
  <2>1. proc' \in [Processes -> Proc]
    BY <1>2, ProcType DEF Mark, Steps
  <2>2. QED
    BY <2>1 DEF Mark, TypeOK
<1>15. CASE \E p \in Processes : Fail(p) \/ Restart(p)
  <2> PICK p \in Processes : Fail(p) \/ Restart(p)
    BY <1>15
  <2>1. proc' \in [Processes -> Proc]
    BY <1>2, IdleType, ProcType DEF Fail, Restart, Steps
  <2>2. cache' \in [Processes -> 0..MaxKeys] /\ on' \subseteq Processes
    BY <1>1 DEF Fail, Restart, TypeOK
  <2>3. QED
    BY <2>1, <2>2 DEF Fail, Restart, TypeOK
<1>16. QED
  BY <1>3, <1>4, <1>5, <1>6, <1>7, <1>8, <1>9, <1>10, <1>11, <1>12, <1>13, <1>14, <1>15
     DEF Next, Serve, Migrate, Step, Processes

----------------------------------------------------------------------------
(* One key *)

\* A step that leaves the key alone, and whose process holds it if it is to
\* store something.
LEMMA SameKey ==
  ASSUME TypeOK, OneKey, NEW p \in Processes, NEW r, Becomes(p, r), UNCHANGED <<dek, cache, on>>,
         \A b \in 1..MaxBlobs : blob'[b] \in {Plain, dek, Unused, Gone},
         r.at = "insert" => r.key # 0,
         r.at = "put" /\ (p \in Migrators \/ p \in on) => dek # 0 /\ r.key = dek
  PROVE  OneKey'
<1>1. proc'[p] = r /\ \A q \in Processes : q # p => proc'[q] = proc[q]
  BY DEF Becomes, TypeOK
<1>2. QED
  BY <1>1 DEF OneKey, At

LEMMA KeyStep ==
  ASSUME EncryptionAssumption, KeyInv, Next
  PROVE  OneKey'
<1> USE DEF KeyInv
<1>1. \A p \in Servers : p \in Processes /\ p \notin Migrators
  BY DEF EncryptionAssumption, Processes
<1>2. \A p \in Migrators : p \in Processes
  BY DEF Processes
<1>3. \A rest : Over(rest).at \in {"idle", "next"}
  BY DEF Over, Job
<1>4. \A b \in 1..MaxBlobs : blob[b] \in {Plain, dek, Unused, Gone}
  BY DEF OneKey
<1>5. CASE \E p \in Processes : LookUp(p)
  <2> PICK p \in Processes : LookUp(p)
    BY <1>5
  <2>0. proc[p] \in Proc /\ \A q \in Processes : q # p => proc'[q] = proc[q]
    BY DEF LookUp, Becomes, TypeOK
  <2>1. CASE cache[p] # 0
    <3>1. Becomes(p, Holding(p, "put", cache[p])) /\ UNCHANGED <<dek, cache, on, blob>> /\ cache[p] = dek
      BY <2>1 DEF LookUp, OneKey
    <3>2. Holding(p, "put", cache[p]).key = cache[p]
      BY DEF Holding, Job
    <3>3. Holding(p, "put", cache[p]).at = "put"
      BY DEF Holding, Job
    <3>4. QED
      BY <1>4, <2>1, <3>1, <3>2, <3>3, SameKey
  <2>2. CASE cache[p] = 0 /\ dek # 0
    <3>1. proc'[p].key = dek /\ proc'[p].at = "put"
      BY <2>2 DEF LookUp, Becomes, TypeOK, Holding, Job
    <3>2. UNCHANGED <<dek, on, blob>> /\ cache' = [cache EXCEPT ![p] = dek]
      BY <2>2 DEF LookUp
    <3>3. QED
      BY <2>0, <2>2, <3>1, <3>2 DEF OneKey, At, TypeOK
  <2>3. CASE cache[p] = 0 /\ dek = 0
    <3>1. Becomes(p, Holding(p, "insert", made + 1)) /\ UNCHANGED <<dek, cache, on, blob>>
      BY <2>3 DEF LookUp
    <3>2. made + 1 # 0
      BY DEF TypeOK, EncryptionAssumption
    <3>3. Holding(p, "insert", made + 1).key = made + 1 /\ Holding(p, "insert", made + 1).at = "insert"
      BY DEF Holding, Job
    <3>4. QED
      BY <1>4, <3>1, <3>2, <3>3, SameKey
  <2>4. QED
    BY <2>1, <2>2, <2>3
<1>6. CASE \E p \in Processes : Create(p)
  <2> PICK p \in Processes : Create(p)
    BY <1>6
  <2>1. proc[p].key # 0 /\ dek' # 0 /\ Canonical(p) = dek' /\ (dek # 0 => dek' = dek)
    BY DEF Create, OneKey, Canonical
  <2>2. proc'[p].key = dek' /\ proc'[p].at = "put" /\ \A q \in Processes : q # p => proc'[q] = proc[q]
    BY <2>1 DEF Create, Becomes, TypeOK, Holding, Job
  <2>3. \A q \in Processes : cache'[q] \in {0, dek'}
    BY <2>1 DEF Create, OneKey, TypeOK
  <2>4. \A b \in 1..MaxBlobs : blob'[b] \in {Plain, dek', Unused, Gone}
    BY <2>1 DEF Create, OneKey, Plain
  <2>5. QED
    BY <2>1, <2>2, <2>3, <2>4 DEF Create, OneKey, At
<1>7. CASE \E p \in Servers, f \in Files : Upload(p, f) \/ Overwrite(p, f) \/ Purge(p, f)
  <2> PICK p \in Servers, f \in Files : Upload(p, f) \/ Overwrite(p, f) \/ Purge(p, f)
    BY <1>7
  <2>1. /\ proc'[p].at # "insert" /\ (proc'[p].at = "put" => p \notin on)
        /\ \A q \in Processes : q # p => proc'[q] = proc[q]
    <3>1. CASE Upload(p, f)
      BY <1>1, <3>1 DEF Upload, PutStep, Job, Becomes, TypeOK
    <3>2. CASE Overwrite(p, f)
      BY <1>1, <3>2 DEF Overwrite, PutStep, Job, Becomes, TypeOK
    <3>3. CASE Purge(p, f)
      BY <1>1, <3>3 DEF Purge, Dropping, Job, Becomes, TypeOK
    <3>4. QED
      BY <3>1, <3>2, <3>3
  <2>2. UNCHANGED <<dek, cache, on, blob>>
    BY DEF Upload, Overwrite, Purge
  <2>3. QED
    BY <1>1, <2>1, <2>2 DEF OneKey, At
<1>8. CASE \E p \in Servers : Put(p)
  <2> PICK p \in Servers : Put(p)
    BY <1>8
  <2>1. PICK b \in 1..MaxBlobs : Store(b, IF p \in on THEN proc[p].key ELSE Plain) /\ Becomes(p, Having(p, b))
    BY DEF Put
  <2>2. p \in on => proc[p].key = dek
    BY <1>1 DEF Put, OneKey
  <2>3. \A c \in 1..MaxBlobs : blob'[c] \in {Plain, dek, Unused, Gone}
    BY <1>4, <2>1, <2>2 DEF Store, TypeOK
  <2>4. Having(p, b).at = "row"
    BY DEF Having, Job
  <2>5. QED
    BY <1>1, <2>1, <2>3, <2>4, SameKey DEF Put
<1>9. CASE \E p \in Servers : WriteRow(p)
  <2> PICK p \in Servers : WriteRow(p)
    BY <1>9
  <2>1. Idle.at = "idle" /\ \A f, b : Dropping(f, b).at = "drop"
    BY DEF Idle, Dropping, Job
  <2>2. proc'[p].at \notin {"insert", "put"} /\ \A q \in Processes : q # p => proc'[q] = proc[q]
    BY <1>1, <2>1 DEF WriteRow, Becomes, TypeOK
  <2>3. UNCHANGED <<dek, cache, on, blob>>
    BY DEF WriteRow
  <2>4. QED
    BY <1>1, <2>2, <2>3 DEF OneKey, At
<1>10. CASE \E p \in Servers : Drop(p)
  <2> PICK p \in Servers : Drop(p)
    BY <1>10
  <2>1. \A b \in 1..MaxBlobs : blob'[b] \in {Plain, dek, Unused, Gone}
    BY <1>4 DEF Drop, Store, TypeOK
  <2>2. Idle.at = "idle"
    BY DEF Idle, Job
  <2>3. QED
    BY <1>1, <2>1, <2>2, SameKey DEF Drop
<1>11. CASE \E f \in Files : Trash(f)
  BY <1>11 DEF Trash, OneKey, At
<1>12. CASE \E p \in Migrators : Scan(p)
  <2> PICK p \in Migrators : Scan(p)
    BY <1>12
  <2>1. QED
    BY <1>2, <1>3, <1>4, SameKey DEF Scan
<1>13. CASE \E p \in Migrators : ReadRaw(p)
  <2> PICK p \in Migrators : ReadRaw(p)
    BY <1>13
  <2>1. proc'[p].at \in {"idle", "next", "key", "mark"} /\ \A q \in Processes : q # p => proc'[q] = proc[q]
    BY <1>2, <1>3 DEF ReadRaw, Job, Becomes, TypeOK
  <2>2. QED
    BY <1>2, <2>1 DEF ReadRaw, OneKey, At
<1>14. CASE \E p \in Migrators : PutAt(p)
  <2> PICK p \in Migrators : PutAt(p)
    BY <1>14
  <2>1. proc[p].key = dek /\ proc[p] \in Proc
    BY <1>2 DEF PutAt, OneKey, TypeOK
  <2>2. \A b \in 1..MaxBlobs : blob'[b] \in {Plain, dek, Unused, Gone}
    BY <1>4, <2>1 DEF PutAt, Store, TypeOK
  <2>3. To(p, "mark").at = "mark"
    BY DEF To, Job
  <2>4. QED
    BY <1>2, <2>2, <2>3, SameKey DEF PutAt
<1>15. CASE \E p \in Migrators : Mark(p)
  <2> PICK p \in Migrators : Mark(p)
    BY <1>15
  <2>1. QED
    BY <1>2, <1>3, <1>4, SameKey DEF Mark
<1>16. CASE \E p \in Processes : Fail(p)
  <2> PICK p \in Processes : Fail(p)
    BY <1>16
  <2>1. PICK r : Becomes(p, r) /\ r.at \in {"idle", "next"}
    BY <1>3 DEF Fail, Idle, Job
  <2>2. QED
    BY <1>4, <2>1, SameKey DEF Fail
<1>17. CASE \E p \in Processes : Restart(p)
  <2> PICK p \in Processes : Restart(p)
    BY <1>17
  <2>1. proc'[p].at = "idle" /\ \A q \in Processes : q # p => proc'[q] = proc[q] /\ (q \in on' <=> q \in on)
    BY DEF Restart, Becomes, Idle, Job, TypeOK
  <2>2. \A q \in Processes : cache'[q] \in {0, dek'}
    BY DEF Restart, OneKey, TypeOK
  <2>3. QED
    BY <2>1, <2>2 DEF Restart, OneKey, At
<1>18. QED
  BY <1>1, <1>2, <1>5, <1>6, <1>7, <1>8, <1>9, <1>10, <1>11, <1>12, <1>13, <1>14, <1>15, <1>16, <1>17
     DEF Next, Serve, Migrate, Step, Processes

----------------------------------------------------------------------------
(* One path *)

\* A step that is no request's, and makes no blob go.
LEMMA NoRequest ==
  ASSUME OnePath, \A q \in Servers : proc'[q] = proc[q],
         \A f \in Files : row'[f].blob = row[f].blob /\ (Live(f)' => Live(f)),
         \A b \in 1..MaxBlobs : (Stored(b) => Stored(b)') /\ (blob[b] # Gone => blob'[b] # Gone)
  PROVE  OnePath'
  BY DEF OnePath, Stored, At

\* A request goes on, with no change to what is stored.
LEMMA RequestOnly ==
  ASSUME TypeOK, OnePath, UNCHANGED <<row, blob>>, NEW p \in Servers, NEW r, Becomes(p, r),
         r.at \notin {"row", "next", "mark"},
         r.at \in {"key", "insert", "put"} => r.file \in Files,
         r.at = "drop" => r.old # 0,
         r.old # 0 => /\ Stored(r.old)
                      /\ \A f \in Files : Live(f) /\ (r.at = "drop" \/ f # r.file) => row[f].blob # r.old
                      /\ \A q \in Servers : q # p /\ At(q, "row") => proc[q].path # r.old
  PROVE  OnePath'
<1>1. proc'[p] = r /\ \A q \in Servers : q # p => proc'[q] = proc[q]
  BY DEF Becomes, TypeOK, Processes
<1>2. \A f \in Files : Live(f)' <=> Live(f)
  BY DEF Live
<1>3. \A b : Stored(b)' <=> Stored(b)
  BY DEF Stored
<1>4. QED
  BY <1>1, <1>2, <1>3 DEF OnePath, At

LEMMA PathStep ==
  ASSUME EncryptionAssumption, KeyInv, Next
  PROVE  OnePath'
<1> USE DEF KeyInv
<1>1. \A p \in Servers : p \in Processes /\ p \notin Migrators
  BY DEF EncryptionAssumption, Processes
<1>2. \A p \in Migrators : p \in Processes /\ p \notin Servers
  BY DEF EncryptionAssumption, Processes
<1>3. \A b \in 1..MaxBlobs : b # 0
  OBVIOUS
<1>4. dek # Unused /\ dek # Gone /\ Plain # Unused /\ Plain # Gone /\ Gone # Unused
  BY DEF TypeOK, EncryptionAssumption, Unused, Gone, Plain
<1>5. CASE \E p \in Servers : LookUp(p)
  <2> PICK p \in Servers : LookUp(p)
    BY <1>5
  <2>1. PICK r : /\ Becomes(p, r) /\ r.at \in {"put", "insert"}
                 /\ r.file = proc[p].file /\ r.old = proc[p].old /\ proc[p].at = "key"
    BY DEF LookUp, Holding, Job, At
  <2>2. QED
    BY <2>1, RequestOnly DEF LookUp, Holding, Job, OnePath, At
<1>6. CASE \E p \in Servers : Create(p)
  <2> PICK p \in Servers : Create(p)
    BY <1>6
  <2>1. QED
    BY RequestOnly DEF Create, Holding, Job, OnePath, At
<1>7. CASE \E p \in Servers, f \in Files : Upload(p, f)
  <2> PICK p \in Servers, f \in Files : Upload(p, f)
    BY <1>7
  <2>1. QED
    BY RequestOnly DEF Upload, Job, PutStep
<1>8. CASE \E p \in Servers, f \in Files : Overwrite(p, f)
  <2> PICK p \in Servers, f \in Files : Overwrite(p, f)
    BY <1>8
  <2>1. Live(f) /\ Stored(row[f].blob)
    BY DEF Overwrite, Live, OnePath
  <2>2. \A g \in Files : Live(g) /\ g # f => row[g].blob # row[f].blob
    BY <2>1 DEF OnePath
  <2>3. \A q \in Servers : At(q, "row") => proc[q].path # row[f].blob
    BY <2>1 DEF OnePath
  <2>4. QED
    BY <2>1, <2>2, <2>3, RequestOnly DEF Overwrite, Job, PutStep
<1>9. CASE \E p \in Servers, f \in Files : Purge(p, f)
  <2> PICK p \in Servers, f \in Files : Purge(p, f)
    BY <1>9
  <2>1. /\ proc'[p].at = "drop" /\ proc'[p].old = row[f].blob /\ \A q \in Servers : q # p => proc'[q] = proc[q]
        /\ UNCHANGED blob
    BY <1>1 DEF Purge, Becomes, Dropping, Job, TypeOK
  <2>2. Live(f) /\ Stored(row[f].blob) /\ row[f].blob # 0
    BY <1>3 DEF Purge, Live, OnePath, Stored
  <2>3. ~Live(f)' /\ \A g \in Files : g # f => row'[g] = row[g]
    BY DEF Purge, NoRow, Live, TypeOK
  <2>4. \A g \in Files : Live(g)' => g # f /\ Live(g) /\ row'[g] = row[g]
    BY <2>3 DEF Live
  <2>5. \A b : Stored(b)' <=> Stored(b)
    BY <2>1 DEF Stored
  <2>6. QED
    BY <2>1, <2>2, <2>4, <2>5 DEF OnePath, At
<1>10. CASE \E p \in Servers : Put(p)
  <2> PICK p \in Servers : Put(p)
    BY <1>10
  <2>1. PICK b \in 1..MaxBlobs : /\ blob[b] = Unused /\ Store(b, IF p \in on THEN proc[p].key ELSE Plain)
                                 /\ Becomes(p, Having(p, b))
    BY DEF Put
  <2>2. blob'[b] \notin {Unused, Gone} /\ \A c \in 1..MaxBlobs : c # b => blob'[c] = blob[c]
    BY <1>1, <1>4, <2>1 DEF Put, Store, TypeOK, OneKey
  <2>3. /\ proc'[p].at = "row" /\ proc'[p].path = b /\ proc'[p].file = proc[p].file /\ proc'[p].old = proc[p].old
        /\ \A q \in Servers : q # p => proc'[q] = proc[q]
    BY <1>1, <2>1 DEF Becomes, Having, Job, TypeOK
  <2>4. ~Stored(b) /\ Stored(b)' /\ \A c : Stored(c) => Stored(c)' /\ c # b
    BY <2>1, <2>2 DEF Stored
  <2>5. UNCHANGED row /\ \A f \in Files : Live(f)' <=> Live(f)
    BY DEF Put, Live
  <2>6. \A c : Stored(c) => blob'[c] = blob[c] /\ Stored(c)' /\ c # b
    BY <2>2, <2>4 DEF Stored
  <2>7. \A f \in Files : Live(f) => Stored(row[f].blob) /\ blob[row[f].blob] # Gone
    BY DEF OnePath
  <2>8. \A q \in Servers : q # p /\ At(q, "row")' => At(q, "row") /\ proc'[q] = proc[q]
    BY <2>3 DEF At
  <2>9. /\ \A f \in Files : Live(f)' => Stored(row[f].blob)' /\ blob'[row'[f].blob] # Gone
        /\ \A f, g \in Files : Live(f)' /\ Live(g)' /\ f # g => row'[f].blob # row'[g].blob
    BY <2>5, <2>6, <2>7 DEF OnePath
  <2>10. ASSUME NEW q \in Servers, At(q, "row")'
         PROVE  /\ Stored(proc[q].path)' /\ blob'[proc'[q].path] # Gone
                /\ \A f \in Files : Live(f)' => row'[f].blob # proc'[q].path
                /\ \A s \in Servers : s # q /\ At(s, "row")' => proc'[s].path # proc'[q].path
    <3>1. CASE q = p
      BY <2>2, <2>3, <2>4, <2>5, <2>6, <2>7, <2>8, <3>1 DEF OnePath
    <3>2. CASE q # p
      BY <2>3, <2>5, <2>6, <2>8, <2>10, <3>2 DEF OnePath
    <3>3. QED
      BY <3>1, <3>2
  <2>11. /\ \A q \in Servers : proc'[q].at \in {"key", "insert", "put", "row"} => proc'[q].file \in Files
         /\ \A q \in Servers : At(q, "drop")' => proc'[q].old # 0
         /\ \A q \in Servers : proc'[q].at \notin {"next", "mark"}
    BY <2>3 DEF OnePath, Put, At
  <2>12. ASSUME NEW q \in Servers, proc'[q].old # 0
         PROVE  /\ Stored(proc[q].old)'
                /\ \A f \in Files : Live(f)' /\ (At(q, "drop")' \/ f # proc'[q].file) => row'[f].blob # proc'[q].old
                /\ \A s \in Servers : At(s, "row")' => proc'[s].path # proc'[q].old
    <3>1. proc'[q].old = proc[q].old /\ proc'[q].file = proc[q].file /\ (At(q, "drop")' => At(q, "drop"))
      BY <2>3 DEF At
    <3>2. Stored(proc[q].old)
      BY <2>12, <3>1 DEF OnePath
    <3>3. QED
      BY <2>3, <2>5, <2>6, <2>8, <2>12, <3>1, <3>2 DEF OnePath
  <2>13. QED
    BY <2>9, <2>10, <2>11, <2>12 DEF OnePath
<1>11. CASE \E p \in Servers : WriteRow(p)
  <2> PICK p \in Servers : WriteRow(p)
    BY <1>11
  <2>1. At(p, "row") /\ proc[p].file \in Files /\ Stored(proc[p].path) /\ UNCHANGED blob
    BY DEF WriteRow, OnePath, At
  <2>2. CASE UNCHANGED row /\ Becomes(p, Dropping(proc[p].file, proc[p].path))
    BY <1>3, <2>1, <2>2, RequestOnly DEF Dropping, Job, OnePath, Stored
  <2>3. CASE /\ row' = [row EXCEPT ![proc[p].file] = [@ EXCEPT !.blob = proc[p].path, !.status = "active"]]
             /\ Becomes(p, IF proc[p].old = 0 THEN Idle ELSE Dropping(proc[p].file, proc[p].old))
    <3>1. \A g \in Files : g # proc[p].file => row'[g] = row[g] /\ (Live(g)' <=> Live(g))
      BY <2>1, <2>3 DEF Live, TypeOK
    <3>2. row'[proc[p].file].blob = proc[p].path
      BY <2>1, <2>3 DEF TypeOK
    <3>3. /\ proc'[p].at \in {"idle", "drop"} /\ proc'[p].old = proc[p].old /\ (proc'[p].at = "drop" => proc[p].old # 0)
          /\ \A q \in Servers : q # p => proc'[q] = proc[q]
      BY <1>1, <2>3 DEF Becomes, Idle, Dropping, Job, TypeOK
    <3>4. \A b : Stored(b)' <=> Stored(b)
      BY <2>1 DEF Stored
    <3>5. QED
      BY <2>1, <3>1, <3>2, <3>3, <3>4 DEF OnePath, At
  <2>4. QED
    BY <2>2, <2>3 DEF WriteRow
<1>12. CASE \E p \in Servers : Drop(p)
  <2> PICK p \in Servers : Drop(p)
    BY <1>12
  <2>1. /\ proc'[p].at = "idle" /\ proc'[p].old = 0 /\ \A q \in Servers : q # p => proc'[q] = proc[q]
        /\ UNCHANGED row
    BY <1>1 DEF Drop, Becomes, Idle, Job, TypeOK
  <2>2. \A b \in 1..MaxBlobs : blob'[b] = (IF b = proc[p].old THEN Gone ELSE blob[b])
    BY DEF Drop, Store, TypeOK
  <2>3. \A b : Stored(b) => Stored(b)'
    BY <1>4, <2>2 DEF Stored
  <2>4. \A f \in Files : Live(f)' => Live(f) /\ row[f].blob # proc[p].old
    BY <2>1 DEF Live, OnePath, Drop
  <2>5. \A q \in Servers : At(q, "row") => proc[q].path # proc[p].old
    BY DEF OnePath, Drop
  <2>6. QED
    BY <2>1, <2>2, <2>3, <2>4, <2>5 DEF OnePath, At, Stored
<1>13. CASE \E p \in Servers : Fail(p) \/ Restart(p)
  <2> PICK p \in Servers : Fail(p) \/ Restart(p)
    BY <1>13
  <2>1. Becomes(p, Idle) /\ UNCHANGED <<row, blob>>
    BY <1>1 DEF Fail, Restart
  <2>2. QED
    BY <2>1, RequestOnly DEF Idle, Job
<1>14. CASE \E f \in Files : Trash(f)
  <2>1. UNCHANGED <<proc, blob>> /\ \A g \in Files : row'[g].blob = row[g].blob /\ (Live(g)' => Live(g))
    BY <1>14 DEF Trash, Live, TypeOK
  <2>2. QED
    BY <2>1, NoRequest DEF Stored
<1>15. CASE \E p \in Migrators : Migrate(p) \/ Step(p)
  <2> PICK p \in Migrators : Migrate(p) \/ Step(p)
    BY <1>15
  <2>1. \A q \in Servers : proc'[q] = proc[q]
    <3>1. \E r : Becomes(p, r)
      BY DEF Migrate, Step, Scan, ReadRaw, PutAt, Mark, LookUp, Create, Fail, Restart
    <3>2. QED
      BY <1>1, <1>2, <3>1 DEF Becomes, TypeOK
  <2>2. \A f \in Files : row'[f].blob = row[f].blob /\ row'[f].status = row[f].status
    <3>1. CASE Mark(p)
      BY <3>1 DEF Mark, TypeOK
    <3>2. CASE ~Mark(p)
      BY <3>2 DEF Migrate, Step, Scan, ReadRaw, PutAt, LookUp, Create, Fail, Restart
    <3>3. QED
      BY <3>1, <3>2
  <2>3. \A b \in 1..MaxBlobs : blob'[b] = blob[b] \/ blob'[b] = dek
    <3>1. CASE PutAt(p)
      <4>1. proc[p].key = dek
        BY <1>2, <3>1 DEF PutAt, OneKey
      <4>2. QED
        BY <3>1, <4>1 DEF PutAt, Store, TypeOK
    <3>2. CASE ~PutAt(p)
      BY <3>2 DEF Migrate, Step, Scan, ReadRaw, Mark, LookUp, Create, Fail, Restart
    <3>3. QED
      BY <3>1, <3>2
  <2>4. \A f \in Files : Live(f)' <=> Live(f)
    BY <2>2 DEF Live
  <2>5. \A b \in 1..MaxBlobs : (Stored(b) => Stored(b)') /\ (blob[b] # Gone => blob'[b] # Gone)
    BY <1>4, <2>3 DEF Stored
  <2>6. QED
    BY <2>1, <2>2, <2>4, <2>5, NoRequest
<1>16. QED
  BY <1>5, <1>6, <1>7, <1>8, <1>9, <1>10, <1>11, <1>12, <1>13, <1>14, <1>15 DEF Next, Serve, Step

----------------------------------------------------------------------------
(* What the migration has listed *)

\* A path that is stored stays stored, and no row is forgotten.
LEMMA StaysStored ==
  ASSUME EncryptionAssumption, KeyInv, Next
  PROVE  /\ \A b : Stored(b) => Stored(b)'
         /\ \A f \in Files : row[f].status # "none" => row'[f].status # "none"
<1> USE DEF KeyInv
<1>1. dek # Unused /\ Plain # Unused /\ Gone # Unused
  BY DEF TypeOK, EncryptionAssumption, Unused, Gone, Plain
<1>2. \A p \in Processes : p \in Servers \/ p \in Migrators
  BY DEF Processes
<1>3. CASE \E p \in Servers : Put(p)
  <2> PICK p \in Servers : Put(p)
    BY <1>3
  <2>1. PICK b \in 1..MaxBlobs : blob[b] = Unused /\ Store(b, IF p \in on THEN proc[p].key ELSE Plain)
    BY DEF Put
  <2>2. QED
    BY <2>1 DEF Put, Store, Stored, TypeOK
<1>4. CASE \E p \in Servers : Drop(p)
  BY <1>1, <1>4 DEF Drop, Store, Stored, TypeOK
<1>5. CASE \E p \in Migrators : PutAt(p)
  <2> PICK p \in Migrators : PutAt(p)
    BY <1>5
  <2>1. proc[p].key = dek
    BY DEF PutAt, OneKey, Processes
  <2>2. UNCHANGED row /\ \A b \in 1..MaxBlobs : blob'[b] = blob[b] \/ blob'[b] = dek
    BY <2>1 DEF PutAt, Store, TypeOK
  <2>3. QED
    BY <1>1, <2>2 DEF Stored
<1>6. CASE \E p \in Servers : WriteRow(p)
  <2> PICK p \in Servers : WriteRow(p)
    BY <1>6
  <2>1. UNCHANGED blob /\ proc[p].file \in Files
    BY DEF WriteRow, OnePath, At
  <2>2. \A f \in Files : row'[f].status = row[f].status \/ row'[f].status = "active"
    BY <2>1 DEF WriteRow, TypeOK
  <2>3. QED
    BY <2>1, <2>2 DEF Stored
<1>7. CASE \E p \in Servers, f \in Files : Purge(p, f)
  <2>1. UNCHANGED blob /\ \A f \in Files : row'[f].status \in {row[f].status, "gone"}
    BY <1>7 DEF Purge, NoRow, TypeOK
  <2>2. QED
    BY <2>1 DEF Stored
<1>8. CASE \E f \in Files : Trash(f)
  <2>1. UNCHANGED blob /\ \A f \in Files : row'[f].status \in {row[f].status, "trashed"}
    BY <1>8 DEF Trash, TypeOK
  <2>2. QED
    BY <2>1 DEF Stored
<1>9. CASE \E p \in Migrators : Mark(p)
  <2>1. UNCHANGED blob /\ \A f \in Files : row'[f].status = row[f].status
    BY <1>9 DEF Mark, TypeOK
  <2>2. QED
    BY <2>1 DEF Stored
<1>10. CASE UNCHANGED <<row, blob>>
  BY <1>10 DEF Stored
<1>11. QED
  <2>1. \A p \in Processes : Step(p) => UNCHANGED <<row, blob>>
    BY DEF Step, LookUp, Create, Fail, Restart
  <2>2. \A p \in Servers, f \in Files : Upload(p, f) \/ Overwrite(p, f) => UNCHANGED <<row, blob>>
    BY DEF Upload, Overwrite
  <2>3. \A p \in Migrators : Scan(p) \/ ReadRaw(p) => UNCHANGED <<row, blob>>
    BY DEF Scan, ReadRaw
  <2>4. QED
    BY <1>3, <1>4, <1>5, <1>6, <1>7, <1>8, <1>9, <1>10, <2>1, <2>2, <2>3 DEF Next, Serve, Migrate, Processes

\* A process of the migration goes on, with rows that were listed.
LEMMA ListedOnly ==
  ASSUME TypeOK, Listed, NEW p \in Migrators, NEW r, Becomes(p, r),
         \A b : Stored(b) => Stored(b)',
         \A f \in Files : row[f].status # "none" => row'[f].status # "none",
         r.at \notin {"row", "drop"},
         \A x \in r.todo : Stored(x.blob) /\ x.file \in Files /\ row[x.file].status # "none",
         r.at \in {"key", "insert", "put", "mark"} =>
           r.file \in Files /\ Stored(r.path) /\ row[r.file].status # "none"
  PROVE  Listed'
<1>1. proc'[p] = r /\ \A q \in Migrators : q # p => proc'[q] = proc[q] /\ proc[q] \in Proc
  BY DEF Becomes, TypeOK, Processes
<1>2. \A q \in Migrators : q # p => \A x \in proc[q].todo : x.file \in Files
  BY <1>1 DEF Proc
<1>3. QED
  BY <1>1, <1>2 DEF Listed

LEMMA ListedStep ==
  ASSUME EncryptionAssumption, KeyInv, Next
  PROVE  Listed'
<1> USE DEF KeyInv
<1>1. /\ \A b : Stored(b) => Stored(b)'
      /\ \A f \in Files : row[f].status # "none" => row'[f].status # "none"
  BY StaysStored
<1>2. \A p \in Migrators : p \in Processes /\ p \notin Servers /\ proc[p] \in Proc
  BY DEF EncryptionAssumption, Processes, TypeOK
<1>3. \A p \in Migrators : \A x \in proc[p].todo : x.file \in Files /\ Stored(x.blob) /\ row[x.file].status # "none"
  BY <1>2 DEF Proc, Listed
<1>4. \A rest : Over(rest).at \in {"idle", "next"} /\ Over(rest).todo = rest
  BY DEF Over, Job
<1>5. CASE \E p \in Servers : Serve(p) \/ Step(p)
  <2> PICK p \in Servers : Serve(p) \/ Step(p)
    BY <1>5
  <2>1. \A q \in Migrators : proc'[q] = proc[q]
    <3>1. \E r : Becomes(p, r)
      BY DEF Serve, Step, Upload, Overwrite, Purge, Put, WriteRow, Drop, LookUp, Create, Fail, Restart
    <3>2. QED
      BY <1>2, <3>1 DEF Becomes, TypeOK
  <2>2. QED
    BY <1>1, <1>3, <2>1 DEF Listed
<1>6. CASE \E f \in Files : Trash(f)
  <2>1. UNCHANGED proc
    BY <1>6 DEF Trash
  <2>2. QED
    BY <1>1, <1>3, <2>1 DEF Listed
<1>7. CASE \E p \in Migrators : LookUp(p) \/ Create(p) \/ PutAt(p)
  <2> PICK p \in Migrators : LookUp(p) \/ Create(p) \/ PutAt(p)
    BY <1>7
  <2>1. PICK r : /\ Becomes(p, r) /\ r.at \in {"insert", "put", "mark"}
                 /\ r.file = proc[p].file /\ r.path = proc[p].path /\ r.todo = proc[p].todo
    BY DEF LookUp, Create, PutAt, Holding, To, Job
  <2>2. proc[p].at \in {"key", "insert", "put"}
    BY DEF LookUp, Create, PutAt, At
  <2>3. proc[p].file \in Files /\ Stored(proc[p].path) /\ row[proc[p].file].status # "none"
    BY <2>2 DEF Listed
  <2>4. QED
    BY <1>1, <1>3, <2>1, <2>3, ListedOnly
<1>8. CASE \E p \in Migrators : Mark(p) \/ Fail(p)
  <2> PICK p \in Migrators : Mark(p) \/ Fail(p)
    BY <1>8
  <2>1. Becomes(p, Over(proc[p].todo))
    BY DEF Mark, Fail
  <2>2. QED
    BY <1>1, <1>3, <1>4, <2>1, ListedOnly
<1>9. CASE \E p \in Migrators : Restart(p)
  <2> PICK p \in Migrators : Restart(p)
    BY <1>9
  <2>1. Becomes(p, Idle) /\ Idle.at = "idle" /\ Idle.todo = {}
    BY DEF Restart, Idle, Job
  <2>2. QED
    BY <1>1, <2>1, ListedOnly
<1>10. CASE \E p \in Migrators : Scan(p)
  <2> PICK p \in Migrators : Scan(p)
    BY <1>10
  <2>1. Becomes(p, Over(Batch))
    BY DEF Scan
  <2>2. \A x \in Batch : x.file \in Files /\ Stored(x.blob) /\ row[x.file].status # "none"
    BY BatchType
  <2>3. QED
    BY <1>1, <1>4, <2>1, <2>2, ListedOnly
<1>11. CASE \E p \in Migrators : ReadRaw(p)
  <2> PICK p \in Migrators : ReadRaw(p)
    BY <1>11
  <2>1. PICK x \in proc[p].todo : \/ Becomes(p, Over(proc[p].todo \ {x}))
                                \/ \E step \in {"key", "mark"} :
                                     Becomes(p, Job(step, x.file, 0, x.blob, 0, proc[p].todo \ {x}))
    BY DEF ReadRaw
  <2>2. CASE Becomes(p, Over(proc[p].todo \ {x}))
    BY <1>1, <1>3, <1>4, <2>2, ListedOnly
  <2>3. CASE \E step \in {"key", "mark"} : Becomes(p, Job(step, x.file, 0, x.blob, 0, proc[p].todo \ {x}))
    <3> PICK step \in {"key", "mark"} : Becomes(p, Job(step, x.file, 0, x.blob, 0, proc[p].todo \ {x}))
      BY <2>3
    <3> DEFINE r == Job(step, x.file, 0, x.blob, 0, proc[p].todo \ {x})
    <3>1. r.at = step /\ r.file = x.file /\ r.path = x.blob /\ r.todo = proc[p].todo \ {x} /\ Becomes(p, r)
      BY DEF Job
    <3> HIDE DEF r
    <3>2. QED
      BY <1>1, <1>3, <3>1, ListedOnly
  <2>4. QED
    BY <2>1, <2>2, <2>3
<1>12. QED
  BY <1>5, <1>6, <1>7, <1>8, <1>9, <1>10, <1>11 DEF Next, Migrate, Step

----------------------------------------------------------------------------
(* What is marked *)

\* While every process has a key, what is stored otherwise than as it was sent
\* stays so, and a listed row keeps its path or gets an encrypted blob.
LEMMA StaysSealed ==
  ASSUME EncryptionAssumption, KeyInv, Marks, Next
  PROVE  /\ \A b \in 1..MaxBlobs : blob[b] # Plain => blob'[b] # Plain
         /\ \A f \in Files : \A b : Sealed(f, b) => Sealed(f, b)'
<1> USE DEF KeyInv
<1>1. Unused # Plain /\ Gone # Plain
  BY DEF EncryptionAssumption, Unused, Gone, Plain
<1>2. on = Processes /\ Processes = Servers \cup Migrators
  BY DEF Marks, Processes
<1>3. \A p \in Processes : At(p, "put") => proc[p].key # Plain
  BY <1>2 DEF OneKey, Plain
<1>4. \A f \in Files : Live(f) => row[f].blob \in 1..MaxBlobs
  BY DEF OnePath, Stored
<1>5. ASSUME \A b \in 1..MaxBlobs : blob[b] # Plain => blob'[b] # Plain,
             \A f \in Files : Live(f)' => Live(f) /\ row'[f].blob = row[f].blob
      PROVE  \A f \in Files : \A b : Sealed(f, b) => Sealed(f, b)'
  BY <1>4, <1>5 DEF Sealed
<1>6. CASE \E p \in Servers : Put(p)
  <2> PICK p \in Servers : Put(p)
    BY <1>6
  <2>1. PICK b \in 1..MaxBlobs : Store(b, IF p \in on THEN proc[p].key ELSE Plain)
    BY DEF Put
  <2>2. \A c \in 1..MaxBlobs : blob[c] # Plain => blob'[c] # Plain
    BY <1>2, <1>3, <2>1 DEF Put, Store, TypeOK
  <2>3. QED
    BY <1>5, <2>2 DEF Put, Live
<1>7. CASE \E p \in Servers : Drop(p)
  <2>1. \A c \in 1..MaxBlobs : blob[c] # Plain => blob'[c] # Plain
    BY <1>1, <1>7 DEF Drop, Store, TypeOK
  <2>2. QED
    BY <1>5, <1>7, <2>1 DEF Drop, Live
<1>8. CASE \E p \in Migrators : PutAt(p)
  <2> PICK p \in Migrators : PutAt(p)
    BY <1>8
  <2>1. proc[p].key # Plain
    BY <1>2, <1>3 DEF PutAt
  <2>2. \A c \in 1..MaxBlobs : blob[c] # Plain => blob'[c] # Plain
    BY <2>1 DEF PutAt, Store, TypeOK
  <2>3. QED
    BY <1>5, <2>2 DEF PutAt, Live
<1>9. CASE \E p \in Servers : WriteRow(p)
  <2> PICK p \in Servers : WriteRow(p)
    BY <1>9
  <2>1. UNCHANGED blob /\ proc[p].file \in Files /\ proc[p].path \in 1..MaxBlobs /\ blob[proc[p].path] # Plain
    BY DEF WriteRow, OnePath, Stored, Marks, At
  <2>2. \A f \in Files : row'[f] = row[f] \/ row'[f].blob = proc[p].path
    BY <2>1 DEF WriteRow, TypeOK
  <2>3. QED
    BY <2>1, <2>2 DEF Sealed, Live
<1>10. CASE \E p \in Servers, f \in Files : Purge(p, f)
  <2>1. UNCHANGED blob /\ \A f \in Files : row'[f] = row[f] \/ row'[f].status = "gone"
    BY <1>10 DEF Purge, NoRow, TypeOK
  <2>2. QED
    BY <2>1 DEF Sealed, Live
<1>11. CASE (\E f \in Files : Trash(f)) \/ (\E p \in Migrators : Mark(p))
  <2>1. /\ UNCHANGED blob
        /\ \A f \in Files : row'[f].blob = row[f].blob /\ (row'[f].status = row[f].status \/ row[f].status = "active")
    <3>1. CASE \E f \in Files : Trash(f)
      BY <3>1 DEF Trash, TypeOK
    <3>2. CASE \E p \in Migrators : Mark(p)
      BY <3>2 DEF Mark, TypeOK
    <3>3. QED
      BY <1>11, <3>1, <3>2
  <2>2. QED
    BY <1>5, <2>1 DEF Live
<1>12. CASE UNCHANGED <<row, blob>>
  BY <1>5, <1>12 DEF Live
<1>13. QED
  <2>1. \A p \in Processes : Step(p) => UNCHANGED <<row, blob>>
    BY DEF Step, LookUp, Create, Fail, Restart
  <2>2. \A p \in Servers, f \in Files : Upload(p, f) \/ Overwrite(p, f) => UNCHANGED <<row, blob>>
    BY DEF Upload, Overwrite
  <2>3. \A p \in Migrators : Scan(p) \/ ReadRaw(p) => UNCHANGED <<row, blob>>
    BY DEF Scan, ReadRaw
  <2>4. QED
    BY <1>2, <1>6, <1>7, <1>8, <1>9, <1>10, <1>11, <1>12, <2>1, <2>2, <2>3 DEF Next, Serve, Migrate

\* A row becomes marked only when the migration holds its file, and then the
\* row's blob is encrypted.
LEMMA RowMark ==
  ASSUME EncryptionAssumption, KeyInv, Marks, Next
  PROVE  \A f \in Files : row'[f].enc => Live(f)' /\ blob'[row'[f].blob] # Plain
<1> USE DEF KeyInv
<1>1. \A b \in 1..MaxBlobs : blob[b] # Plain => blob'[b] # Plain
  BY StaysSealed
<1>2. \A f \in Files : /\ row[f].enc => Live(f) /\ blob[row[f].blob] # Plain
                       /\ Live(f) => row[f].blob \in 1..MaxBlobs
  BY DEF Marks, OnePath, Stored
<1>3. ASSUME \A f \in Files : row'[f].enc => row[f].enc /\ row'[f].blob = row[f].blob /\ Live(f)'
      PROVE  \A f \in Files : row'[f].enc => Live(f)' /\ blob'[row'[f].blob] # Plain
  BY <1>1, <1>2, <1>3
<1>4. CASE \E p \in Servers : WriteRow(p)
  <2> PICK p \in Servers : WriteRow(p)
    BY <1>4
  <2>1. UNCHANGED blob /\ proc[p].file \in Files /\ blob[proc[p].path] # Plain
    BY DEF WriteRow, OnePath, Marks, At
  <2>2. \A f \in Files : row'[f] = row[f] \/ (row'[f].blob = proc[p].path /\ row'[f].status = "active")
    BY <2>1 DEF WriteRow, TypeOK
  <2>3. QED
    BY <1>2, <2>1, <2>2 DEF Live
<1>5. CASE \E p \in Servers, f \in Files : Purge(p, f)
  <2>1. \A f \in Files : row'[f] = row[f] \/ ~row'[f].enc
    BY <1>5 DEF Purge, NoRow, TypeOK
  <2>2. QED
    BY <1>2, <1>3, <2>1 DEF Live
<1>6. CASE \E f \in Files : Trash(f)
  <2>1. \A f \in Files : /\ row'[f].enc = row[f].enc /\ row'[f].blob = row[f].blob
                         /\ row'[f].status \in {row[f].status, "trashed"}
    BY <1>6 DEF Trash, TypeOK
  <2>2. QED
    BY <1>2, <1>3, <2>1 DEF Live
<1>7. CASE \E p \in Migrators : Mark(p)
  <2> PICK p \in Migrators : Mark(p)
    BY <1>7
  <2>1. /\ proc[p].file \in Files /\ row[proc[p].file].status # "none" /\ Sealed(proc[p].file, proc[p].path)
        /\ blob[proc[p].path] # Plain /\ UNCHANGED blob
    BY DEF Mark, Listed, Marks, At
  <2>2. \A f \in Files : row'[f] = row[f] \/ (f = proc[p].file /\ Live(f)' /\ Live(f) /\ row'[f].blob = row[f].blob)
    BY <2>1 DEF Mark, Live, TypeOK
  <2>3. \A f \in Files : f = proc[p].file /\ Live(f) => blob[row[f].blob] # Plain
    BY <2>1 DEF Sealed
  <2>4. QED
    BY <1>2, <2>1, <2>2, <2>3 DEF Live
<1>8. CASE UNCHANGED row
  BY <1>2, <1>3, <1>8 DEF Live
<1>9. QED
  <2>1. \A p \in Processes : Step(p) => UNCHANGED row
    BY DEF Step, LookUp, Create, Fail, Restart
  <2>2. \A p \in Servers, f \in Files : Upload(p, f) \/ Overwrite(p, f) \/ Put(p) \/ Drop(p) => UNCHANGED row
    BY DEF Upload, Overwrite, Put, Drop
  <2>3. \A p \in Servers : Put(p) \/ Drop(p) => UNCHANGED row
    BY DEF Put, Drop
  <2>4. \A p \in Migrators : Scan(p) \/ ReadRaw(p) \/ PutAt(p) => UNCHANGED row
    BY DEF Scan, ReadRaw, PutAt
  <2>5. QED
    BY <1>4, <1>5, <1>6, <1>7, <1>8, <2>1, <2>2, <2>3, <2>4 DEF Next, Serve, Migrate, Processes

LEMMA MarkStep ==
  ASSUME EncryptionAssumption, ~Toggles, KeyInv, Marks, Next
  PROVE  Marks'
<1> USE DEF KeyInv
<1>1. /\ \A b \in 1..MaxBlobs : blob[b] # Plain => blob'[b] # Plain
      /\ \A f \in Files : \A b : Sealed(f, b) => Sealed(f, b)'
  BY StaysSealed
<1>2. /\ on = Processes
      /\ \A p \in Servers : p \in Processes /\ p \notin Migrators
      /\ \A p \in Migrators : p \in Processes /\ p \notin Servers /\ proc[p] \in Proc
  BY DEF EncryptionAssumption, Processes, Marks, TypeOK
<1>3. on' = Processes
  <2>1. \A p \in Processes : Step(p) => UNCHANGED on
    BY DEF Step, LookUp, Create, Fail, Restart
  <2>2. \A p \in Servers : Serve(p) => UNCHANGED on
    BY DEF Serve, Upload, Overwrite, Purge, Put, WriteRow, Drop
  <2>3. \A p \in Migrators : Migrate(p) => UNCHANGED on
    BY DEF Migrate, Scan, ReadRaw, PutAt, Mark
  <2>4. QED
    BY <1>2, <2>1, <2>2, <2>3 DEF Next, Trash
<1>4. ASSUME NEW q \in Servers, At(q, "row")'
      PROVE  blob'[proc'[q].path] # Plain
  <2>1. CASE proc'[q] = proc[q]
    BY <1>1, <1>4, <2>1 DEF Marks, OnePath, Stored, At
  <2>2. CASE Put(q)
    <3>1. PICK b \in 1..MaxBlobs : Store(b, IF q \in on THEN proc[q].key ELSE Plain) /\ Becomes(q, Having(q, b))
      BY <2>2 DEF Put
    <3>2. proc[q].key # Plain
      BY <1>2, <2>2 DEF Put, OneKey, Plain
    <3>3. proc'[q].path = b /\ blob'[b] = proc[q].key
      BY <1>2, <3>1 DEF Becomes, Having, Job, Store, TypeOK
    <3>4. QED
      BY <3>2, <3>3
  <2>3. CASE proc'[q] # proc[q] /\ ~Put(q)
    <3>1. ASSUME NEW p \in Processes, NEW r, Becomes(p, r)
          PROVE  p = q /\ r.at = "row"
      BY <1>2, <1>4, <2>3, <3>1 DEF Becomes, At, TypeOK
    <3>2. \A p \in Processes : ~Step(p)
      BY <3>1, <1>2 DEF Step, LookUp, Create, Fail, Restart, Over, Idle, Holding, Job
    <3>3. \A p \in Servers : ~Serve(p)
      <4>1. ASSUME NEW p \in Servers, NEW f \in Files, Upload(p, f) \/ Overwrite(p, f) \/ Purge(p, f)
            PROVE  FALSE
        <5>1. CASE Upload(p, f)
          BY <1>2, <3>1, <5>1 DEF Upload, PutStep, Job
        <5>2. CASE Overwrite(p, f)
          BY <1>2, <3>1, <5>2 DEF Overwrite, PutStep, Job
        <5>3. CASE Purge(p, f)
          BY <1>2, <3>1, <5>3 DEF Purge, Dropping, Job
        <5>4. QED
          BY <4>1, <5>1, <5>2, <5>3
      <4>2. ASSUME NEW p \in Servers, WriteRow(p) \/ Drop(p)
            PROVE  FALSE
        <5>1. Idle.at = "idle" /\ \A f, b : Dropping(f, b).at = "drop"
          BY DEF Idle, Dropping, Job
        <5>2. QED
          BY <1>2, <3>1, <4>2, <5>1 DEF WriteRow, Drop
      <4>3. \A p \in Servers : Put(p) => p = q
        BY <1>2, <3>1 DEF Put
      <4>4. QED
        BY <2>3, <4>1, <4>2, <4>3 DEF Serve
    <3>4. \A p \in Migrators : ~Migrate(p)
      <4>1. \A p \in Migrators : Migrate(p) => \E r : Becomes(p, r)
        BY DEF Migrate, Scan, ReadRaw, PutAt, Mark
      <4>2. QED
        BY <1>2, <3>1, <4>1
    <3>5. QED
      BY <1>2, <2>3, <3>2, <3>3, <3>4 DEF Next, Trash
  <2>4. QED
    BY <2>1, <2>2, <2>3
<1>5. \A q \in Migrators : /\ \A x \in proc[q].todo : x.file \in Files /\ Sealed(x.file, x.blob)'
                           /\ proc[q].at \in {"key", "insert", "put", "mark"} =>
                                /\ proc[q].file \in Files /\ Stored(proc[q].path)
                                /\ \A f, b : f = proc[q].file /\ b = proc[q].path => Sealed(f, b)'
  <2>1. \A q \in Migrators : \A x \in proc[q].todo : x.file \in Files
    BY <1>2 DEF Proc
  <2>2. QED
    BY <1>1, <2>1 DEF Marks, Listed
<1>6. \A rest : Over(rest).at \in {"idle", "next"} /\ Over(rest).todo = rest
  BY DEF Over, Job
<1>7. ASSUME NEW q \in Migrators
      PROVE  /\ \A x \in proc'[q].todo : Sealed(x.file, x.blob)'
             /\ proc'[q].at \in {"key", "insert", "put", "mark"} => Sealed(proc[q].file, proc[q].path)'
             /\ At(q, "mark")' => blob'[proc'[q].path] # Plain
  <2>1. ASSUME NEW r, Becomes(q, r),
               \A x \in r.todo : Sealed(x.file, x.blob)',
               r.at \in {"key", "insert", "put", "mark"} => Sealed(r.file, r.path)',
               r.at = "mark" => blob'[r.path] # Plain
        PROVE  /\ \A x \in proc'[q].todo : Sealed(x.file, x.blob)'
               /\ proc'[q].at \in {"key", "insert", "put", "mark"} => Sealed(proc[q].file, proc[q].path)'
               /\ At(q, "mark")' => blob'[proc'[q].path] # Plain
    <3>1. proc'[q] = r
      BY <1>2, <2>1 DEF Becomes, TypeOK
    <3>2. QED
      BY <2>1, <3>1 DEF At
  <2>2. CASE proc'[q] = proc[q]
    <3>1. At(q, "mark") => Stored(proc[q].path) /\ blob[proc[q].path] # Plain
      BY <1>5 DEF Marks, At
    <3>2. At(q, "mark")' => blob'[proc'[q].path] # Plain
      BY <1>1, <2>2, <3>1 DEF At, Stored
    <3>3. QED
      BY <1>5, <2>2, <3>2
  <2>3. CASE LookUp(q) \/ Create(q) \/ PutAt(q)
    <3>1. PICK r : /\ Becomes(q, r) /\ r.at \in {"insert", "put", "mark"} /\ (r.at = "mark" => PutAt(q))
                   /\ r.file = proc[q].file /\ r.path = proc[q].path /\ r.todo = proc[q].todo
      BY <2>3 DEF LookUp, Create, PutAt, Holding, To, Job
    <3>2. proc[q].at \in {"key", "insert", "put"}
      BY <2>3 DEF LookUp, Create, PutAt, At
    <3>3. ASSUME PutAt(q)
          PROVE  blob'[proc[q].path] # Plain
      <4>1. proc[q].key # Plain
        BY <1>2, <3>3 DEF PutAt, OneKey, Plain
      <4>2. proc[q].path \in 1..MaxBlobs
        BY <3>3 DEF PutAt, At, Listed, Stored
      <4>3. QED
        BY <3>3, <4>1, <4>2 DEF PutAt, Store, TypeOK
    <3>4. QED
      BY <1>5, <2>1, <3>1, <3>2, <3>3
  <2>4. CASE Mark(q) \/ Fail(q)
    <3>1. Becomes(q, Over(proc[q].todo))
      BY <2>4 DEF Mark, Fail
    <3>2. QED
      BY <1>5, <1>6, <2>1, <3>1
  <2>5. CASE Restart(q)
    <3>1. Becomes(q, Idle) /\ Idle.at = "idle" /\ Idle.todo = {}
      BY <2>5 DEF Restart, Idle, Job
    <3>2. QED
      BY <2>1, <3>1
  <2>6. CASE Scan(q)
    <3>1. Becomes(q, Over(Batch)) /\ UNCHANGED <<row, blob>>
      BY <2>6 DEF Scan
    <3>2. \A x \in Batch : Sealed(x.file, x.blob)'
      BY <3>1, BatchType DEF Sealed
    <3>3. QED
      BY <1>6, <2>1, <3>1, <3>2
  <2>7. CASE ReadRaw(q)
    <3>1. PICK x \in proc[q].todo :
            \/ Becomes(q, Over(proc[q].todo \ {x}))
            \/ Becomes(q, Job(IF blob[x.blob] = Plain THEN "key" ELSE "mark", x.file, 0, x.blob, 0, proc[q].todo \ {x}))
      BY <2>7 DEF ReadRaw
    <3>2. CASE Becomes(q, Over(proc[q].todo \ {x}))
      BY <1>5, <1>6, <2>1, <3>2
    <3>3. CASE Becomes(q, Job(IF blob[x.blob] = Plain THEN "key" ELSE "mark", x.file, 0, x.blob, 0, proc[q].todo \ {x}))
      <4> DEFINE r == Job(IF blob[x.blob] = Plain THEN "key" ELSE "mark", x.file, 0, x.blob, 0, proc[q].todo \ {x})
      <4>1. /\ r.at = (IF blob[x.blob] = Plain THEN "key" ELSE "mark") /\ r.file = x.file /\ r.path = x.blob
            /\ r.todo = proc[q].todo \ {x} /\ Becomes(q, r)
        BY <3>3 DEF Job
      <4>2. UNCHANGED blob
        BY <2>7 DEF ReadRaw
      <4> HIDE DEF r
      <4>3. QED
        BY <1>5, <2>1, <4>1, <4>2
    <3>4. QED
      BY <3>1, <3>2, <3>3
  <2>8. CASE \E p \in Processes : p # q /\ \E r : Becomes(p, r)
    <3>1. proc'[q] = proc[q]
      BY <1>2, <2>8 DEF Becomes, TypeOK
    <3>2. QED
      BY <2>2, <3>1
  <2>9. QED
    <3>1. \A p \in Servers : Serve(p) \/ Step(p) => p \in Processes /\ p # q /\ \E r : Becomes(p, r)
      BY <1>2 DEF Serve, Step, Upload, Overwrite, Purge, Put, WriteRow, Drop, LookUp, Create, Fail, Restart
    <3>2. \A p \in Migrators : Migrate(p) \/ Step(p) => p \in Processes /\ \E r : Becomes(p, r)
      BY <1>2 DEF Migrate, Step, Scan, ReadRaw, PutAt, Mark, LookUp, Create, Fail, Restart
    <3>3. \A f \in Files : Trash(f) => proc' = proc
      BY DEF Trash
    <3>4. QED
      BY <2>2, <2>3, <2>4, <2>5, <2>6, <2>7, <2>8, <3>1, <3>2, <3>3 DEF Next, Migrate, Step
<1>8. QED
  BY <1>3, <1>4, <1>7, RowMark DEF Marks

----------------------------------------------------------------------------
(* The theorems *)

LEMMA Begins ==
  ASSUME EncryptionAssumption, Init
  PROVE  KeyInv /\ Marks
<1>1. TypeOK
  BY InitType
<1>2. /\ \A p \in Processes : proc[p] = Idle /\ cache[p] = 0
      /\ \A b \in 1..MaxBlobs : blob[b] = (IF b \in Legacy THEN Plain ELSE Unused)
      /\ on = Processes /\ Servers \subseteq Processes /\ Migrators \subseteq Processes
  BY DEF Init, Processes
<1>3. Idle.at = "idle" /\ Idle.old = 0 /\ Idle.todo = {}
  BY DEF Idle, Job
<1>4. \A f \in Files : /\ Live(f) => f \in Legacy /\ row[f].blob = f
                       /\ ~row[f].enc
  BY DEF Init, Live, NoRow
<1>5. Legacy \subseteq 1..MaxBlobs /\ Plain # Unused /\ Plain # Gone
  BY DEF EncryptionAssumption, Plain, Unused, Gone
<1>6. OneKey
  BY <1>2, <1>3 DEF OneKey, At
<1>7. OnePath
  <2>1. \A f \in Files : Live(f) => Stored(row[f].blob) /\ blob[row[f].blob] # Gone
    BY <1>2, <1>4, <1>5 DEF Stored
  <2>2. \A f, g \in Files : Live(f) /\ Live(g) /\ f # g => row[f].blob # row[g].blob
    BY <1>4
  <2>3. \A p \in Servers : proc[p].at = "idle" /\ proc[p].old = 0
    BY <1>2, <1>3
  <2>4. QED
    BY <2>1, <2>2, <2>3 DEF OnePath, At
<1>8. Listed
  BY <1>2, <1>3 DEF Listed
<1>9. Marks
  BY <1>2, <1>3, <1>4 DEF Marks, At
<1>10. QED
  BY <1>1, <1>6, <1>7, <1>8, <1>9 DEF KeyInv

LEMMA Stutters ==
  ASSUME KeyInv, UNCHANGED vars
  PROVE  KeyInv' /\ (Marks => Marks')
BY DEF vars, KeyInv, TypeOK, OneKey, OnePath, Listed, Marks, Sealed, Live, Stored, At

\* What is stored, in use and listed, in every reachable state: one key for the
\* tenant (DEK, create), one path for each blob (Put), and a migration that
\* holds only paths that were stored (MigrateBatch).
THEOREM EncryptionKept ==
  ASSUME EncryptionAssumption
  PROVE  Spec => []KeyInv
<1>1. Init => KeyInv
  BY Begins
<1>2. KeyInv /\ [Next]_vars => KeyInv'
  <2>1. KeyInv /\ Next => KeyInv'
    BY TypeStep, KeyStep, PathStep, ListedStep DEF KeyInv
  <2>2. QED
    BY <2>1, Stutters
<1>3. QED
  BY <1>1, <1>2, PTL DEF Spec

\* However many processes make a key, restart, overwrite, purge and migrate,
\* with a key configured or without: what is listed or in the trash is stored
\* as it was sent or under the tenant's one key.
THEOREM StoredDecrypts ==
  ASSUME EncryptionAssumption
  PROVE  Spec => []Decryptable
<1>1. KeyInv => Decryptable
  BY DEF KeyInv, OneKey, OnePath, Live, Stored, Decryptable
<1>2. QED
  BY <1>1, EncryptionKept, PTL

\* While every process is started with the key, a file that is marked encrypted
\* is: the migration's mark never outruns an overwrite (migrateOne).
THEOREM MarkedSealed ==
  ASSUME EncryptionAssumption, ~Toggles
  PROVE  Spec => []MarkTrue
<1>1. Init => KeyInv /\ Marks
  BY Begins
<1>2. KeyInv /\ Marks /\ [Next]_vars => Marks'
  BY MarkStep, Stutters
<1>3. Marks => MarkTrue
  BY DEF Marks, MarkTrue
<1>4. QED
  BY <1>1, <1>2, <1>3, EncryptionKept, PTL DEF Spec

=============================================================================
