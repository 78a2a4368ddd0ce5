---------------------------- MODULE FilePreview ----------------------------
(***************************************************************************)
(* The full-screen viewer over a folder's list (FilePreview.tsx), the      *)
(* editors it has for JSON and plain text, and the call they save with     *)
(* (SaveContent, OverwriteFile), which replaces the file's blob, keeps the *)
(* used bytes and writes the row, one step at a time.                      *)
(* A text is its length.  A version is the file's updated_at.              *)
(***************************************************************************)
EXTENDS Naturals, Sequences, FiniteSets

CONSTANTS Texts, Valid,  \* the texts; those the editor lets be saved
          StartInEdit,   \* the file is opened straight into the editor
          ByModified,    \* the folder is sorted by time, the latest first
          Others,        \* what other users do: a subset of {"save", "rename", "trash"}
          Patient,       \* one step at a time, everybody waiting for the answers
          Faults,
          MaxTasks, MaxVer, NONE

PreviewAssumption == Texts \subseteq Nat /\ Valid \subseteq Texts /\ MaxTasks \in Nat /\ MaxVer \in Nat

VARIABLES file, used, blobs, next, \* the service: two files, the used bytes, the stored blobs, the next version
          p, tasks

vars == <<file, used, blobs, next, p, tasks>>
service == <<file, used, blobs, next>>
Ids == {1, 2}
Small == CHOOSE x \in Texts : \A y \in Texts : x <= y
Numbers == 1..MaxTasks
Blank == [kind |-> "fetch", n |-> 1, id |-> 1, text |-> Small, by |-> "page", here |-> TRUE, at |-> "sent", name |-> 0, old |-> 0, size |-> 0, ver |-> 0]
Free(ts) == CHOOSE n \in Numbers : \A t \in ts : t.n # n
Send(r) == Cardinality(tasks) < MaxTasks /\ tasks' = tasks \cup {[r EXCEPT !.n = Free(tasks)]}
Newest(s) == IF Len(s) = 2 /\ ByModified /\ s[1].ver < s[2].ver THEN <<s[2], s[1]>> ELSE s
Init == /\ file = [i \in Ids |-> [text |-> Small, ver |-> i, name |-> 1, live |-> TRUE]] /\ used = 2 * Small /\ blobs = Ids /\ next = 3
        /\ tasks = {}
        /\ p = [list |-> Newest([i \in Ids |-> [id |-> i, ver |-> i]]), idx |-> 0, edit |-> FALSE, consumed |-> FALSE,
                state |-> "loading", view |-> NONE, mode |-> "view", draft |-> NONE, saving |-> FALSE, error |-> FALSE]
----------------------------------------------------------------------------
(* What the viewer shows is the row at its index, whatever row that is.    *)

Shown(page) == IF page.idx \in 1..Len(page.list) THEN page.list[page.idx] ELSE NONE
Fresh(page) == [page EXCEPT !.state = "loading", !.view = NONE, !.mode = "view", !.draft = NONE, !.saving = FALSE, !.consumed = FALSE, !.error = FALSE]
Away(ts) == {[t EXCEPT !.here = FALSE] : t \in {u \in ts : u.kind # "fetch"}}
Fetch(ts, row) == LET rest == {t \in ts : t.kind # "fetch"}
                  IN  Cardinality(rest) < MaxTasks /\ tasks' = rest \cup {[Blank EXCEPT !.id = row.id, !.n = Free(rest)]}
\* Another row is another component; another version of the row is read
\* again, in the viewing mode; an earlier reading is not heard any more.
Become(page, ts) ==
  LET old == Shown(p)
      new == Shown(page)
  IN  IF old = new THEN p' = page /\ tasks' = ts
      ELSE IF new = NONE THEN p' = Fresh(page) /\ tasks' = Away(ts)
      ELSE IF old # NONE /\ old.id = new.id THEN p' = [page EXCEPT !.state = "loading", !.mode = "view", !.error = FALSE] /\ Fetch(ts, new)
      ELSE p' = Fresh(page) /\ Fetch(Away(ts), new)
Waits == Patient => tasks = {}
Open == Shown(p) # NONE
Ready == Open /\ p.state = "ok"
Set(page) == p' = page /\ UNCHANGED <<service, tasks>>
openPreview(i) == ~Open /\ i \in 1..Len(p.list) /\ Become([p EXCEPT !.idx = i, !.edit = StartInEdit], tasks) /\ UNCHANGED service
\* The arrow keys are the editor's while it has them; the arrows on the
\* screen and the close button are there in either mode.
onIndexChange(i) == Open /\ Waits /\ i \in {p.idx - 1, p.idx + 1} \cap 1..Len(p.list)
                    /\ Become([p EXCEPT !.idx = i, !.edit = FALSE, !.draft = NONE], tasks) /\ UNCHANGED service
onClose == Open /\ Waits /\ Become([p EXCEPT !.idx = 0, !.edit = FALSE, !.draft = NONE], tasks) /\ UNCHANGED service
startEdit == Ready /\ Waits /\ p.mode = "view" /\ Set([p EXCEPT !.mode = "edit", !.draft = p.view, !.error = FALSE])
Type(x) == Ready /\ Waits /\ p.mode = "edit" /\ x # p.draft /\ Set([p EXCEPT !.draft = x])
\* Cancel and Escape give the draft up.
Cancel == Ready /\ Waits /\ p.mode = "edit" /\ Set([p EXCEPT !.mode = "view", !.draft = NONE])
save == /\ Ready /\ Waits /\ p.mode = "edit" /\ ~p.saving /\ p.draft \in Valid
        /\ Send([Blank EXCEPT !.kind = "save", !.id = Shown(p).id, !.text = p.draft])
        /\ p' = [p EXCEPT !.saving = TRUE, !.error = FALSE] /\ UNCHANGED service
\* The page reads its folder again, for reasons of its own.
Rows == LET live == {i \in Ids : file[i].live}
            row(i) == [id |-> i, ver |-> file[i].ver]
        IN  IF live = Ids THEN Newest(<<row(1), row(2)>>) ELSE IF live = {} THEN <<>> ELSE <<row(CHOOSE i \in live : TRUE)>>
Reload == Others # {} /\ Waits /\ p.list # Rows /\ Become([p EXCEPT !.list = Rows], tasks) /\ UNCHANGED service
----------------------------------------------------------------------------
(* The service.                                                            *)

Upd(t, u) == tasks' = (tasks \ {t}) \cup {u}
Page(t) == UNCHANGED p /\ t.at # "ok" /\ t.at # "failed"
Download(t) == /\ t.kind = "fetch" /\ UNCHANGED service
               /\ Upd(t, [t EXCEPT !.at = IF file[t.id].live THEN "ok" ELSE "failed", !.text = file[t.id].text])
\* The name is read for the row that is written at the end.
ContentLocation(t) == /\ t.kind = "save" /\ t.at = "sent" /\ file[t.id].live /\ UNCHANGED service
                      /\ Upd(t, [t EXCEPT !.at = "located", !.name = file[t.id].name])
\* The size and the blob it replaces are read before the row is locked.
PutBlob(t) == /\ t.at = "located" /\ file[t.id].live /\ next <= MaxVer /\ next' = next + 1 /\ blobs' = blobs \cup {next}
              /\ Upd(t, [t EXCEPT !.at = "put", !.ver = next, !.old = file[t.id].ver, !.size = file[t.id].text])
              /\ UNCHANGED <<file, used>>
Written(t) == [file EXCEPT ![t.id].text = t.text, ![t.id].ver = t.ver, ![t.id].name = t.name]
CommitUncharged(t) == t.at = "put" /\ file[t.id].live /\ file' = Written(t) /\ Upd(t, [t EXCEPT !.at = "drop"]) /\ UNCHANGED <<used, blobs, next>>
Commit(t) == /\ t.at = "put" /\ file[t.id].live /\ file' = Written(t) /\ used' = used + t.text - t.size
             /\ Upd(t, [t EXCEPT !.at = "drop"]) /\ UNCHANGED <<blobs, next>>
DropOld(t) == t.at = "drop" /\ blobs' = blobs \ {t.old} /\ Upd(t, [t EXCEPT !.at = "ok"]) /\ UNCHANGED <<file, used, next>>
Fail(t) == /\ t.at \in {"sent", "located", "put"} /\ (Faults \/ ~file[t.id].live) /\ Upd(t, [t EXCEPT !.at = "failed"])
           /\ blobs' = IF t.at = "put" THEN blobs \ {t.ver} ELSE blobs
           /\ UNCHANGED <<file, used, next>>
Serve(t) == Page(t) /\ (Download(t) \/ ContentLocation(t) \/ PutBlob(t) \/ Commit(t) \/ DropOld(t) \/ Fail(t))
Other == /\ Waits /\ UNCHANGED p
         /\ \E i \in Ids : file[i].live /\
              \/ "save" \in Others /\ UNCHANGED service /\ \E x \in Valid : Send([Blank EXCEPT !.kind = "save", !.id = i, !.text = x, !.by = "other"])
              \/ "rename" \in Others /\ file[i].name = 1 /\ file' = [file EXCEPT ![i].name = 2] /\ UNCHANGED <<used, blobs, next, tasks>>
              \/ "trash" \in Others /\ file' = [file EXCEPT ![i].live = FALSE] /\ UNCHANGED <<used, blobs, next, tasks>>
----------------------------------------------------------------------------
(* The answers.                                                            *)

Loaded(t) ==
  /\ t.kind = "fetch" /\ tasks' = tasks \ {t}
  /\ p' = IF t.at = "failed" THEN [p EXCEPT !.state = "error"]
          ELSE IF p.edit /\ ~p.consumed THEN [p EXCEPT !.state = "ok", !.view = t.text, !.consumed = TRUE, !.draft = t.text, !.mode = "edit"]
          ELSE [p EXCEPT !.state = "ok", !.view = t.text]
\* The row takes the new version, also when the viewer shows another.
SavedTo(t) == LET row(r) == IF r.id = t.id THEN [r EXCEPT !.ver = t.ver] ELSE r
              IN  Newest([j \in 1..Len(p.list) |-> row(p.list[j])])
Saved(t) ==
  /\ t.kind = "save"
  /\ IF t.at = "failed" THEN /\ tasks' = tasks \ {t}
                             /\ p' = IF t.here THEN [p EXCEPT !.saving = FALSE, !.error = TRUE] ELSE p
     ELSE LET here == [p EXCEPT !.saving = FALSE, !.view = t.text, !.mode = "view", !.state = "ok"]
          IN  Become([(IF t.here THEN here ELSE p) EXCEPT !.list = SavedTo(t)], tasks \ {t})
Answer(t) == /\ t.at \in {"ok", "failed"} /\ UNCHANGED service
             /\ IF t.by = "other" THEN tasks' = tasks \ {t} /\ UNCHANGED p ELSE Loaded(t) \/ Saved(t)
Next == \/ \E i \in Ids : openPreview(i) \/ onIndexChange(i)
        \/ \E x \in Texts : Type(x)
        \/ onClose \/ startEdit \/ Cancel \/ save \/ Reload \/ Other
        \/ \E t \in tasks : Serve(t) \/ Answer(t)
Spec == Init /\ [][Next]_vars
----------------------------------------------------------------------------
Saves == {t \in tasks : t.kind = "save" /\ t.at \notin {"ok", "failed"}}
TypeOK == /\ used \in Nat /\ blobs \subseteq 1..MaxVer /\ p.mode \in {"view", "edit"} /\ p.state \in {"loading", "ok", "error"}
          /\ p.view \in Texts \cup {NONE} /\ (p.mode = "edit" => p.draft \in Texts)

\* With no save under way, the used bytes are those of the files.
UsedExact == Saves = {} => used = file[1].text + file[2].text

\* With no save under way, the blobs are those of the files.
BlobsExact == Saves = {} => blobs = {file[i].ver : i \in Ids}

\* A name, once given, is not taken back by a save.
NameKept == \A i \in Ids : file[i].name <= file'[i].name

\* A viewer at rest shows what the file holds.
ViewTrue == Ready /\ tasks = {} /\ p.mode = "view" => p.view = file[Shown(p).id].text

\* A draft is saved or given up, never dropped.
DraftKept == p.mode = "edit" /\ p'.mode = "view" =>
                (p'.draft = NONE /\ ~p.saving) \/ p'.view = p.draft \/ file[Shown(p).id].text = p.draft

\* The viewer goes to another file only when it is told to.
StaysOn == Open /\ Shown(p') # NONE /\ p'.idx = p.idx => Shown(p').id = Shown(p).id
=============================================================================
