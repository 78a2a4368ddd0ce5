------------------------------ MODULE TrashView ------------------------------
(***************************************************************************)
(* The trash as the browser shows it: the Trash page, the sidebar's badge, *)
(* meter and drop target, the file browser's rows and Home's feed, kept in *)
(* step by window events (Trash.tsx, Sidebar.tsx, events.ts, Home.tsx).    *)
(* Each keeps a copy of what the server said when it was last asked.       *)
(***************************************************************************)
EXTENDS Naturals, FiniteSets

CONSTANTS Items,    \* files and folders; each is a batch when trashed
          Hidden,   \* those the page's search leaves out
          Routes,   \* the pages visited, among "trash", "files", "home"
          Faults,   \* a request to trash, restore or purge may fail
          MaxTasks, \* requests in flight
          Patient,  \* the user waits for the answers before the next step, and
                    \* with rows selected uses the bulk bar only
          NONE

ViewAssumption == Hidden \subseteq Items /\ Routes \subseteq {"trash", "files", "home"}

VARIABLES where,  \* the server: each item is "live", in the "bin", or "gone"
          at,     \* the route, and how often a page has been mounted
          page,   \* the Trash page, or the rows of the file browser
          dialog, \* the confirmation that is open
          side,   \* the sidebar's badge and meter
          tasks,  \* requests in flight
          told    \* the drop under way has signalled its end

vars == <<where, at, page, dialog, side, tasks, told>>
In(place) == {i \in Items : where[i] = place}
Used == Cardinality(Items \ In("gone"))
Fresh == [list |-> {}, loading |-> TRUE, selected |-> {}, search |-> FALSE, row |-> NONE, bulk |-> FALSE]
Closed == [kind |-> NONE, item |-> NONE, busy |-> FALSE]

Numbers == 1..(MaxTasks + Cardinality(Items) + 4)
Unused(ts) == CHOOSE n \in Numbers : \A t \in ts : t.n # n
Request(ts, kind, item, by, rest) == [kind |-> kind, n |-> Unused(ts), item |-> item, by |-> by, rest |-> rest, mount |-> at.mount, said |-> "no", ans |-> {}]
Send(ts, kind, item, by, rest) == ts \cup {Request(ts, kind, item, by, rest)}
Get(ts, kind) == Send(ts, kind, NONE, "page", {})

Init == /\ where \in [Items -> {"live", "bin"}] /\ at \in [route : Routes, mount : {1}]
        /\ page = Fresh /\ dialog = Closed /\ side = [badge |-> Cardinality(In("bin")), meter |-> Used] /\ told = TRUE
        /\ tasks = {[kind |-> "list", n |-> 1, item |-> NONE, by |-> "page", rest |-> {}, mount |-> 1, said |-> "no", ans |-> {}]}
----------------------------------------------------------------------------
(* The events and who listens.                                             *)

\* "trash-changed": the badge; "storage-changed": the meter;
\* "items-trashed": the file browser, if it is the page.
TrashChanged(ts) == Get(ts, "count")
StorageChanged(ts) == Get(ts, "quota")
Load(ts) == Get(ts, "list")
ItemsTrashed(ts) == IF at.route = "files" THEN Load(ts) ELSE ts

MayAct == (Patient => tasks = {}) /\ Cardinality(tasks) < MaxTasks
On(route) == at.route = route /\ MayAct /\ dialog.kind = NONE
\* The sidebar asks again on each navigation; the new page asks for its rows.
\* (The mounts are told apart by turns: a page's requests end before the next
\* page of their turn is opened.)
Navigate(route) == /\ On(at.route) /\ route # at.route /\ \A t \in tasks : t.mount = at.mount
                   /\ at' = [route |-> route, mount |-> 3 - at.mount] /\ page' = Fresh
                   /\ LET ts == Get(Get(tasks, "count"), "quota")
                      IN  tasks' = ts \cup {[Request(ts, "list", NONE, "page", {}) EXCEPT !.mount = 3 - at.mount]}
                   /\ UNCHANGED <<where, dialog, side, told>>
----------------------------------------------------------------------------
(* The Trash page.                                                         *)

Filtered == page.list \ (IF page.search THEN Hidden ELSE {})
Rows == IF page.loading THEN {} ELSE Filtered
\* The two buttons of a row.
RowOf(i) == i \in Rows /\ page.row = NONE /\ ~page.bulk /\ (Patient => page.selected = {})
Page(p) == page' = p /\ UNCHANGED <<where, at, dialog, side, tasks, told>>

ToggleOne(i) == /\ On("trash") /\ i \in Rows
                /\ Page([page EXCEPT !.selected = IF i \in @ THEN @ \ {i} ELSE @ \cup {i}])
ToggleAll == /\ On("trash") /\ Filtered # {}
             /\ Page([page EXCEPT !.selected = IF Filtered \subseteq @ THEN {} ELSE Filtered])
Deselect == On("trash") /\ page.selected # {} /\ Page([page EXCEPT !.selected = {}])
\* A search, or the end of one, drops the selection.
SearchFor == On("trash") /\ Page([page EXCEPT !.search = ~@, !.selected = {}])

Act(p, ts) == page' = p /\ tasks' = ts /\ UNCHANGED <<where, at, dialog, side, told>>
Open(d) == dialog' = d /\ UNCHANGED <<where, at, page, side, tasks, told>>
\* onRestore: one row at a time, and none during a bulk action.
Restore(i) == /\ On("trash") /\ RowOf(i)
              /\ Act([page EXCEPT !.row = i], Send(tasks, "restore", i, "row", {}))
AskPurge(i) == /\ On("trash") /\ RowOf(i)
               /\ Open([kind |-> "purge", item |-> i, busy |-> FALSE])
\* bulkRestore: the selection, one request after another.
BulkRestore == /\ On("trash") /\ page.selected # {} /\ ~page.bulk
               /\ \E i \in page.selected : Act([page EXCEPT !.bulk = TRUE], Send(tasks, "restore", i, "bulk", page.selected \ {i}))
AskBulk == On("trash") /\ page.selected # {} /\ ~page.bulk /\ Open([kind |-> "bulk", item |-> NONE, busy |-> FALSE])
----------------------------------------------------------------------------
(* The file browser, the drop target and Home's feed.                      *)

AskTrash(i) == /\ (On("files") /\ i \in Rows) \/ (On("home") /\ where[i] = "live")
               /\ Open([kind |-> at.route, item |-> i, busy |-> FALSE])
\* handleDropToTrash: every delete at once.
Drop(S) == /\ On("files") /\ S # {} /\ S \subseteq Rows /\ ~\E t \in tasks : t.by = "drop" /\ t.kind = "trash"
           /\ told' = FALSE /\ UNCHANGED <<where, at, page, dialog, side>>
           /\ \E f \in [S -> Numbers] : /\ \A i, j \in S : f[i] = f[j] => i = j
                                        /\ \A i \in S, t \in tasks : f[i] # t.n /\ f[i] <= Cardinality(tasks) + Cardinality(S)
                                        /\ tasks' = tasks \cup {[Request(tasks, "trash", i, "drop", {}) EXCEPT !.n = f[i]] : i \in S}
\* ConfirmDialog: it closes when the request is answered well.
Confirm == /\ dialog.kind # NONE /\ ~dialog.busy /\ Cardinality(tasks) < MaxTasks
           /\ dialog' = [dialog EXCEPT !.busy = TRUE] /\ UNCHANGED <<where, at, page, side, told>>
           /\ IF dialog.kind # "bulk"
              THEN tasks' = Send(tasks, IF dialog.kind = "purge" THEN "purge" ELSE "trash", dialog.item, dialog.kind, {})
              ELSE \E i \in page.selected : tasks' = Send(tasks, "purge", i, "bulk", page.selected \ {i})
Cancel == dialog.kind # NONE /\ ~dialog.busy /\ Open(Closed)
----------------------------------------------------------------------------
(* The server.                                                             *)

Reading(t) == CASE t.kind = "list" -> IF at.route = "files" THEN In("live") ELSE IF at.route = "trash" THEN In("bin") ELSE {}
                [] t.kind = "count" -> In("bin")
                [] t.kind = "quota" -> Items \ In("gone")
Read(t) == /\ t.said = "no" /\ t.kind \in {"list", "count", "quota"}
           /\ tasks' = (tasks \ {t}) \cup {[t EXCEPT !.said = "ok", !.ans = Reading(t)]}
           /\ UNCHANGED <<where, at, page, dialog, side, told>>
\* Restore and PurgeBatch know only what is in the trash.
Possible(t) == where[t.item] = IF t.kind = "trash" THEN "live" ELSE "bin"
Becomes(t) == CASE t.kind = "trash" -> "bin" [] t.kind = "restore" -> "live" [] t.kind = "purge" -> "gone"
Serve(t) == /\ t.said = "no" /\ t.kind \in {"trash", "restore", "purge"}
            /\ \E said \in {"ok", "failed"} :
                 /\ said = "ok" => Possible(t)
                 /\ said = "failed" => Faults \/ ~Possible(t)
                 /\ where' = IF said = "ok" THEN [where EXCEPT ![t.item] = Becomes(t)] ELSE where
                 /\ tasks' = (tasks \ {t}) \cup {[t EXCEPT !.said = said]}
            /\ UNCHANGED <<at, page, dialog, side, told>>
----------------------------------------------------------------------------
(* The answers.                                                            *)

Mounted(t) == t.mount = at.mount
Rest(t) == tasks \ {t}
ShowList(t) == /\ t.kind = "list" /\ t.said = "ok" /\ tasks' = (IF at.route = "files" /\ Mounted(t) THEN StorageChanged(Rest(t)) ELSE Rest(t))
               /\ page' = (IF Mounted(t) THEN [page EXCEPT !.list = t.ans, !.loading = FALSE] ELSE page)
               /\ UNCHANGED <<where, at, dialog, side, told>>
ShowSide(t) == /\ t.kind \in {"count", "quota"} /\ t.said = "ok" /\ tasks' = Rest(t)
               /\ side' = (IF t.kind = "count" THEN [side EXCEPT !.badge = Cardinality(t.ans)] ELSE [side EXCEPT !.meter = Cardinality(t.ans)])
               /\ UNCHANGED <<where, at, page, dialog, told>>

OnPage(t, p) == IF Mounted(t) THEN p ELSE page
Restored(t) == /\ t.kind = "restore" /\ t.by = "row" /\ t.said # "no" /\ UNCHANGED <<where, at, dialog, side, told>>
               /\ page' = OnPage(t, [page EXCEPT !.row = NONE, !.loading = (@ \/ t.said = "ok")])
               /\ tasks' = IF t.said = "ok" THEN TrashChanged(Load(Rest(t))) ELSE Rest(t)
\* The loop stops at the first failure, with the selection as it was.
Settled(t) == IF t.kind = "purge" THEN [page EXCEPT !.selected = {}, !.loading = TRUE]
              ELSE [page EXCEPT !.selected = {}, !.loading = TRUE, !.bulk = FALSE]
Stopped(t) == IF t.kind = "purge" THEN page ELSE [page EXCEPT !.bulk = FALSE]
Looped(t) == /\ t.by = "bulk" /\ t.said # "no" /\ UNCHANGED <<where, at, side, told>>
             /\ IF t.said = "ok" /\ t.rest # {}
                THEN /\ \E i \in t.rest : tasks' = Send(Rest(t), t.kind, i, "bulk", t.rest \ {i})
                     /\ UNCHANGED <<page, dialog>>
                ELSE /\ tasks' = (IF t.said = "ok" THEN TrashChanged(Load(Rest(t))) ELSE Rest(t))
                     /\ page' = OnPage(t, IF t.said = "ok" THEN Settled(t) ELSE Stopped(t))
                     /\ dialog' = IF t.kind = "restore" THEN dialog ELSE IF t.said = "ok" THEN Closed ELSE [dialog EXCEPT !.busy = FALSE]
\* What the dialogs do when their request is done: Home's tells nobody.
After(t) == CASE t.by = "purge" -> TrashChanged(Load(Rest(t)))
              [] t.by = "files" -> TrashChanged(Load(Rest(t)))
              [] t.by = "home" -> Rest(t)
Answered(t) == /\ t.by \in {"purge", "files", "home"} /\ t.said # "no" /\ UNCHANGED <<where, at, side, told>>
               /\ tasks' = IF t.said = "ok" THEN After(t) ELSE Rest(t)
               /\ page' = IF t.by = "purge" /\ t.said = "ok" THEN [page EXCEPT !.loading = TRUE] ELSE page
               /\ dialog' = IF t.said = "ok" THEN Closed ELSE [dialog EXCEPT !.busy = FALSE]
\* Promise.all: the end of the drop is its last answer, or its first failure.
Dropped(t) == /\ t.by = "drop" /\ t.said # "no" /\ UNCHANGED <<where, at, page, dialog, side>>
              /\ LET last == ~\E u \in Rest(t) : u.by = "drop"
                     end == ~told /\ (last \/ t.said = "failed")
                 IN  /\ told' = (told \/ end)
                     /\ tasks' = IF end THEN TrashChanged(ItemsTrashed(Rest(t))) ELSE Rest(t)
----------------------------------------------------------------------------
User == \/ \E route \in Routes : Navigate(route)
        \/ \E i \in Items : ToggleOne(i) \/ Restore(i) \/ AskPurge(i) \/ AskTrash(i)
        \/ \E S \in SUBSET Items : Drop(S)
        \/ ToggleAll \/ Deselect \/ SearchFor \/ BulkRestore \/ AskBulk \/ Confirm \/ Cancel
Answer(t) == \/ Read(t) \/ Serve(t) \/ ShowList(t) \/ ShowSide(t)
             \/ Restored(t) \/ Looped(t) \/ Answered(t) \/ Dropped(t)
Answering == \E t \in tasks : Answer(t)
Next == User \/ Answering
Spec == Init /\ [][Next]_vars
----------------------------------------------------------------------------
(* What must hold.                                                         *)

TypeOK == /\ where \in [Items -> {"live", "bin", "gone"}] /\ at.route \in Routes /\ at.mount \in {1, 2}
          /\ page.list \subseteq Items /\ page.selected \subseteq Items /\ page.row \in Items \cup {NONE}
          /\ side.badge \in 0..Cardinality(Items) /\ side.meter \in 0..Cardinality(Items)
          /\ \A t \in tasks : t.n \in Numbers /\ t.rest \subseteq Items

Rested == tasks = {}
\* With nothing on its way the page lists what is in the trash: what was
\* restored or purged, one by one or together, is off it.
ListTrue == Rested /\ at.route = "trash" => page.list = In("bin")

\* The badge is live: "any trash mutation anywhere in the app emits
\* trash-changed".
BadgeTrue == Rested => side.badge = Cardinality(In("bin"))

\* The meter is live: "uploads/deletes/purges emit storage-changed".
\* (Not kept by the code: see the README.)
MeterTrue == Rested => side.meter = Used

\* After items were trashed, here or by a drop, the browser shows what is
\* left: "the reload below reflects reality".
FilesTrue == Rested /\ at.route = "files" => page.list = In("live")

\* What is selected is on the page ("drop selections when the visible set
\* changes out from under them").
\* (Not kept by the code: see the README.)
SelectionShown == Rested /\ at.route = "trash" => page.selected \subseteq Filtered

=============================================================================
