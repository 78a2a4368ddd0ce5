----------------------------- MODULE PagedLists -----------------------------
(***************************************************************************)
(* The pages that list the account's files a page at a time: Recent,       *)
(* Starred and the audit log (Recent.tsx, Starred.tsx, Activity.tsx).      *)
(* Every change of the sort, the filter, the page or the search sends a    *)
(* new request; what comes back is a copy of the server's list as it was   *)
(* when the request was served.  Files are numbered by age.                *)
(***************************************************************************)
EXTENDS Naturals, Sequences, FiniteSets

CONSTANTS Which,    \* the page: "recent", "starred" or "activity"
          N,        \* files there are to begin with
          PageSize,
          Odd,      \* files of the other type
          Match,    \* files the search finds
          MaxTasks, \* requests in flight
          Patient   \* the user waits for the answers before the next step

PagedAssumption == PageSize \in Nat \ {0} /\ Odd \cup Match \subseteq 1..N

VARIABLES live, stars, \* the server: files that are active, files that are starred
          ui,          \* the state of the page
          tasks        \* requests in flight, with what their closures captured

vars == <<live, stars, ui, tasks>>
Files == 1..N
Types == {"any", "odd"}
Nothing == [asked |-> [at |-> 0, dir |-> "desc", type |-> "any"], rows |-> <<>>, total |-> 0]
NoHits == [asked |-> FALSE, rows |-> <<>>]

Init == /\ live = Files /\ stars \in {{}, Files}
        /\ ui = [at |-> 1, dir |-> "desc", type |-> "any", query |-> FALSE, page |-> Nothing, hits |-> NoHits,
                 preview |-> 0, clicked |-> 0, dialog |-> 0]
        /\ tasks = {[kind |-> "page", n |-> 1, served |-> FALSE, live |-> TRUE, about |-> [at |-> 1, dir |-> "desc", type |-> "any"], back |-> Nothing]}
----------------------------------------------------------------------------
(* The server's lists.                                                     *)

Least(a, b) == IF a < b THEN a ELSE b
Row(f) == [id |-> f, star |-> f \in stars]
Rows(S, dir) == LET Ahead(f) == {g \in S : IF dir = "asc" THEN g < f ELSE g > f}
                IN  [i \in 1..Cardinality(S) |-> Row(CHOOSE f \in S : Cardinality(Ahead(f)) = i - 1)]
Listed(type) == {f \in live : (Which = "starred" => f \in stars) /\ (type = "odd" => f \in Odd)}
\* ListRecentPage, ListStarredPage, activity: a count, then a slice.
Listing(asked) == LET all == Rows(Listed(asked.type), asked.dir)
                  IN  [asked |-> asked, total |-> Len(all),
                       rows |-> SubSeq(all, (asked.at - 1) * PageSize + 1, Least(asked.at * PageSize, Len(all)))]
\* /api/search, from which Starred keeps the starred.
Found == Rows(Listed("any") \cap Match, "desc")
----------------------------------------------------------------------------
(* What the page asks for.                                                 *)

Asked(u) == [at |-> u.at, dir |-> u.dir, type |-> u.type]
Unused(ts) == CHOOSE n \in 1..(MaxTasks + 2) : \A t \in ts : t.n # n
Task(ts, kind, about) == [kind |-> kind, n |-> Unused(ts), served |-> FALSE, live |-> TRUE, about |-> about, back |-> Nothing]
DropNone == tasks
\* The effects' clean-ups: a search that is out is always dropped, a page only
\* by the audit log.
Drop == {IF t.kind = "search" \/ (t.kind = "page" /\ Which = "activity") THEN [t EXCEPT !.live = FALSE] ELSE t : t \in tasks}
\* The two effects: a search if there is a query, the page if not.
Refetch(u) == tasks' = Drop \cup {Task(Drop, IF u.query THEN "search" ELSE "page", Asked(u))}
Server == UNCHANGED <<live, stars>>

\* The skeleton has no controls; nothing else holds the user back.
Ready == /\ ui.page # Nothing /\ Cardinality(tasks) < MaxTasks /\ (Patient => tasks = {})
Free == Ready /\ ui.preview = 0 /\ ui.dialog = 0
Ask(u) == Free /\ ui' = u /\ Refetch(u) /\ Server

Shown == IF ui.query THEN ui.hits.rows ELSE ui.page.rows
TotalPages(total) == IF total = 0 THEN 1 ELSE (total + PageSize - 1) \div PageSize
\* currentPage and totalPages, as the pager shows them; the audit log clamps.
CurrentPage == IF ui.query THEN 1 ELSE IF Which = "activity" /\ ui.at > TotalPages(ui.page.total) THEN TotalPages(ui.page.total) ELSE ui.at

\* The pager: shown from two pages on, and its buttons lead to other pages.
Jump(p) == ~ui.query /\ p \in 1..TotalPages(ui.page.total) /\ p # CurrentPage /\ Ask([ui EXCEPT !.at = p])
\* A header: the order changes and the pager goes back to the first page.
Sort == Which # "activity" /\ ~ui.query /\ Ask([ui EXCEPT !.dir = IF @ = "asc" THEN "desc" ELSE "asc", !.at = 1])
\* A chip or a filter, which ends a search on the two file pages.
PickType(type) == Ask(IF Which = "activity" THEN [ui EXCEPT !.type = type, !.at = 1]
                      ELSE [ui EXCEPT !.type = type, !.at = 1, !.query = FALSE, !.hits = NoHits])
Search == ~ui.query /\ Which # "activity" /\ Ask([ui EXCEPT !.query = TRUE, !.at = 1, !.type = "any"])
ClearSearch == ui.query /\ Ask([ui EXCEPT !.query = FALSE, !.hits = NoHits])
----------------------------------------------------------------------------
(* The rows.                                                               *)

RowOf(f) == \E i \in 1..Len(Shown) : Shown[i].id = f
IsStarred(f) == \E i \in 1..Len(Shown) : Shown[i] = [id |-> f, star |-> TRUE]
\* What the row's two menus offer on Recent, and on Starred.
Offers(f) == Which # "activity" /\ Free /\ RowOf(f)
\* handleToggleStar captures the lists the page shows.
ToggleStar(f) == /\ Offers(f) /\ Server /\ UNCHANGED ui
                 /\ tasks' = tasks \cup {[Task(tasks, "star", [at |-> f, dir |-> "desc", type |-> IF IsStarred(f) THEN "off" ELSE "on"])
                                          EXCEPT !.back = [page |-> ui.page, hits |-> ui.hits]]}
AskTrash(f) == Offers(f) /\ ui' = [ui EXCEPT !.dialog = f] /\ UNCHANGED tasks /\ Server
\* Rename, move and move to trash: the dialog waits for the request; the page behind it does not change.
Confirm == /\ ui.dialog # 0 /\ ~\E t \in tasks : t.kind = "trash"
           /\ tasks' = tasks \cup {Task(tasks, "trash", [Asked(ui) EXCEPT !.at = ui.dialog])} /\ UNCHANGED ui /\ Server
OpenPreview(i) == /\ Which # "activity" /\ Free /\ i <= Len(Shown)
                  /\ ui' = [ui EXCEPT !.preview = i, !.clicked = Shown[i].id] /\ UNCHANGED tasks /\ Server
Arrow(i) == /\ ui.preview # 0 /\ i # ui.preview /\ i <= Len(Shown)
            /\ ui' = [ui EXCEPT !.preview = i, !.clicked = Shown[i].id] /\ UNCHANGED tasks /\ Server
ClosePreview == ui.preview # 0 /\ ui' = [ui EXCEPT !.preview = 0] /\ UNCHANGED tasks /\ Server
----------------------------------------------------------------------------
(* The server serves, the page takes the answers.                          *)

Served(t, ts) == tasks' = (tasks \ {t}) \cup {[t EXCEPT !.served = TRUE, !.back = IF t.kind \in {"star", "trash"} THEN @ ELSE ts]}
Serve(t) == /\ ~t.served /\ UNCHANGED ui
            /\ \/ t.kind = "page" /\ Server /\ Served(t, Listing(t.about))
               \/ t.kind = "search" /\ Server /\ Served(t, [asked |-> t.about, rows |-> Found, total |-> 0])
               \/ t.kind = "star" /\ Served(t, Nothing) /\ UNCHANGED live
                  /\ stars' = IF t.about.type = "on" THEN stars \cup {t.about.at} ELSE stars \ {t.about.at}
               \* renamed or moved, the file stays in the list
               \/ t.kind = "trash" /\ Served(t, Nothing) /\ live' \in {live \ {t.about.at}, live} /\ UNCHANGED stars

Done(t) == tasks' = tasks \ {t}
ShowPage(t) == /\ t.kind = "page" /\ t.served /\ Done(t) /\ Server
               /\ ui' = IF t.live THEN [ui EXCEPT !.page = t.back] ELSE ui
ShowHits(t) == /\ t.kind = "search" /\ t.served /\ Done(t) /\ Server
               /\ ui' = IF t.live THEN [ui EXCEPT !.hits = [asked |-> TRUE, rows |-> t.back.rows]] ELSE ui
\* Recent puts the answer into the list the click saw; Starred asks again.
Mark(rows, t) == [i \in 1..Len(rows) |-> IF rows[i].id = t.about.at THEN [rows[i] EXCEPT !.star = (t.about.type = "on")] ELSE rows[i]]
\* refreshTick: the effects run again, as the page is by now.
Reload(t) == LET ts == Drop \ {t} IN tasks' = ts \cup {Task(ts, IF ui.query THEN "search" ELSE "page", Asked(ui))}
Starred(t) == /\ t.kind = "star" /\ t.served /\ Server
              /\ IF Which = "recent"
                 THEN /\ Done(t)
                      /\ ui' = [ui EXCEPT !.page = [t.back.page EXCEPT !.rows = Mark(@, t)],
                                          !.hits = IF t.back.hits = NoHits THEN @ ELSE [t.back.hits EXCEPT !.rows = Mark(@, t)]]
                 ELSE Reload(t) /\ UNCHANGED ui
Trashed(t) == t.kind = "trash" /\ t.served /\ Server /\ Reload(t) /\ ui' = [ui EXCEPT !.dialog = 0]
----------------------------------------------------------------------------
User == \/ \E p \in 1..TotalPages(N) : Jump(p)
        \/ \E type \in Types : PickType(type)
        \/ \E f \in Files : ToggleStar(f) \/ AskTrash(f)
        \/ \E i \in 1..N : OpenPreview(i) \/ Arrow(i)
        \/ Sort \/ Search \/ ClearSearch \/ Confirm \/ ClosePreview
Next == User \/ \E t \in tasks : Serve(t) \/ ShowPage(t) \/ ShowHits(t) \/ Starred(t) \/ Trashed(t)
Spec == Init /\ [][Next]_vars
----------------------------------------------------------------------------
(* What must hold.                                                         *)

TypeOK == /\ live \subseteq Files /\ stars \subseteq Files
          /\ ui.at \in 1..TotalPages(N) /\ ui.dir \in {"asc", "desc"} /\ ui.type \in Types /\ ui.query \in BOOLEAN
          /\ ui.preview \in 0..N /\ ui.dialog \in 0..N
          /\ \A t \in tasks : t.kind \in {"page", "search", "star", "trash"} /\ t.live \in BOOLEAN /\ t.n \in 1..(MaxTasks + 2)

\* Once the list requests are answered, the rows are those of the page, the
\* order and the filter the controls show.
Pending(kind) == \E t \in tasks : t.kind = kind /\ t.live
ShownAsked == ~ui.query /\ ~Pending("page") => ui.page.asked = Asked(ui)

\* The results of an earlier search, or of one that was cleared, never come
\* up: whatever is searched for, the request that will answer is the last sent.
OneSearch == Cardinality({t \in tasks : t.kind = "search" /\ t.live}) <= 1 /\ (~ui.query => ui.hits = NoHits)

\* With nothing on its way the page is the server's list: what was unstarred
\* or trashed is gone from it, and what moved up has come.
ListTrue == tasks = {} /\ ~ui.query /\ ui.page # Nothing => ui.page.rows = Listing(ui.page.asked).rows

\* The stars that the rows show are the server's.
StarsShown == tasks = {} => \A i \in 1..Len(ui.page.rows) : ui.page.rows[i].star = (ui.page.rows[i].id \in stars)

\* The empty state means that there is nothing to show.
\* (Not kept by the code: see the README.)
EmptyTrue == tasks = {} /\ ~ui.query /\ ui.type = "any" /\ ui.page.rows = <<>> => Listed("any") = {}

\* The overlay shows the file that was opened or paged to.
\* (Not kept by the code: see the README.)
PreviewKept == ui.preview # 0 /\ ui.preview <= Len(Shown) => Shown[ui.preview].id = ui.clicked
=============================================================================
