----------------------------- MODULE SharedPage -----------------------------
(***************************************************************************)
(* The Shared page (Shared.tsx): the shares and drop portals of a user,    *)
(* their row buttons, and the dialogs that make, edit and end them         *)
(* (ShareModal, PortalModal, Dialogs), against the sharing service.  A     *)
(* share is a link to an item, a portal a link into one.  Only shares the  *)
(* user made are here; the ones received have no button that changes them. *)
(***************************************************************************)
EXTENDS Naturals, FiniteSets

CONSTANTS Shares, Portals, \* the links there can be
          Item,            \* the file or folder each share is of
          People,          \* those one can share with
          Offers,          \* the operations the user tries
          Faults,          \* requests may fail
          Patient,         \* the user waits for answers before the next step
          MaxTasks, NONE

Links == Shares \cup Portals
Items == {Item[s] : s \in Shares}
SharedAssumption == NONE \notin Links \cup Items \cup People /\ Shares \cap Portals = {}

VARIABLES link,  \* the server's rows: "none", "on" or "off"
          item,  \* the items: "live", "renamed" or in the "bin"
          rows, prows, \* what the page lists; NONE before the first load
          busy, pBusy, \* the row whose request is out
          modal, \* the dialog that is open; turn tells it from the one before
          tasks,
          off    \* history: the portals whose Disable was pressed

vars == <<link, item, rows, prows, busy, pBusy, modal, tasks, off>>
Closed(turn) == [kind |-> NONE, of |-> NONE, to |-> NONE, sending |-> FALSE, made |-> NONE, sent |-> NONE, turn |-> turn]
Numbers == 1..MaxTasks
Unused(ts) == CHOOSE n \in Numbers : \A t \in ts : t.n # n
\* A request; after it the lists are loaded, and then comes what waits for that.
Request(ts, kind, of, after) == [kind |-> kind, n |-> Unused(ts), of |-> of, to |-> modal.to, after |-> after, turn |-> modal.turn, said |-> "no", s |-> NONE, p |-> NONE]

Init == /\ link \in [Links -> {"none", "on", "off"}] /\ item = [i \in Items |-> "live"]
        /\ rows = NONE /\ prows = NONE /\ busy = NONE /\ pBusy = NONE /\ modal = Closed(0) /\ off = {}
        /\ tasks = {[kind |-> "load", n |-> 1, of |-> NONE, to |-> NONE, after |-> NONE, turn |-> 0, said |-> "no", s |-> NONE, p |-> NONE]}
----------------------------------------------------------------------------
(* The tables and their buttons.                                           *)

\* Nothing is offered behind the skeleton.
SharedSkeleton == rows = NONE
May(offer) == /\ offer \in Offers /\ ~SharedSkeleton /\ (Patient => tasks = {}) /\ Cardinality(tasks) < MaxTasks
OnPage(offer) == May(offer) /\ modal.kind = NONE
ShareTable(s) == ~SharedSkeleton /\ rows[s].status # "none"
statusOf(s) == rows[s].status
PortalTable(p) == ~SharedSkeleton /\ prows[p] # "none"

RowRequest(kind, s) == /\ busy' = s /\ tasks' = tasks \cup {Request(tasks, kind, s, "row")}
                       /\ UNCHANGED <<link, item, rows, prows, pBusy, modal, off>>
revoke(s) == OnPage("rows") /\ ShareTable(s) /\ statusOf(s) = "on" /\ busy # s /\ RowRequest("revoke", s)
deleteShare(s) == OnPage("rows") /\ ShareTable(s) /\ busy # s /\ RowRequest("delete", s)
deletePortal(p) == /\ OnPage("rows") /\ PortalTable(p) /\ pBusy # p
                   /\ pBusy' = p /\ tasks' = tasks \cup {Request(tasks, "delete", p, "prow")}
                   /\ UNCHANGED <<link, item, rows, prows, busy, modal, off>>
\* The portal table takes an "onTerminate" that nobody passes and calls an
\* "onDisable" it does not have: the click throws and nothing happens.
Disable(p) == /\ OnPage("disable") /\ PortalTable(p) /\ prows[p] = "on" /\ pBusy # p /\ off' = off \cup {p}
              /\ UNCHANGED <<link, item, rows, prows, busy, pBusy, modal, tasks>>

Open(kind, of) == /\ modal' = [Closed(1 - modal.turn) EXCEPT !.kind = kind, !.of = of]
                  /\ \A t \in tasks : t.turn = modal.turn \* so that two turns are enough
                  /\ UNCHANGED <<link, item, rows, prows, busy, pBusy, tasks, off>>
\* The menu of a row, by its button or by a right click.
Menu(s) == /\ ShareTable(s)
           /\ \E kind \in {"share", "portal", "rename", "move", "trash"} : OnPage(kind) /\ Open(kind, Item[s])
EditPortal(p) == OnPage("edit") /\ PortalTable(p) /\ prows[p] = "on" /\ Open("edit", p)
----------------------------------------------------------------------------
(* The dialogs.                                                            *)

Making == modal.kind \in {"share", "portal", "edit"}
Made == modal.made # NONE
\* ShareModal: the fields can be edited until the link is shown.
Choose(who) == /\ May("share") /\ modal.kind = "share" /\ ~Made /\ modal' = [modal EXCEPT !.to = who]
               /\ UNCHANGED <<link, item, rows, prows, busy, pBusy, tasks, off>>
Submit == /\ modal.kind # NONE /\ ~modal.sending /\ ~Made /\ (modal.kind = "share" => modal.to # NONE)
          /\ Cardinality(tasks) < MaxTasks
          /\ modal' = (IF modal.kind = "move" THEN Closed(modal.turn) ELSE [modal EXCEPT !.sending = TRUE])
          /\ tasks' = tasks \cup {Request(tasks, modal.kind, modal.of, IF modal.kind \in {"rename", "trash"} THEN "dialog" ELSE NONE)}
          /\ UNCHANGED <<link, item, rows, prows, busy, pBusy, off>>
\* A dialog that asks stays while it is busy; one that makes a link does not.
Close == /\ modal.kind # NONE /\ (Patient => tasks = {}) /\ (modal.sending => Making)
         /\ modal' = Closed(modal.turn) /\ UNCHANGED <<link, item, rows, prows, busy, pBusy, tasks, off>>
----------------------------------------------------------------------------
(* The service.                                                            *)

Rest(t) == tasks \ {t}
Now(t, s) == Rest(t) \cup {s}
\* Create and CreatePortal: a new row for an item that is not in the trash.
Create(t) == /\ t.kind \in {"share", "portal"} /\ item[t.of] # "bin" /\ UNCHANGED item
             /\ \E k \in IF t.kind = "share" THEN {s \in Shares : Item[s] = t.of} ELSE Portals :
                  /\ link[k] = "none" /\ link' = [link EXCEPT ![k] = "on"]
                  /\ tasks' = Now(t, [t EXCEPT !.said = "ok", !.of = k])
\* Revoke, Delete, UpdatePortal, and what the file and folder handlers do.
Change(t) == /\ \/ /\ t.kind \in {"revoke", "delete"} /\ link[t.of] # "none" /\ UNCHANGED item
                   /\ link' = [link EXCEPT ![t.of] = IF t.kind = "revoke" THEN "off" ELSE "none"]
                \/ t.kind = "edit" /\ link[t.of] # "none" /\ UNCHANGED <<link, item>>
                \/ t.kind = "move" /\ item[t.of] # "bin" /\ UNCHANGED <<link, item>>
                \/ /\ t.kind \in {"rename", "trash"} /\ item[t.of] # "bin" /\ UNCHANGED link
                   /\ item' = [item EXCEPT ![t.of] = IF t.kind = "trash" THEN "bin" ELSE "renamed"]
             /\ tasks' = Now(t, [t EXCEPT !.said = "ok"])
Possible(t) == CASE t.kind \in {"revoke", "delete", "edit"} -> link[t.of] # "none"
                 [] t.kind \in {"share", "portal", "rename", "move", "trash"} -> item[t.of] # "bin"
                 [] t.kind = "load" -> TRUE
Refuse(t) == (Faults \/ ~Possible(t)) /\ tasks' = Now(t, [t EXCEPT !.said = "failed"]) /\ UNCHANGED <<link, item>>
\* The two lists are read by two requests.
ReadShares(t) == /\ t.kind = "load" /\ t.s = NONE /\ UNCHANGED <<link, item>>
                 /\ tasks' = Now(t, [t EXCEPT !.s = [s \in Shares |-> [status |-> link[s], name |-> item[Item[s]]]],
                                              !.said = IF t.p = NONE THEN "no" ELSE "ok"])
ReadPortals(t) == /\ t.kind = "load" /\ t.p = NONE /\ UNCHANGED <<link, item>>
                  /\ tasks' = Now(t, [t EXCEPT !.p = [p \in Portals |-> link[p]],
                                               !.said = IF t.s = NONE THEN "no" ELSE "ok"])
Serve(t) == /\ t.said = "no" /\ (Create(t) \/ Change(t) \/ Refuse(t) \/ ReadShares(t) \/ ReadPortals(t))
            /\ UNCHANGED <<rows, prows, busy, pBusy, modal, off>>
----------------------------------------------------------------------------
(* The answers.                                                            *)

Mounted(t) == t.turn = modal.turn /\ modal.kind # NONE
\* The lists are asked for, and the request that did it goes on waiting.
load(t) == Now(t, [t EXCEPT !.kind = "load", !.said = "no", !.s = NONE, !.p = NONE])

\* A change that was made is followed by a load; one that failed ends there.
Changed(t) == /\ t.kind \notin {"load", "share", "portal", "edit"} /\ t.said = "ok" /\ tasks' = load(t)
              /\ UNCHANGED <<link, item, rows, prows, busy, pBusy, modal, off>>
\* What waits for the end: the row's "finally", the dialog's close or message.
RowDone(t) == busy' = (IF t.after = "row" THEN NONE ELSE busy)
DialogDone(t) == IF t.after # "dialog" \/ ~Mounted(t) THEN modal
                 ELSE IF t.said = "ok" THEN Closed(modal.turn) ELSE [modal EXCEPT !.sending = FALSE]
Ended(t) == /\ t.kind \notin {"share", "portal", "edit"} /\ (t.said = "failed" \/ (t.kind = "load" /\ t.said = "ok"))
            /\ IF t.said = "ok" THEN rows' = t.s /\ prows' = t.p ELSE UNCHANGED <<rows, prows>>
            /\ RowDone(t) /\ pBusy' = (IF t.after = "prow" THEN NONE ELSE pBusy)
            /\ modal' = DialogDone(t) /\ tasks' = Rest(t) /\ UNCHANGED <<link, item, off>>
\* A dialog that makes a link shows it.  The one that edits a portal closes,
\* and so does any other editor that is open by then.
Answered(t) == /\ t.kind \in {"share", "portal", "edit"} /\ t.said # "no"
               /\ modal' = IF t.kind = "edit" /\ t.said = "ok" THEN (IF modal.kind = "edit" THEN Closed(modal.turn) ELSE modal)
                           ELSE IF ~Mounted(t) THEN modal
                           ELSE IF t.said = "failed" THEN [modal EXCEPT !.sending = FALSE]
                           ELSE [modal EXCEPT !.sending = FALSE, !.made = t.of, !.sent = t.to]
               /\ tasks' = IF t.kind = "edit" /\ t.said = "ok" THEN load(t) ELSE Rest(t)
               /\ UNCHANGED <<link, item, rows, prows, busy, pBusy, off>>
----------------------------------------------------------------------------
User == \/ \E s \in Shares : revoke(s) \/ deleteShare(s) \/ Menu(s)
        \/ \E p \in Portals : deletePortal(p) \/ Disable(p) \/ EditPortal(p)
        \/ \E who \in People : Choose(who)
        \/ Submit \/ Close
Answer(t) == Serve(t) \/ Changed(t) \/ Ended(t) \/ Answered(t)
Next == User \/ \E t \in tasks : Answer(t)
Spec == Init /\ [][Next]_vars
\* Every request is served and its answer delivered.
FairSpec == Spec /\ \A n \in Numbers : WF_vars(\E t \in tasks : t.n = n /\ Answer(t))
----------------------------------------------------------------------------
Status == {"none", "on", "off"}
TypeOK == /\ link \in [Links -> Status] /\ item \in [Items -> {"live", "renamed", "bin"}]
          /\ (rows # NONE => prows \in [Portals -> Status]) /\ busy \in Shares \cup {NONE} /\ pBusy \in Portals \cup {NONE}
          /\ modal.of \in Items \cup Portals \cup {NONE} /\ modal.made \in Links \cup {NONE}

Rested == tasks = {} /\ rows # NONE
\* With nothing on its way the tables are what the service has: "the whole
\* picture in one place".
ListTrue == Rested => /\ \A s \in Shares : rows[s].status = link[s] /\ (link[s] # "none" => rows[s].name = item[Item[s]])
                      /\ \A p \in Portals : prows[p] = link[p]

\* A share that is said to be active can be opened.
\* (Not kept by the code: see the README.)
ActiveOpens == Rested => \A s \in Shares : rows[s].status = "on" => item[Item[s]] # "bin"

\* A portal whose Disable was pressed is off once all is at rest.
\* (Not kept by the code: see the README.)
DisableWorks == Rested => \A p \in off : link[p] # "on"

\* The link a dialog shows is a link of what the dialog was opened for,
\* although a dialog before it may have been closed over its request.
LinkOfModal == modal.made \in Shares => Item[modal.made] = modal.of

\* "Shared with" names the one the link went to.
\* (Not kept by the code: see the README.)
SentTrue == modal.made \in Shares => modal.to = modal.sent

\* The page comes out of its skeleton.
\* (Not kept by the code: see the README.)
Loads == <>(rows # NONE)
=============================================================================
