----------------------------- MODULE CopyModal -----------------------------
(***************************************************************************)
(* "Copy to another account" (CopyToAccountModal.tsx): pick an account,    *)
(* then a workspace and a folder there, and copy.  The dialog stands over  *)
(* the file browser's selection (Files.tsx) or over what was dropped on an *)
(* account (AppShell.tsx); the copy itself is files/handlers.go, item by   *)
(* item, each of which may fail.                                           *)
(***************************************************************************)
EXTENDS Naturals, Sequences, FiniteSets

CONSTANTS NONE, Items,
          SpacesOf, \* account |-> its workspaces, in the order listed
          Inside,   \* workspace or folder |-> the folders in it
          Path,     \* workspace or folder |-> the folders that lead to it, itself included
          Over,     \* what the dialog stands over: "selection" or "drop"
          MaxTasks, Faults, \* the requests that may fail: "spaces", "folders", "copy"
          Patient   \* the user copies when the folder is loaded, and waits for the copy

VARIABLES open, chosen, \* the page's flag, and the items selected or dropped
          dialog, tasks,
          copies,       \* history: the copies made since the dialog came up
          untold        \* history: an answer nobody was shown

vars == <<open, chosen, dialog, tasks, copies, untold>>
CopyAssumption == Over \in {"selection", "drop"} /\ Patient \in BOOLEAN /\ Faults \subseteq {"spaces", "folders", "copy"}
Accounts == DOMAIN SpacesOf
Home == "home"

\* A picker has no workspaces yet, stands at a workspace's home, and loads.
Place(p) == IF p.folder = Home THEN p.ws ELSE p.folder
NewPicker == [spaces |-> <<>>, ws |-> NONE, folder |-> Home, folders |-> {}, crumb |-> <<>>, loading |-> TRUE]
Task(kind, acct, at) == [kind |-> kind, dest |-> acct, at |-> at, said |-> at, got |-> {}, done |-> FALSE]
Kept == SelectSeq(tasks, LAMBDA t : t.kind = "copy")
Without(k) == SubSeq(tasks, 1, k - 1) \o SubSeq(tasks, k + 1, Len(tasks))
\* Whether the picker is on the screen, and its step to another place: the
\* answer for the place before is cancelled.
Picking == dialog # NONE /\ dialog.step = "folder" /\ dialog.result = NONE
To(p) == /\ dialog' = [dialog EXCEPT !.pick = [p EXCEPT !.loading = TRUE]]
         /\ Len(Kept) < MaxTasks /\ tasks' = Append(Kept, Task("folders", dialog.dest, Place(p)))

\* With one account to choose from, the dialog starts at its folders.
Blank == [dest |-> NONE, step |-> "account", busy |-> FALSE, error |-> FALSE, result |-> NONE, pick |-> NONE]
Mounted(sent) ==
  IF Cardinality(Accounts) = 1
  THEN LET a == CHOOSE x \in Accounts : TRUE
       IN /\ dialog' = [Blank EXCEPT !.dest = a, !.step = "folder", !.pick = NewPicker]
          /\ tasks' = Append(sent, Task("spaces", a, NONE))
  ELSE dialog' = Blank /\ tasks' = sent
\* The dialog is on the screen while the flag is up and something is chosen.
Seen(up, items) == up /\ items # {}
Change(up, items) ==
  /\ open' = up /\ chosen' = items
  /\ IF Seen(up, items) /\ dialog = NONE THEN Mounted(tasks) /\ copies' = <<>>
     ELSE IF ~Seen(up, items) THEN dialog' = NONE /\ tasks' = Kept /\ UNCHANGED copies
     ELSE UNCHANGED <<dialog, tasks, copies>>
Init == open = FALSE /\ chosen = {} /\ dialog = NONE /\ tasks = <<>> /\ copies = <<>> /\ untold = FALSE

\* Items are selected, "Copy to account..." is pressed; or items are dropped.
Select(items) == Over = "selection" /\ dialog = NONE /\ chosen # items /\ Change(open, items) /\ UNCHANGED untold
Press == Over = "selection" /\ dialog = NONE /\ chosen # {} /\ Change(TRUE, chosen) /\ UNCHANGED untold
Drop(items) == Over = "drop" /\ dialog = NONE /\ items # {} /\ Change(TRUE, items) /\ UNCHANGED untold
\* Escape, the backdrop and the cross wait for a copy; Cancel does not, and
\* stands on the first step only.
Close == /\ dialog # NONE
         /\ ~dialog.busy \/ (dialog.step = "account" /\ dialog.result = NONE)
         /\ Change(FALSE, IF Over = "drop" THEN {} ELSE chosen) /\ UNCHANGED untold

PickAccount(a) ==
  /\ dialog # NONE /\ dialog.step = "account" /\ dialog.result = NONE /\ Len(tasks) < MaxTasks
  /\ dialog' = [dialog EXCEPT !.dest = a, !.step = "folder", !.pick = NewPicker]
  /\ tasks' = Append(tasks, Task("spaces", a, NONE)) /\ UNCHANGED <<open, chosen, copies, untold>>
\* Back unmounts the picker; nothing stops it while a copy is being made.
Back == /\ Picking /\ Cardinality(Accounts) > 1 /\ (Patient => ~dialog.busy)
        /\ dialog' = [dialog EXCEPT !.step = "account", !.pick = NONE] /\ tasks' = Kept
        /\ UNCHANGED <<open, chosen, copies, untold>>

\* The picker: another workspace, a folder inside, a folder of the path, home.
Folders(p) == IF p.loading THEN {} ELSE p.folders
Crumbs(p) == {Home} \cup {p.crumb[i] : i \in 1..(Len(p.crumb) - 1)}
Browse == /\ Picking /\ dialog.pick.ws # NONE
          /\ \/ \E w \in {dialog.pick.spaces[i] : i \in DOMAIN dialog.pick.spaces} \ {dialog.pick.ws} :
                  To([dialog.pick EXCEPT !.ws = w, !.folder = Home])
             \/ \E f \in (Folders(dialog.pick) \cup Crumbs(dialog.pick)) \ {dialog.pick.folder} :
                  To([dialog.pick EXCEPT !.folder = f])
          /\ UNCHANGED <<open, chosen, copies, untold>>

\* "Copy n items to ..." names the workspace, or the last folder of the path.
Label(p) == IF p.folder = Home THEN p.ws ELSE IF p.crumb = <<>> THEN NONE ELSE p.crumb[Len(p.crumb)]
Copy == /\ Picking /\ ~dialog.busy /\ dialog.pick.ws # NONE /\ (Patient => ~dialog.pick.loading)
        /\ Len(tasks) < MaxTasks /\ Len(copies) < MaxTasks
        /\ tasks' = Append(tasks, [Task("copy", dialog.dest, Place(dialog.pick)) EXCEPT !.said = Label(dialog.pick), !.got = chosen])
        /\ dialog' = [dialog EXCEPT !.busy = TRUE, !.error = FALSE] /\ UNCHANGED <<open, chosen, copies, untold>>

\* The service copies what it can, one item after the other, and counts.
Copied(k) == /\ tasks[k].kind = "copy" /\ ~tasks[k].done
             /\ \E s \in SUBSET tasks[k].got :
                  /\ tasks' = [tasks EXCEPT ![k].got = s, ![k].done = TRUE]
                  /\ copies' = Append(copies, [dest |-> tasks[k].dest, at |-> tasks[k].at, said |-> tasks[k].said, items |-> s])
             /\ UNCHANGED <<open, chosen, dialog, untold>>
\* Its answer: the result is set, and over a selection the selection is
\* cleared, which takes the dialog off the screen with the flag still up.
Finish(k) ==
  IF Over = "selection"
  THEN /\ chosen' = {} /\ dialog' = NONE /\ tasks' = SelectSeq(Without(k), LAMBDA t : t.kind = "copy")
       /\ untold' = TRUE /\ UNCHANGED <<open, copies>>
  ELSE IF dialog = NONE THEN untold' = TRUE /\ tasks' = Without(k) /\ UNCHANGED <<open, chosen, dialog, copies>>
  ELSE /\ dialog' = [dialog EXCEPT !.busy = FALSE, !.result = [items |-> tasks[k].got], !.pick = NONE]
       /\ tasks' = SelectSeq(Without(k), LAMBDA t : t.kind = "copy") /\ UNCHANGED <<open, chosen, copies, untold>>
Answer(k) ==
  \/ tasks[k].kind = "copy" /\ tasks[k].done /\ Finish(k)
  \/ /\ tasks[k].kind = "copy" /\ "copy" \in Faults /\ tasks' = Without(k)
     /\ dialog' = IF dialog = NONE THEN NONE ELSE [dialog EXCEPT !.busy = FALSE, !.error = TRUE]
     /\ UNCHANGED <<open, chosen, copies, untold>>
Workspaces(k) ==
  /\ tasks[k].kind = "spaces" /\ UNCHANGED <<open, chosen, copies, untold>>
  /\ \/ LET spaces == SpacesOf[tasks[k].dest]
            p == [dialog.pick EXCEPT !.spaces = spaces]
        IN IF spaces = <<>>
           THEN dialog' = [dialog EXCEPT !.pick.loading = FALSE] /\ tasks' = Without(k)
           ELSE /\ dialog' = [dialog EXCEPT !.pick = [p EXCEPT !.ws = spaces[1]]]
                /\ tasks' = Append(Without(k), Task("folders", dialog.dest, spaces[1]))
     \/ "spaces" \in Faults /\ dialog' = [dialog EXCEPT !.pick.loading = FALSE] /\ tasks' = Without(k)
Level(k) ==
  /\ tasks[k].kind = "folders" /\ tasks' = Without(k) /\ UNCHANGED <<open, chosen, copies, untold>>
  /\ \/ dialog' = [dialog EXCEPT !.pick.folders = Inside[tasks[k].at], !.pick.crumb = Path[tasks[k].at], !.pick.loading = FALSE]
     \/ "folders" \in Faults /\ dialog' = [dialog EXCEPT !.pick.folders = {}, !.pick.crumb = <<>>, !.pick.loading = FALSE]

Served == \E k \in 1..MaxTasks : k \in DOMAIN tasks /\ (Copied(k) \/ Answer(k) \/ Workspaces(k) \/ Level(k))
Next == \/ \E items \in SUBSET Items : Select(items) \/ Drop(items)
        \/ \E a \in Accounts : PickAccount(a)
        \/ Press \/ Close \/ Back \/ Browse \/ Copy \/ Served
Spec == Init /\ [][Next]_vars
----------------------------------------------------------------------------
TypeOK == /\ open \in BOOLEAN /\ chosen \subseteq Items /\ untold \in BOOLEAN
          /\ (dialog # NONE) = Seen(open, chosen) /\ Len(tasks) <= MaxTasks
          /\ dialog # NONE => (dialog.pick # NONE) = (dialog.step = "folder" /\ dialog.result = NONE)

\* A copy is made where the button said, or "here" when the path could not be
\* loaded, whatever folder was opened and left before.
LandsAsSaid == \A c \in {copies[i] : i \in DOMAIN copies} : c.said \in {c.at, NONE}

\* The result names the account the copy went to ("Copied to ...") and counts
\* what arrived there.
ResultTrue == dialog # NONE /\ dialog.result # NONE =>
  Len(copies) > 0 /\ copies[Len(copies)].dest = dialog.dest /\ copies[Len(copies)].items = dialog.result.items

\* Unless a copy fails and is tried again, a dialog makes one copy.
OneCopy == Len(copies) <= 1

\* The user is told how a copy went.
Told == ~untold

\* The dialog comes up when it is asked for: refuted over a selection, where
\* the flag of the copy before is still up.
ComesAsked == dialog = NONE => ~open
=============================================================================
