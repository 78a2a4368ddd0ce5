----------------------------- MODULE FilesPage -----------------------------
(***************************************************************************)
(* The file browser of the web client (interface/src/pages/Files.tsx): one *)
(* tab, showing one place (a workspace's root or a folder) at a time.      *)
(*                                                                         *)
(* The component's state lives in React hooks.  A handler is an async      *)
(* function: it captures the place it was started at, awaits one request   *)
(* after another, and meanwhile the user goes on.  Such a handler is a     *)
(* task; its record holds what its closure holds.  A load is a browse      *)
(* request in flight, answered from the server's state and applied later.  *)
(*                                                                         *)
(* Every file wants the same name, the case that collides: a name is its   *)
(* copy number.  Names of folders are left out.                            *)
(***************************************************************************)
EXTENDS Naturals, FiniteSets, SequencesExt

CONSTANTS
  Workspaces,   \* a workspace stands for its root as well
  Folders,      \* folders one can enter
  Files,
  Dirs,         \* folders that are only rows of a listing
  Home,         \* the workspace of each folder
  Protected,    \* places inside the Trilli Sign directory
  Stored,       \* the items there are to begin with: where, and under which name
  Tasks,        \* handlers in flight at a time
  Commands,     \* the commands the user gives in an instance
  MaxLoads,     \* bound on browse requests
  MaxName,      \* bound on copy numbers
  MaxFaults,    \* bound on requests that fail
  NONE

Places == Workspaces \cup Folders
Items  == Files \cup Dirs
All    == {"upload", "tree", "move", "trash", "bulk", "copy", "paste", "rename",
           "folder", "search", "open", "switch", "back"}

PageAssumption ==
  /\ \A d \in Folders : Home[d] \in Workspaces
  /\ MaxLoads \in Nat /\ MaxName \in Nat \ {0} /\ MaxFaults \in Nat
  /\ Commands \subseteq All /\ Protected \subseteq Folders
  /\ DOMAIN Stored \subseteq Files \cup Dirs
  /\ \A i \in DOMAIN Stored : Stored[i].at \in Workspaces \cup Folders /\ Stored[i].name \in 0..MaxName
  /\ \A f, g \in Files \cap DOMAIN Stored :
       f # g /\ (Stored[f].at = Stored[g].at \/ {Stored[f].at, Stored[g].at} \subseteq Workspaces)
         => Stored[f].name # Stored[g].name
  /\ MaxName >= Cardinality(Files)
  /\ NONE \notin Places \cup Items
  /\ {"disk", "trash"} \cap (Places \cup Dirs) = {} /\ Items \cap Places = {}

VARIABLES
  at,        \* server: where each item is: a place, a row's folder, "trash", or "disk" (not there)
  name,      \* server: its name
  path,      \* the URL
  query,     \* activeQuery is not empty
  list,      \* browse: the listing's place and items, or NONE (skeleton)
  found,     \* searchResults; {NONE} while the request is out
  seq,       \* reloadSeq.current
  loads,     \* browse requests in flight
  selected,
  clip,      \* the in-app clipboard
  dialog,    \* the dialog that is open, or NONE
  asks,      \* the queues of the conflict prompts: uploads, and moves with their target
  task,      \* handlers in flight
  faults,
  past       \* history: dest[f], where f was dropped; the files found to clash, the
             \* prompts answered; a move that did nothing; a request that failed

server  == <<at, name>>
screen  == <<path, query, list, found>>
traffic == <<seq, loads, faults>>
picked  == <<selected, clip>>
vars == <<server, screen, traffic, picked, dialog, asks, task, past>>

\* A task: what it does, the place its closure captured, where it puts things,
\* the items it was given, those still to check, those found free and those
\* that clash, its patches in flight, the name it asks for, the prompts that
\* follow its own, its step.
Idle == [op |-> "idle", here |-> NONE, dest |-> NONE, given |-> {}, todo |-> <<>>,
         clean |-> <<>>, clash |-> <<>>, sent |-> {}, name |-> 0, rest |-> <<>>,
         step |-> "none", wait |-> 0]

-----------------------------------------------------------------------------
(* The server's side.  The roots of all workspaces share one name space.    *)

SamePlace(p, q) == p = q \/ {p, q} \subseteq Workspaces

NameFree(p, n, f) ==
  \A g \in Files \ {f} : at[g] \in Places \cup Dirs /\ SamePlace(at[g], p) => name[g] # n

\* The name asked for if it is free, else its first free copy.
AvailableName(p, n, f) ==
  IF NameFree(p, n, f) THEN n
  ELSE CHOOSE m \in 1..MaxName : /\ NameFree(p, m, f)
                                 /\ \A k \in 1..MaxName : k < m => ~NameFree(p, k, f)

Browse(p) == {i \in Items : at[i] = p}

Search == {f \in Files : at[f] \in Places \cup Dirs}

-----------------------------------------------------------------------------
(* Loading a listing.                                                       *)

Fail == faults < MaxFaults /\ faults' = faults + 1 /\ past' = [past EXCEPT !.failed = TRUE]

LoadTwice(p) ==
  /\ seq < MaxLoads
  /\ seq' = seq + 1
  /\ loads' = loads \cup {[seq |-> seq + 2, at |-> p, got |-> {NONE}]}

\* reload() as captured at place p: it takes the next number.  A handler that
\* was started at p goes on calling the reload of p.
LoadWith(p) ==
  /\ seq < MaxLoads
  /\ seq' = seq + 1
  /\ loads' = loads \cup {[seq |-> seq + 1, at |-> p, got |-> {NONE}]}

AnswerLoad ==
  \E r \in loads :
    /\ r.got = {NONE}
    /\ loads' = (loads \ {r}) \cup {[r EXCEPT !.got = Browse(r.at)]}
    /\ UNCHANGED <<server, screen, seq, faults, picked, dialog, asks, task, past>>

\* Only the newest request's answer is applied.
SupersededNever(r) == FALSE
Superseded(r) == r.seq # seq

ApplyLoad ==
  \E r \in loads :
    /\ r.got # {NONE}
    /\ loads' = loads \ {r}
    /\ list' = IF Superseded(r) THEN list ELSE [at |-> r.at, items |-> r.got]
    /\ UNCHANGED <<server, path, query, found, seq, faults, picked, dialog, asks, task, past>>

\* The request fails: reload() reports it and leaves the listing.
FailLoad ==
  \E r \in loads :
    /\ Fail
    /\ loads' = loads \ {r}
    /\ UNCHANGED <<server, screen, seq, picked, dialog, asks, task>>

-----------------------------------------------------------------------------
(* What the page shows and offers.                                          *)

WorkspaceOf(p) == IF p \in Folders THEN Home[p] ELSE p

\* The rows: the search's results, or the listing.
Displayed == IF query THEN (IF found = {NONE} THEN {} ELSE found)
             ELSE IF list = NONE THEN {} ELSE list.items

Skeleton == list = NONE /\ ~query

\* Inside the Trilli Sign directory: read off the crumbs of the listing shown.
InProtectedTree == list # NONE /\ list.at \in Protected

\* Progress of a paste, an upload, a tree or a move of several items covers the
\* page, and so do the dialogs and prompts.
Busy(t) ==
  \/ task[t].op \in {"upload", "answer", "tree", "paste"} /\ task[t].step # "check"
  \/ task[t].op = "move" /\ task[t].step = "send" /\ Len(task[t].clean) > 1

Covered == dialog # NONE \/ asks.upload # <<>> \/ asks.move # <<>> \/ \E t \in Tasks : Busy(t)

FolderMenu == {"move", "trash", "copy", "open"} \cup (IF clip = {} THEN {} ELSE {"paste"})

FileMenu(f) ==
  {"move", "rename", "copy"} \cup (IF clip = {} THEN {} ELSE {"paste"})
                             \cup (IF at[f] \in Protected THEN {} ELSE {"trash"})

RowMenu(i) == IF i \in Dirs THEN FolderMenu ELSE FileMenu(i)

\* The bar that slides in while anything is selected.
BulkBar == IF selected = {} THEN {} ELSE {"move", "copy", "bulk"}

\* The New menu, the upload zone and page-wide drops, the switcher, the search.
Toolbar ==
  {"switch", "search", "folder", "tree"} \cup (IF query \/ InProtectedTree THEN {} ELSE {"upload"})
                                 \cup (IF clip = {} \/ query THEN {} ELSE {"paste"})

Offered(c, menu) == c \in Commands /\ c \in menu /\ ~Covered /\ ~Skeleton

Free(t) == task[t] = Idle

Begin(t, new) == Free(t) /\ task' = [task EXCEPT ![t] = new @@ Idle]

-----------------------------------------------------------------------------
(* Navigation and search.                                                   *)

\* The listing is blanked when the workspace changes and kept otherwise.
Arrive(p) ==
  /\ path' = p
  /\ list' = IF WorkspaceOf(p) = WorkspaceOf(path) THEN list ELSE NONE
  /\ LoadWith(p)

ClearSearch == query' = FALSE /\ found' = {NONE}

\* A click on a folder row or a crumb.
EnterFolder ==
  \E p \in Places \ {path} :
    /\ "open" \in Commands /\ ~Covered /\ ~Skeleton
    /\ WorkspaceOf(p) = WorkspaceOf(path)
    /\ Arrive(p) /\ ClearSearch
    /\ selected' = {}
    /\ UNCHANGED <<server, faults, clip, dialog, asks, task, past>>

\* The workspace switcher.
SelectWorkspace ==
  \E w \in Workspaces \ {path} :
    /\ Offered("switch", Toolbar)
    /\ Arrive(w) /\ ClearSearch
    /\ selected' = {}
    /\ UNCHANGED <<server, faults, clip, dialog, asks, task, past>>

\* The browser's Back button: the URL changes and no handler is told.
GoBack ==
  \E p \in Places \ {path} :
    /\ "back" \in Commands
    /\ Arrive(p)
    /\ UNCHANGED <<server, query, found, faults, picked, dialog, asks, task, past>>

SubmitSearch ==
  /\ Offered("search", Toolbar) /\ ~query
  /\ query' = TRUE /\ found' = {NONE}
  /\ UNCHANGED <<server, path, list, traffic, picked, dialog, asks, task, past>>

AnswerSearch ==
  /\ query /\ found = {NONE}
  /\ found' = Search
  /\ UNCHANGED <<server, path, query, list, traffic, picked, dialog, asks, task, past>>

LeaveSearch ==
  /\ query /\ ~Covered
  /\ ClearSearch
  /\ UNCHANGED <<server, path, list, traffic, picked, dialog, asks, task, past>>

-----------------------------------------------------------------------------
(* Selection, clipboard and dialogs.                                        *)

\* A row's checkbox; the marquee ticks several.
Tick ==
  \E i \in Displayed :
    /\ Commands \cap {"move", "bulk", "copy"} # {} /\ ~Covered /\ ~Skeleton
    /\ selected' = IF i \in selected THEN selected \ {i} ELSE selected \cup {i}
    /\ UNCHANGED <<server, screen, traffic, clip, dialog, asks, task, past>>

Copy ==
  \/ \E i \in Displayed :
       /\ Offered("copy", RowMenu(i))
       /\ clip' = {i}
       /\ UNCHANGED <<server, screen, traffic, selected, dialog, asks, task, past>>
  \/ /\ Offered("copy", BulkBar)
     /\ clip' = selected
     /\ UNCHANGED <<server, screen, traffic, selected, dialog, asks, task, past>>

\* Fifteen minutes after a copy.
ForgetClip ==
  /\ clip # {} /\ clip' = {}
  /\ UNCHANGED <<server, screen, traffic, selected, dialog, asks, task, past>>

\* Trash, rename and new folder ask first.
OpenDialog ==
  /\ \/ \E i \in Displayed : \E c \in {"trash", "rename"} :
          Offered(c, RowMenu(i)) /\ dialog' = [kind |-> c, item |-> i]
     \/ Offered("bulk", BulkBar) /\ dialog' = [kind |-> "bulk", item |-> NONE]
     \/ Offered("folder", Toolbar) /\ dialog' = [kind |-> "folder", item |-> NONE]
  /\ UNCHANGED <<server, screen, traffic, picked, asks, task, past>>

Confirming == \E t \in Tasks : task[t].op \in {"trash", "rename", "bulk", "folder"}

\* Not while its request is out.
CloseDialog ==
  /\ dialog # NONE /\ ~Confirming
  /\ dialog' = NONE
  /\ UNCHANGED <<server, screen, traffic, picked, asks, task, past>>

\* Trash deletes in parallel what is selected when the user confirms.
ConfirmTrash(t) ==
  /\ dialog # NONE /\ dialog.kind \in {"trash", "bulk"} /\ ~Confirming
  /\ LET S == IF dialog.kind = "bulk" THEN selected ELSE {dialog.item} IN
       Begin(t, [op |-> dialog.kind, here |-> path, given |-> S, clean |-> SetToSeq(S), step |-> "send"])
  /\ UNCHANGED <<server, screen, traffic, picked, dialog, asks, past>>

ConfirmName(t) ==
  /\ dialog # NONE /\ dialog.kind \in {"rename", "folder"} /\ ~Confirming
  /\ \E n \in 0..MaxName : Begin(t, [op |-> dialog.kind, here |-> path, dest |-> dialog.item,
                                    name |-> n, step |-> "send"])
  /\ UNCHANGED <<server, screen, traffic, picked, dialog, asks, past>>

-----------------------------------------------------------------------------
(* Steps that tasks have in common.                                         *)

\* The handler reloads with the reload() it captured, and awaits it.
Reload(t) ==
  /\ task[t].step = "load" /\ task[t].op # "amend"
  /\ LoadWith(task[t].here)
  /\ task' = [task EXCEPT ![t].step = "await", ![t].wait = seq + 1]
  /\ UNCHANGED <<server, screen, faults, picked, dialog, asks, past>>

Loaded(t) == task[t].step = "await" /\ \A r \in loads : r.seq # task[t].wait

Ended(t) == task[t].step = "ask" \/ Loaded(t)

\* Check the next name at the destination; a check that fails counts as free.
Passes(t, f) == f \in Dirs \/ NameFree(task[t].dest, name[f], NONE)

CheckName(t) ==
  /\ task[t].step = "check" /\ task[t].todo # <<>>
  /\ LET f == Head(task[t].todo)
         Sorted(free) == [task EXCEPT ![t].todo = Tail(@),
                            ![t].clean = IF free THEN Append(@, f) ELSE @,
                            ![t].clash = IF free THEN @ ELSE Append(@, f)] IN
     \/ /\ task' = Sorted(Passes(t, f))
        /\ past' = IF Passes(t, f) THEN past ELSE [past EXCEPT !.clashed = @ \cup {f}]
        /\ UNCHANGED faults
     \/ f \in Files /\ Fail /\ task' = Sorted(TRUE)
  /\ UNCHANGED <<server, screen, seq, loads, picked, dialog, asks>>

Checked(t) ==
  /\ task[t].step = "check" /\ task[t].todo = <<>>
  /\ task' = [task EXCEPT ![t].step = IF task[t].clean = <<>> THEN "ask" ELSE "send"]
  /\ UNCHANGED <<server, screen, traffic, picked, dialog, asks, past>>

\* One request of a task is done, or it gives up the rest.
Sent(t) == [task EXCEPT ![t].clean = Tail(@),
                        ![t].step = IF Len(task[t].clean) = 1 THEN "load" ELSE @]
GiveUp(t, next) == [task EXCEPT ![t].clean = <<>>, ![t].sent = {}, ![t].step = next]

-----------------------------------------------------------------------------
(* Uploads.                                                                 *)

InHand(f) == \/ \E t \in Tasks : f \in task[t].given
             \/ \E k \in DOMAIN asks.upload : asks.upload[k] = f

\* Files are chosen, or dropped on the page; each name is then checked.
PickFiles(t) ==
  \E S \in SUBSET {f \in Files : at[f] = "disk" /\ ~InHand(f)} \ {{}} :
    /\ Offered("upload", Toolbar)
    /\ Begin(t, [op |-> "upload", here |-> path, dest |-> path, given |-> S,
                 todo |-> SetToSeq(S), step |-> "check"])
    /\ past' = [past EXCEPT !.dest = [f \in Files |-> IF f \in S THEN path ELSE @[f]]]
    /\ UNCHANGED <<server, screen, traffic, picked, dialog, asks>>

\* A folder is dropped: its row is created, or the one listed is used when the
\* name is taken; else the drop is given up and nothing is reloaded.
DropTree(t) ==
  \E d \in {e \in Dirs : at[e] \in {"disk", path}} :
  \E S \in SUBSET {f \in Files : at[f] = "disk" /\ ~InHand(f)} \ {{}} :
    /\ Offered("tree", Toolbar)
    /\ Begin(t, [op |-> "tree", here |-> path, dest |-> d, given |-> S,
                 clean |-> SetToSeq(S), step |-> IF list # NONE /\ d \in list.items
                                                 THEN "merge" ELSE "create"])
    /\ past' = [past EXCEPT !.dest = [f \in Files |-> IF f \in S THEN d ELSE @[f]]]
    /\ UNCHANGED <<server, screen, traffic, picked, dialog, asks>>

CreateDir(t) ==
  /\ task[t].step \in {"create", "merge"}
  /\ LET d == task[t].dest IN
     \/ /\ at[d] = "disk"
        /\ at' = [at EXCEPT ![d] = task[t].here]
        /\ task' = [task EXCEPT ![t].step = "send"]
        /\ UNCHANGED <<faults, past>>
     \/ /\ at[d] = task[t].here /\ task[t].step = "merge"
        /\ task' = [task EXCEPT ![t].step = "send"]
        /\ UNCHANGED <<at, faults, past>>
     \/ /\ at[d] # "disk" /\ ~(at[d] = task[t].here /\ task[t].step = "merge")
        /\ task' = [task EXCEPT ![t] = Idle]
        /\ past' = [past EXCEPT !.failed = TRUE]
        /\ UNCHANGED <<at, faults>>
     \/ /\ task[t].step = "create" /\ Fail
        /\ task' = [task EXCEPT ![t] = Idle]
        /\ UNCHANGED at
  /\ UNCHANGED <<name, screen, seq, loads, picked, dialog, asks>>

\* The place captured when the handler started.
TargetNow(t) == path
Target(t) == task[t].dest

\* One file after another; the first that fails ends the batch.
SendFile(t) ==
  /\ task[t].op \in {"upload", "answer", "tree"} /\ task[t].step = "send"
  /\ LET f == Head(task[t].clean) IN
     \/ /\ at' = [at EXCEPT ![f] = Target(t)]
        /\ name' = [name EXCEPT ![f] = AvailableName(Target(t), task[t].name, f)]
        /\ task' = Sent(t)
        /\ UNCHANGED <<faults, past>>
     \/ Fail /\ task' = GiveUp(t, "load") /\ UNCHANGED server
  /\ UNCHANGED <<screen, seq, loads, picked, dialog, asks>>

\* The prompts of a handler, from the first.
Queue(t) == task[t].clash

\* Clashes are put to the user once the clean files are in.
FinishUpload(t) ==
  /\ task[t].op = "upload" /\ Ended(t)
  /\ asks' = IF task[t].clash = <<>> THEN asks ELSE [asks EXCEPT !.upload = Queue(t)]
  /\ task' = [task EXCEPT ![t] = Idle]
  /\ UNCHANGED <<server, screen, traffic, picked, dialog, past>>

\* Keep both: the file goes, under the chosen name, to where the page is now.
AnswerUpload(t) ==
  /\ asks.upload # <<>> /\ ~\E u \in Tasks : Busy(u)
  /\ \E n \in 1..MaxName :
       Begin(t, [op |-> "answer", here |-> path, dest |-> path, given |-> {Head(asks.upload)},
                 clean |-> <<Head(asks.upload)>>, name |-> n, rest |-> Tail(asks.upload),
                 step |-> "send"])
  /\ past' = [past EXCEPT !.answered = @ \cup {Head(asks.upload)}]
  /\ UNCHANGED <<server, screen, traffic, picked, dialog, asks>>

FinishAnswer(t) ==
  /\ task[t].op = "answer" /\ Ended(t)
  /\ asks' = [asks EXCEPT !.upload = task[t].rest]
  /\ task' = [task EXCEPT ![t] = Idle]
  /\ UNCHANGED <<server, screen, traffic, picked, dialog, past>>

SkipUpload ==
  /\ asks.upload # <<>> /\ ~\E u \in Tasks : Busy(u)
  /\ past' = [past EXCEPT !.answered = @ \cup {Head(asks.upload)}]
  /\ asks' = [asks EXCEPT !.upload = Tail(@)]
  /\ UNCHANGED <<server, screen, traffic, picked, dialog, task>>

-----------------------------------------------------------------------------
(* Moves.                                                                   *)

\* The files of a move are those of the listing; nothing that is there already.
Kept(S, p) == IF list = NONE THEN {}
              ELSE ((S \cap list.items) \ {p})
                     \ (IF SamePlace(list.at, p) /\ WorkspaceOf(p) = WorkspaceOf(path) THEN Items ELSE {})

\* What the picker offers: any place or row but the folders being moved.
Targets(S) == Places \cup (Dirs \ S)

\* A drop on a folder row, a crumb or the switcher, or the bulk bar's picker.
MoveItems(t) ==
  \E S \in {selected} \cup {{i} : i \in Displayed} : \E p \in Targets(S) :
    /\ "move" \in Commands /\ ~Covered /\ ~Skeleton /\ S # {}
    /\ IF Kept(S, p) = {}
         THEN /\ past' = [past EXCEPT !.ignored = @ \/ \E i \in S : ~SamePlace(at[i], p)]
              /\ UNCHANGED task
         ELSE /\ Begin(t, [op |-> "move", here |-> path, dest |-> p, given |-> Kept(S, p),
                           todo |-> SetToSeq(Kept(S, p)), step |-> "check"])
              /\ UNCHANGED past
    /\ UNCHANGED <<server, screen, traffic, picked, dialog, asks>>

\* Move in a row's menu: one patch, no check.
MoveRow(t) ==
  \E i \in Displayed : \E p \in Targets({i}) :
    /\ Offered("move", RowMenu(i))
    /\ Begin(t, [op |-> "moverow", here |-> path, dest |-> p, given |-> {i},
                 clean |-> <<i>>, step |-> "send"])
    /\ UNCHANGED <<server, screen, traffic, picked, dialog, asks, past>>

\* The server picks a name in its transaction and writes it at the end; the
\* page sends the next patch when it has the answer to the one before.
Patching(t) == task[t].op \in {"move", "moverow", "amend"} /\ task[t].step = "send"

Missing(i) == at[i] \in {"trash", "disk"}

Serial(t) == task[t].sent = {}

PickName(t) ==
  /\ Patching(t) /\ task[t].clean # <<>> /\ Serial(t)
  /\ LET i == Head(task[t].clean) IN
       /\ ~Missing(i)
       /\ task' = [task EXCEPT ![t].clean = Tail(@),
                     ![t].sent = @ \cup {[item |-> i,
                        name |-> IF i \in Dirs THEN 0 ELSE AvailableName(task[t].dest, name[i], i)]}]
  /\ UNCHANGED <<server, screen, traffic, picked, dialog, asks, past>>

WriteMove(t) ==
  \E r \in task[t].sent :
    /\ Patching(t)
    /\ at' = [at EXCEPT ![r.item] = task[t].dest]
    /\ name' = [name EXCEPT ![r.item] = r.name]
    /\ task' = [task EXCEPT ![t].sent = @ \ {r},
                  ![t].step = IF task[t].clean = <<>> /\ task[t].sent = {r} THEN "load" ELSE @]
    /\ past' = [past EXCEPT !.dest = [f \in Files |-> IF f = r.item THEN NONE ELSE @[f]]]
    /\ UNCHANGED <<screen, traffic, picked, dialog, asks>>

\* A patch fails, or its item is gone: the rest and the reload are skipped.
FailMove(t) ==
  /\ Patching(t) /\ task[t].op # "amend"
  /\ \/ Fail /\ (task[t].clean # <<>> \/ task[t].sent # {})
     \/ /\ task[t].clean # <<>> /\ Serial(t) /\ Missing(Head(task[t].clean))
        /\ past' = [past EXCEPT !.failed = TRUE] /\ UNCHANGED faults
  /\ task' = GiveUp(t, "ask")
  /\ UNCHANGED <<server, screen, seq, loads, picked, dialog, asks>>

\* The clashes are put to the user; without any the selection is cleared.
FinishMove(t) ==
  /\ task[t].op = "move" /\ Ended(t)
  /\ IF task[t].clash = <<>>
       THEN selected' = {} /\ UNCHANGED asks
       ELSE asks' = [asks EXCEPT !.move = Queue(t), !.to = task[t].dest] /\ UNCHANGED selected
  /\ task' = [task EXCEPT ![t] = Idle]
  /\ UNCHANGED <<server, screen, traffic, clip, dialog, past>>

\* Keep both: the file is renamed where it is, then moved.  The rename is
\* refused when the name is taken there, and the move goes on its own failing.
AnswerMove(t) ==
  /\ asks.move # <<>> /\ ~\E u \in Tasks : Busy(u)
  /\ LET f == Head(asks.move) IN \E n \in 1..MaxName :
       /\ Begin(t, [op |-> "amend", here |-> path, dest |-> asks.to, given |-> {f}, clean |-> <<f>>,
                    name |-> n, rest |-> Tail(asks.move), step |-> "rename"])
       /\ past' = [past EXCEPT !.answered = @ \cup {f}]
  /\ UNCHANGED <<server, screen, traffic, picked, dialog, asks>>

RenameFirst(t) ==
  /\ task[t].op = "amend" /\ task[t].step = "rename"
  /\ LET f == Head(task[t].clean) IN
     IF ~Missing(f) /\ NameFree(at[f], task[t].name, f)
       THEN /\ name' = [name EXCEPT ![f] = task[t].name]
            /\ task' = [task EXCEPT ![t].step = "send"]
            /\ UNCHANGED past
       ELSE /\ task' = GiveUp(t, "load")
            /\ past' = [past EXCEPT !.failed = TRUE]
            /\ UNCHANGED name
  /\ UNCHANGED <<at, screen, traffic, picked, dialog, asks>>

FailAmend(t) ==
  /\ task[t].op = "amend" /\ task[t].step \in {"rename", "send"}
  /\ Fail
  /\ task' = GiveUp(t, "load")
  /\ UNCHANGED <<server, screen, seq, loads, picked, dialog, asks>>

\* After the last prompt: clear, then reload with the reload of that render.
Advance(q) == /\ asks' = [asks EXCEPT !.move = q]
              /\ selected' = IF q = <<>> THEN {} ELSE selected

FinishAmend(t) ==
  /\ task[t].op = "amend" /\ task[t].step = "load"
  /\ Advance(task[t].rest)
  /\ IF task[t].rest = <<>> THEN LoadWith(task[t].here) ELSE UNCHANGED <<seq, loads>>
  /\ task' = [task EXCEPT ![t] = Idle]
  /\ UNCHANGED <<server, screen, faults, clip, dialog, past>>

SkipMove ==
  /\ asks.move # <<>>
  /\ Advance(Tail(asks.move))
  /\ past' = [past EXCEPT !.answered = @ \cup {Head(asks.move)}]
  /\ IF Tail(asks.move) = <<>> THEN LoadWith(path) ELSE UNCHANGED <<seq, loads>>
  /\ UNCHANGED <<server, screen, faults, clip, dialog, task>>

-----------------------------------------------------------------------------
(* The other commands.                                                      *)

Clearing(t) == IF task[t].op = "bulk" THEN {} ELSE selected

\* One of the requests of a task, out of those it still has to send.
After(t, k) == [task EXCEPT ![t].clean = RemoveAt(@, k)]

\* Deletes run in parallel; the answers come in any order.
DeleteOne(t) ==
  \E k \in DOMAIN task[t].clean :
    /\ task[t].op \in {"trash", "bulk"} /\ task[t].step = "send"
    /\ LET i == task[t].clean[k] IN
         /\ ~Missing(i) /\ at[i] \notin Protected
         /\ at' = [j \in Items |-> IF j = i \/ at[j] = i THEN "trash" ELSE at[j]]
         /\ past' = [past EXCEPT !.dest = [f \in Files |-> IF f = i THEN NONE ELSE @[f]]]
    /\ task' = [After(t, k) EXCEPT ![t].step = IF Len(task[t].clean) = 1 THEN "load" ELSE @]
    /\ selected' = IF Len(task[t].clean) = 1 THEN Clearing(t) ELSE selected
    /\ UNCHANGED <<name, screen, traffic, clip, dialog, asks>>

\* The first that fails ends the handler with an error in the dialog; the
\* others go on at the server.
FailDelete(t) ==
  \E k \in DOMAIN task[t].clean :
    /\ task[t].op \in {"trash", "bulk"} /\ task[t].step \in {"send", "drain"}
    /\ \/ Fail
       \/ /\ at[task[t].clean[k]] \in Protected \cup {"trash", "disk"}
          /\ past' = [past EXCEPT !.failed = TRUE] /\ UNCHANGED faults
    /\ task' = IF Len(task[t].clean) = 1 THEN [task EXCEPT ![t] = Idle]
               ELSE [After(t, k) EXCEPT ![t].step = "drain"]
    /\ UNCHANGED <<server, screen, seq, loads, picked, dialog, asks>>

\* Rename and new folder; the server refuses a name that is taken.
Submit(t) ==
  /\ task[t].op \in {"rename", "folder"} /\ task[t].step = "send"
  /\ LET i == task[t].dest  n == task[t].name IN
     \/ /\ task[t].op = "rename" /\ i \in Files /\ ~Missing(i) /\ NameFree(at[i], n, i)
        /\ name' = [name EXCEPT ![i] = n]
        /\ UNCHANGED at
     \/ /\ task[t].op = "rename" /\ i \in Dirs /\ ~Missing(i)
        /\ UNCHANGED server
     \/ /\ task[t].op = "folder"
        /\ \E d \in {e \in Dirs : at[e] = "disk"} : at' = [at EXCEPT ![d] = task[t].here]
        /\ UNCHANGED name
  /\ task' = [task EXCEPT ![t].step = "load"]
  /\ UNCHANGED <<screen, traffic, picked, dialog, asks, past>>

\* The dialog shows the error and stays; names of folders are left out, so
\* a folder's may be taken at any time.
Refused(t) ==
  /\ task[t].op \in {"rename", "folder"} /\ task[t].step = "send"
  /\ \/ Fail
     \/ /\ task[t].dest \in Files
        /\ Missing(task[t].dest) \/ ~NameFree(at[task[t].dest], task[t].name, task[t].dest)
        /\ UNCHANGED <<faults, past>>
     \/ task[t].dest \notin Files /\ UNCHANGED <<faults, past>>
  /\ task' = [task EXCEPT ![t] = Idle]
  /\ UNCHANGED <<server, screen, seq, loads, picked, dialog, asks>>

\* Paste at the current level, or into a folder's row.
Paste(t) ==
  \E p \in {path} \cup (Displayed \cap Dirs) :
    /\ IF p = path THEN Offered("paste", Toolbar) ELSE Offered("paste", FolderMenu)
    /\ Begin(t, [op |-> "paste", here |-> path, dest |-> p, given |-> clip,
                 clean |-> SetToSeq(clip), step |-> "send"])
    /\ UNCHANGED <<server, screen, traffic, picked, dialog, asks, past>>

\* The server copies one item after another; one that is gone is skipped.
CopyOne(t) ==
  /\ task[t].op = "paste" /\ task[t].step = "send"
  /\ LET i == Head(task[t].clean) IN
     \/ /\ ~Missing(i)
        /\ \E j \in IF i \in Files THEN {f \in Files : at[f] = "disk" /\ ~InHand(f)}
                                   ELSE {d \in Dirs : at[d] = "disk"} :
             /\ at' = [at EXCEPT ![j] = task[t].dest]
             /\ name' = [name EXCEPT ![j] = IF i \in Dirs THEN 0
                                            ELSE AvailableName(task[t].dest, name[i], j)]
     \/ Missing(i) /\ UNCHANGED server
  /\ task' = Sent(t)
  /\ UNCHANGED <<screen, traffic, picked, dialog, asks, past>>

\* No reload when the request fails, and the clipboard is kept.
FailPaste(t) ==
  /\ task[t].op = "paste" /\ task[t].step = "send"
  /\ Fail
  /\ task' = [task EXCEPT ![t] = Idle]
  /\ UNCHANGED <<server, screen, seq, loads, picked, dialog, asks>>

\* What follows the reload: a dialog closes, a paste uses up the clipboard.
Finish(t) ==
  /\ task[t].op \in {"tree", "moverow", "trash", "bulk", "rename", "folder", "paste"} /\ Ended(t)
  /\ dialog' = IF task[t].op \in {"trash", "bulk", "rename", "folder"} THEN NONE ELSE dialog
  /\ clip' = IF task[t].op = "paste" THEN {} ELSE clip
  /\ task' = [task EXCEPT ![t] = Idle]
  /\ UNCHANGED <<server, screen, traffic, selected, asks, past>>

-----------------------------------------------------------------------------
(* The specification and its properties.                                    *)

First == CHOOSE w \in Workspaces : TRUE

Init ==
  /\ at = [i \in Items |-> IF i \in DOMAIN Stored THEN Stored[i].at ELSE "disk"]
  /\ name = [i \in Items |-> IF i \in DOMAIN Stored THEN Stored[i].name ELSE 0]
  /\ path = First /\ query = FALSE /\ found = {NONE}
  /\ list = [at |-> First, items |-> Browse(First)]
  /\ seq = 0 /\ loads = {} /\ faults = 0
  /\ selected = {} /\ clip = {} /\ dialog = NONE
  /\ asks = [upload |-> <<>>, move |-> <<>>, to |-> NONE]
  /\ task = [t \in Tasks |-> Idle]
  /\ past = [dest |-> [f \in Files |-> NONE], clashed |-> {}, answered |-> {},
             ignored |-> FALSE, failed |-> FALSE]

Browsing == AnswerLoad \/ ApplyLoad \/ FailLoad \/ EnterFolder \/ SelectWorkspace \/ GoBack
            \/ SubmitSearch \/ AnswerSearch \/ LeaveSearch
Choosing == Tick \/ Copy \/ ForgetClip \/ OpenDialog \/ CloseDialog \/ SkipUpload \/ SkipMove
Starting(t) == PickFiles(t) \/ DropTree(t) \/ MoveItems(t) \/ MoveRow(t) \/ Paste(t)
               \/ ConfirmTrash(t) \/ ConfirmName(t) \/ AnswerUpload(t) \/ AnswerMove(t)
Running(t) == Reload(t) \/ CheckName(t) \/ Checked(t) \/ CreateDir(t) \/ SendFile(t)
              \/ PickName(t) \/ WriteMove(t) \/ FailMove(t) \/ RenameFirst(t) \/ FailAmend(t)
              \/ DeleteOne(t) \/ FailDelete(t) \/ Submit(t) \/ Refused(t) \/ CopyOne(t) \/ FailPaste(t)
Ending(t) == FinishUpload(t) \/ FinishAnswer(t) \/ FinishMove(t) \/ FinishAmend(t) \/ Finish(t)

Next == Browsing \/ Choosing \/ \E t \in Tasks : Starting(t) \/ Running(t) \/ Ending(t)

Spec == Init /\ [][Next]_vars

TypeOK ==
  /\ at \in [Items -> Places \cup Dirs \cup {"trash", "disk"}] /\ name \in [Items -> 0..MaxName]
  /\ path \in Places /\ query \in BOOLEAN /\ (found = {NONE} \/ found \subseteq Files)
  /\ list = NONE \/ (list.at \in Places /\ list.items \subseteq Items)
  /\ seq \in 0..MaxLoads /\ faults \in 0..MaxFaults
  /\ \A r \in loads : r.seq \in 1..seq /\ r.at \in Places /\ (r.got = {NONE} \/ r.got \subseteq Items)
  /\ selected \subseteq Items /\ clip \subseteq Items
  /\ dialog = NONE \/ dialog.kind \in {"trash", "rename", "bulk", "folder"}
  /\ asks.upload \in Seq(Files) /\ asks.move \in Seq(Files) /\ asks.to \in Places \cup Dirs \cup {NONE}
  /\ \A t \in Tasks : task[t].op \in All \cup {"idle", "answer", "amend", "moverow"}

Quiet == loads = {} /\ (\A t \in Tasks : Free(t)) /\ asks.move = <<>>

\* What the page lists is what the server has at the place listed, once no
\* request is out, every prompt is answered and none has failed: whatever order
\* answers came in (reloadSeq in Files.tsx).
Fresh == Quiet /\ ~past.failed /\ list # NONE => list.items = Browse(list.at)

\* The place listed is the one in the URL, once no request is out. (Not kept by
\* the code: see the README.)
ListOfPath == Quiet /\ ~past.failed => list # NONE /\ list.at = path

\* Two files at one place have two names (moveItemsTo: moves one at a time,
\* since no constraint of the table breaks the tie).
NamesDistinct ==
  \A f, g \in Files :
    f # g /\ {at[f], at[g]} \subseteq Places \cup Dirs /\ SamePlace(at[f], at[g])
      => name[f] # name[g]

\* A file that was dropped is where it was dropped, whatever the user opened
\* meanwhile, unless its name was taken and the prompt was answered.
Delivered ==
  \A f \in Files : past.dest[f] # NONE /\ at[f] \in Places \cup Dirs
                     => at[f] = past.dest[f] \/ f \in past.answered

\* The prompt's answer too leaves the file where it was dropped. (Not kept by
\* the code: see the README.)
Landed ==
  \A f \in Files : past.dest[f] # NONE /\ at[f] \in Places \cup Dirs => at[f] = past.dest[f]

\* A name clash that was found is put to the user: its file waits in a handler
\* or a prompt, or the prompt was answered.
ClashAsked ==
  \A f \in past.clashed : \/ f \in past.answered \/ InHand(f)
                          \/ \E k \in DOMAIN asks.move : asks.move[k] = f

\* A move that would move something does something. (Not kept by the code: see
\* the README.)
MoveHeard == ~past.ignored
=============================================================================
