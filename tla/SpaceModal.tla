----------------------------- MODULE SpaceModal -----------------------------
(***************************************************************************)
(* The dialog that creates or edits a workspace (WorkspaceCreateModal.tsx) *)
(* over the file browser that opens it (Files.tsx), and the service behind *)
(* it (workspaces/service.go).  Sizes are carved out of the account's pool *)
(* and the members' access to the workspace is changed as it is picked.    *)
(* The service reads the quota in one statement and writes in another.     *)
(***************************************************************************)
EXTENDS Naturals, FiniteSets, FiniteSetsExt

CONSTANTS NONE,
          Spaces,   \* the workspaces there may be
          Members,  \* how many there are whose access can be set
          Sizes, Total, Limit, \* what may be typed, the pool, the plan's number of workspaces
          MaxTasks, \* requests in flight
          Faults,   \* the requests that may fail: "list", "roster", "access", "save"
          MaxFaults,
          Others,   \* other admins and uploads come in: "never", "between" two saves, at "any" time
          Patient   \* the user waits for the answers before the next dialog or pick

VARIABLES alloc, usage,  \* the workspaces' sizes, 0 for none, and what they store
          granted,       \* who may use which
          listed,        \* what the browser last loaded
          modal, tasks, spent

vars == <<alloc, usage, granted, listed, modal, tasks, spent>>
Modes == {"none", "part", "full"}
SpaceAssumption == /\ Total \in Nat /\ Limit \in Nat /\ Sizes \subseteq 1..Total
                   /\ Faults \subseteq {"list", "roster", "access", "save"}
                   /\ Others \in {"never", "between", "any"} /\ Patient \in BOOLEAN

Allocated(sizes) == MapThenSumSet(LAMBDA s : sizes[s], Spaces)
Live(sizes) == {s \in Spaces : sizes[s] > 0}
Less(a, b) == IF a < b THEN 0 ELSE a - b
Closed == [open |-> FALSE, of |-> NONE, held |-> 0, min |-> 0, size |-> 0, busy |-> FALSE,
           error |-> NONE, roster |-> NONE, sel |-> NONE]

Init == /\ alloc \in {a \in [Spaces -> Sizes \cup {0}] : Allocated(a) <= Total /\ Cardinality(Live(a)) <= Limit}
        /\ usage = [s \in Spaces |-> IF alloc[s] > 1 THEN 1 ELSE 0]
        /\ granted = [s \in Spaces |-> [i \in 1..Members |-> "none"]]
        /\ listed = [alloc |-> alloc, usage |-> usage]
        /\ modal = Closed /\ tasks = {} /\ spent = 0

\* A request for a workspace, with its number, what it carries and what the
\* service said.
Request(n, k, s, x) == [kind |-> k, n |-> n, of |-> s, with |-> x, got |-> NONE]
Begin(k, s, x) == Request(CHOOSE n \in 1..MaxTasks : \A t \in tasks : t.n # n, k, s, x)
Send(k, s, x) == Cardinality(tasks) < MaxTasks /\ tasks' = tasks \cup {Begin(k, s, x)}
Done(t) == tasks' = tasks \ {t}
Becomes(t, u) == tasks' = (tasks \ {t}) \cup {u}
Fails(t) == t.kind \in Faults /\ spent < MaxFaults /\ spent' = spent + 1
Service == <<alloc, usage, granted>>

\* The browser loads the workspaces and the pool when it is mounted.
Mount == ~modal.open /\ tasks = {} /\ Send("list", NONE, 0) /\ UNCHANGED <<Service, listed, modal, spent>>

\* "New workspace" or "Edit this workspace": the dialog takes a copy of the
\* browser's row and asks who has access.  What a roster held is not cleared.
Open(s) ==
  /\ ~modal.open /\ (Patient => tasks = {})
  /\ s # NONE => listed.alloc[s] > 0
  /\ modal' = [modal EXCEPT !.open = TRUE, !.of = s, !.busy = FALSE, !.error = NONE,
                            !.held = IF s = NONE THEN 0 ELSE listed.alloc[s],
                            !.min = IF s = NONE THEN 0 ELSE listed.usage[s],
                            !.size = IF s = NONE THEN 1 ELSE listed.alloc[s],
                            !.roster = IF s = NONE THEN NONE ELSE @,
                            !.sel = IF s = NONE THEN NONE ELSE @]
  /\ IF s = NONE THEN UNCHANGED tasks ELSE Send("roster", s, 0)
  /\ UNCHANGED <<Service, listed, spent>>

\* Closing forgets the roster and the request for it, not the changes under way.
Shut(sent) == modal' = Closed /\ tasks' = {t \in sent : t.kind # "roster"}
Close == /\ modal.open /\ ~modal.busy /\ (Patient => \A t \in tasks : t.kind = "roster")
         /\ Shut(tasks) /\ UNCHANGED <<Service, listed, spent>>

\* What may be allocated: the rest of the pool and the workspace's own part.
Remaining == Less(Total, Allocated(listed.alloc)) + modal.held
Fits(x) == x > 0 /\ x <= Remaining /\ x >= modal.min
Type(x) == modal.open /\ modal' = [modal EXCEPT !.size = x] /\ UNCHANGED <<Service, listed, tasks, spent>>
Save == /\ modal.open /\ ~modal.busy /\ Fits(modal.size) /\ (Patient => tasks = {})
        /\ modal' = [modal EXCEPT !.busy = TRUE, !.error = NONE]
        /\ Send("save", modal.of, modal.size) /\ UNCHANGED <<Service, listed, spent>>

\* The service's first half: the plan's number, the pool without the
\* workspace's own part, what it stores.
Verdict(s, x) ==
  CASE s = NONE /\ Cardinality(Live(alloc)) >= Limit -> "limit"
    [] s # NONE /\ x < usage[s] -> "usage"
    [] Less(Allocated(alloc), IF s = NONE THEN 0 ELSE alloc[s]) + x > Total -> "pool"
    [] OTHER -> "checked"
Check(t) == /\ t.kind = "save" /\ t.got = NONE /\ Becomes(t, [t EXCEPT !.got = Verdict(t.of, t.with)])
            /\ UNCHANGED <<Service, listed, modal, spent>>
\* Its second half: a row is inserted or updated.
Write(t) == /\ t.kind = "save" /\ t.got = "checked"
            /\ \E s \in Spaces : /\ IF t.of = NONE THEN alloc[s] = 0 ELSE s = t.of
                                 /\ alloc' = [alloc EXCEPT ![s] = t.with]
            /\ Becomes(t, [t EXCEPT !.got = "saved"]) /\ UNCHANGED <<usage, granted, listed, modal, spent>>
\* A save that is done closes the dialog and loads the list again; a refusal
\* or a failure leaves it open with the reason.
Saved(t) == /\ t.kind = "save"
            /\ \/ t.got = "saved" /\ Shut((tasks \ {t}) \cup {Request(t.n, "list", NONE, 0)}) /\ UNCHANGED spent
               \/ /\ \/ t.got \in {"limit", "pool", "usage"} /\ UNCHANGED spent
                     \/ Fails(t) /\ t.got # "checked"
                  /\ modal' = [modal EXCEPT !.busy = FALSE, !.error = IF spent' = spent THEN t.got ELSE "lost"]
                  /\ Done(t)
            /\ UNCHANGED <<Service, listed>>

\* Access: a pick shows at once and goes to the service.
Shows == modal.open /\ modal.roster # NONE
Member(m) == Shows /\ m \in DOMAIN modal.roster /\ modal' = [modal EXCEPT !.sel = m] /\ UNCHANGED <<Service, listed, tasks, spent>>
Grant(mode) ==
  /\ Shows /\ modal.of # NONE /\ modal.sel \in DOMAIN modal.roster /\ mode # modal.roster[modal.sel]
  /\ Patient => tasks = {}
  /\ modal' = [modal EXCEPT !.roster[modal.sel] = mode]
  /\ Send("access", modal.of, [who |-> modal.sel, mode |-> mode]) /\ UNCHANGED <<Service, listed, spent>>

\* The service answers a question, or sets a member's access in one transaction.
Serve(t) ==
  /\ t.kind \in {"list", "roster", "reload", "access"} /\ t.got = NONE
  /\ Becomes(t, [t EXCEPT !.got = CASE t.kind = "list" -> [alloc |-> alloc, usage |-> usage]
                                    [] t.kind = "access" -> [ok |-> TRUE]
                                    [] OTHER -> granted[t.of]])
  /\ granted' = IF t.kind = "access" THEN [granted EXCEPT ![t.of][t.with.who] = t.with.mode] ELSE granted
  /\ UNCHANGED <<alloc, usage, listed, modal, spent>>

\* A change of access that failed has the roster loaded again.
Applied(t) == /\ t.kind = "access" /\ UNCHANGED modal
              /\ \/ t.got # NONE /\ Done(t) /\ UNCHANGED spent
                 \/ Fails(t) /\ Becomes(t, Request(t.n, "reload", t.of, 0))
\* The roster shows what came, whatever is open by then when it was loaded
\* again; a failure shows that there is nobody, or changes nothing.
Loaded(t) == /\ t.kind \in {"roster", "reload"} /\ Done(t)
             /\ \/ /\ t.got # NONE /\ UNCHANGED spent
                   /\ modal' = [modal EXCEPT !.roster = t.got, !.sel = IF t.kind = "roster" THEN 1 ELSE @]
                \/ "roster" \in Faults /\ spent < MaxFaults /\ spent' = spent + 1
                   /\ modal' = IF t.kind = "roster" THEN [modal EXCEPT !.roster = <<>>] ELSE modal
Listed(t) == /\ t.kind = "list" /\ Done(t) /\ UNCHANGED modal
             /\ \/ t.got # NONE /\ listed' = t.got /\ UNCHANGED spent
                \/ Fails(t) /\ UNCHANGED listed
Answer(t) == \/ (Applied(t) \/ Loaded(t)) /\ UNCHANGED <<Service, listed>>
             \/ Listed(t) /\ UNCHANGED Service

\* Another admin sets a size, or a file comes in that fits its workspace.
Calm == \/ Others = "any"
        \/ Others = "between" /\ \A t \in tasks : t.kind = "save" => t.got # "checked"
Elsewhere == /\ Calm /\ UNCHANGED <<granted, listed, modal, tasks, spent>>
             /\ \/ \E s \in Spaces, x \in Sizes :
                     /\ Verdict(IF alloc[s] = 0 THEN NONE ELSE s, x) = "checked"
                     /\ alloc' = [alloc EXCEPT ![s] = x] /\ UNCHANGED usage
                \/ \E s \in Spaces : usage[s] < alloc[s] /\ usage' = [usage EXCEPT ![s] = @ + 1] /\ UNCHANGED alloc

Served == \E t \in tasks : Check(t) \/ Write(t) \/ Saved(t) \/ Serve(t) \/ Answer(t)
Next == \/ \E s \in Spaces \cup {NONE} : Open(s)
        \/ \E x \in Sizes : Type(x)
        \/ \E m \in 1..Members : Member(m)
        \/ \E mode \in Modes : Grant(mode)
        \/ Mount \/ Close \/ Save \/ Served \/ Elsewhere
Spec == Init /\ [][Next]_vars
----------------------------------------------------------------------------
TypeOK == /\ alloc \in [Spaces -> 0..Total] /\ usage \in [Spaces -> 0..Total]
          /\ granted \in [Spaces -> [1..Members -> Modes]]
          /\ modal.of \in Spaces \cup {NONE} /\ modal.busy \in BOOLEAN
          /\ Cardinality(tasks) <= MaxTasks /\ spent <= MaxFaults

\* The sizes of an account's workspaces never add up to more than its plan,
\* nor are there more of them: "the sum across the account's workspaces still
\* can't exceed the plan total".
PoolHeld == Allocated(alloc) <= Total /\ Cardinality(Live(alloc)) <= Limit

\* No workspace is smaller than what it stores.
UsageHeld == \A s \in Spaces : alloc[s] > 0 => usage[s] <= alloc[s]

\* With nobody else about, what the dialog lets the user save is not refused
\* for its size.
SaveFits == modal.error \notin {"pool", "usage"}

\* Once nothing is on its way, the roster shows the access the members have to
\* the workspace that is being edited, also after a change that failed.
RosterTrue == Shows /\ tasks = {} => \A m \in DOMAIN modal.roster : modal.roster[m] = granted[modal.of][m]
=============================================================================
