-------------------------------- MODULE Seats --------------------------------
(***************************************************************************)
(* The Users page of the web client (interface/src/pages/Members.tsx with  *)
(* AddSeatsModal and SeatMeter), the page an invitation opens              *)
(* (InviteAccept.tsx), and the server behind them: invites, members, their *)
(* access, the seats of the plan.                                          *)
(*                                                                         *)
(* A handler of the page awaits its requests while the user goes on: it is *)
(* a task holding what its closure captured.  The three lists the page     *)
(* shows are loaded by requests that are answered and applied in any       *)
(* order.  A user stands for an email address; the owner, who is always    *)
(* active and cannot be ticked, is one seat of the count.                  *)
(***************************************************************************)
EXTENDS Naturals, FiniteSets, SequencesExt

CONSTANTS
  Users,
  Ids,        \* rows of the invites table
  Spaces,     \* workspaces to give access to
  Member,     \* the users that are members to begin with
  Access,     \* what each of them may enter
  Included,   \* seats of the plan
  Tasks,      \* handlers in flight at a time
  Others,     \* those of a second administrator, who invites from another page
  Commands,   \* the commands given in an instance
  MaxLoads,   \* bound on list requests in flight
  MaxOpens,   \* bound on openings of the access dialog
  MaxFaults,  \* bound on requests that fail
  MaxQty,     \* bound on the seats one buys
  NONE

All == {"invite", "resend", "revoke", "bulk", "status", "access", "delete", "seats", "lapse", "accept"}

SeatsAssumption ==
  /\ Member \subseteq Users /\ Access \in [Users -> SUBSET Spaces]
  /\ Included \in Nat \ {0} /\ MaxLoads \in Nat /\ MaxOpens \in Nat
  /\ MaxFaults \in Nat /\ MaxQty \in Nat \ {0}
  /\ Commands \subseteq All /\ Others \subseteq Tasks /\ NONE \notin Users /\ NONE \notin Ids

VARIABLES
  member,   \* server: tenant_members.status, or "none"
  invite,   \* server: the invites' email and status; "free" is no row yet
  lapsed,   \* server: invites past expires_at
  grants,   \* server: the workspaces of each member
  extra,    \* server: seats bought
  opened,   \* invitations whose page has been loaded and is ready
  shown,    \* page: the users and pending invites listed and the seat meter
  ticked,   \* page: selected users and selected invites
  access,   \* page: the access dialog
  buy,      \* page: the add-seats dialog
  loads,    \* list requests in flight
  task,     \* handlers in flight
  past      \* history: revocations the server refused, requests failed, openings

rows == <<member, invite, lapsed, grants, extra>>
page == <<shown, ticked, access, buy>>
vars == <<rows, opened, page, loads, task, past>>

Idle == [op |-> "idle", todo |-> <<>>, who |-> {}, step |-> "none", prev |-> {}]
Shut == [open |-> FALSE, loading |-> FALSE, busy |-> FALSE, val |-> {}, edited |-> FALSE]
NoSale == [open |-> FALSE, qty |-> 1, price |-> 0, asked |-> <<>>, loading |-> FALSE, sent |-> NONE]

Init ==
  /\ member = [u \in Users |-> IF u \in Member THEN "active" ELSE "none"]
  /\ invite = [i \in Ids |-> [for |-> NONE, status |-> "free"]]
  /\ lapsed = {} /\ grants = Access /\ extra = 0 /\ opened = {}
  /\ shown = [users |-> Member, pending |-> {}, meter |-> <<1 + Cardinality(Member), Included>>]
  /\ ticked = [users |-> {}, invites |-> {}]
  /\ access = Shut /\ buy = NoSale
  /\ loads = {} /\ task = [t \in Tasks |-> Idle]
  /\ past = [refused |-> {}, faults |-> 0, opens |-> 0]

-----------------------------------------------------------------------------
(* The server.                                                              *)

Pending == {i \in Ids : invite[i].status = "pending"}
PendingFor(u) == {i \in Pending : invite[i].for = u}
Active == {u \in Users : member[u] = "active"}
Cap == Included + extra
Used == 1 + Cardinality(Active) + Cardinality(Pending)

\* One seat more than there are.
Full == Used >= Cap

SetStatus(S, st) == [i \in Ids |-> IF i \in S THEN [invite[i] EXCEPT !.status = st] ELSE invite[i]]

\* A second pending row for one email is refused by the unique index.
Unique(u, i) == PendingFor(u) \subseteq {i}

Faulty == past.faults < MaxFaults /\ past' = [past EXCEPT !.faults = @ + 1]

-----------------------------------------------------------------------------
(* The lists.  A request is issued, answered from the server's state, and   *)
(* applied; a later request may be answered or applied first.               *)

NoLists == [users |-> {}, pending |-> {}, meter |-> <<0, 0>>]
Snapshot(of) == CASE of = "users" -> [NoLists EXCEPT !.users = {u \in Users : member[u] # "none"}]
                  [] of = "pending" -> [NoLists EXCEPT !.pending = {i \in Pending : i \notin lapsed}]
                  [] of = "meter" -> [NoLists EXCEPT !.meter = <<Used, Cap>>]

Asking(S) == loads' = loads \cup {[of |-> of, done |-> FALSE, got |-> NoLists] : of \in S}

AnswerList ==
  \E r \in loads :
    /\ ~r.done
    /\ loads' = (loads \ {r}) \cup {[of |-> r.of, done |-> TRUE, got |-> Snapshot(r.of)]}
    /\ UNCHANGED <<rows, opened, page, task, past>>

ApplyList ==
  \E r \in loads :
    /\ r.done /\ loads' = loads \ {r}
    /\ shown' = [shown EXCEPT ![r.of] = r.got[r.of]]
    /\ UNCHANGED <<rows, opened, ticked, access, buy, task, past>>

\* Silent: the list stays as it is.
FailList ==
  \E r \in loads :
    /\ ~r.done /\ Faulty /\ loads' = loads \ {r}
    /\ UNCHANGED <<rows, opened, page, task>>

-----------------------------------------------------------------------------
(* What the page offers.                                                    *)

Modal == access.open \/ buy.open \/ \E t \in Tasks : t \notin Others /\ task[t].op \in {"invite", "delete"}
Idling(t) == task[t] = Idle
Free(t) == Idling(t) /\ t \notin Others /\ Cardinality(loads) < MaxLoads
Offered(c) == c \in Commands /\ ~Modal
UserBar(c) == Offered(c) /\ ticked.users # {}
InviteBar == Offered("bulk") /\ ticked.invites # {}
Begin(t, new) == task' = [task EXCEPT ![t] = new]
End(t) == task' = [task EXCEPT ![t] = Idle]

Toggle(S, x) == IF x \in S THEN S \ {x} ELSE S \cup {x}

\* The rows with a checkbox: the owner has none.
Selectable == shown.users

TickUser ==
  \E u \in Selectable :
    /\ Commands \cap {"status", "access"} # {} /\ ~Modal
    /\ ticked' = [ticked EXCEPT !.users = Toggle(@, u)]
    /\ UNCHANGED <<rows, opened, shown, access, buy, loads, task, past>>

TickInvite ==
  \E i \in shown.pending :
    /\ Offered("bulk")
    /\ ticked' = [ticked EXCEPT !.invites = Toggle(@, i)]
    /\ UNCHANGED <<rows, opened, shown, access, buy, loads, task, past>>

-----------------------------------------------------------------------------
(* Inviting: the form posts a list of emails; the server takes them one by  *)
(* one, each in statements of their own.                                    *)

\* What can be typed into the form.
Forms == {<<u>> : u \in Users} \cup {<<u, v>> : u, v \in Users}

SubmitInvite(t) ==
  \E s \in Forms :
    /\ (Offered("invite") /\ Free(t)) \/ (t \in Others /\ Idling(t))
    /\ IsInjective(s)
    /\ Begin(t, [Idle EXCEPT !.op = "invite", !.todo = s, !.step = "count"])
    /\ UNCHANGED <<rows, opened, page, loads, past>>

\* Already a member, or no seat: the rest is not tried and the form shows the error.
CountSeats(t) ==
  /\ task[t].step = "count"
  /\ LET refused == member[Head(task[t].todo)] = "active" \/ Full IN
       task' = [task EXCEPT ![t].step = IF refused THEN "failed" ELSE "revoke"]
  /\ UNCHANGED <<rows, opened, page, loads, past>>

\* An earlier pending invite of the email is revoked.
RevokePrior(t) ==
  /\ task[t].step = "revoke"
  /\ invite' = SetStatus(PendingFor(Head(task[t].todo)), "revoked")
  /\ task' = [task EXCEPT ![t].step = "insert"]
  /\ UNCHANGED <<member, lapsed, grants, extra, opened, page, loads, past>>

InsertInvite(t) ==
  /\ task[t].step = "insert"
  /\ LET u == Head(task[t].todo)
         last == Len(task[t].todo) = 1 IN
     \/ /\ ~Unique(u, NONE) /\ task' = [task EXCEPT ![t].step = "failed"]
        /\ UNCHANGED invite
     \/ /\ Unique(u, NONE)
        /\ \E i \in Ids : invite[i].status = "free" /\ invite' = [invite EXCEPT ![i] = [for |-> u, status |-> "pending"]]
        /\ task' = [task EXCEPT ![t].todo = Tail(@), ![t].step = IF last THEN "sent" ELSE "count"]
  /\ UNCHANGED <<member, lapsed, grants, extra, opened, page, loads, past>>

\* The links are shown and the meter is loaded; closing the form loads the lists.
CloseInvite(t) ==
  /\ task[t].step = "sent" /\ Asking(IF t \in Others THEN {} ELSE {"meter", "users", "pending"})
  /\ End(t)
  /\ UNCHANGED <<rows, opened, page, past>>

\* After an error closing the form loads nothing.
CancelInvite(t) ==
  /\ task[t].step = "failed"
  /\ End(t)
  /\ UNCHANGED <<rows, opened, page, loads, past>>

-----------------------------------------------------------------------------
(* The invitation's own page, opened by the person invited.                 *)

Lapse ==
  \E i \in Pending \ lapsed :
    /\ "lapse" \in Commands /\ lapsed' = lapsed \cup {i}
    /\ UNCHANGED <<member, invite, grants, extra, opened, page, loads, task, past>>

\* The lookup marks a lapsed invite as expired.
Lookup ==
  \E i \in Ids \ opened :
    /\ "accept" \in Commands /\ invite[i].status \in {"pending", "expired"}
    /\ IF i \in lapsed THEN invite' = SetStatus({i} \cap Pending, "expired") /\ UNCHANGED opened
       ELSE opened' = opened \cup {i} /\ UNCHANGED invite
    /\ UNCHANGED <<member, lapsed, grants, extra, page, loads, task, past>>

Open(i) == invite[i].status \notin {"accepted", "revoked"} /\ i \notin lapsed

\* One transaction that holds the invite's row: checked again, then the
\* membership, its workspaces and the status.  A disabled member's row is in the way.
Accept ==
  \E i \in opened :
    /\ Open(i) /\ member[invite[i].for] = "none"
    /\ member' = [member EXCEPT ![invite[i].for] = "active"]
    /\ invite' = SetStatus({i}, "accepted")
    /\ \E S \in SUBSET Spaces : grants' = [grants EXCEPT ![invite[i].for] = S]
    /\ UNCHANGED <<lapsed, extra, opened, page, loads, task, past>>

-----------------------------------------------------------------------------
(* Resending and revoking.                                                  *)

Resendable(i) == invite[i].status \in {"pending", "expired"} /\ Unique(invite[i].for, i)

Resent(S) ==
  /\ invite' = SetStatus(S, "pending")
  /\ lapsed' = lapsed \ S
  /\ UNCHANGED <<member, grants, extra, opened, page, loads, past>>

\* A row's button, one at a time; the bar's, for all that are ticked.
Resend(t) ==
  /\ Free(t) /\ \A s \in Tasks : task[s].op # "resend"
  /\ \/ \E i \in shown.pending : Offered("resend") /\ Begin(t, [Idle EXCEPT !.op = "resend", !.who = {i}, !.step = "each"])
     \/ InviteBar /\ Begin(t, [Idle EXCEPT !.op = "resend", !.who = ticked.invites, !.step = "each"])
  /\ UNCHANGED <<rows, opened, page, loads, past>>

ResendOne(t) ==
  /\ task[t].op = "resend"
  /\ \E i \in task[t].who :
       /\ Resent(IF Resendable(i) THEN {i} ELSE {})
       /\ task' = [task EXCEPT ![t].who = @ \ {i}]

FinishResend(t) ==
  /\ task[t].op = "resend" /\ task[t].who = {}
  /\ ticked' = [ticked EXCEPT !.invites = {}]
  /\ End(t)
  /\ UNCHANGED <<rows, opened, shown, access, buy, loads, past>>

\* The rows are dropped at once; the handler keeps the list it saw.
Revoke(t) ==
  /\ Free(t)
  /\ \E S \in SUBSET shown.pending \cup {ticked.invites} :
       /\ \/ Offered("revoke") /\ Cardinality(S) = 1
             /\ Begin(t, [Idle EXCEPT !.op = "revoke", !.who = S, !.prev = shown.pending, !.step = "each"])
          \/ InviteBar /\ S = ticked.invites
             /\ Begin(t, [Idle EXCEPT !.op = "bulk", !.who = S, !.prev = shown.pending, !.step = "each"])
       /\ shown' = [shown EXCEPT !.pending = @ \ S]
       /\ ticked' = [ticked EXCEPT !.invites = @ \ S]
  /\ UNCHANGED <<rows, opened, access, buy, loads, past>>

\* Only a pending invite can be revoked; else the server answers "not found".
RevokeOne(t) ==
  /\ task[t].op \in {"revoke", "bulk"}
  /\ \E i \in task[t].who :
       LET known == task[t].step
           ok == i \in Pending IN
         /\ invite' = SetStatus({i} \cap Pending, "revoked")
         /\ past' = IF ok THEN past ELSE [past EXCEPT !.refused = @ \cup {i}]
         /\ task' = [task EXCEPT ![t].who = @ \ {i}, ![t].step = IF ok THEN known ELSE "failed"]
  /\ UNCHANGED <<member, lapsed, grants, extra, opened, page, loads>>

\* What is loaded at the end: the meter if the one was revoked; the list if any
\* of several was not.
Afterwards(t) ==
  CASE task[t].op = "revoke" /\ task[t].step = "each" -> {"meter"}
    [] task[t].op = "bulk" /\ task[t].step = "failed" -> {"pending"}
    [] OTHER -> {}

\* If one was refused the list the handler saw is put back.
FinishRevoke(t) ==
  /\ task[t].op \in {"revoke", "bulk"} /\ task[t].who = {}
  /\ Asking(Afterwards(t))
  /\ shown' = IF task[t].step = "failed" THEN [shown EXCEPT !.pending = task[t].prev] ELSE shown
  /\ End(t)
  /\ UNCHANGED <<rows, opened, ticked, access, buy, past>>

-----------------------------------------------------------------------------
(* Members: status and removal.                                             *)

BulkSetStatus(t) ==
  \E st \in {"active", "suspended"} :
    /\ UserBar("status") /\ Free(t) /\ \A s \in Tasks : task[s].op # "status"
    /\ Begin(t, [Idle EXCEPT !.op = "status", !.who = ticked.users, !.step = st])
    /\ UNCHANGED <<rows, opened, page, loads, past>>

SetOne(t) ==
  /\ task[t].op = "status"
  /\ \E u \in task[t].who :
       /\ member' = IF member[u] = "none" THEN member ELSE [member EXCEPT ![u] = task[t].step]
       /\ task' = [task EXCEPT ![t].who = @ \ {u}]
  /\ UNCHANGED <<invite, lapsed, grants, extra, opened, page, loads, past>>

\* The users are fetched, the meter loaded, the selection cleared.
FinishStatus(t) ==
  /\ task[t].op = "status" /\ task[t].who = {}
  /\ shown' = [shown EXCEPT !.users = Snapshot("users").users]
  /\ Asking({"meter"})
  /\ ticked' = [ticked EXCEPT !.users = {}]
  /\ End(t)
  /\ UNCHANGED <<rows, opened, access, buy, past>>

ConfirmDelete(t) ==
  \E u \in shown.users :
    /\ Offered("delete") /\ Free(t)
    /\ Begin(t, [Idle EXCEPT !.op = "delete", !.who = {u}, !.step = "send"])
    /\ UNCHANGED <<rows, opened, page, loads, past>>

RemoveMember(t) ==
  /\ task[t].op = "delete" /\ task[t].step = "send"
  /\ \E u \in task[t].who :
       /\ member' = [member EXCEPT ![u] = "none"] /\ grants' = [grants EXCEPT ![u] = {}]
       /\ task' = [task EXCEPT ![t].step = IF member[u] = "none" THEN "failed" ELSE "done"]
  /\ UNCHANGED <<invite, lapsed, extra, opened, page, loads, past>>

\* The row is dropped and the meter loaded; an error stays in the dialog.
FinishDelete(t) ==
  /\ task[t].op = "delete" /\ task[t].step # "send"
  /\ IF task[t].step = "done"
     THEN /\ shown' = [shown EXCEPT !.users = @ \ task[t].who]
          /\ ticked' = [ticked EXCEPT !.users = @ \ task[t].who]
          /\ Asking({"meter"})
     ELSE UNCHANGED <<shown, ticked, loads>>
  /\ End(t)
  /\ UNCHANGED <<rows, opened, access, buy, past>>

-----------------------------------------------------------------------------
(* The access dialog.                                                       *)

\* It opens empty and is filled in when the access of the users ticked arrives.
OpenAccess(t) ==
  /\ UserBar("access") /\ Free(t) /\ past.opens < MaxOpens
  /\ past' = [past EXCEPT !.opens = @ + 1]
  /\ access' = [Shut EXCEPT !.open = TRUE, !.loading = TRUE]
  /\ Begin(t, [Idle EXCEPT !.op = "prefill", !.who = ticked.users])
  /\ UNCHANGED <<rows, opened, shown, ticked, buy, loads>>

\* The union of what all of them have.
Union(S) == UNION {grants[u] : u \in S}

\* A member whose request failed counts as one without access.
Prefill(t) ==
  /\ task[t].op = "prefill"
  /\ \/ UNCHANGED past /\ access' = [access EXCEPT !.val = Union(task[t].who), !.loading = FALSE]
     \/ \E u \in task[t].who :
          Faulty /\ access' = [access EXCEPT !.val = Union(task[t].who \ {u}), !.loading = FALSE]
  /\ End(t)
  /\ UNCHANGED <<rows, opened, shown, ticked, buy, loads>>

EditAccess ==
  \E S \in SUBSET Spaces :
    /\ access.open /\ ~access.loading /\ ~access.busy
    /\ access' = [access EXCEPT !.val = S, !.edited = TRUE]
    /\ UNCHANGED <<rows, opened, shown, ticked, buy, loads, task, past>>

CloseAccess ==
  /\ access.open /\ ~access.busy
  /\ access' = [access EXCEPT !.open = FALSE]
  /\ UNCHANGED <<rows, opened, shown, ticked, buy, loads, task, past>>

\* Each member's set is replaced by the value shown.
SubmitAccess(t) ==
  /\ access.open /\ ~access.loading /\ ~access.busy /\ ticked.users # {} /\ Free(t)
  /\ access' = [access EXCEPT !.busy = TRUE]
  /\ Begin(t, [Idle EXCEPT !.op = "access", !.who = ticked.users \cap shown.users, !.prev = access.val, !.step = "each"])
  /\ UNCHANGED <<rows, opened, shown, ticked, buy, loads, past>>

GrantOne(t) ==
  /\ task[t].op = "access"
  /\ \E u \in task[t].who :
       \/ /\ grants' = IF member[u] = "none" THEN grants ELSE [grants EXCEPT ![u] = task[t].prev]
          /\ task' = [task EXCEPT ![t].who = @ \ {u}, ![t].step = IF member[u] = "none" THEN "failed" ELSE @]
          /\ UNCHANGED past
       \/ Faulty /\ task' = [task EXCEPT ![t].who = @ \ {u}, ![t].step = "failed"] /\ UNCHANGED grants
  /\ UNCHANGED <<member, invite, lapsed, extra, opened, page, loads>>

\* If one fails the dialog stays open with the error; else it closes.
FinishAccess(t) ==
  /\ task[t].op = "access" /\ task[t].who = {}
  /\ access' = [access EXCEPT !.busy = FALSE, !.open = task[t].step = "failed"]
  /\ ticked' = IF task[t].step = "failed" THEN ticked ELSE [ticked EXCEPT !.users = {}]
  /\ End(t)
  /\ UNCHANGED <<rows, opened, shown, buy, loads, past>>

-----------------------------------------------------------------------------
(* Buying seats: each change of the quantity asks for a price.              *)

OpenBuy ==
  /\ Offered("seats")
  /\ buy' = [NoSale EXCEPT !.open = TRUE, !.loading = TRUE, !.asked = <<1>>]
  /\ UNCHANGED <<rows, opened, shown, ticked, access, loads, task, past>>

ChangeQty ==
  \E q \in 1..MaxQty :
    /\ buy.open /\ buy.sent = NONE /\ (q = buy.qty + 1 \/ q + 1 = buy.qty) /\ Len(buy.asked) < 2
    /\ buy' = [buy EXCEPT !.qty = q, !.loading = TRUE, !.asked = Append(@, q)]
    /\ UNCHANGED <<rows, opened, shown, ticked, access, loads, task, past>>

\* The answers come in any order and each is shown; an error shows none.
PriceSeats ==
  \E k \in DOMAIN buy.asked :
    /\ \/ buy' = [buy EXCEPT !.price = buy.asked[k], !.loading = FALSE, !.asked = RemoveAt(@, k)] /\ UNCHANGED past
       \/ Faulty /\ buy' = [buy EXCEPT !.price = 0, !.loading = FALSE, !.asked = RemoveAt(@, k)]
    /\ UNCHANGED <<rows, opened, shown, ticked, access, loads, task>>

ConfirmBuy ==
  /\ buy.open /\ buy.sent = NONE /\ ~buy.loading
  /\ buy' = [buy EXCEPT !.sent = buy.price]
  /\ UNCHANGED <<rows, opened, shown, ticked, access, loads, task, past>>

AddSeats ==
  /\ buy.open /\ buy.sent # NONE /\ Cardinality(loads) < MaxLoads
  /\ extra' = extra + buy.qty /\ extra' <= MaxQty
  /\ buy' = NoSale /\ Asking({"meter"})
  /\ UNCHANGED <<member, invite, lapsed, grants, opened, shown, ticked, access, task, past>>

CloseBuy ==
  /\ buy.open /\ buy.sent = NONE /\ buy' = NoSale
  /\ UNCHANGED <<rows, opened, shown, ticked, access, loads, task, past>>

-----------------------------------------------------------------------------

Handler(t) ==
  \/ SubmitInvite(t) \/ CountSeats(t) \/ RevokePrior(t) \/ InsertInvite(t) \/ CloseInvite(t) \/ CancelInvite(t)
  \/ Resend(t) \/ ResendOne(t) \/ FinishResend(t) \/ Revoke(t) \/ RevokeOne(t) \/ FinishRevoke(t)
  \/ BulkSetStatus(t) \/ SetOne(t) \/ FinishStatus(t) \/ ConfirmDelete(t) \/ RemoveMember(t) \/ FinishDelete(t)
  \/ OpenAccess(t) \/ Prefill(t) \/ SubmitAccess(t) \/ GrantOne(t) \/ FinishAccess(t)

Next ==
  \/ \E t \in Tasks : Handler(t)
  \/ AnswerList \/ ApplyList \/ FailList \/ TickUser \/ TickInvite
  \/ Lapse \/ Lookup \/ Accept
  \/ EditAccess \/ CloseAccess
  \/ OpenBuy \/ ChangeQty \/ PriceSeats \/ ConfirmBuy \/ AddSeats \/ CloseBuy

Spec == Init /\ [][Next]_vars

-----------------------------------------------------------------------------

TypeOK ==
  /\ member \in [Users -> {"none", "active", "suspended"}]
  /\ invite \in [Ids -> [for : Users \cup {NONE}, status : {"free", "pending", "expired", "accepted", "revoked"}]]
  /\ \A i \in Ids : invite[i].for = NONE <=> invite[i].status = "free"
  /\ lapsed \subseteq Ids /\ opened \subseteq Ids /\ grants \in [Users -> SUBSET Spaces] /\ extra \in 0..MaxQty
  /\ shown.users \subseteq Users /\ shown.pending \subseteq Ids
  /\ ticked.users \subseteq Users /\ ticked.invites \subseteq Ids
  /\ access.val \subseteq Spaces /\ buy.qty \in 1..MaxQty

\* An email has one link that works, however its invites are created, lapse,
\* are marked expired and are sent again.
OneLink == \A i, j \in Ids : i # j /\ Open(i) /\ Open(j) /\ invite[i].status # "free" /\ invite[j].status # "free"
                               => invite[i].for # invite[j].for

\* A revoked invite admits nobody and an accepted one admits once: no later
\* request gives either its link back.
Final == \A i \in Ids : invite[i].status \in {"accepted", "revoked"} => invite'[i] = invite[i]

\* Members and pending invites never take more seats than there are, as the
\* check before an invite is meant to see to.
SeatCap == Used <= Cap

\* The dialog, once filled in, shows what the users it is about have.
PrefillShown ==
  access.open /\ ~access.loading /\ ~access.busy /\ ~access.edited /\ ticked.users # {}
    => access.val = UNION {grants[u] : u \in ticked.users}

Quiet == loads = {} /\ \A t \in Tasks : task[t] = Idle

\* A row whose revocation the server refused is not shown as pending unless it is.
Refetched == Quiet => \A i \in past.refused \cap shown.pending : i \in Pending

\* The meter shows the seats taken once everything has been answered.
\* (Not kept by the code: see the README.)
MeterTrue == Quiet => shown.meter = <<Used, Cap>>

\* The price on the screen is that of the quantity confirmed.
\* (Not kept by the code: see the README.)
PricedAsShown == buy.sent # NONE => buy.sent = buy.qty

==============================================================================
