----------------------------- MODULE MailLinks -----------------------------
(***************************************************************************)
(* What a link in an email may do: set a new password (ResetPassword.tsx,  *)
(* auth/password_reset.go) or confirm a new address (ChangeEmailModal.tsx, *)
(* ConfirmEmail.tsx, auth/email_change.go).  Links are opened in several   *)
(* tabs, answers get lost, and a sign-in with the old password may be      *)
(* under way.                                                              *)
(***************************************************************************)
EXTENDS Naturals, FiniteSets, Sequences

CONSTANTS Users, Addresses, First,  \* First[u]: the address u starts with
          Tabs,       \* browser tabs in which a link is open
          MaxResets,  \* password links sent, all to one user
          MaxChanges, \* address changes asked for
          MaxSignIns, \* sign-ins with a password
          Crashes,    \* the server may stop, or fail, between two statements
          NONE

\* An address is one user's: the unique index on users.email.
LinksAssumption == /\ First \in [Users -> Addresses] /\ \A u, v \in Users : u # v => First[u] # First[v]
                   /\ MaxResets \in Nat

VARIABLES password, \* which password it is by now: the number of resets applied
          resets,   \* the password links: status, and which password they set
          sessions, \* the passwords the live sessions were opened with
          signIns,  \* sign-ins that have verified a password and not yet a session
          revoking, \* a reset that is committed and still has sessions to revoke
          email,    \* each user's address
          changes,  \* the address links: user, address, status
          asking,   \* a request for a change that has cancelled and not yet inserted
          dialog,   \* ChangeEmailModal of each user
          tab,      \* each tab: the link it shows, its phase, its request
          signed    \* sign-ins so far

pwVars == <<password, resets, sessions, signIns, revoking, signed>>
mailVars == <<email, changes, asking, dialog>>
vars == <<pwVars, mailVars, tab>>

Blank == [kind |-> NONE, n |-> 0, phase |-> "loading", at |-> "none", shows |-> NONE]
Init == /\ password = 0 /\ resets = <<>> /\ sessions = {} /\ signIns = {} /\ revoking = {} /\ signed = 0
        /\ email = First /\ changes = <<>> /\ asking = [u \in Users |-> NONE]
        /\ dialog = [u \in Users |-> [open |-> FALSE, typed |-> NONE, step |-> "form", busy |-> FALSE]]
        /\ tab = [t \in Tabs |-> Blank]
Status(kind, n) == IF kind = "reset" THEN resets[n] ELSE changes[n].status
----------------------------------------------------------------------------
(* Signing in with a password, and asking for a link.                      *)

VerifyPassword == /\ signed < MaxSignIns /\ signed' = signed + 1
                  /\ signIns' = signIns \cup {password}
                  /\ UNCHANGED <<password, resets, sessions, revoking, tab>> /\ UNCHANGED mailVars
IssueSession(p) == /\ p \in signIns /\ signIns' = signIns \ {p} /\ sessions' = sessions \cup {p}
                   /\ UNCHANGED <<password, resets, revoking, signed, tab>> /\ UNCHANGED mailVars

\* CreatePasswordReset: several links may be pending.
SendReset == /\ Len(resets) < MaxResets /\ resets' = Append(resets, "pending")
             /\ UNCHANGED <<password, sessions, signIns, revoking, signed, tab>> /\ UNCHANGED mailVars
----------------------------------------------------------------------------
(* Setting the password.                                                   *)

\* ResetPassword's transaction: the password, this link, and all the others.
BurnOne(n) == [resets EXCEPT ![n] = "used"]
Burn(n) == [i \in DOMAIN resets |-> IF i = n THEN "used" ELSE IF resets[i] = "pending" THEN "cancelled" ELSE resets[i]]
Apply(n) == /\ password' = password + 1 /\ resets' = Burn(n) /\ revoking' = revoking \cup {password + 1}
            /\ UNCHANGED <<sessions, signIns, signed>>
\* After the commit every session of the user is revoked, best effort.
RevokeAll(p) == /\ p \in revoking /\ revoking' = revoking \ {p}
                /\ \/ sessions' = {}
                   \/ Crashes /\ UNCHANGED sessions
                /\ UNCHANGED <<password, resets, signIns, signed, tab>> /\ UNCHANGED mailVars
----------------------------------------------------------------------------
(* Changing the address.                                                   *)

\* What a closed dialog held is reset when it opens.
Closed == [open |-> FALSE, typed |-> NONE, step |-> "form", busy |-> FALSE]
OpenDialog(u) == /\ ~dialog[u].open /\ dialog' = [dialog EXCEPT ![u] = [Closed EXCEPT !.open = TRUE]]
                 /\ UNCHANGED <<email, changes, asking, tab>> /\ UNCHANGED pwVars
\* Escape, the X and the backdrop work while the request is out, too.
CloseDialog(u) == /\ dialog[u].open /\ dialog' = [dialog EXCEPT ![u] = Closed]
                  /\ UNCHANGED <<email, changes, asking, tab>> /\ UNCHANGED pwVars
\* Typing, submit, and RequestEmailChange up to its first statement: the
\* address is free and not the present one, and these links will be cancelled.
Taken(a, u) == \E v \in Users \ {u} : email[v] = a
Pending(u) == {n \in DOMAIN changes : changes[n].user = u /\ changes[n].status = "pending"}
AskChange(u, a) == /\ dialog[u].open /\ dialog[u].step = "form" /\ ~dialog[u].busy
                   /\ a # email[u] /\ ~Taken(a, u) /\ Len(changes) < MaxChanges /\ asking[u] = NONE
                   /\ asking' = [asking EXCEPT ![u] = [to |-> a, old |-> Pending(u)]]
                   /\ dialog' = [dialog EXCEPT ![u].typed = a, ![u].busy = TRUE]
                   /\ UNCHANGED <<email, changes, tab>> /\ UNCHANGED pwVars
\* The commit.  The index on pending rows refuses a second one.
Insert(u) == LET kept == [n \in DOMAIN changes |->
                            IF n \in asking[u].old /\ changes[n].status = "pending" THEN [changes[n] EXCEPT !.status = "cancelled"]
                            ELSE changes[n]]
             IN  changes' = Append(kept, [user |-> u, to |-> asking[u].to, status |-> "pending"])
Refused(u) == Pending(u) \ asking[u].old # {}
AnswerChange(u) == /\ asking[u] # NONE /\ asking' = [asking EXCEPT ![u] = NONE]
                   /\ IF Refused(u)
                      THEN UNCHANGED changes /\ dialog' = [dialog EXCEPT ![u].busy = FALSE]
                      ELSE Insert(u) /\ dialog' = [dialog EXCEPT ![u].busy = FALSE, ![u].step = IF dialog[u].open THEN "sent" ELSE @]
                   /\ UNCHANGED <<email, tab>> /\ UNCHANGED pwVars
\* ConfirmEmailChange: the outcome and its effects, in one transaction.
Outcome(n) == IF changes[n].status = "confirmed" THEN "done"
              ELSE IF changes[n].status # "pending" THEN "invalid"
              ELSE IF Taken(changes[n].to, changes[n].user) THEN "invalid" ELSE "done"
Confirm(n) == IF changes[n].status = "pending" /\ Outcome(n) = "done"
              THEN /\ email' = [email EXCEPT ![changes[n].user] = changes[n].to]
                   /\ changes' = [changes EXCEPT ![n].status = "confirmed"]
              ELSE UNCHANGED <<email, changes>>
\* Half an hour later.
Lapse(kind, n) == /\ Status(kind, n) = "pending"
                  /\ IF kind = "reset"
                     THEN resets' = [resets EXCEPT ![n] = "expired"] /\ UNCHANGED changes
                     ELSE changes' = [changes EXCEPT ![n].status = "expired"] /\ UNCHANGED resets
                  /\ UNCHANGED <<password, sessions, signIns, revoking, signed, email, asking, dialog, tab>>
----------------------------------------------------------------------------
(* The two pages.                                                          *)

Set(t, r) == tab' = [tab EXCEPT ![t] = r]
Open(t, kind, n) == /\ tab[t].at = "none" /\ Set(t, [Blank EXCEPT !.kind = kind, !.n = n, !.at = "lookup"])
                    /\ UNCHANGED pwVars /\ UNCHANGED mailVars
Dead(t) == IF Status(tab[t].kind, tab[t].n) = "expired" THEN "expired" ELSE "invalid"
Lookup(t) == /\ tab[t].at = "lookup"
             /\ LET s == Status(tab[t].kind, tab[t].n)
                IN  Set(t, [tab[t] EXCEPT !.at = "none", !.phase = IF s = "pending" THEN "ready" ELSE Dead(t),
                                          !.shows = IF tab[t].kind = "change" /\ s = "pending" THEN changes[tab[t].n].to ELSE NONE])
             /\ UNCHANGED pwVars /\ UNCHANGED mailVars
\* submit and confirm: the phase keeps the button from being pressed again.
Press(t) == /\ tab[t].phase = "ready" /\ tab[t].at = "none"
            /\ Set(t, [tab[t] EXCEPT !.at = "posted", !.phase = "saving"]) /\ UNCHANGED pwVars /\ UNCHANGED mailVars
Arrive(t) == /\ tab[t].at = "posted"
             /\ LET n == tab[t].n
                IN  IF tab[t].kind = "reset"
                    THEN /\ IF resets[n] = "pending" THEN Apply(n) ELSE UNCHANGED pwVars
                         /\ Set(t, [tab[t] EXCEPT !.at = IF resets[n] = "pending" THEN "done" ELSE Dead(t)])
                         /\ UNCHANGED mailVars
                    ELSE /\ Confirm(n) /\ UNCHANGED <<asking, dialog>> /\ UNCHANGED pwVars
                         /\ Set(t, [tab[t] EXCEPT !.at = IF Outcome(n) = "done" THEN "done" ELSE Dead(t)])
\* The reset answers only when the sessions have been seen to.
Answered(t) == /\ tab[t].at \in {"done", "expired", "invalid"} /\ (tab[t].kind = "reset" => revoking = {})
               /\ Set(t, [tab[t] EXCEPT !.at = "none", !.phase = tab[t].at]) /\ UNCHANGED pwVars /\ UNCHANGED mailVars
\* No answer: the password form may be sent again, the other page gives up.
LostAnswer(t) == /\ tab[t].at \in {"posted", "done", "expired", "invalid"} /\ Crashes
                 /\ Set(t, [tab[t] EXCEPT !.at = "none", !.phase = IF tab[t].kind = "reset" THEN "ready" ELSE "invalid"])
                 /\ UNCHANGED pwVars /\ UNCHANGED mailVars

Tab(t) == Lookup(t) \/ Press(t) \/ Arrive(t) \/ Answered(t) \/ LostAnswer(t)
Dialog(u) == OpenDialog(u) \/ CloseDialog(u) \/ AnswerChange(u) \/ \E a \in Addresses : AskChange(u, a)
Next == \/ VerifyPassword \/ SendReset
        \/ \E p \in 0..MaxResets : IssueSession(p) \/ RevokeAll(p)
        \/ \E u \in Users : Dialog(u)
        \/ \E n \in DOMAIN resets : Lapse("reset", n) \/ \E t \in Tabs : Open(t, "reset", n)
        \/ \E n \in DOMAIN changes : Lapse("change", n) \/ \E t \in Tabs : Open(t, "change", n)
        \/ \E t \in Tabs : Tab(t)
Spec == Init /\ [][Next]_vars
----------------------------------------------------------------------------
(* What must hold.                                                         *)

TypeOK == /\ password \in 0..MaxResets /\ sessions \subseteq 0..MaxResets /\ signIns \subseteq 0..MaxResets
          /\ \A n \in DOMAIN resets : resets[n] \in {"pending", "used", "cancelled", "expired"}
          /\ email \in [Users -> Addresses]
          /\ \A n \in DOMAIN changes : changes[n].status \in {"pending", "confirmed", "cancelled", "expired"}
          /\ \A t \in Tabs : tab[t].phase \in {"loading", "ready", "saving", "done", "expired", "invalid"}

\* A link once sent sets the password at most once, and every link there was
\* when a password was set is dead: pressed in whatever tabs, in whatever order
\* and again after a lost answer, n links change it at most n times.
ResetOnce == password' # password => \A n \in DOMAIN resets : resets'[n] # "pending"

\* At most one address link is open per user: "a new request cancels the old".
OnePending == \A u \in Users : Cardinality(Pending(u)) <= 1

\* Two users never come to have one address, however their checks, requests and
\* confirmations interleave.
AddressesDiffer == \A u, v \in Users : u # v => email[u] # email[v]

\* The page never says "invalid" of an address that was just taken over, unless
\* an answer was lost, nor "confirmed" of one that was not.
ConfirmSays == \A t \in Tabs : tab[t].kind = "change" /\ tab[t].phase = "saving" /\ tab'[t].phase = "done"
                  => changes[tab[t].n].status = "confirmed" /\ tab[t].shows = changes[tab[t].n].to

\* A user asked to look for the link "in your inbox" is shown the address it
\* was sent to.
\* (Not kept by the code: see the README.)
SentWhere == \A u \in Users : dialog[u].open /\ dialog[u].step = "sent" => \E n \in DOMAIN changes : changes[n].user = u /\ changes[n].to = dialog[u].typed

\* "A password change signs them out everywhere": when the page says done, no
\* session opened with an earlier password is left, nor comes after.
\* (Not kept by the code: see the README.)
OutEverywhere == (\E t \in Tabs : tab[t].kind = "reset" /\ tab[t].phase = "done") => \A p \in sessions : p = password

\* When the page says the address is confirmed, that is the user's address.
\* (Not kept by the code: see the README.)
ConfirmedNow == [][\A t \in Tabs : tab[t].kind = "change" /\ tab[t].phase = "saving" /\ tab'[t].phase = "done"
                     => email[changes[tab[t].n].user] = tab[t].shows]_vars
=============================================================================
