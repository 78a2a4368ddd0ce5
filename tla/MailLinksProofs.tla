-------------------------- MODULE MailLinksProofs --------------------------
(***************************************************************************)
(* For every number of users, addresses, tabs and links: a password link   *)
(* works once and burns the others, a user has one open address link, no   *)
(* two users come to have one address, and the page that confirms an       *)
(* address tells the truth.  The tab of the second factor (SecondFactor),  *)
(* which has nothing else in common with them, has its section at the end. *)
(***************************************************************************)
EXTENDS MailLinks, FiniteSetTheorems, TLAPS

Linked == {"pending", "used", "cancelled", "expired"}
Change == [user : Users, to : Addresses, status : {"pending", "confirmed", "cancelled", "expired"}]
Ask == [to : Addresses, old : SUBSET Nat]
Phases == {"loading", "ready", "saving", "done", "expired", "invalid"}
Places == {"none", "lookup", "posted", "done", "expired", "invalid"}

\* A tab that is not blank shows a link there is.
Shows(t) == \/ tab[t].phase = "loading" /\ tab[t].at = "none"
            \/ tab[t].kind = "reset" /\ tab[t].n \in DOMAIN resets
            \/ tab[t].kind = "change" /\ tab[t].n \in DOMAIN changes
TabInv == /\ DOMAIN tab = Tabs
          /\ \A t \in Tabs : /\ tab[t].phase \in Phases /\ tab[t].at \in Places
                             /\ DOMAIN tab[t] = {"kind", "n", "phase", "at", "shows"}
                             /\ Shows(t)

\* Each reset that was applied is a link that is dead, and a later one than
\* those of the resets before: no more resets than links.
Spent == \E k \in 0..Len(resets) : password <= k /\ \A n \in 1..k : resets[n] # "pending"

PwInv == /\ password \in Nat /\ resets \in Seq(Linked) /\ Len(resets) <= MaxResets /\ Spent
         /\ sessions \subseteq 0..MaxResets /\ signIns \subseteq 0..MaxResets
MailInv == /\ email \in [Users -> Addresses] /\ changes \in Seq(Change)
           /\ asking \in [Users -> Ask \cup {NONE}] /\ DOMAIN dialog = Users
LinkInv == PwInv /\ MailInv /\ TabInv

\* The open address links of one user are one.
OneInv == \A m, n \in DOMAIN changes :
            changes[m].user = changes[n].user /\ changes[m].status = "pending" /\ changes[n].status = "pending" => m = n

\* A page that is ready, or has posted, shows the address of its link; an answer
\* "done" is about a link that is confirmed.
ToldInv == \A t \in Tabs : tab[t].kind = "change" =>
             /\ tab[t].phase \in {"ready", "saving"} => tab[t].shows = changes[tab[t].n].to
             /\ tab[t].at = "done" => changes[tab[t].n].status = "confirmed"

----------------------------------------------------------------------------
(* The initial states.                                                     *)

LEMMA InitInv == LinksAssumption /\ Init => LinkInv /\ OneInv /\ ToldInv
<1> SUFFICES ASSUME LinksAssumption, Init
             PROVE  LinkInv /\ OneInv /\ ToldInv
    OBVIOUS
<1>1. PwInv
  <2>1. resets = <<>> /\ Len(resets) = 0 /\ password = 0 /\ sessions = {} /\ signIns = {} /\ MaxResets \in Nat
    BY DEF Init, LinksAssumption
  <2>2. Spent
    BY <2>1 DEF Spent
  <2>3. QED
    BY <2>1, <2>2 DEF PwInv
<1>2. MailInv
  BY DEF Init, LinksAssumption, MailInv
<1>3. TabInv /\ ToldInv
  BY DEF Init, Blank, TabInv, Shows, ToldInv, Phases, Places
<1>4. OneInv
  BY DEF Init, OneInv
<1>5. QED
  BY <1>1, <1>2, <1>3, <1>4 DEF LinkInv
----------------------------------------------------------------------------
(* What a step does to the passwords, to the addresses and to the tabs.    *)

\* The reset behind tab t is applied.
Resets(t) == /\ tab[t].kind = "reset" /\ tab[t].n \in DOMAIN resets
             /\ resets[tab[t].n] = "pending" /\ Apply(tab[t].n)
LapseReset(n) == /\ resets[n] = "pending" /\ resets' = [resets EXCEPT ![n] = "expired"]
                 /\ UNCHANGED <<password, sessions, signIns>>
LapseChange(n) == /\ changes[n].status = "pending" /\ changes' = [changes EXCEPT ![n].status = "expired"]
                  /\ UNCHANGED <<email, asking, dialog>>
\* The change behind tab t is confirmed.
Confirms(t) == /\ tab[t].kind = "change" /\ tab[t].n \in DOMAIN changes
               /\ Confirm(tab[t].n) /\ UNCHANGED <<asking, dialog>>

\* Posted and not blank.
LEMMA TabFacts ==
  ASSUME TabInv, NEW t \in Tabs, tab[t].at # "none" \/ tab[t].phase # "loading"
  PROVE  \/ tab[t].kind = "reset" /\ tab[t].n \in DOMAIN resets
         \/ tab[t].kind = "change" /\ tab[t].n \in DOMAIN changes
  BY DEF TabInv, Shows

LEMMA PwStep ==
  ASSUME TabInv, [Next]_vars
  PROVE  \/ UNCHANGED <<password, resets, sessions, signIns>>
         \/ VerifyPassword \/ SendReset
         \/ \E p \in 0..MaxResets : IssueSession(p) \/ RevokeAll(p)
         \/ \E n \in DOMAIN resets : LapseReset(n)
         \/ \E t \in Tabs : Resets(t)
<1>1. CASE UNCHANGED vars
  BY <1>1 DEF vars, pwVars
<1>2. CASE \E u \in Users : Dialog(u)
  BY <1>2 DEF Dialog, OpenDialog, CloseDialog, AnswerChange, AskChange, pwVars
<1>3. ASSUME NEW n \in DOMAIN resets, Lapse("reset", n)
      PROVE  LapseReset(n)
  BY <1>3 DEF Lapse, LapseReset, Status
<1>4. ASSUME NEW n \in DOMAIN changes, Lapse("change", n)
      PROVE  UNCHANGED <<password, resets, sessions, signIns>>
  BY <1>4 DEF Lapse
<1>5. ASSUME NEW t \in Tabs, NEW kind, NEW n, Open(t, kind, n)
      PROVE  UNCHANGED <<password, resets, sessions, signIns>>
  BY <1>5 DEF Open, pwVars
<1>6. ASSUME NEW t \in Tabs, Arrive(t)
      PROVE  UNCHANGED <<password, resets, sessions, signIns>> \/ Resets(t)
  <2>1. CASE tab[t].kind = "reset"
    <3>1. tab[t].n \in DOMAIN resets
      BY <1>6, <2>1, TabFacts DEF Arrive
    <3>2. QED
      BY <1>6, <2>1, <3>1 DEF Arrive, Resets, pwVars
  <2>2. CASE tab[t].kind # "reset"
    BY <1>6, <2>2 DEF Arrive, pwVars
  <2>3. QED
    BY <2>1, <2>2
<1>7. ASSUME NEW t \in Tabs, Lookup(t) \/ Press(t) \/ Answered(t) \/ LostAnswer(t)
      PROVE  UNCHANGED <<password, resets, sessions, signIns>>
  BY <1>7 DEF Lookup, Press, Answered, LostAnswer, pwVars
<1>8. QED
  BY <1>1, <1>2, <1>3, <1>4, <1>5, <1>6, <1>7 DEF Next, Tab

LEMMA MailStep ==
  ASSUME TabInv, [Next]_vars
  PROVE  \/ UNCHANGED mailVars
         \/ \E u \in Users : Dialog(u)
         \/ \E n \in DOMAIN changes : LapseChange(n)
         \/ \E t \in Tabs : Confirms(t)
<1>1. CASE UNCHANGED vars \/ VerifyPassword \/ SendReset
  BY <1>1 DEF vars, VerifyPassword, SendReset
<1>2. CASE \E p \in 0..MaxResets : IssueSession(p) \/ RevokeAll(p)
  BY <1>2 DEF IssueSession, RevokeAll
<1>3. ASSUME NEW n \in DOMAIN resets, Lapse("reset", n)
      PROVE  UNCHANGED mailVars
  BY <1>3 DEF Lapse, mailVars
<1>4. ASSUME NEW n \in DOMAIN changes, Lapse("change", n)
      PROVE  LapseChange(n)
  BY <1>4 DEF Lapse, LapseChange, Status
<1>5. ASSUME NEW t \in Tabs, NEW kind, NEW n, Open(t, kind, n)
      PROVE  UNCHANGED mailVars
  BY <1>5 DEF Open
<1>6. ASSUME NEW t \in Tabs, Arrive(t)
      PROVE  UNCHANGED mailVars \/ Confirms(t)
  <2>1. CASE tab[t].kind = "reset"
    BY <1>6, <2>1 DEF Arrive
  <2>2. CASE tab[t].kind # "reset"
    <3>1. tab[t].kind = "change" /\ tab[t].n \in DOMAIN changes
      BY <1>6, <2>2, TabFacts DEF Arrive
    <3>2. QED
      BY <1>6, <2>2, <3>1 DEF Arrive, Confirms
  <2>3. QED
    BY <2>1, <2>2
<1>7. ASSUME NEW t \in Tabs, Lookup(t) \/ Press(t) \/ Answered(t) \/ LostAnswer(t)
      PROVE  UNCHANGED mailVars
  BY <1>7 DEF Lookup, Press, Answered, LostAnswer
<1>8. QED
  BY <1>1, <1>2, <1>3, <1>4, <1>5, <1>6, <1>7 DEF Next, Tab
----------------------------------------------------------------------------
(* The password.                                                           *)

LEMMA BurnFacts ==
  ASSUME PwInv, NEW n \in DOMAIN resets
  PROVE  /\ Burn(n) \in Seq(Linked) /\ Len(Burn(n)) = Len(resets)
         /\ \A i \in 1..Len(resets) : Burn(n)[i] # "pending"
<1>1. resets \in Seq(Linked) /\ Len(resets) \in Nat /\ DOMAIN resets = 1..Len(resets)
  BY DEF PwInv
<1>2. \A i \in 1..Len(resets) : Burn(n)[i] \in Linked /\ Burn(n)[i] # "pending"
  BY <1>1 DEF Burn, Linked
<1>3. Burn(n) \in [1..Len(resets) -> Linked]
  BY <1>1, <1>2 DEF Burn
<1>4. QED
  BY <1>1, <1>2, <1>3

LEMMA StepPw == LinkInv /\ [Next]_vars /\ MaxResets \in Nat => PwInv'
<1> SUFFICES ASSUME PwInv, TabInv, [Next]_vars, MaxResets \in Nat
             PROVE  PwInv'
    BY DEF LinkInv
<1>1. PICK k \in 0..Len(resets) : password <= k /\ \A n \in 1..k : resets[n] # "pending"
  BY DEF PwInv, Spent
<1>2. /\ Len(resets) \in Nat /\ DOMAIN resets = 1..Len(resets) /\ resets \in Seq(Linked)
      /\ password \in Nat /\ password <= MaxResets /\ Len(resets) <= MaxResets
  BY <1>1 DEF PwInv
<1>3. CASE UNCHANGED <<password, resets, sessions, signIns>>
  BY <1>3 DEF PwInv, Spent
<1>4. CASE VerifyPassword
  <2>1. UNCHANGED <<password, resets, sessions>> /\ signIns' \subseteq 0..MaxResets
    BY <1>2, <1>4 DEF VerifyPassword, PwInv
  <2>2. QED
    BY <2>1 DEF PwInv, Spent
<1>5. ASSUME NEW p \in 0..MaxResets, IssueSession(p) \/ RevokeAll(p)
      PROVE  PwInv'
  <2>1. UNCHANGED <<password, resets>> /\ signIns' \subseteq 0..MaxResets /\ sessions' \subseteq 0..MaxResets
    BY <1>5 DEF IssueSession, RevokeAll, PwInv
  <2>2. QED
    BY <2>1 DEF PwInv, Spent
<1>6. CASE SendReset
  <2>1. /\ UNCHANGED <<password, sessions, signIns>> /\ Len(resets') = Len(resets) + 1
        /\ Len(resets') <= MaxResets /\ resets' \in Seq(Linked)
        /\ \A n \in 1..Len(resets) : resets'[n] = resets[n]
    BY <1>2, <1>6 DEF SendReset, Linked
  <2>2. Spent'
    BY <1>1, <1>2, <2>1 DEF Spent
  <2>3. QED
    BY <2>1, <2>2 DEF PwInv
<1>7. ASSUME NEW n \in DOMAIN resets, LapseReset(n)
      PROVE  PwInv'
  <2>1. /\ UNCHANGED <<password, sessions, signIns>> /\ Len(resets') = Len(resets)
        /\ resets' \in Seq(Linked)
        /\ \A i \in 1..Len(resets) : resets[i] # "pending" => resets'[i] # "pending"
    BY <1>2, <1>7 DEF LapseReset, Linked
  <2>2. Spent'
    BY <1>1, <1>2, <2>1 DEF Spent
  <2>3. QED
    BY <2>1, <2>2 DEF PwInv
<1>8. ASSUME NEW t \in Tabs, Resets(t)
      PROVE  PwInv'
  <2>1. /\ UNCHANGED <<sessions, signIns>> /\ password' = password + 1
        /\ Len(resets') = Len(resets) /\ resets' \in Seq(Linked)
        /\ \A i \in 1..Len(resets) : resets'[i] # "pending"
    BY <1>8, BurnFacts DEF Resets, Apply
  <2>2. k < tab[t].n /\ tab[t].n <= Len(resets) /\ tab[t].n \in Nat
    BY <1>1, <1>2, <1>8 DEF Resets
  <2>3. Spent'
    BY <1>1, <1>2, <2>1, <2>2 DEF Spent
  <2>4. QED
    BY <1>2, <2>1, <2>3 DEF PwInv
<1>9. QED
  BY <1>3, <1>4, <1>5, <1>6, <1>7, <1>8, PwStep
----------------------------------------------------------------------------
(* The addresses.                                                          *)

\* A request that is answered, and not refused, has its link as the last one,
\* and none of the user's earlier ones is open.
LEMMA InsertFacts ==
  ASSUME MailInv, NEW u \in Users, asking[u] # NONE, Insert(u)
  PROVE  /\ changes' \in Seq(Change) /\ Len(changes') = Len(changes) + 1
         /\ changes'[Len(changes) + 1] = [user |-> u, to |-> asking[u].to, status |-> "pending"]
         /\ \A n \in 1..Len(changes) :
              /\ changes'[n].user = changes[n].user /\ changes'[n].to = changes[n].to
              /\ changes'[n].status \in {changes[n].status, "cancelled"}
              /\ changes[n].status # "pending" => changes'[n].status = changes[n].status
              /\ changes[n].status = "pending" /\ n \in asking[u].old => changes'[n].status = "cancelled"
<1> DEFINE kept == [n \in DOMAIN changes |->
                      IF n \in asking[u].old /\ changes[n].status = "pending"
                      THEN [changes[n] EXCEPT !.status = "cancelled"] ELSE changes[n]]
<1>1. /\ changes \in Seq(Change) /\ Len(changes) \in Nat /\ DOMAIN changes = 1..Len(changes)
      /\ \A n \in 1..Len(changes) : changes[n] \in Change
  BY DEF MailInv
<1>2. \A n \in 1..Len(changes) :
        /\ kept[n] \in Change
        /\ kept[n].user = changes[n].user /\ kept[n].to = changes[n].to
        /\ kept[n].status \in {changes[n].status, "cancelled"}
        /\ changes[n].status # "pending" => kept[n].status = changes[n].status
        /\ changes[n].status = "pending" /\ n \in asking[u].old => kept[n].status = "cancelled"
  BY <1>1 DEF Change
<1>3. kept \in Seq(Change) /\ Len(kept) = Len(changes)
  <2>1. kept \in [1..Len(changes) -> Change]
    BY <1>1, <1>2
  <2>2. QED
    BY <1>1, <2>1
<1>4. [user |-> u, to |-> asking[u].to, status |-> "pending"] \in Change
  BY DEF MailInv, Ask, Change
<1>5. changes' = Append(kept, [user |-> u, to |-> asking[u].to, status |-> "pending"])
  BY DEF Insert
<1> HIDE DEF kept
<1>6. QED
  BY <1>1, <1>2, <1>3, <1>4, <1>5

\* A dialog's step leaves the links alone, or inserts one that was not refused.
LEMMA DialogFacts ==
  ASSUME MailInv, NEW u \in Users, Dialog(u)
  PROVE  /\ UNCHANGED email /\ DOMAIN dialog' = Users /\ asking' \in [Users -> Ask \cup {NONE}]
         /\ UNCHANGED changes \/ (asking[u] # NONE /\ ~Refused(u) /\ Insert(u))
<1>1. ASSUME NEW a \in Addresses, AskChange(u, a)
      PROVE  /\ UNCHANGED <<email, changes>> /\ DOMAIN dialog' = Users
             /\ asking' \in [Users -> Ask \cup {NONE}]
  <2>1. Pending(u) \in SUBSET Nat
    BY DEF Pending, MailInv
  <2>2. [to |-> a, old |-> Pending(u)] \in Ask
    BY <2>1 DEF Ask
  <2>3. QED
    BY <1>1, <2>2 DEF AskChange, MailInv
<1>2. CASE AnswerChange(u)
  BY <1>2 DEF AnswerChange, MailInv
<1>3. CASE OpenDialog(u) \/ CloseDialog(u)
  BY <1>3 DEF OpenDialog, CloseDialog, MailInv
<1>4. QED
  BY <1>1, <1>2, <1>3 DEF Dialog

\* A link keeps its user and its address; one that is not open stays as it is.
Kept == /\ changes' \in Seq(Change) /\ Len(changes) <= Len(changes')
        /\ \A n \in DOMAIN changes : /\ n \in DOMAIN changes'
                                     /\ changes'[n].user = changes[n].user /\ changes'[n].to = changes[n].to
                                     /\ changes[n].status # "pending" => changes'[n].status = changes[n].status

LEMMA ConfirmFacts ==
  ASSUME MailInv, NEW n \in DOMAIN changes, Confirm(n)
  PROVE  /\ Kept /\ DOMAIN changes' = DOMAIN changes
         /\ \A m \in DOMAIN changes : changes'[m].status = "pending" => changes[m].status = "pending"
         /\ Outcome(n) = "done" => changes'[n].status = "confirmed"
         /\ \/ UNCHANGED email
            \/ /\ ~Taken(changes[n].to, changes[n].user)
               /\ email' = [email EXCEPT ![changes[n].user] = changes[n].to]
<1>1. /\ changes \in Seq(Change) /\ Len(changes) \in Nat /\ DOMAIN changes = 1..Len(changes)
      /\ \A m \in 1..Len(changes) : changes[m] \in Change
  BY DEF MailInv
<1>2. CASE changes[n].status = "pending" /\ Outcome(n) = "done"
  <2>1. changes' = [changes EXCEPT ![n].status = "confirmed"]
    BY <1>2 DEF Confirm
  <2>2. changes' = [changes EXCEPT ![n] = [changes[n] EXCEPT !.status = "confirmed"]]
    BY <1>1, <2>1
  <2>3. [changes[n] EXCEPT !.status = "confirmed"] \in Change
    BY <1>1 DEF Change
  <2>4. changes' \in Seq(Change) /\ Len(changes') = Len(changes) /\ DOMAIN changes' = DOMAIN changes
    BY <1>1, <2>2, <2>3
  <2>5. \A m \in 1..Len(changes) : m # n => changes'[m] = changes[m]
    BY <1>1, <2>2
  <2>6. /\ changes'[n].user = changes[n].user /\ changes'[n].to = changes[n].to
        /\ changes'[n].status = "confirmed"
    BY <1>1, <2>2 DEF Change
  <2>7. ~Taken(changes[n].to, changes[n].user) /\ email' = [email EXCEPT ![changes[n].user] = changes[n].to]
    BY <1>2 DEF Confirm, Outcome
  <2>8. QED
    BY <1>1, <1>2, <2>4, <2>5, <2>6, <2>7 DEF Kept
<1>3. CASE ~(changes[n].status = "pending" /\ Outcome(n) = "done")
  <2>1. UNCHANGED <<email, changes>>
    BY <1>3 DEF Confirm
  <2>2. Outcome(n) = "done" => changes[n].status = "confirmed"
    BY <1>3 DEF Outcome
  <2>3. QED
    BY <1>1, <2>1, <2>2 DEF Kept
<1>4. QED
  BY <1>2, <1>3

LEMMA LapseFacts ==
  ASSUME MailInv, NEW n \in DOMAIN changes, LapseChange(n)
  PROVE  /\ Kept /\ DOMAIN changes' = DOMAIN changes
         /\ \A m \in DOMAIN changes : changes'[m].status = "pending" => changes[m].status = "pending"
<1>1. /\ changes \in Seq(Change) /\ Len(changes) \in Nat /\ DOMAIN changes = 1..Len(changes)
      /\ \A m \in 1..Len(changes) : changes[m] \in Change
  BY DEF MailInv
<1>2. changes' = [changes EXCEPT ![n] = [changes[n] EXCEPT !.status = "expired"]]
  BY <1>1 DEF LapseChange
<1>3. [changes[n] EXCEPT !.status = "expired"] \in Change
  BY <1>1 DEF Change
<1>4. changes' \in Seq(Change) /\ Len(changes') = Len(changes) /\ DOMAIN changes' = DOMAIN changes
  BY <1>1, <1>2, <1>3
<1>5. \A m \in 1..Len(changes) : m # n => changes'[m] = changes[m]
  BY <1>1, <1>2
<1>6. /\ changes'[n].user = changes[n].user /\ changes'[n].to = changes[n].to
      /\ changes'[n].status = "expired" /\ changes[n].status = "pending"
  BY <1>1, <1>2 DEF Change, LapseChange
<1>7. QED
  BY <1>1, <1>4, <1>5, <1>6 DEF Kept

LEMMA StepKept == LinkInv /\ [Next]_vars => Kept
<1> SUFFICES ASSUME MailInv, TabInv, [Next]_vars
             PROVE  Kept
    BY DEF LinkInv
<1>1. /\ changes \in Seq(Change) /\ Len(changes) \in Nat /\ DOMAIN changes = 1..Len(changes)
  BY DEF MailInv
<1>2. CASE UNCHANGED changes
  BY <1>1, <1>2 DEF Kept
<1>3. ASSUME NEW u \in Users, Dialog(u)
      PROVE  Kept
  <2>1. UNCHANGED changes \/ (asking[u] # NONE /\ Insert(u))
    BY <1>3, DialogFacts
  <2>2. CASE asking[u] # NONE /\ Insert(u)
    <3>1. Len(changes') = Len(changes) + 1 /\ changes' \in Seq(Change)
      BY <2>2, InsertFacts
    <3>2. \A n \in DOMAIN changes :
            /\ changes'[n].user = changes[n].user /\ changes'[n].to = changes[n].to
            /\ changes[n].status # "pending" => changes'[n].status = changes[n].status
      BY <1>1, <2>2, InsertFacts
    <3>3. QED
      BY <1>1, <3>1, <3>2 DEF Kept
  <2>3. QED
    BY <1>2, <2>1, <2>2
<1>4. QED
  BY <1>2, <1>3, LapseFacts, ConfirmFacts, MailStep DEF mailVars, Confirms

LEMMA StepMail == LinkInv /\ [Next]_vars => MailInv'
<1> SUFFICES ASSUME LinkInv, MailInv, TabInv, [Next]_vars
             PROVE  MailInv'
    BY DEF LinkInv
<1>1. changes' \in Seq(Change)
  BY StepKept DEF Kept
<1>2. CASE UNCHANGED mailVars
  BY <1>2 DEF mailVars, MailInv
<1>3. ASSUME NEW u \in Users, Dialog(u)
      PROVE  MailInv'
  BY <1>1, <1>3, DialogFacts DEF MailInv
<1>4. ASSUME NEW n \in DOMAIN changes, LapseChange(n)
      PROVE  MailInv'
  BY <1>1, <1>4 DEF LapseChange, MailInv
<1>5. ASSUME NEW t \in Tabs, Confirms(t)
      PROVE  MailInv'
  <2>1. changes[tab[t].n] \in Change
    BY <1>5 DEF Confirms, MailInv
  <2>2. email' \in [Users -> Addresses]
    BY <1>5, <2>1, ConfirmFacts DEF Confirms, MailInv, Change
  <2>3. QED
    BY <1>1, <1>5, <2>2 DEF Confirms, MailInv
<1>6. QED
  BY <1>2, <1>3, <1>4, <1>5, MailStep
----------------------------------------------------------------------------
(* The tabs.                                                               *)

\* What a tab shows is carried on, from a link there is.
Fields == {"kind", "n", "phase", "at", "shows"}
Told(t, r) == r.kind = "change" =>
                /\ r.phase \in {"ready", "saving"} => r.shows = changes[r.n].to
                /\ r.at = "done" => changes'[r.n].status = "confirmed"
Carried(t, r) ==
  /\ r.phase \in Phases /\ r.at \in Places /\ DOMAIN r = Fields
  /\ (r.kind = "reset" /\ r.n \in DOMAIN resets) \/ (r.kind = "change" /\ r.n \in DOMAIN changes)
  /\ Told(t, r)
  /\ tab[t].phase = "saving" /\ r.phase = "done" => tab[t].at = "done"

LEMMA ArriveFacts ==
  ASSUME LinkInv, ToldInv, NEW t \in Tabs, Arrive(t)
  PROVE  \E r : tab' = [tab EXCEPT ![t] = r] /\ Carried(t, r)
<1> DEFINE n == tab[t].n
<1>1. /\ tab[t].at = "posted" /\ tab[t].phase \in Phases /\ DOMAIN tab[t] = Fields
      /\ (tab[t].kind = "reset" /\ n \in DOMAIN resets) \/ (tab[t].kind = "change" /\ n \in DOMAIN changes)
  BY TabFacts DEF Arrive, LinkInv, TabInv, Fields
<1>2. Dead(t) \in {"expired", "invalid"}
  BY DEF Dead
<1>3. ASSUME NEW at \in {"done", "expired", "invalid"}, tab' = [tab EXCEPT ![t] = [tab[t] EXCEPT !.at = at]],
             tab[t].kind = "change" /\ at = "done" => changes'[n].status = "confirmed"
      PROVE  \E r : tab' = [tab EXCEPT ![t] = r] /\ Carried(t, r)
  <2> DEFINE r == [tab[t] EXCEPT !.at = at]
  <2>1. /\ DOMAIN r = Fields /\ r.at = at /\ r.phase = tab[t].phase /\ r.kind = tab[t].kind
        /\ r.n = tab[t].n /\ r.shows = tab[t].shows
    BY <1>1 DEF Fields
  <2> HIDE DEF r
  <2>2. Told(t, r)
    BY <1>3, <2>1 DEF Told, ToldInv
  <2>3. Carried(t, r)
    BY <1>1, <2>1, <2>2 DEF Carried, Places, Phases
  <2>4. QED
    BY <1>3, <2>3 DEF r
<1>4. CASE tab[t].kind = "reset"
  <2>1. CASE resets[n] = "pending"
    BY <1>3, <1>4, <2>1 DEF Arrive, Set
  <2>2. CASE resets[n] # "pending"
    BY <1>2, <1>3, <1>4, <2>2 DEF Arrive, Set
  <2>3. QED
    BY <2>1, <2>2
<1>5. CASE tab[t].kind # "reset"
  <2>1. Confirm(n) /\ n \in DOMAIN changes
    BY <1>1, <1>5 DEF Arrive
  <2>2. Outcome(n) = "done" => changes'[n].status = "confirmed"
    BY <2>1, ConfirmFacts DEF LinkInv
  <2>3. CASE Outcome(n) = "done"
    BY <1>3, <1>5, <2>2, <2>3 DEF Arrive, Set
  <2>4. CASE Outcome(n) # "done"
    BY <1>2, <1>3, <1>5, <2>4 DEF Arrive, Set
  <2>5. QED
    BY <2>3, <2>4
<1>6. QED
  BY <1>4, <1>5

LEMMA PageFacts ==
  ASSUME LinkInv, ToldInv, NEW t \in Tabs, Lookup(t) \/ Press(t) \/ Answered(t) \/ LostAnswer(t)
  PROVE  \E r : tab' = [tab EXCEPT ![t] = r] /\ Carried(t, r)
<1>1. /\ tab[t].phase \in Phases /\ tab[t].at \in Places /\ DOMAIN tab[t] = Fields
      /\ tab[t].at # "none" \/ tab[t].phase # "loading" =>
           (tab[t].kind = "reset" /\ tab[t].n \in DOMAIN resets) \/ (tab[t].kind = "change" /\ tab[t].n \in DOMAIN changes)
      /\ UNCHANGED changes
  BY TabFacts DEF LinkInv, TabInv, Fields, Lookup, Press, Answered, LostAnswer, mailVars
<1>2. Dead(t) \in {"expired", "invalid"}
  BY DEF Dead
<1>3. CASE Lookup(t)
  <2> DEFINE s == Status(tab[t].kind, tab[t].n)
             r == [tab[t] EXCEPT !.at = "none", !.phase = IF s = "pending" THEN "ready" ELSE Dead(t),
                                 !.shows = IF tab[t].kind = "change" /\ s = "pending" THEN changes[tab[t].n].to ELSE NONE]
  <2>1. tab' = [tab EXCEPT ![t] = r] /\ tab[t].at = "lookup"
    BY <1>3 DEF Lookup, Set
  <2>2. /\ DOMAIN r = Fields /\ r.at = "none" /\ r.kind = tab[t].kind /\ r.n = tab[t].n
        /\ r.phase = IF s = "pending" THEN "ready" ELSE Dead(t)
        /\ r.shows = IF tab[t].kind = "change" /\ s = "pending" THEN changes[tab[t].n].to ELSE NONE
    BY <1>1 DEF Fields
  <2> HIDE DEF r, s
  <2>3. Carried(t, r)
    BY <1>1, <1>2, <2>1, <2>2 DEF Carried, Told, Phases, Places
  <2>4. QED
    BY <2>1, <2>3
<1>4. CASE Press(t)
  <2> DEFINE r == [tab[t] EXCEPT !.at = "posted", !.phase = "saving"]
  <2>1. tab' = [tab EXCEPT ![t] = r] /\ tab[t].phase = "ready"
    BY <1>4 DEF Press, Set
  <2>2. /\ DOMAIN r = Fields /\ r.at = "posted" /\ r.kind = tab[t].kind /\ r.n = tab[t].n
        /\ r.phase = "saving" /\ r.shows = tab[t].shows
    BY <1>1 DEF Fields
  <2> HIDE DEF r
  <2>3. Told(t, r)
    BY <2>1, <2>2 DEF Told, ToldInv
  <2>4. Carried(t, r)
    BY <1>1, <2>1, <2>2, <2>3 DEF Carried, Phases, Places
  <2>5. QED
    BY <2>1, <2>4
<1>5. CASE Answered(t)
  <2> DEFINE r == [tab[t] EXCEPT !.at = "none", !.phase = tab[t].at]
  <2>1. tab' = [tab EXCEPT ![t] = r] /\ tab[t].at \in {"done", "expired", "invalid"}
    BY <1>5 DEF Answered, Set
  <2>2. /\ DOMAIN r = Fields /\ r.at = "none" /\ r.kind = tab[t].kind /\ r.n = tab[t].n
        /\ r.phase = tab[t].at
    BY <1>1 DEF Fields
  <2> HIDE DEF r
  <2>3. Carried(t, r)
    BY <1>1, <2>1, <2>2 DEF Carried, Told, Phases, Places
  <2>4. QED
    BY <2>1, <2>3
<1>6. CASE LostAnswer(t)
  <2> DEFINE r == [tab[t] EXCEPT !.at = "none", !.phase = IF tab[t].kind = "reset" THEN "ready" ELSE "invalid"]
  <2>1. tab' = [tab EXCEPT ![t] = r] /\ tab[t].at # "none"
    BY <1>6 DEF LostAnswer, Set
  <2>2. /\ DOMAIN r = Fields /\ r.at = "none" /\ r.kind = tab[t].kind /\ r.n = tab[t].n
        /\ r.phase = IF tab[t].kind = "reset" THEN "ready" ELSE "invalid"
    BY <1>1 DEF Fields
  <2> HIDE DEF r
  <2>3. Carried(t, r)
    BY <1>1, <2>1, <2>2 DEF Carried, Told, Phases, Places
  <2>4. QED
    BY <2>1, <2>3
<1>7. QED
  BY <1>3, <1>4, <1>5, <1>6

LEMMA OpenFacts ==
  ASSUME NEW t \in Tabs, NEW kind, NEW n, Open(t, kind, n),
         (kind = "reset" /\ n \in DOMAIN resets) \/ (kind = "change" /\ n \in DOMAIN changes)
  PROVE  \E r : tab' = [tab EXCEPT ![t] = r] /\ Carried(t, r)
<1> DEFINE r == [Blank EXCEPT !.kind = kind, !.n = n, !.at = "lookup"]
<1>1. tab' = [tab EXCEPT ![t] = r]
  BY DEF Open, Set
<1>2. DOMAIN r = Fields /\ r.kind = kind /\ r.n = n /\ r.at = "lookup" /\ r.phase = "loading"
  BY DEF Blank, Fields
<1> HIDE DEF r
<1>3. Carried(t, r)
  BY <1>2 DEF Carried, Told, Phases, Places
<1>4. QED
  BY <1>1, <1>3

LEMMA TabStep ==
  ASSUME LinkInv, ToldInv, [Next]_vars
  PROVE  \/ UNCHANGED tab
         \/ \E t \in Tabs : \E r : tab' = [tab EXCEPT ![t] = r] /\ Carried(t, r)
<1>1. CASE UNCHANGED vars \/ VerifyPassword \/ SendReset
  BY <1>1 DEF vars, VerifyPassword, SendReset
<1>2. CASE \E p \in 0..MaxResets : IssueSession(p) \/ RevokeAll(p)
  BY <1>2 DEF IssueSession, RevokeAll
<1>3. CASE \E u \in Users : Dialog(u)
  BY <1>3 DEF Dialog, OpenDialog, CloseDialog, AnswerChange, AskChange
<1>4. ASSUME NEW kind, NEW n, Lapse(kind, n)
      PROVE  UNCHANGED tab
  BY <1>4 DEF Lapse
<1>5. QED
  BY <1>1, <1>2, <1>3, <1>4, OpenFacts, ArriveFacts, PageFacts DEF Next, Tab

LEMMA StepTab ==
  LinkInv /\ ToldInv /\ [Next]_vars /\ MaxResets \in Nat => TabInv' /\ ToldInv' /\ ConfirmSays
<1> SUFFICES ASSUME LinkInv, TabInv, ToldInv, [Next]_vars, MaxResets \in Nat
             PROVE  TabInv' /\ ToldInv' /\ ConfirmSays
    BY DEF LinkInv
<1>1. Kept
  BY StepKept
<1>2. DOMAIN resets \subseteq DOMAIN resets'
  <2>1. resets \in Seq(Linked) /\ resets' \in Seq(Linked)
    BY StepPw DEF PwInv, LinkInv
  <2>2. Len(resets) <= Len(resets')
    <3>1. ASSUME NEW t \in Tabs, Resets(t)
          PROVE  Len(resets) = Len(resets')
      BY <3>1, BurnFacts DEF Resets, Apply, LinkInv
    <3>2. QED
      BY <2>1, <3>1, PwStep DEF SendReset, LapseReset, VerifyPassword, IssueSession, RevokeAll
  <2>3. QED
    BY <2>1, <2>2
<1>3. CASE UNCHANGED tab
  <2>1. TabInv'
    BY <1>1, <1>2, <1>3 DEF TabInv, Shows, Kept
  <2>2. \A t \in Tabs : tab[t].kind = "change" /\ tab[t].at = "done" => tab[t].n \in DOMAIN changes
    BY TabFacts DEF TabInv, Shows
  <2>3. \A t \in Tabs : tab[t].kind = "change" /\ tab[t].phase \in {"ready", "saving"} => tab[t].n \in DOMAIN changes
    BY TabFacts DEF TabInv, Shows
  <2>4. ToldInv'
    BY <1>1, <1>3, <2>2, <2>3 DEF ToldInv, Kept
  <2>5. QED
    BY <1>3, <2>1, <2>4 DEF ConfirmSays
<1>4. ASSUME NEW t \in Tabs, NEW r, tab' = [tab EXCEPT ![t] = r], Carried(t, r)
      PROVE  TabInv' /\ ToldInv' /\ ConfirmSays
  <2>1. DOMAIN tab' = Tabs /\ tab'[t] = r /\ \A s \in Tabs \ {t} : tab'[s] = tab[s]
    BY <1>4 DEF TabInv
  <2>2. /\ r.phase \in Phases /\ r.at \in Places /\ DOMAIN r = Fields
        /\ (r.kind = "reset" /\ r.n \in DOMAIN resets') \/ (r.kind = "change" /\ r.n \in DOMAIN changes')
    BY <1>1, <1>2, <1>4 DEF Carried, Kept
  <2>3. TabInv'
    BY <1>1, <1>2, <2>1, <2>2 DEF TabInv, Shows, Kept, Fields
  <2>4. ASSUME NEW s \in Tabs \ {t}, tab[s].kind = "change"
        PROVE  /\ tab[s].phase \in {"ready", "saving"} => tab[s].shows = changes'[tab[s].n].to
               /\ tab[s].at = "done" => changes'[tab[s].n].status = "confirmed"
    <3>1. tab[s].at = "done" \/ tab[s].phase \in {"ready", "saving"} => tab[s].n \in DOMAIN changes
      BY <2>4 DEF TabInv, Shows
    <3>2. QED
      BY <1>1, <2>4, <3>1 DEF ToldInv, Kept
  <2>5. r.kind = "change" => /\ r.phase \in {"ready", "saving"} => r.shows = changes'[r.n].to
                             /\ r.at = "done" => changes'[r.n].status = "confirmed"
    BY <1>1, <1>4 DEF Carried, Told, Kept
  <2>6. ToldInv'
    BY <2>1, <2>4, <2>5 DEF ToldInv
  <2>7. ConfirmSays
    BY <1>4, <2>1 DEF ConfirmSays, Carried, ToldInv
  <2>8. QED
    BY <2>3, <2>6, <2>7
<1>5. QED
  BY <1>3, <1>4, TabStep
----------------------------------------------------------------------------
(* One open link for a user, one user for an address.                      *)

LEMMA StepOne == LinkInv /\ OneInv /\ [Next]_vars => OneInv'
<1> SUFFICES ASSUME LinkInv, MailInv, TabInv, OneInv, [Next]_vars
             PROVE  OneInv'
    BY DEF LinkInv
<1>1. CASE UNCHANGED changes
  BY <1>1 DEF OneInv
<1>2. ASSUME NEW u \in Users, asking[u] # NONE, ~Refused(u), Insert(u)
      PROVE  OneInv'
  <2> DEFINE k == Len(changes) + 1
  <2>1. /\ Len(changes) \in Nat /\ DOMAIN changes = 1..Len(changes)
        /\ changes' \in Seq(Change) /\ Len(changes') = k /\ DOMAIN changes' = 1..k
    <3>1. changes' \in Seq(Change) /\ Len(changes') = k
      BY <1>2, InsertFacts
    <3>2. QED
      BY <3>1 DEF MailInv
  <2>2. changes'[k].user = u
    <3>1. changes'[k] = [user |-> u, to |-> asking[u].to, status |-> "pending"]
      BY <1>2, InsertFacts
    <3>2. QED
      BY <3>1
  <2>3. ASSUME NEW n \in 1..Len(changes), changes'[n].user = u, changes'[n].status = "pending"
        PROVE  FALSE
    <3>1. changes[n].user = u /\ changes[n].status = "pending" /\ n \notin asking[u].old
      BY <1>2, <2>1, <2>3, InsertFacts
    <3>2. n \in Pending(u)
      BY <2>1, <3>1 DEF Pending
    <3>3. QED
      BY <1>2, <3>1, <3>2 DEF Refused
  <2>4. ASSUME NEW n \in 1..Len(changes)
        PROVE  /\ changes'[n].user = changes[n].user
               /\ changes'[n].status = "pending" => changes[n].status = "pending"
    BY <1>2, <2>4, InsertFacts
  <2> HIDE DEF k
  <2>5. \A n \in 1..k : n = k \/ n \in 1..Len(changes)
    BY <2>1 DEF k
  <2> SUFFICES ASSUME NEW m \in 1..k, NEW n \in 1..k, changes'[m].user = changes'[n].user,
                      changes'[m].status = "pending", changes'[n].status = "pending"
               PROVE  m = n
    BY <2>1 DEF OneInv
  <2>6. QED
    BY <2>1, <2>2, <2>3, <2>4, <2>5 DEF OneInv
<1>3. ASSUME DOMAIN changes' = DOMAIN changes, Kept,
             \A m \in DOMAIN changes : changes'[m].status = "pending" => changes[m].status = "pending"
      PROVE  OneInv'
  BY <1>3 DEF OneInv, Kept
<1>4. ASSUME NEW u \in Users, Dialog(u)
      PROVE  OneInv'
  BY <1>1, <1>2, <1>4, DialogFacts
<1>5. ASSUME NEW n \in DOMAIN changes, LapseChange(n)
      PROVE  OneInv'
  BY <1>3, <1>5, LapseFacts
<1>6. ASSUME NEW t \in Tabs, Confirms(t)
      PROVE  OneInv'
  BY <1>3, <1>6, ConfirmFacts DEF Confirms
<1>7. QED
  BY <1>1, <1>4, <1>5, <1>6, MailStep DEF mailVars

LEMMA StepDiffer == LinkInv /\ AddressesDiffer /\ [Next]_vars => AddressesDiffer'
<1> SUFFICES ASSUME LinkInv, MailInv, TabInv, AddressesDiffer, [Next]_vars
             PROVE  AddressesDiffer'
    BY DEF LinkInv
<1>1. CASE UNCHANGED email
  BY <1>1 DEF AddressesDiffer
<1>2. ASSUME NEW u \in Users, NEW a, ~Taken(a, u), email' = [email EXCEPT ![u] = a]
      PROVE  AddressesDiffer'
  BY <1>2 DEF Taken, AddressesDiffer, MailInv
<1>3. ASSUME NEW t \in Tabs, Confirms(t)
      PROVE  AddressesDiffer'
  <2>1. changes[tab[t].n].user \in Users
    <3>1. changes[tab[t].n] \in Change
      BY <1>3 DEF Confirms, MailInv
    <3>2. QED
      BY <3>1 DEF Change
  <2>2. QED
    BY <1>1, <1>2, <1>3, <2>1, ConfirmFacts DEF Confirms
<1>4. QED
  BY <1>1, <1>3, DialogFacts, MailStep DEF mailVars, LapseChange

LEMMA OneOpen == MailInv /\ OneInv => OnePending
<1> SUFFICES ASSUME MailInv, OneInv, NEW u \in Users
             PROVE  Cardinality(Pending(u)) <= 1
    BY DEF OnePending
<1>1. CASE Pending(u) = {}
  BY <1>1, FS_EmptySet
<1>2. ASSUME NEW n \in Pending(u)
      PROVE  Cardinality(Pending(u)) <= 1
  <2>1. Pending(u) = {n}
    BY <1>2 DEF Pending, OneInv
  <2>2. QED
    BY <2>1, FS_Singleton
<1>3. QED
  BY <1>1, <1>2

LEMMA StepOnce == LinkInv /\ [Next]_vars => ResetOnce
<1> SUFFICES ASSUME LinkInv, PwInv, TabInv, [Next]_vars, password' # password, NEW n \in DOMAIN resets
             PROVE  resets'[n] # "pending"
    BY DEF ResetOnce, LinkInv
<1>1. PICK t \in Tabs : Resets(t)
  BY PwStep DEF SendReset, LapseReset, VerifyPassword, IssueSession, RevokeAll
<1>2. QED
  BY <1>1, BurnFacts DEF Resets, Apply, PwInv

LEMMA Types == LinkInv /\ MaxResets \in Nat => TypeOK
<1> SUFFICES ASSUME LinkInv, PwInv, MailInv, TabInv, MaxResets \in Nat
             PROVE  TypeOK
    BY DEF LinkInv
<1>1. password \in 0..MaxResets
  <2>1. password \in Nat /\ Len(resets) \in Nat /\ Len(resets) <= MaxResets
    BY DEF PwInv
  <2>2. \E k \in 0..Len(resets) : password <= k
    BY DEF PwInv, Spent
  <2>3. QED
    BY <2>1, <2>2
<1>2. \A n \in DOMAIN resets : resets[n] \in Linked
  <2>1. resets \in Seq(Linked)
    BY DEF PwInv
  <2>2. QED
    BY <2>1
<1>3. \A n \in DOMAIN changes : changes[n].status \in {"pending", "confirmed", "cancelled", "expired"}
  <2>1. \A n \in DOMAIN changes : changes[n] \in Change
    BY DEF MailInv
  <2>2. QED
    BY <2>1 DEF Change
<1>4. QED
  BY <1>1, <1>2, <1>3 DEF PwInv, MailInv, TabInv, TypeOK, Linked, Phases
----------------------------------------------------------------------------
(* The theorems.                                                           *)

LinksInv == LinkInv /\ OneInv /\ ToldInv /\ MaxResets \in Nat
LEMMA InitLinks == LinksAssumption /\ Init => LinksInv
  BY InitInv DEF LinksInv, LinksAssumption
LEMMA StepLinks == LinksInv /\ [Next]_vars => LinksInv'
  BY StepPw, StepMail, StepTab, StepOne DEF LinksInv, LinkInv

\* Links, addresses, requests and tabs keep their types; no more resets are
\* applied than links were sent.
THEOREM LinksTypeCorrect == LinksAssumption /\ Spec => []TypeOK
<1>1. LinksInv => TypeOK
  BY Types DEF LinksInv
<1>2. QED
  BY <1>1, InitLinks, StepLinks, PTL DEF Spec

\* auth/password_reset.go: once a password is set no link of before is open:
\* in any tabs, in any order, and after lost answers.
THEOREM LinksResetOnce == LinksAssumption /\ Spec => [][ResetOnce]_vars
<1>1. LinksInv /\ [Next]_vars => ResetOnce
  BY StepOnce DEF LinksInv
<1>2. QED
  BY <1>1, InitLinks, StepLinks, PTL DEF Spec

\* auth/email_change.go: however requests interleave with the cancelling of the
\* links before them, a user has one open address link at most.
THEOREM LinksOnePending == LinksAssumption /\ Spec => []OnePending
<1>1. LinksInv => OnePending
  BY OneOpen DEF LinksInv, LinkInv
<1>2. QED
  BY <1>1, InitLinks, StepLinks, PTL DEF Spec

\* ConfirmEmailChange: two users never come to have one address, although it is
\* free when each of them asks for it.
THEOREM LinksAddressesDiffer == LinksAssumption /\ Spec => []AddressesDiffer
<1>1. LinksAssumption /\ Init => AddressesDiffer
  BY DEF LinksAssumption, Init, AddressesDiffer
<1>2. LinksInv /\ AddressesDiffer /\ [Next]_vars => AddressesDiffer'
  BY StepDiffer DEF LinksInv
<1>3. QED
  BY <1>1, <1>2, InitLinks, StepLinks, PTL DEF Spec

\* ConfirmEmail.tsx: the page says "confirmed" of an address that was, and that
\* it has shown.
THEOREM LinksConfirmSays == LinksAssumption /\ Spec => [][ConfirmSays]_vars
<1>1. LinksInv /\ [Next]_vars => ConfirmSays
  BY StepTab DEF LinksInv
<1>2. QED
  BY <1>1, InitLinks, StepLinks, PTL DEF Spec
----------------------------------------------------------------------------
(* The second factor of an account.                                        *)

CONSTANTS Faults, Windows, MaxSecrets, MaxKeys, Hasty
VARIABLES tasks, server, made, app, kept, win
Factor == INSTANCE SecondFactor

\* One window shows the tab, and the user waits for what it asks for.
OneWindow == /\ ~Hasty /\ Faults \in BOOLEAN /\ (\A v, w \in Windows : v = w)
          /\ NONE \notin {"setup", "disable", "reset"}

ServerKeys == {"secret", "on", "codes", "keys"}
TabKeys == {"totp", "keys", "pkBusy", "dialog"}
StepKeys == {"kind", "step", "secret", "busy", "codes", "saved", "error"}
JobKeys == {"kind", "w", "at", "x", "live"}
Looking == {"status", "keys", "register"}
Asking == {"verify", "disable", "reset"}
FactorTypes ==
  /\ DOMAIN server = ServerKeys /\ server.on \in BOOLEAN /\ win = [w \in Windows |-> win[w]]
  /\ \A w \in Windows : DOMAIN win[w] = TabKeys /\ win[w].totp \in BOOLEAN /\ DOMAIN win[w].dialog = StepKeys
  /\ \A t \in tasks : DOMAIN t = JobKeys /\ t.w \in Windows /\ t.kind \in Looking \cup Asking \cup {"setup"}

\* A secret is made while nothing else is on its way and shows up in the dialog
\* that asked for it; what a dialog asks for makes it busy.
SetupsFit(T, win1, srv) ==
  \A t \in T : t.kind = "setup" =>
    /\ (\A u \in T : u = t) /\ ~win1.totp /\ win1.dialog.kind \in {NONE, "setup"}
    /\ win1.dialog.kind = "setup" => win1.dialog.step = "scan" /\ win1.dialog.secret = 0 /\ ~win1.dialog.busy
    /\ t.live => win1.dialog.kind = "setup"
    /\ t.at = "stored" => srv.secret = t.x
DialogOf(kind) == IF kind = "verify" THEN "setup" ELSE kind
AsksFit(T, d) ==
  /\ \A t \in T : t.kind \in Asking => /\ d.busy /\ d.kind = DialogOf(t.kind)
                                       /\ t.kind = "verify" => d.step = "verify" /\ t.x = d.secret
  /\ \A t, u \in T : t.kind \in Asking /\ u.kind \in Asking => t = u
Setting(d) == d.kind = "setup" /\ d.step # "recovery"
StepsFit(T, d, srv) ==
  /\ Setting(d) \/ d.kind = "reset" => \A t \in T : t.kind \notin Looking
  /\ Setting(d) /\ d.step = "verify" => d.secret # 0
  /\ Setting(d) /\ d.busy => d.step = "verify"
  /\ Setting(d) /\ d.secret # 0 => srv.secret = d.secret

\* Where the answers come, the tab is behind the server only while it is asking.
StatusFits(T, win1, srv) ==
  /\ \A t, u \in T : t.kind = "status" /\ u.kind = "status" => t = u
  /\ \A t \in T : t.kind = "status" =>
       /\ (win1.totp <=> ~srv.on) /\ (win1.dialog.kind = "disable" => ~srv.on)
       /\ t.at = "read" => ((t.x = 1) <=> srv.on)
  /\ (\A t \in T : t.kind # "status" /\ ~(t.kind = "verify" /\ t.at = "confirmed")) => (win1.totp <=> srv.on)
  /\ Setting(win1.dialog) => ~win1.totp
  /\ \A t \in T : t.kind = "verify" /\ t.at = "confirmed" => srv.on
KeysFit(T, win1, srv) ==
  /\ \A t, u \in T : t.kind = "register" /\ u.kind \in {"register", "keys"} => t = u
  /\ \A t \in T : t.kind = "keys" /\ t.at = "read" => t.x = srv.keys
  /\ (\A t \in T : t.kind # "keys") => win1.keys = srv.keys
ResetsFit(T, srv) == \A t \in T : t.kind = "reset" => t.at = Factor!Method(srv.on, srv.keys)

FactorFits(T, win1, srv) ==
  /\ SetupsFit(T, win1, srv) /\ AsksFit(T, win1.dialog) /\ StepsFit(T, win1.dialog, srv)
  /\ ~Faults => StatusFits(T, win1, srv) /\ KeysFit(T, win1, srv) /\ ResetsFit(T, srv)
FactorInv == FactorTypes /\ \A w \in Windows : FactorFits(tasks, win[w], server)

LEMMA FactorInit == ASSUME OneWindow, Factor!Init PROVE FactorInv
<1>1. FactorTypes
  BY DEF Factor!Init, Factor!Closed, FactorTypes, ServerKeys, TabKeys, StepKeys
<1>2. \A w \in Windows : FactorFits(tasks, win[w], server)
  BY DEF OneWindow, Factor!Init, Factor!Closed, FactorFits, SetupsFit, AsksFit, StepsFit, StatusFits, KeysFit, ResetsFit, Setting
<1>3. QED
  BY <1>1, <1>2 DEF FactorInv

\* One window: what holds of it holds.
LEMMA FactorOf ==
  ASSUME OneWindow, FactorTypes, NEW w \in Windows, NEW x, DOMAIN x = TabKeys, x.totp \in BOOLEAN, DOMAIN x.dialog = StepKeys,
         win' = [win EXCEPT ![w] = x], DOMAIN server' = ServerKeys, server'.on \in BOOLEAN,
         \A t \in tasks' : DOMAIN t = JobKeys /\ t.w \in Windows /\ t.kind \in Looking \cup Asking \cup {"setup"},
         FactorFits(tasks', x, server')
  PROVE  FactorInv'
<1>1. win'[w] = x /\ win' = [v \in Windows |-> win'[v]] /\ \A v \in Windows : v = w
  BY DEF FactorTypes, OneWindow
<1>2. QED
  BY <1>1 DEF FactorInv, FactorTypes

LEMMA JobOf == \A kind, w, x : LET t == Factor!Task(kind, w, x)
                               IN  DOMAIN t = JobKeys /\ t.kind = kind /\ t.w = w /\ t.at = "sent" /\ t.x = x /\ t.live = TRUE
BY DEF Factor!Task, JobKeys

LEMMA FactorSets ==
  ASSUME FactorTypes, NEW w \in Windows, NEW d, win' = [win EXCEPT ![w].dialog = d] \/ Factor!Set(w, d)
  PROVE  \E x : /\ win' = [win EXCEPT ![w] = x] /\ DOMAIN x = TabKeys /\ x.dialog = d
                /\ x.totp = win[w].totp /\ x.keys = win[w].keys
<1>1. DOMAIN win[w] = TabKeys /\ win = [v \in Windows |-> win[v]]
  BY DEF FactorTypes
<1>2. PICK x : x = [win[w] EXCEPT !.dialog = d]
  OBVIOUS
<1>3. DOMAIN x = TabKeys /\ x.dialog = d /\ x.totp = win[w].totp /\ x.keys = win[w].keys
  BY <1>1, <1>2 DEF TabKeys
<1>4. win' = [win EXCEPT ![w] = x]
  BY <1>2 DEF Factor!Set
<1>5. QED
  BY <1>3, <1>4

LEMMA Unasked == ASSUME OneWindow, FactorInv, NEW w \in Windows, Factor!Settled(w), win[w].dialog.kind = NONE PROVE tasks = {}
<1>1. SUFFICES ASSUME NEW t \in tasks PROVE FALSE
  OBVIOUS
<1>2. t.w = w /\ t.kind \in Asking
  BY DEF OneWindow, FactorInv, FactorTypes, Factor!Settled, Looking
<1>3. QED
  BY <1>2 DEF OneWindow, FactorInv, FactorFits, AsksFit, Asking, DialogOf
----------------------------------------------------------------------------
(* The tab: the status and the passkeys.                                   *)

LEMMA FactorRead == ASSUME OneWindow, FactorInv, NEW t \in tasks, Factor!Read(t) PROVE FactorInv'
<1>0. PICK w \in Windows : t.w = w
  BY DEF FactorInv, FactorTypes
<1>1. PICK u : /\ u = [t EXCEPT !.at = "read", !.x = IF t.kind = "keys" THEN server.keys ELSE IF server.on THEN 1 ELSE 0]
               /\ tasks' = (tasks \ {t}) \cup {u}
  BY DEF Factor!Read, Factor!Advance
<1>2. /\ DOMAIN u = JobKeys /\ u.kind = t.kind /\ u.w = t.w /\ u.at = "read" /\ t.kind \in {"status", "keys"}
      /\ u.x = IF t.kind = "keys" THEN server.keys ELSE IF server.on THEN 1 ELSE 0
  BY <1>1 DEF Factor!Read, FactorInv, FactorTypes, JobKeys
<1>2a. u.kind = t.kind /\ t.kind \in {"status", "keys"} /\ u \in tasks' /\ \A v \in tasks : v = t \/ v \in tasks'
  BY <1>1, <1>2
<1>3. UNCHANGED <<server, win>>
  BY DEF Factor!Read, Factor!Server
<1>4. FactorFits(tasks, win[w], server)
  BY DEF FactorInv
<1>5. SetupsFit(tasks', win[w], server)
  BY <1>1, <1>2, <1>4 DEF FactorFits, SetupsFit
<1>5a. AsksFit(tasks', win[w].dialog)
  BY <1>1, <1>2, <1>4 DEF FactorFits, AsksFit, Asking
<1>5b. StepsFit(tasks', win[w].dialog, server)
  BY <1>1, <1>2, <1>4 DEF FactorFits, StepsFit, Looking
<1>6. ~Faults => StatusFits(tasks', win[w], server)
  <2>1. t.kind = "status" => ((u.x = 1) <=> server.on)
    BY <1>2 DEF FactorInv, FactorTypes
  <2>2. SUFFICES ASSUME StatusFits(tasks, win[w], server) PROVE StatusFits(tasks', win[w], server)
    BY <1>4 DEF FactorFits
  <2>3. \A v \in tasks' : v \in tasks \ {t} \/ v = u
    BY <1>1
  <2>4. \A v, x \in tasks' : v.kind = "status" /\ x.kind = "status" => v = x
    BY <1>2a, <2>2, <2>3 DEF StatusFits
  <2>5. \A v \in tasks' : v.kind = "status" => /\ (win[w].totp <=> ~server.on) /\ (win[w].dialog.kind = "disable" => ~server.on)
                                               /\ v.at = "read" => ((v.x = 1) <=> server.on)
    BY <1>2a, <2>1, <2>2, <2>3 DEF StatusFits
  <2>6. (\A v \in tasks' : v.kind # "status" /\ ~(v.kind = "verify" /\ v.at = "confirmed")) => (win[w].totp <=> server.on)
    BY <1>2a, <2>2, <2>3 DEF StatusFits
  <2>7. \A v \in tasks' : v.kind = "verify" /\ v.at = "confirmed" => server.on
    BY <1>2a, <2>2, <2>3 DEF StatusFits
  <2>8. Setting(win[w].dialog) => ~win[w].totp
    BY <2>2 DEF StatusFits
  <2>9. QED
    BY <2>4, <2>5, <2>6, <2>7, <2>8 DEF StatusFits
<1>7. ~Faults => KeysFit(tasks', win[w], server)
  <2>1. t.kind = "keys" => u.x = server.keys
    BY <1>2
  <2>2. SUFFICES ASSUME KeysFit(tasks, win[w], server) PROVE KeysFit(tasks', win[w], server)
    BY <1>4 DEF FactorFits
  <2>3. \A v \in tasks' : v \in tasks \ {t} \/ v = u
    BY <1>1
  <2>4. \A v, x \in tasks' : v.kind = "register" /\ x.kind \in {"register", "keys"} => v = x
    BY <1>2a, <2>2, <2>3 DEF KeysFit
  <2>5. QED
    BY <1>2a, <2>1, <2>2, <2>3, <2>4 DEF KeysFit
<1>7a. ~Faults => ResetsFit(tasks', server)
  BY <1>1, <1>2, <1>4 DEF FactorFits, ResetsFit
<1>8. FactorFits(tasks', win[w], server)
  BY <1>5, <1>5a, <1>5b, <1>6, <1>7, <1>7a DEF FactorFits
<1>9. FactorTypes' /\ \A v \in Windows : v = w
  BY <1>0, <1>1, <1>2, <1>3 DEF FactorInv, FactorTypes, OneWindow
<1>10. QED
  BY <1>3, <1>8, <1>9 DEF FactorInv

\* Requests of one kind that are the same before and after.
SameKinds(T, V, kinds) == \A t : t.kind \in kinds => (t \in T <=> t \in V)

LEMMA StatusKept ==
  ASSUME NEW T, NEW V, SameKinds(T, V, {"status", "verify"}), NEW x, NEW y, NEW s, NEW r, StatusFits(T, x, s),
         x.totp = y.totp, s.on = r.on, Setting(y.dialog) => ~y.totp,
         \A t \in T : t.kind = "status" /\ y.dialog.kind = "disable" => ~s.on
  PROVE  StatusFits(V, y, r)
<1>1. \A t : t.kind = "status" \/ t.kind = "verify" => (t \in T <=> t \in V)
  BY DEF SameKinds
<1>2. \A t, u \in V : t.kind = "status" /\ u.kind = "status" => t = u
  BY <1>1 DEF StatusFits
<1>3. \A t \in V : t.kind = "status" => /\ (y.totp <=> ~r.on) /\ (y.dialog.kind = "disable" => ~r.on)
                                        /\ t.at = "read" => ((t.x = 1) <=> r.on)
  BY <1>1 DEF StatusFits
<1>4. (\A t \in V : t.kind # "status" /\ ~(t.kind = "verify" /\ t.at = "confirmed")) => (y.totp <=> r.on)
  BY <1>1 DEF StatusFits
<1>5. \A t \in V : t.kind = "verify" /\ t.at = "confirmed" => r.on
  BY <1>1 DEF StatusFits
<1>6. QED
  BY <1>2, <1>3, <1>4, <1>5 DEF StatusFits

LEMMA KeysKept ==
  ASSUME NEW T, NEW V, SameKinds(T, V, {"register", "keys"}), NEW x, NEW y, NEW s, NEW r, KeysFit(T, x, s),
         x.keys = y.keys, s.keys = r.keys
  PROVE  KeysFit(V, y, r)
<1>1. \A t : t.kind = "register" \/ t.kind = "keys" => (t \in T <=> t \in V)
  BY DEF SameKinds
<1>2. QED
  BY <1>1 DEF KeysFit

\* No request is on its way, or one.
LEMMA FitsNone ==
  ASSUME NEW x, NEW s, Setting(x.dialog) /\ x.dialog.step = "verify" => x.dialog.secret # 0,
         Setting(x.dialog) /\ x.dialog.busy => x.dialog.step = "verify",
         Setting(x.dialog) /\ x.dialog.secret # 0 => s.secret = x.dialog.secret,
         ~Faults => (x.totp <=> s.on) /\ (Setting(x.dialog) => ~x.totp) /\ x.keys = s.keys
  PROVE  FactorFits({}, x, s)
BY DEF FactorFits, SetupsFit, AsksFit, StepsFit, StatusFits, KeysFit, ResetsFit

LEMMA NoneFits ==
  ASSUME NEW x, NEW s, FactorFits({}, x, s)
  PROVE  /\ Setting(x.dialog) /\ x.dialog.step = "verify" => x.dialog.secret # 0
         /\ Setting(x.dialog) /\ x.dialog.busy => x.dialog.step = "verify"
         /\ Setting(x.dialog) /\ x.dialog.secret # 0 => s.secret = x.dialog.secret
         /\ ~Faults => (x.totp <=> s.on) /\ (Setting(x.dialog) => ~x.totp) /\ x.keys = s.keys
BY DEF FactorFits, SetupsFit, AsksFit, StepsFit, StatusFits, KeysFit, ResetsFit

LEMMA FactorAddKey == ASSUME OneWindow, FactorInv, NEW w \in Windows, Factor!AddKey(w) PROVE FactorInv'
<1>1. PICK u : u = Factor!Task("register", w, 0)
  OBVIOUS
<1>2. tasks = {} /\ tasks' = {u} /\ UNCHANGED server /\ win[w].dialog.kind = NONE
  BY <1>1, Unasked DEF Factor!AddKey, Factor!Server, Factor!D
<1>3. PICK x : x = [win[w] EXCEPT !.pkBusy = TRUE]
  OBVIOUS
<1>4. /\ win' = [win EXCEPT ![w] = x] /\ DOMAIN x = TabKeys /\ x.dialog = win[w].dialog
      /\ x.totp = win[w].totp /\ x.keys = win[w].keys
  BY <1>3 DEF Factor!AddKey, FactorInv, FactorTypes, TabKeys
<1>5. DOMAIN u = JobKeys /\ u.w = w /\ u.kind = "register"
  BY <1>1, JobOf
<1>6. FactorFits({}, win[w], server) /\ ~Setting(win[w].dialog) /\ win[w].dialog.kind # "reset"
  BY <1>2 DEF FactorInv, Setting, OneWindow
<1>7. ~Faults => (x.totp <=> server.on) /\ x.keys = server.keys
  BY <1>4, <1>6, NoneFits
<1>8. FactorFits({u}, x, server)
  BY <1>4, <1>5, <1>6, <1>7 DEF FactorFits, SetupsFit, AsksFit, StepsFit, StatusFits, KeysFit, ResetsFit, Asking
<1>9. QED
  BY <1>2, <1>4, <1>5, <1>8, FactorOf DEF FactorInv, FactorTypes, Looking

LEMMA FactorRemoveKey == ASSUME OneWindow, FactorInv, NEW w \in Windows, Factor!RemoveKey(w) PROVE FactorInv'
<1>1. PICK u : u = Factor!Reload(w, "keys")
  OBVIOUS
<1>2. tasks = {} /\ tasks' = {u} /\ UNCHANGED win /\ win[w].dialog.kind = NONE
  BY <1>1, Unasked DEF Factor!RemoveKey, Factor!D
<1>3. server' = [server EXCEPT !.keys = @ - 1]
  BY DEF Factor!RemoveKey
<1>4. DOMAIN server' = ServerKeys /\ server'.on = server.on /\ server'.secret = server.secret /\ server'.on \in BOOLEAN
  BY <1>3 DEF FactorInv, FactorTypes, ServerKeys
<1>5. DOMAIN u = JobKeys /\ u.w = w /\ u.kind = "keys" /\ u.at = "sent"
  BY <1>1, JobOf DEF Factor!Reload
<1>6. FactorFits({}, win[w], server) /\ ~Setting(win[w].dialog) /\ win[w].dialog.kind # "reset"
  BY <1>2 DEF FactorInv, Setting, OneWindow
<1>7. ~Faults => (win[w].totp <=> server'.on)
  BY <1>4, <1>6, NoneFits
<1>8. FactorFits({u}, win[w], server')
  BY <1>5, <1>6, <1>7 DEF FactorFits, SetupsFit, AsksFit, StepsFit, StatusFits, KeysFit, ResetsFit, Asking
<1>9. FactorTypes' /\ \A v \in Windows : v = w
  BY <1>2, <1>4, <1>5 DEF FactorInv, FactorTypes, OneWindow, Looking
<1>10. QED
  BY <1>2, <1>8, <1>9 DEF FactorInv

\* A set-up, a code that is checked, and a reset that is asked for are alone.
LEMMA AloneJobs ==
  ASSUME OneWindow, FactorInv, NEW t \in tasks, t.kind \in {"setup", "verify", "reset"}
  PROVE  tasks = {t}
<1>1. PICK w \in Windows : t.w = w
  BY DEF FactorInv, FactorTypes
<1>2. FactorFits(tasks, win[w], server)
  BY DEF FactorInv
<1>3. SUFFICES ASSUME NEW u \in tasks PROVE u = t
  OBVIOUS
<1>4. u.kind \in Looking \cup Asking \cup {"setup"}
  BY DEF FactorInv, FactorTypes
<1>5. CASE t.kind = "setup" \/ u.kind = "setup"
  BY <1>2, <1>5 DEF FactorFits, SetupsFit
<1>6. CASE t.kind # "setup" /\ u.kind \in Asking
  BY <1>2, <1>6 DEF FactorFits, AsksFit, Asking
<1>7. CASE t.kind # "setup" /\ u.kind \in Looking
  <2>1. win[w].dialog.kind = DialogOf(t.kind) /\ (t.kind = "verify" => win[w].dialog.step = "verify")
    BY <1>2, <1>7 DEF FactorFits, AsksFit, Asking
  <2>2. Setting(win[w].dialog) \/ win[w].dialog.kind = "reset"
    BY <1>7, <2>1 DEF Setting, DialogOf
  <2>3. QED
    BY <1>2, <1>7, <2>2 DEF FactorFits, StepsFit
<1>8. QED
  BY <1>4, <1>5, <1>6, <1>7

\* The dialog of a set-up past its code, and one for a reset, when it is not busy:
\* nothing is on its way.
LEMMA IdleDialog ==
  ASSUME OneWindow, FactorInv, NEW w \in Windows, ~win[w].dialog.busy,
         \/ Setting(win[w].dialog) /\ (win[w].dialog.secret # 0 \/ win[w].dialog.step = "verify")
         \/ win[w].dialog.kind = "reset"
  PROVE  tasks = {}
<1>1. FactorFits(tasks, win[w], server)
  BY DEF FactorInv
<1>2. SUFFICES ASSUME NEW t \in tasks PROVE FALSE
  OBVIOUS
<1>3. t.kind \in Looking \cup Asking \cup {"setup"}
  BY DEF FactorInv, FactorTypes
<1>4. t.kind \notin Looking
  BY <1>1 DEF FactorFits, StepsFit
<1>5. t.kind \notin Asking
  BY <1>1 DEF FactorFits, AsksFit
<1>6. t.kind # "setup"
  BY <1>1 DEF FactorFits, SetupsFit, Setting, OneWindow
<1>7. QED
  BY <1>3, <1>4, <1>5, <1>6

\* A step of one dialog that ends with one request, or none, on its way.
LEMMA FactorDialog ==
  ASSUME OneWindow, FactorInv, NEW w \in Windows, NEW d, DOMAIN d = StepKeys, Factor!Set(w, d),
         DOMAIN server' = ServerKeys, server'.on \in BOOLEAN,
         \A t \in tasks' : DOMAIN t = JobKeys /\ t.w \in Windows /\ t.kind \in Looking \cup Asking \cup {"setup"},
         \A x : x.dialog = d /\ x.totp = win[w].totp /\ x.keys = win[w].keys => FactorFits(tasks', x, server')
  PROVE  FactorInv'
<1>1. PICK x : /\ win' = [win EXCEPT ![w] = x] /\ DOMAIN x = TabKeys /\ x.dialog = d
               /\ x.totp = win[w].totp /\ x.keys = win[w].keys
  BY FactorSets DEF FactorInv
<1>2. FactorFits(tasks', x, server') /\ x.totp \in BOOLEAN
  BY <1>1 DEF FactorInv, FactorTypes
<1>3. QED
  BY <1>1, <1>2, FactorOf DEF FactorInv

\* A step of the service for the one request there is.
LEMMA FactorService ==
  ASSUME OneWindow, FactorInv, NEW w \in Windows, UNCHANGED win, DOMAIN server' = ServerKeys, server'.on \in BOOLEAN,
         \A t \in tasks' : DOMAIN t = JobKeys /\ t.w \in Windows /\ t.kind \in Looking \cup Asking \cup {"setup"},
         FactorFits(tasks', win[w], server')
  PROVE  FactorInv'
BY DEF FactorInv, FactorTypes, OneWindow

LEMMA FactorOpenSetup == ASSUME OneWindow, FactorInv, NEW w \in Windows, Factor!OpenSetup(w) PROVE FactorInv'
<1>1. PICK u : u = Factor!Task("setup", w, 0)
  OBVIOUS
<1>2. tasks = {} /\ tasks' = {u} /\ UNCHANGED server /\ ~win[w].totp
  BY <1>1, Unasked DEF Factor!OpenSetup, Factor!Server, Factor!D
<1>3. DOMAIN u = JobKeys /\ u.kind = "setup" /\ u.w = w /\ u.at = "sent"
  BY <1>1, JobOf
<1>4. PICK d : d = [Factor!Closed EXCEPT !.kind = "setup"]
  OBVIOUS
<1>5. DOMAIN d = StepKeys /\ d.kind = "setup" /\ d.step = "scan" /\ d.secret = 0 /\ ~d.busy /\ Factor!Set(w, d)
  BY <1>4 DEF Factor!Closed, StepKeys, Factor!OpenSetup
<1>6. ~Faults => (win[w].totp <=> server.on) /\ win[w].keys = server.keys
  BY <1>2, NoneFits DEF FactorInv
<1>7. ASSUME NEW x, x.dialog = d, x.totp = win[w].totp, x.keys = win[w].keys PROVE FactorFits({u}, x, server)
  BY <1>2, <1>3, <1>5, <1>6, <1>7 DEF FactorFits, SetupsFit, AsksFit, StepsFit, StatusFits, KeysFit, ResetsFit, Setting, Asking, Looking
<1>8. QED
  BY <1>2, <1>3, <1>5, <1>7, FactorDialog DEF FactorInv, FactorTypes

LEMMA FactorBegin == ASSUME OneWindow, FactorInv, NEW t \in tasks, Factor!BeginSetup(t) \/ Factor!StorePending(t) PROVE FactorInv'
<1>1. PICK w \in Windows : t.w = w
  BY DEF FactorInv, FactorTypes
<1>2. t.kind = "setup" /\ tasks = {t} /\ FactorFits({t}, win[w], server) /\ DOMAIN t = JobKeys /\ UNCHANGED win
  BY AloneJobs DEF Factor!BeginSetup, Factor!StorePending, FactorInv, FactorTypes
<1>3. /\ ~win[w].totp /\ win[w].dialog.kind \in {NONE, "setup"} /\ (t.live => win[w].dialog.kind = "setup")
      /\ win[w].dialog.kind = "setup" => win[w].dialog.step = "scan" /\ win[w].dialog.secret = 0 /\ ~win[w].dialog.busy
  BY <1>2 DEF FactorFits, SetupsFit
<1>4. ~Faults => (win[w].totp <=> server.on) /\ win[w].keys = server.keys
  BY <1>2 DEF FactorFits, StatusFits, KeysFit
<1>5. PICK u : /\ tasks' = {u} /\ DOMAIN u = JobKeys /\ u.kind = "setup" /\ u.w = w /\ u.live = t.live
               /\ u.at = "stored" => server'.secret = u.x
  <2>1. CASE Factor!BeginSetup(t)
    <3>1. PICK u : /\ tasks' = (tasks \ {t}) \cup {u}
                   /\ u = [t EXCEPT !.at = "refused"] \/ u = [t EXCEPT !.at = "allowed", !.x = made + 1]
      BY <2>1 DEF Factor!BeginSetup, Factor!Advance
    <3>2. tasks' = {u} /\ DOMAIN u = JobKeys /\ u.kind = "setup" /\ u.w = w /\ u.live = t.live /\ u.at # "stored"
      BY <1>1, <1>2, <3>1 DEF JobKeys
    <3>3. QED
      BY <3>2
  <2>2. CASE Factor!StorePending(t)
    <3>1. PICK u : u = [t EXCEPT !.at = "stored"]
      OBVIOUS
    <3>2. tasks' = {u} /\ server' = [server EXCEPT !.secret = t.x, !.on = FALSE]
      BY <1>2, <2>2, <3>1 DEF Factor!StorePending, Factor!Advance
    <3>3. DOMAIN u = JobKeys /\ u.kind = "setup" /\ u.w = w /\ u.live = t.live /\ u.x = t.x
      BY <1>1, <1>2, <3>1 DEF JobKeys
    <3>4. server'.secret = t.x
      BY <3>2 DEF FactorInv, FactorTypes, ServerKeys
    <3>5. QED
      BY <3>2, <3>3, <3>4
  <2>3. QED
    BY <2>1, <2>2
<1>6. DOMAIN server' = ServerKeys /\ server'.on \in BOOLEAN /\ server'.keys = server.keys /\ (~win[w].totp /\ ~Faults => ~server'.on)
  <2>1. CASE UNCHANGED server
    BY <1>4, <2>1 DEF FactorInv, FactorTypes
  <2>2. CASE server' = [server EXCEPT !.secret = t.x, !.on = FALSE]
    BY <2>2 DEF FactorInv, FactorTypes, ServerKeys
  <2>3. QED
    BY <2>1, <2>2 DEF Factor!BeginSetup, Factor!StorePending
<1>7. FactorFits({u}, win[w], server')
  <2>1. SetupsFit({u}, win[w], server')
    BY <1>3, <1>5 DEF SetupsFit
  <2>2. AsksFit({u}, win[w].dialog)
    BY <1>5 DEF AsksFit, Asking
  <2>3. StepsFit({u}, win[w].dialog, server')
    BY <1>3, <1>5 DEF StepsFit, Setting, Looking, OneWindow
  <2>4. ~Faults => StatusFits({u}, win[w], server')
    BY <1>3, <1>5, <1>6 DEF StatusFits
  <2>5. ~Faults => KeysFit({u}, win[w], server') /\ ResetsFit({u}, server')
    BY <1>4, <1>5, <1>6 DEF KeysFit, ResetsFit
  <2>6. QED
    BY <2>1, <2>2, <2>3, <2>4, <2>5 DEF FactorFits
<1>8. \A v \in tasks' : DOMAIN v = JobKeys /\ v.w \in Windows /\ v.kind \in Looking \cup Asking \cup {"setup"}
  BY <1>5
<1>9. QED
  BY <1>2, <1>5, <1>6, <1>7, <1>8, FactorService

LEMMA FactorShow == ASSUME OneWindow, FactorInv, NEW t \in tasks, Factor!ShowSecret(t) PROVE FactorInv'
<1>1. PICK w \in Windows : t.w = w
  BY DEF FactorInv, FactorTypes
<1>2. /\ t.kind = "setup" /\ tasks = {t} /\ tasks' = {} /\ FactorFits({t}, win[w], server) /\ DOMAIN t = JobKeys
      /\ UNCHANGED server /\ t.at \in {"stored", "refused"}
  BY AloneJobs DEF Factor!ShowSecret, Factor!Done, Factor!Server, FactorInv, FactorTypes
<1>3. /\ ~win[w].totp /\ win[w].dialog.kind \in {NONE, "setup"} /\ (t.live => win[w].dialog.kind = "setup")
      /\ win[w].dialog.kind = "setup" => win[w].dialog.step = "scan" /\ win[w].dialog.secret = 0 /\ ~win[w].dialog.busy
      /\ t.at = "stored" => server.secret = t.x
  BY <1>2 DEF FactorFits, SetupsFit
<1>4. ~Faults => (win[w].totp <=> server.on) /\ win[w].keys = server.keys
  BY <1>2 DEF FactorFits, StatusFits, KeysFit
<1>5. CASE ~t.live
  <2>1. UNCHANGED win
    BY <1>5 DEF Factor!ShowSecret
  <2>2. FactorFits({}, win[w], server)
    BY <1>3, <1>4, FitsNone DEF Setting, OneWindow
  <2>3. QED
    BY <1>2, <2>1, <2>2, FactorService DEF FactorInv, FactorTypes
<1>6. CASE t.live
  <2>1. PICK d : /\ Factor!Set(w, d)
                 /\ d = IF t.at = "stored" THEN [win[w].dialog EXCEPT !.secret = t.x] ELSE [win[w].dialog EXCEPT !.error = TRUE]
    <3>1. PICK d : d = IF t.at = "stored" THEN [win[w].dialog EXCEPT !.secret = t.x] ELSE [win[w].dialog EXCEPT !.error = TRUE]
      OBVIOUS
    <3>2. win' = [win EXCEPT ![w].dialog = d]
      BY <1>1, <1>6, <3>1 DEF Factor!ShowSecret
    <3>3. QED
      BY <3>1, <3>2 DEF Factor!Set
  <2>2. /\ DOMAIN d = StepKeys /\ d.kind = "setup" /\ d.step = "scan" /\ ~d.busy
        /\ d.secret = IF t.at = "stored" THEN t.x ELSE 0
    BY <1>3, <1>6, <2>1 DEF FactorInv, FactorTypes, StepKeys
  <2>3. ASSUME NEW x, x.dialog = d, x.totp = win[w].totp, x.keys = win[w].keys PROVE FactorFits({}, x, server)
    BY <1>3, <1>4, <2>2, <2>3, FitsNone DEF Setting
  <2>4. QED
    BY <1>2, <2>1, <2>2, <2>3, FactorDialog DEF FactorInv, FactorTypes
<1>7. QED
  BY <1>5, <1>6

\* A step that only turns the dialog, of a set-up with its secret.
LEMMA FactorTurn ==
  ASSUME OneWindow, FactorInv, NEW w \in Windows, Factor!Scan(w) \/ Factor!Back(w)
  PROVE  FactorInv'
<1>1. PICK d : /\ Factor!Set(w, d)
               /\ d = [win[w].dialog EXCEPT !.step = "verify"] \/ d = [win[w].dialog EXCEPT !.step = "scan"]
  BY DEF Factor!Scan, Factor!Back, Factor!D
<1>2. /\ Setting(win[w].dialog) /\ UNCHANGED <<server, tasks>> /\ (win[w].dialog.secret # 0 \/ win[w].dialog.step = "verify")
  BY DEF Factor!Scan, Factor!Back, Factor!D, Factor!Server, Setting
<1>3. FactorFits(tasks, win[w], server) /\ FactorTypes
  BY DEF FactorInv
<1>4. win[w].dialog.secret # 0
  BY <1>2, <1>3 DEF FactorFits, StepsFit
<1>5. DOMAIN d = StepKeys /\ d.kind = "setup" /\ d.step \in {"scan", "verify"} /\ d.secret = win[w].dialog.secret /\ d.busy = win[w].dialog.busy
  BY <1>1, <1>2 DEF FactorInv, FactorTypes, StepKeys, Setting
<1>6. ~win[w].dialog.busy
  BY <1>2, <1>3 DEF FactorFits, StepsFit, Factor!Scan, Factor!Back, Factor!D
<1>7. tasks = {}
  BY <1>2, <1>6, IdleDialog
<1>8. server.secret = d.secret /\ (~Faults => (win[w].totp <=> server.on) /\ ~win[w].totp /\ win[w].keys = server.keys)
  BY <1>2, <1>3, <1>4, <1>5, <1>7, NoneFits
<1>9. ASSUME NEW x, x.dialog = d, x.totp = win[w].totp, x.keys = win[w].keys PROVE FactorFits({}, x, server)
  BY <1>4, <1>5, <1>6, <1>8, <1>9, FitsNone
<1>10. QED
  BY <1>1, <1>2, <1>3, <1>5, <1>7, <1>9, FactorDialog DEF FactorTypes

LEMMA FactorVerify == ASSUME OneWindow, FactorInv, NEW w \in Windows, Factor!Verify(w) PROVE FactorInv'
<1>1. PICK u : u = Factor!Task("verify", w, win[w].dialog.secret)
  OBVIOUS
<1>2. PICK d : d = [win[w].dialog EXCEPT !.busy = TRUE, !.error = FALSE]
  OBVIOUS
<1>3. /\ Setting(win[w].dialog) /\ win[w].dialog.step = "verify" /\ ~win[w].dialog.busy /\ UNCHANGED server
      /\ Factor!Set(w, d) /\ tasks' = tasks \cup {u}
  BY <1>1, <1>2 DEF Factor!Verify, Factor!D, Factor!Server, Setting
<1>4. tasks = {} /\ tasks' = {u}
  BY <1>3, IdleDialog
<1>5. /\ win[w].dialog.secret # 0 /\ server.secret = win[w].dialog.secret
      /\ ~Faults => (win[w].totp <=> server.on) /\ ~win[w].totp /\ win[w].keys = server.keys
  BY <1>3, <1>4, NoneFits DEF FactorInv
<1>6. DOMAIN u = JobKeys /\ u.kind = "verify" /\ u.w = w /\ u.at = "sent" /\ u.x = win[w].dialog.secret
  BY <1>1, JobOf
<1>7. DOMAIN d = StepKeys /\ d.kind = "setup" /\ d.step = "verify" /\ d.secret = win[w].dialog.secret /\ d.busy
  BY <1>2, <1>3 DEF FactorInv, FactorTypes, StepKeys, Setting
<1>8. ASSUME NEW x, x.dialog = d, x.totp = win[w].totp, x.keys = win[w].keys PROVE FactorFits({u}, x, server)
  <2>1. SetupsFit({u}, x, server) /\ AsksFit({u}, d) /\ StepsFit({u}, d, server)
    BY <1>5, <1>6, <1>7 DEF SetupsFit, AsksFit, StepsFit, Asking, Looking, DialogOf, Setting
  <2>2. ~Faults => StatusFits({u}, x, server) /\ KeysFit({u}, x, server) /\ ResetsFit({u}, server)
    BY <1>5, <1>6, <1>7, <1>8 DEF StatusFits, KeysFit, ResetsFit, Setting
  <2>3. QED
    BY <1>8, <2>1, <2>2 DEF FactorFits
<1>9. \A t \in tasks' : DOMAIN t = JobKeys /\ t.w \in Windows /\ t.kind \in Looking \cup Asking \cup {"setup"}
  BY <1>4, <1>6 DEF Asking
<1>10. \A x : x.dialog = d /\ x.totp = win[w].totp /\ x.keys = win[w].keys => FactorFits(tasks', x, server')
  BY <1>3, <1>4, <1>8
<1>11. Factor!Set(w, d) /\ DOMAIN d = StepKeys /\ DOMAIN server' = ServerKeys /\ server'.on \in BOOLEAN
  BY <1>3, <1>7 DEF FactorInv, FactorTypes
<1>12. QED
  BY <1>9, <1>10, <1>11, FactorDialog

\* A code that is checked: what holds of the tab meanwhile.
Checked(t, w) ==
  /\ tasks = {t} /\ DOMAIN t = JobKeys /\ t.w = w /\ Setting(win[w].dialog) /\ win[w].dialog.step = "verify" /\ win[w].dialog.busy
  /\ t.x = win[w].dialog.secret /\ t.x # 0 /\ server.secret = t.x
  /\ ~Faults => /\ ~win[w].totp /\ win[w].keys = server.keys
                /\ IF t.at = "confirmed" THEN server.on ELSE ~server.on
LEMMA CheckedCode ==
  ASSUME OneWindow, FactorInv, NEW t \in tasks, t.kind = "verify", NEW w \in Windows, t.w = w PROVE Checked(t, w)
<1>1. tasks = {t} /\ DOMAIN t = JobKeys /\ FactorFits({t}, win[w], server)
  BY AloneJobs DEF FactorInv, FactorTypes
<1>2. Setting(win[w].dialog) /\ win[w].dialog.step = "verify" /\ win[w].dialog.busy /\ t.x = win[w].dialog.secret
  BY <1>1 DEF FactorFits, AsksFit, Asking, DialogOf, Setting
<1>3. t.x # 0 /\ server.secret = t.x
  BY <1>1, <1>2 DEF FactorFits, StepsFit
<1>4. ~Faults => ~win[w].totp /\ win[w].keys = server.keys /\ (IF t.at = "confirmed" THEN server.on ELSE ~server.on)
  BY <1>1, <1>2 DEF FactorFits, StatusFits, KeysFit
<1>5. QED
  BY <1>1, <1>2, <1>3, <1>4 DEF Checked

LEMMA FactorCheck == ASSUME OneWindow, FactorInv, NEW t \in tasks, Factor!Validate(t) \/ Factor!Confirm(t) PROVE FactorInv'
<1>1. PICK w \in Windows : t.w = w
  BY DEF FactorInv, FactorTypes
<1>2. Checked(t, w) /\ t.kind = "verify"
  BY <1>1, CheckedCode DEF Factor!Validate, Factor!Confirm
<1>3. PICK u : /\ tasks' = (tasks \ {t}) \cup {u} /\ UNCHANGED win
               /\ \/ UNCHANGED server /\ (u = [t EXCEPT !.at = "valid"] \/ u = [t EXCEPT !.at = "refused"]) /\ t.at = "sent"
                  \/ /\ server' = [server EXCEPT !.on = (@ \/ server.secret # 0), !.codes = t.x]
                     /\ u = [t EXCEPT !.at = "confirmed"]
  BY DEF Factor!Validate, Factor!Confirm, Factor!Advance, Factor!Server
<1>4. /\ tasks' = {u} /\ DOMAIN u = JobKeys /\ u.kind = "verify" /\ u.w = w /\ u.x = t.x
      /\ u.at \in {"valid", "refused", "confirmed"}
  BY <1>2, <1>3 DEF Checked, JobKeys
<1>5. DOMAIN server = ServerKeys /\ server.on \in BOOLEAN
  BY DEF FactorInv, FactorTypes
<1>6. /\ DOMAIN server' = ServerKeys /\ server'.on \in BOOLEAN /\ server'.secret = server.secret /\ server'.keys = server.keys
      /\ ~Faults => IF u.at = "confirmed" THEN server'.on ELSE ~server'.on
  <2>1. CASE UNCHANGED server /\ (u = [t EXCEPT !.at = "valid"] \/ u = [t EXCEPT !.at = "refused"]) /\ t.at = "sent"
    <3>1. u.at # "confirmed"
      BY <1>2, <2>1 DEF Checked, JobKeys
    <3>2. QED
      BY <1>2, <1>5, <2>1, <3>1 DEF Checked
  <2>2. CASE server' = [server EXCEPT !.on = (@ \/ server.secret # 0), !.codes = t.x] /\ u = [t EXCEPT !.at = "confirmed"]
    <3>1. u.at = "confirmed" /\ server.secret # 0
      BY <1>2, <2>2 DEF Checked, JobKeys
    <3>2. (server.on \/ server.secret # 0) = TRUE
      BY <3>1
    <3>3. server' = [server EXCEPT !.on = TRUE, !.codes = t.x]
      BY <2>2, <3>2
    <3>4. QED
      BY <1>5, <3>1, <3>3 DEF ServerKeys
  <2>3. QED
    BY <1>3, <2>1, <2>2
<1>7. FactorFits({u}, win[w], server')
  <2>1. SetupsFit({u}, win[w], server') /\ AsksFit({u}, win[w].dialog) /\ StepsFit({u}, win[w].dialog, server')
    BY <1>2, <1>4, <1>6 DEF Checked, SetupsFit, AsksFit, StepsFit, Asking, Looking, DialogOf, Setting
  <2>2. ~Faults => StatusFits({u}, win[w], server')
    BY <1>2, <1>4, <1>6 DEF Checked, StatusFits, Setting
  <2>3. ~Faults => KeysFit({u}, win[w], server') /\ ResetsFit({u}, server')
    BY <1>2, <1>4, <1>6 DEF Checked, KeysFit, ResetsFit
  <2>4. QED
    BY <2>1, <2>2, <2>3 DEF FactorFits
<1>8. \A v \in tasks' : DOMAIN v = JobKeys /\ v.w \in Windows /\ v.kind \in Looking \cup Asking \cup {"setup"}
  BY <1>4 DEF Asking
<1>9. QED
  BY <1>3, <1>4, <1>6, <1>7, <1>8, FactorService

LEMMA FactorVerified == ASSUME OneWindow, FactorInv, NEW t \in tasks, Factor!Verified(t) PROVE FactorInv'
<1>1. PICK w \in Windows : t.w = w
  BY DEF FactorInv, FactorTypes
<1>2. Checked(t, w) /\ t.kind = "verify" /\ t.at \in {"confirmed", "refused"} /\ UNCHANGED server
  BY <1>1, CheckedCode DEF Factor!Verified, Factor!Server
<1>3. CASE t.at = "refused"
  <2>1. PICK d : d = [win[w].dialog EXCEPT !.busy = FALSE, !.error = TRUE]
    OBVIOUS
  <2>2. tasks' = {} /\ Factor!Set(w, d)
    BY <1>1, <1>2, <1>3, <2>1 DEF Checked, Factor!Verified, Factor!Done, Factor!D
  <2>3. DOMAIN d = StepKeys /\ d.kind = "setup" /\ d.step = "verify" /\ d.secret = t.x /\ ~d.busy
    BY <1>2, <2>1 DEF Checked, FactorInv, FactorTypes, StepKeys, Setting
  <2>4. ASSUME NEW x, x.dialog = d, x.totp = win[w].totp, x.keys = win[w].keys PROVE FactorFits({}, x, server)
    BY <1>2, <1>3, <2>3, <2>4, FitsNone DEF Checked
  <2>5. QED
    BY <1>2, <2>2, <2>3, <2>4, FactorDialog DEF FactorInv, FactorTypes
<1>4. CASE t.at = "confirmed"
  <2>1. PICK d : d = [win[w].dialog EXCEPT !.busy = FALSE, !.step = "recovery", !.codes = t.x]
    OBVIOUS
  <2>2. PICK u : u = Factor!Reload(w, "status")
    OBVIOUS
  <2>3. tasks' = {u} /\ Factor!Set(w, d)
    BY <1>1, <1>2, <1>4, <2>1, <2>2 DEF Checked, Factor!Verified, Factor!Advance, Factor!D
  <2>4. DOMAIN d = StepKeys /\ d.kind = "setup" /\ d.step = "recovery"
    BY <1>2, <2>1 DEF Checked, FactorInv, FactorTypes, StepKeys, Setting
  <2>5. DOMAIN u = JobKeys /\ u.kind = "status" /\ u.w = w /\ u.at = "sent"
    BY <2>2, JobOf DEF Factor!Reload
  <2>6. ASSUME NEW x, x.dialog = d, x.totp = win[w].totp, x.keys = win[w].keys PROVE FactorFits({u}, x, server)
    <3>1. SetupsFit({u}, x, server) /\ AsksFit({u}, d) /\ StepsFit({u}, d, server)
      BY <2>4, <2>5 DEF SetupsFit, AsksFit, StepsFit, Asking, Setting
    <3>2. ~Faults => StatusFits({u}, x, server) /\ KeysFit({u}, x, server) /\ ResetsFit({u}, server)
      BY <1>2, <1>4, <2>4, <2>5, <2>6 DEF Checked, StatusFits, KeysFit, ResetsFit, Setting
    <3>3. QED
      BY <2>6, <3>1, <3>2 DEF FactorFits
  <2>7. QED
    BY <1>2, <2>3, <2>4, <2>5, <2>6, FactorDialog DEF FactorInv, FactorTypes, Looking
<1>5. QED
  BY <1>2, <1>3, <1>4

\* A dialog that is not busy closes, or shows the next thing, with nothing but
\* looks at the status or the passkeys on their way.
Resting(T, d) == (~d.busy \/ d.kind = NONE) /\ \A t \in T : t.kind # "setup"
LEMMA FactorRests ==
  ASSUME OneWindow, FactorInv, NEW w \in Windows, NEW d, DOMAIN d = StepKeys, Factor!Set(w, d), UNCHANGED <<server, tasks>>,
         Resting(tasks, win[w].dialog), ~Setting(d), d.kind # "reset",
         d.kind = "disable" => win[w].totp
  PROVE  FactorInv'
<1>1. FactorFits(tasks, win[w], server) /\ FactorTypes
  BY DEF FactorInv
<1>2. \A t \in tasks : t.kind \notin Asking \cup {"setup"}
  BY <1>1 DEF FactorFits, AsksFit, Resting, Asking, DialogOf, OneWindow
<1>3. ASSUME NEW x, x.dialog = d, x.totp = win[w].totp, x.keys = win[w].keys PROVE FactorFits(tasks, x, server)
  <2>1. SetupsFit(tasks, x, server) /\ AsksFit(tasks, d) /\ StepsFit(tasks, d, server)
    BY <1>2 DEF SetupsFit, AsksFit, StepsFit
  <2>2. ~Faults => StatusFits(tasks, x, server)
    <3>1. SUFFICES ASSUME ~Faults PROVE StatusFits(tasks, x, server)
      OBVIOUS
    <3>2. StatusFits(tasks, win[w], server)
      BY <1>1, <3>1 DEF FactorFits
    <3>3. \A t \in tasks : t.kind = "status" /\ d.kind = "disable" => ~server.on
      BY <3>2 DEF StatusFits
    <3>4. QED
      BY <1>3, <3>2, <3>3, StatusKept DEF SameKinds
  <2>3. ~Faults => KeysFit(tasks, x, server) /\ ResetsFit(tasks, server)
    BY <1>1, <1>3, KeysKept DEF FactorFits, SameKinds
  <2>4. QED
    BY <1>3, <2>1, <2>2, <2>3 DEF FactorFits
<1>4. QED
  BY <1>1, <1>3, FactorDialog DEF FactorTypes

LEMMA FactorClose == ASSUME OneWindow, FactorInv, NEW w \in Windows, Factor!Close(w) \/ Factor!Escape(w) PROVE FactorInv'
<1>1. /\ ~win[w].dialog.busy /\ Factor!Set(w, Factor!Closed) /\ tasks' = Factor!Cancelled(w) /\ UNCHANGED server
  BY DEF Factor!Close, Factor!Escape, Factor!MayClose, Factor!D, Factor!Server
<1>2. PICK d : d = Factor!Closed
  OBVIOUS
<1>3. DOMAIN d = StepKeys /\ d.kind = NONE /\ ~Setting(d) /\ d.kind \notin {"setup", "reset", "disable"}
  BY <1>2 DEF Factor!Closed, StepKeys, Setting, OneWindow
<1>4. CASE \A t \in tasks : t.kind # "setup"
  <2>1. tasks' = tasks
    BY <1>1, <1>4 DEF Factor!Cancelled
  <2>2. QED
    BY <1>1, <1>2, <1>3, <1>4, <2>1, FactorRests DEF Resting
<1>5. CASE \E t \in tasks : t.kind = "setup"
  <2>1. PICK t \in tasks : t.kind = "setup"
    BY <1>5
  <2>2. tasks = {t} /\ DOMAIN t = JobKeys /\ t.w = w /\ FactorFits({t}, win[w], server)
    BY <2>1, AloneJobs DEF FactorInv, FactorTypes, OneWindow
  <2>3. PICK u : u = [t EXCEPT !.live = FALSE]
    OBVIOUS
  <2>4. tasks' = {u} /\ DOMAIN u = JobKeys /\ u.kind = "setup" /\ u.w = w /\ ~u.live /\ u.at = t.at /\ u.x = t.x
    BY <1>1, <2>1, <2>2, <2>3 DEF Factor!Cancelled, JobKeys
  <2>5. /\ ~win[w].totp /\ (t.at = "stored" => server.secret = t.x)
        /\ ~Faults => (win[w].totp <=> server.on) /\ win[w].keys = server.keys
    BY <2>1, <2>2 DEF FactorFits, SetupsFit, StatusFits, KeysFit
  <2>6. ASSUME NEW x, x.dialog = d, x.totp = win[w].totp, x.keys = win[w].keys PROVE FactorFits({u}, x, server)
    <3>0. SetupsFit({u}, x, server)
      BY <1>3, <2>4, <2>5, <2>6 DEF SetupsFit
    <3>1. AsksFit({u}, d) /\ StepsFit({u}, d, server)
      BY <1>3, <2>4 DEF AsksFit, StepsFit, Asking
    <3>2. ~Faults => StatusFits({u}, x, server) /\ KeysFit({u}, x, server) /\ ResetsFit({u}, server)
      BY <1>3, <2>4, <2>5, <2>6 DEF StatusFits, KeysFit, ResetsFit
    <3>3. QED
      BY <2>6, <3>0, <3>1, <3>2 DEF FactorFits
  <2>7. /\ \A v \in tasks' : DOMAIN v = JobKeys /\ v.w \in Windows /\ v.kind \in Looking \cup Asking \cup {"setup"}
        /\ DOMAIN server' = ServerKeys /\ server'.on \in BOOLEAN /\ Factor!Set(w, d)
    BY <1>1, <1>2, <2>4 DEF FactorInv, FactorTypes
  <2>8. QED
    BY <1>1, <1>3, <2>4, <2>6, <2>7, FactorDialog
<1>6. QED
  BY <1>4, <1>5

LEMMA FactorSave == ASSUME OneWindow, FactorInv, NEW w \in Windows, Factor!Save(w) PROVE FactorInv'
<1>1. PICK d : d = [win[w].dialog EXCEPT !.saved = TRUE]
  OBVIOUS
<1>2. Factor!Set(w, d) /\ win[w].dialog.step = "recovery" /\ UNCHANGED <<server, tasks>>
  BY <1>1 DEF Factor!Save, Factor!D
<1>3. DOMAIN d = StepKeys /\ d.kind = win[w].dialog.kind /\ d.step = "recovery" /\ d.busy = win[w].dialog.busy
      /\ d.secret = win[w].dialog.secret
  BY <1>1, <1>2 DEF FactorInv, FactorTypes, StepKeys
<1>4. FactorFits(tasks, win[w], server) /\ FactorTypes
  BY DEF FactorInv
<1>5. ASSUME NEW x, x.dialog = d, x.totp = win[w].totp, x.keys = win[w].keys PROVE FactorFits(tasks, x, server)
  <2>1. SetupsFit(tasks, x, server)
    BY <1>2, <1>3, <1>4, <1>5 DEF FactorFits, SetupsFit
  <2>2. AsksFit(tasks, d)
    BY <1>2, <1>3, <1>4 DEF FactorFits, AsksFit
  <2>3. StepsFit(tasks, d, server)
    BY <1>2, <1>3, <1>4 DEF FactorFits, StepsFit, Setting
  <2>4. ~Faults => StatusFits(tasks, x, server)
    <3>1. SUFFICES ASSUME StatusFits(tasks, win[w], server) PROVE StatusFits(tasks, x, server)
      BY <1>4 DEF FactorFits
    <3>2. ~Setting(d) /\ \A t \in tasks : t.kind = "status" /\ d.kind = "disable" => ~server.on
      BY <1>3, <3>1 DEF StatusFits, Setting
    <3>3. QED
      BY <1>5, <3>1, <3>2, StatusKept DEF SameKinds
  <2>5. ~Faults => KeysFit(tasks, x, server) /\ ResetsFit(tasks, server)
    BY <1>4, <1>5, KeysKept DEF FactorFits, SameKinds
  <2>6. QED
    BY <1>5, <2>1, <2>2, <2>3, <2>4, <2>5 DEF FactorFits
<1>6. QED
  BY <1>2, <1>3, <1>4, <1>5, FactorDialog DEF FactorTypes

----------------------------------------------------------------------------
(* Turning it off, and the step-up of a password reset.                    *)

LEMMA FactorOpenDisable == ASSUME OneWindow, FactorInv, NEW w \in Windows, Factor!OpenDisable(w) PROVE FactorInv'
<1>1. PICK d : d = [Factor!Closed EXCEPT !.kind = "disable"]
  OBVIOUS
<1>2. DOMAIN d = StepKeys /\ d.kind = "disable" /\ ~Setting(d)
  BY <1>1 DEF Factor!Closed, StepKeys, Setting
<1>3. win[w].dialog.kind = NONE /\ win[w].totp /\ Factor!Set(w, d) /\ UNCHANGED <<server, tasks>>
  BY <1>1 DEF Factor!OpenDisable, Factor!D, Factor!Server
<1>4. Resting(tasks, win[w].dialog)
  BY <1>3 DEF FactorInv, FactorFits, SetupsFit, Resting
<1>5. QED
  BY <1>2, <1>3, <1>4, FactorRests

LEMMA FactorDisable == ASSUME OneWindow, FactorInv, NEW w \in Windows, Factor!Disable(w) PROVE FactorInv'
<1>1. PICK u : u = Factor!Task("disable", w, 0)
  OBVIOUS
<1>2. PICK d : d = [win[w].dialog EXCEPT !.busy = TRUE]
  OBVIOUS
<1>3. /\ win[w].dialog.kind = "disable" /\ ~win[w].dialog.busy /\ Factor!Set(w, d) /\ UNCHANGED server
      /\ tasks' = tasks \cup {u}
  BY <1>1, <1>2 DEF Factor!Disable, Factor!D, Factor!Server
<1>4. DOMAIN d = StepKeys /\ d.kind = "disable" /\ d.busy /\ ~Setting(d)
  BY <1>2, <1>3 DEF FactorInv, FactorTypes, StepKeys, Setting
<1>5. DOMAIN u = JobKeys /\ u.kind = "disable" /\ u.w = w
  BY <1>1, JobOf
<1>6. FactorFits(tasks, win[w], server) /\ FactorTypes
  BY DEF FactorInv
<1>7. \A t \in tasks : t.kind \notin Asking \cup {"setup"}
  BY <1>3, <1>6 DEF FactorFits, AsksFit, SetupsFit, OneWindow
<1>8. ASSUME NEW x, x.dialog = d, x.totp = win[w].totp, x.keys = win[w].keys PROVE FactorFits(tasks', x, server)
  <2>1. SetupsFit(tasks', x, server)
    BY <1>3, <1>5, <1>7 DEF SetupsFit
  <2>2. AsksFit(tasks', d)
    BY <1>3, <1>4, <1>5, <1>7 DEF AsksFit, DialogOf
  <2>3. StepsFit(tasks', d, server)
    BY <1>4 DEF StepsFit
  <2>4. ~Faults => StatusFits(tasks', x, server)
    <3>1. SUFFICES ASSUME StatusFits(tasks, win[w], server) PROVE StatusFits(tasks', x, server)
      BY <1>6 DEF FactorFits
    <3>2. \A t \in tasks : t.kind = "status" /\ d.kind = "disable" => ~server.on
      BY <1>3, <3>1 DEF StatusFits
    <3>3. SameKinds(tasks, tasks', {"status", "verify"})
      BY <1>3, <1>5 DEF SameKinds
    <3>4. QED
      BY <1>4, <1>8, <3>1, <3>2, <3>3, StatusKept
  <2>5. ~Faults => KeysFit(tasks', x, server)
    <3>1. SameKinds(tasks, tasks', {"register", "keys"})
      BY <1>3, <1>5 DEF SameKinds
    <3>2. QED
      BY <1>6, <1>8, <3>1, KeysKept DEF FactorFits
  <2>6. ~Faults => ResetsFit(tasks', server)
    BY <1>3, <1>5, <1>6 DEF FactorFits, ResetsFit
  <2>7. QED
    BY <1>8, <2>1, <2>2, <2>3, <2>4, <2>5, <2>6 DEF FactorFits
<1>9. \A v \in tasks' : DOMAIN v = JobKeys /\ v.w \in Windows /\ v.kind \in Looking \cup Asking \cup {"setup"}
  BY <1>3, <1>5, <1>6 DEF FactorTypes, Asking
<1>10. QED
  BY <1>3, <1>4, <1>6, <1>8, <1>9, FactorDialog DEF FactorTypes

LEMMA FactorDisabled == ASSUME OneWindow, FactorInv, NEW t \in tasks, Factor!Disabled(t) PROVE FactorInv'
<1>1. PICK w \in Windows : t.w = w
  BY DEF FactorInv, FactorTypes
<1>2. FactorFits(tasks, win[w], server) /\ FactorTypes /\ t.kind = "disable"
  BY DEF FactorInv, Factor!Disabled
<1>3. win[w].dialog.kind = "disable" /\ \A v \in tasks \ {t} : v.kind \notin Asking \cup {"setup"}
  BY <1>2 DEF FactorFits, AsksFit, SetupsFit, Asking, DialogOf, OneWindow
<1>4. CASE Factor!CanProve
  <2>1. PICK d : d = Factor!Closed
    OBVIOUS
  <2>2. PICK u : u = Factor!Reload(w, "status")
    OBVIOUS
  <2>3. /\ tasks' = (tasks \ {t}) \cup {u} /\ Factor!Set(w, d) /\ server.on
        /\ server' = [server EXCEPT !.secret = 0, !.on = FALSE, !.codes = 0]
    BY <1>1, <1>4, <2>1, <2>2 DEF Factor!Disabled, Factor!Advance, Factor!CanProve
  <2>4. DOMAIN server' = ServerKeys /\ server'.on = FALSE /\ server'.keys = server.keys
    BY <1>2, <2>3 DEF FactorTypes, ServerKeys
  <2>5. DOMAIN d = StepKeys /\ d.kind = NONE /\ ~Setting(d) /\ d.kind \notin {"setup", "reset", "disable"}
    BY <2>1 DEF Factor!Closed, StepKeys, Setting, OneWindow
  <2>6. DOMAIN u = JobKeys /\ u.kind = "status" /\ u.w = w /\ u.at = "sent"
    BY <2>2, JobOf DEF Factor!Reload
  <2>7. \A v \in tasks' : v \in tasks \ {t} \/ v = u
    BY <2>3
  <2>8. ASSUME NEW x, x.dialog = d, x.totp = win[w].totp, x.keys = win[w].keys PROVE FactorFits(tasks', x, server')
    <3>1. SetupsFit(tasks', x, server')
      BY <1>3, <2>6, <2>7 DEF SetupsFit
    <3>2. AsksFit(tasks', d)
      BY <1>3, <2>6, <2>7 DEF AsksFit, Asking
    <3>3. StepsFit(tasks', d, server')
      BY <2>5 DEF StepsFit
    <3>4. ~Faults => StatusFits(tasks', x, server')
      <4>1. SUFFICES ASSUME StatusFits(tasks, win[w], server) PROVE StatusFits(tasks', x, server')
        BY <1>2 DEF FactorFits
      <4>2. \A v \in tasks : v.kind \notin {"status", "verify"}
        BY <1>2, <1>3, <2>3, <4>1 DEF StatusFits, Asking
      <4>3. win[w].totp
        BY <2>3, <4>1, <4>2 DEF StatusFits
      <4>4. u \in tasks' /\ \A v \in tasks' : v.kind \in {"status", "verify"} => v = u
        BY <2>3, <2>7, <4>2
      <4>5. QED
        BY <2>4, <2>5, <2>6, <2>8, <4>3, <4>4 DEF StatusFits
    <3>5. ~Faults => KeysFit(tasks', x, server')
      <4>1. SameKinds(tasks, tasks', {"register", "keys"})
        BY <1>2, <2>3, <2>6 DEF SameKinds
      <4>2. QED
        BY <1>2, <2>4, <2>8, <4>1, KeysKept DEF FactorFits
    <3>6. ~Faults => ResetsFit(tasks', server')
      BY <1>3, <2>6, <2>7 DEF ResetsFit, Asking
    <3>7. QED
      BY <2>8, <3>1, <3>2, <3>3, <3>4, <3>5, <3>6 DEF FactorFits
  <2>9. \A v \in tasks' : DOMAIN v = JobKeys /\ v.w \in Windows /\ v.kind \in Looking \cup Asking \cup {"setup"}
    BY <1>2, <2>6, <2>7 DEF FactorTypes, Looking
  <2>10. QED
    BY <2>3, <2>4, <2>5, <2>8, <2>9, FactorDialog
<1>5. CASE ~Factor!CanProve
  <2>1. PICK d : d = [win[w].dialog EXCEPT !.busy = FALSE, !.error = TRUE]
    OBVIOUS
  <2>2. tasks' = tasks \ {t} /\ Factor!Set(w, d) /\ UNCHANGED server
    BY <1>1, <1>5, <2>1 DEF Factor!Disabled, Factor!Done, Factor!D
  <2>3. DOMAIN d = StepKeys /\ d.kind = "disable" /\ ~Setting(d)
    BY <1>2, <1>3, <2>1 DEF FactorTypes, StepKeys, Setting
  <2>4. ASSUME NEW x, x.dialog = d, x.totp = win[w].totp, x.keys = win[w].keys PROVE FactorFits(tasks', x, server)
    <3>1. SetupsFit(tasks', x, server) /\ AsksFit(tasks', d) /\ StepsFit(tasks', d, server)
      BY <1>3, <2>2, <2>3 DEF SetupsFit, AsksFit, StepsFit
    <3>2. ~Faults => StatusFits(tasks', x, server)
      <4>1. SUFFICES ASSUME StatusFits(tasks, win[w], server) PROVE StatusFits(tasks', x, server)
        BY <1>2 DEF FactorFits
      <4>2. \A v \in tasks : v.kind = "status" /\ d.kind = "disable" => ~server.on
        BY <1>3, <4>1 DEF StatusFits
      <4>3. SameKinds(tasks, tasks', {"status", "verify"})
        BY <1>2, <2>2 DEF SameKinds
      <4>4. QED
        BY <2>3, <2>4, <4>1, <4>2, <4>3, StatusKept
    <3>3. ~Faults => KeysFit(tasks', x, server)
      <4>1. SameKinds(tasks, tasks', {"register", "keys"})
        BY <1>2, <2>2 DEF SameKinds
      <4>2. QED
        BY <1>2, <2>4, <4>1, KeysKept DEF FactorFits
    <3>4. ~Faults => ResetsFit(tasks', server)
      BY <1>3, <2>2 DEF ResetsFit, Asking
    <3>5. QED
      BY <2>4, <3>1, <3>2, <3>3, <3>4 DEF FactorFits
  <2>5. \A v \in tasks' : DOMAIN v = JobKeys /\ v.w \in Windows /\ v.kind \in Looking \cup Asking \cup {"setup"}
    BY <1>2, <2>2 DEF FactorTypes
  <2>6. QED
    BY <1>2, <2>2, <2>3, <2>4, <2>5, FactorDialog DEF FactorTypes
<1>6. QED
  BY <1>4, <1>5

LEMMA FactorOpenReset == ASSUME OneWindow, FactorInv, NEW w \in Windows, Factor!OpenReset(w) PROVE FactorInv'
<1>1. PICK d : d = [Factor!Closed EXCEPT !.kind = "reset"]
  OBVIOUS
<1>2. DOMAIN d = StepKeys /\ d.kind = "reset" /\ ~Setting(d)
  BY <1>1 DEF Factor!Closed, StepKeys, Setting
<1>3. tasks = {} /\ Factor!Set(w, d) /\ UNCHANGED <<server, tasks>>
  BY <1>1, Unasked DEF Factor!OpenReset, Factor!D, Factor!Server
<1>4. ~Faults => (win[w].totp <=> server.on) /\ win[w].keys = server.keys
  BY <1>3, NoneFits DEF FactorInv
<1>5. ASSUME NEW x, x.dialog = d, x.totp = win[w].totp, x.keys = win[w].keys PROVE FactorFits({}, x, server)
  BY <1>2, <1>4, <1>5, FitsNone
<1>6. QED
  BY <1>2, <1>3, <1>5, FactorDialog DEF FactorInv, FactorTypes

LEMMA FactorSubmit == ASSUME OneWindow, FactorInv, NEW w \in Windows, Factor!SubmitReset(w) PROVE FactorInv'
<1>1. PICK v : v = Factor!Task("reset", w, 0)
  OBVIOUS
<1>2. PICK u : u = [v EXCEPT !.at = Factor!Shown(w)]
  OBVIOUS
<1>3. PICK d : d = [win[w].dialog EXCEPT !.busy = TRUE, !.error = FALSE]
  OBVIOUS
<1>4. /\ win[w].dialog.kind = "reset" /\ ~win[w].dialog.busy /\ Factor!Set(w, d) /\ UNCHANGED server
      /\ tasks' = tasks \cup {u}
  BY <1>1, <1>2, <1>3 DEF Factor!SubmitReset, Factor!D, Factor!Server
<1>5. tasks = {} /\ tasks' = {u}
  BY <1>4, IdleDialog
<1>6. DOMAIN u = JobKeys /\ u.kind = "reset" /\ u.w = w /\ u.at = Factor!Method(win[w].totp, win[w].keys)
  BY <1>1, <1>2, JobOf DEF Factor!Shown, JobKeys
<1>7. DOMAIN d = StepKeys /\ d.kind = "reset" /\ d.busy /\ ~Setting(d)
  BY <1>3, <1>4 DEF FactorInv, FactorTypes, StepKeys, Setting
<1>8. ~Faults => (win[w].totp <=> server.on) /\ win[w].keys = server.keys
  BY <1>5, NoneFits DEF FactorInv
<1>9. ~Faults => u.at = Factor!Method(server.on, server.keys)
  BY <1>6, <1>8 DEF Factor!Method
<1>10. ASSUME NEW x, x.dialog = d, x.totp = win[w].totp, x.keys = win[w].keys PROVE FactorFits({u}, x, server)
  <2>1. SetupsFit({u}, x, server) /\ AsksFit({u}, d) /\ StepsFit({u}, d, server)
    BY <1>6, <1>7 DEF SetupsFit, AsksFit, StepsFit, DialogOf, Looking
  <2>2. ~Faults => StatusFits({u}, x, server) /\ KeysFit({u}, x, server) /\ ResetsFit({u}, server)
    BY <1>6, <1>7, <1>8, <1>9, <1>10 DEF StatusFits, KeysFit, ResetsFit
  <2>3. QED
    BY <1>10, <2>1, <2>2 DEF FactorFits
<1>11. /\ \A v1 \in tasks' : DOMAIN v1 = JobKeys /\ v1.w \in Windows /\ v1.kind \in Looking \cup Asking \cup {"setup"}
       /\ DOMAIN server' = ServerKeys /\ server'.on \in BOOLEAN
  BY <1>4, <1>5, <1>6 DEF FactorInv, FactorTypes, Asking
<1>12. QED
  BY <1>4, <1>5, <1>7, <1>10, <1>11, FactorDialog

LEMMA FactorAsked == ASSUME OneWindow, FactorInv, NEW t \in tasks, Factor!ResetAsked(t) PROVE FactorInv'
<1>1. PICK w \in Windows : t.w = w
  BY DEF FactorInv, FactorTypes
<1>2. t.kind = "reset" /\ tasks = {t} /\ tasks' = {} /\ FactorFits({t}, win[w], server) /\ UNCHANGED server
  BY AloneJobs DEF Factor!ResetAsked, Factor!Done, Factor!Server, FactorInv
<1>3. PICK d : d = [win[w].dialog EXCEPT !.busy = FALSE, !.step = IF Factor!Precedence \in {t.at, "none"} THEN "sent" ELSE "scan",
                                         !.error = (Factor!Precedence \notin {t.at, "none"})]
  OBVIOUS
<1>4. Factor!Set(w, d)
  BY <1>1, <1>3 DEF Factor!ResetAsked, Factor!D
<1>5. win[w].dialog.kind = "reset"
  BY <1>2 DEF FactorFits, AsksFit, Asking, DialogOf
<1>6. DOMAIN d = StepKeys /\ d.kind = "reset" /\ ~Setting(d)
  BY <1>3, <1>5 DEF FactorInv, FactorTypes, StepKeys, Setting
<1>7. ~Faults => (win[w].totp <=> server.on) /\ win[w].keys = server.keys
  BY <1>2 DEF FactorFits, StatusFits, KeysFit
<1>8. ASSUME NEW x, x.dialog = d, x.totp = win[w].totp, x.keys = win[w].keys PROVE FactorFits({}, x, server)
  BY <1>6, <1>7, <1>8, FitsNone
<1>9. QED
  BY <1>2, <1>4, <1>6, <1>8, FactorDialog DEF FactorInv, FactorTypes

----------------------------------------------------------------------------
(* The answers the tab waits for.                                          *)

\* While one is on its way no secret is shown and no reset is asked for.
LEMMA Looked ==
  ASSUME OneWindow, FactorInv, NEW t \in tasks, t.kind \in Looking, NEW w \in Windows
  PROVE  /\ ~Setting(win[w].dialog) /\ win[w].dialog.kind # "reset" /\ \A v \in tasks : v.kind \notin {"setup", "reset", "verify"}
<1>1. FactorFits(tasks, win[w], server)
  BY DEF FactorInv
<1>2. ~Setting(win[w].dialog) /\ win[w].dialog.kind # "reset"
  BY <1>1 DEF FactorFits, StepsFit
<1>3. ASSUME NEW v \in tasks, v.kind \in {"setup", "reset", "verify"} PROVE FALSE
  BY <1>3, AloneJobs DEF Looking
<1>4. QED
  BY <1>2, <1>3

\* Such an answer, or its failure, leaves what is shown and asked for as it was.
LEMMA FactorLooked ==
  ASSUME OneWindow, FactorInv, NEW t \in tasks, t.kind \in Looking, NEW w \in Windows, NEW x, x.dialog = win[w].dialog,
         NEW T, (\A v \in T : v \in tasks \ {t} \/ v.kind \in Looking), NEW srv
  PROVE  SetupsFit(T, x, srv) /\ AsksFit(T, x.dialog) /\ StepsFit(T, x.dialog, srv) /\ ResetsFit(T, srv)
<1>1. FactorFits(tasks, win[w], server) /\ ~Setting(x.dialog) /\ x.dialog.kind # "reset"
  BY Looked DEF FactorInv
<1>2. \A v \in tasks : v.kind \notin {"setup", "reset", "verify"}
  BY Looked
<1>3. SetupsFit(T, x, srv)
  BY <1>2 DEF SetupsFit, Looking
<1>4. AsksFit(T, x.dialog)
  BY <1>1, <1>2 DEF FactorFits, AsksFit, Asking, Looking
<1>5. StepsFit(T, x.dialog, srv) /\ ResetsFit(T, srv)
  BY <1>1, <1>2 DEF StepsFit, ResetsFit, Looking
<1>6. QED
  BY <1>3, <1>4, <1>5

\* The tab after an answer of one factor.
LEMMA FactorBelieved ==
  ASSUME OneWindow, FactorTypes, NEW t, NEW w \in Windows, DOMAIN t = JobKeys, t.w = w, win' = Factor!Believed(t)
  PROVE  \E x : /\ win' = [win EXCEPT ![w] = x] /\ DOMAIN x = TabKeys /\ x.dialog = win[w].dialog /\ x.totp \in BOOLEAN
                /\ IF t.kind = "keys" THEN x.keys = t.x /\ x.totp = win[w].totp
                   ELSE x.keys = win[w].keys /\ (x.totp <=> t.x = 1)
<1>1. DOMAIN win[w] = TabKeys /\ win[w].totp \in BOOLEAN
  BY DEF FactorTypes
<1>2. CASE t.kind = "keys"
  <2>1. PICK x : x = [win[w] EXCEPT !.keys = t.x]
    OBVIOUS
  <2>2. win' = [win EXCEPT ![w] = x] /\ DOMAIN x = TabKeys /\ x.dialog = win[w].dialog /\ x.totp = win[w].totp /\ x.keys = t.x
    BY <1>1, <1>2, <2>1 DEF Factor!Believed, TabKeys
  <2>3. QED
    BY <1>1, <1>2, <2>2
<1>3. CASE t.kind # "keys"
  <2>1. PICK x : x = [win[w] EXCEPT !.totp = (t.x = 1)]
    OBVIOUS
  <2>2. win' = [win EXCEPT ![w] = x] /\ DOMAIN x = TabKeys /\ x.dialog = win[w].dialog /\ x.keys = win[w].keys
    BY <1>1, <1>3, <2>1 DEF Factor!Believed, TabKeys
  <2>3. (x.totp <=> t.x = 1) /\ x.totp \in BOOLEAN
    BY <1>1, <2>1 DEF TabKeys
  <2>4. QED
    BY <1>3, <2>2, <2>3
<1>4. QED
  BY <1>2, <1>3

LEMMA FactorLearn == ASSUME OneWindow, FactorInv, NEW t \in tasks, Factor!Learn(t) \/ Factor!Fail(t) PROVE FactorInv'
<1>1. PICK w \in Windows : t.w = w
  BY DEF FactorInv, FactorTypes
<1>2. DOMAIN t = JobKeys /\ FactorTypes /\ FactorFits(tasks, win[w], server)
  BY DEF FactorInv, FactorTypes
<1>3. t.kind \in {"status", "keys"} /\ t.kind \in Looking /\ tasks' = tasks \ {t} /\ UNCHANGED server
  BY DEF Factor!Learn, Factor!Fail, Factor!Done, Factor!Server, Looking
<1>4. PICK y : /\ DOMAIN y = JobKeys /\ y.w = w /\ y.kind = t.kind /\ win' = Factor!Believed(y)
               /\ ~Faults => y = t /\ t.at = "read"
  <2>1. CASE Factor!Learn(t)
    BY <1>1, <1>2, <2>1 DEF Factor!Learn
  <2>2. CASE Factor!Fail(t)
    <3>1. PICK y : y = [t EXCEPT !.x = 0]
      OBVIOUS
    <3>2. DOMAIN y = JobKeys /\ y.w = w /\ y.kind = t.kind /\ win' = Factor!Believed(y) /\ Faults
      BY <1>1, <1>2, <2>2, <3>1 DEF Factor!Fail, JobKeys
    <3>3. QED
      BY <3>2
  <2>3. QED
    BY <2>1, <2>2
<1>5. PICK x : /\ win' = [win EXCEPT ![w] = x] /\ DOMAIN x = TabKeys /\ x.dialog = win[w].dialog /\ x.totp \in BOOLEAN
               /\ IF y.kind = "keys" THEN x.keys = y.x /\ x.totp = win[w].totp
                  ELSE x.keys = win[w].keys /\ (x.totp <=> y.x = 1)
  BY <1>2, <1>4, FactorBelieved
<1>6. \A v \in tasks' : v \in tasks \ {t} \/ v.kind \in Looking
  BY <1>3
<1>7. SetupsFit(tasks', x, server') /\ AsksFit(tasks', x.dialog) /\ StepsFit(tasks', x.dialog, server') /\ ResetsFit(tasks', server')
  BY <1>3, <1>5, <1>6, FactorLooked
<1>8. ~Setting(x.dialog) /\ \A v \in tasks : v.kind # "verify"
  BY <1>3, <1>5, Looked
<1>9. ASSUME ~Faults PROVE StatusFits(tasks', x, server')
  <2>1. y = t /\ t.at = "read" /\ StatusFits(tasks, win[w], server)
    BY <1>2, <1>4, <1>9 DEF FactorFits
  <2>2. CASE t.kind = "status"
    <3>1. (x.totp <=> server.on) /\ \A v \in tasks' : v.kind # "status"
      BY <1>3, <1>5, <2>1, <2>2 DEF StatusFits
    <3>2. QED
      BY <1>3, <1>8, <3>1 DEF StatusFits
  <2>3. CASE t.kind = "keys"
    <3>1. SameKinds(tasks, tasks', {"status", "verify"})
      BY <1>3, <2>3 DEF SameKinds
    <3>2. \A v \in tasks : v.kind = "status" /\ x.dialog.kind = "disable" => ~server.on
      BY <1>5, <2>1 DEF StatusFits
    <3>3. x.totp = win[w].totp
      BY <1>5, <2>1, <2>3
    <3>4. QED
      BY <1>3, <1>8, <2>1, <3>1, <3>2, <3>3, StatusKept
  <2>4. QED
    BY <1>3, <2>2, <2>3
<1>10. ASSUME ~Faults PROVE KeysFit(tasks', x, server')
  <2>1. y = t /\ t.at = "read" /\ KeysFit(tasks, win[w], server)
    BY <1>2, <1>4, <1>10 DEF FactorFits
  <2>2. CASE t.kind = "keys"
    <3>1. x.keys = server.keys
      BY <1>5, <2>1, <2>2 DEF KeysFit
    <3>2. QED
      BY <1>3, <2>1, <3>1 DEF KeysFit
  <2>3. CASE t.kind = "status"
    <3>1. SameKinds(tasks, tasks', {"register", "keys"})
      BY <1>3, <2>3 DEF SameKinds
    <3>2. x.keys = win[w].keys
      BY <1>5, <2>1, <2>3
    <3>3. QED
      BY <1>3, <2>1, <3>1, <3>2, KeysKept
  <2>4. QED
    BY <1>3, <2>2, <2>3
<1>11. FactorFits(tasks', x, server')
  BY <1>7, <1>9, <1>10 DEF FactorFits
<1>12. \A v \in tasks' : DOMAIN v = JobKeys /\ v.w \in Windows /\ v.kind \in Looking \cup Asking \cup {"setup"}
  BY <1>2, <1>3 DEF FactorTypes
<1>13. DOMAIN server' = ServerKeys /\ server'.on \in BOOLEAN
  BY <1>2, <1>3 DEF FactorTypes
<1>14. win' = [win EXCEPT ![w] = x] /\ DOMAIN x = TabKeys /\ x.totp \in BOOLEAN /\ DOMAIN x.dialog = StepKeys
  BY <1>2, <1>5 DEF FactorTypes
<1>15. QED
  BY <1>2, <1>11, <1>12, <1>13, <1>14, FactorOf

LEMMA FactorRegistered == ASSUME OneWindow, FactorInv, NEW t \in tasks, Factor!Registered(t) PROVE FactorInv'
<1>1. PICK w \in Windows : t.w = w
  BY DEF FactorInv, FactorTypes
<1>2. FactorTypes /\ FactorFits(tasks, win[w], server) /\ t.kind = "register" /\ t.kind \in Looking
  BY DEF FactorInv, Factor!Registered, Looking
<1>3. PICK x : x = [win[w] EXCEPT !.pkBusy = FALSE]
  OBVIOUS
<1>4. /\ win' = [win EXCEPT ![w] = x] /\ DOMAIN x = TabKeys /\ x.dialog = win[w].dialog
      /\ x.totp = win[w].totp /\ x.keys = win[w].keys /\ x.totp \in BOOLEAN
  BY <1>1, <1>2, <1>3 DEF Factor!Registered, FactorTypes, TabKeys
<1>5. PICK u : u = Factor!Reload(w, "keys")
  OBVIOUS
<1>6. DOMAIN u = JobKeys /\ u.kind = "keys" /\ u.w = w /\ u.at = "sent"
  BY <1>5, JobOf DEF Factor!Reload
<1>7. \/ server' = [server EXCEPT !.keys = @ + 1] /\ tasks' = (tasks \ {t}) \cup {u}
      \/ UNCHANGED server /\ tasks' = tasks \ {t}
  BY <1>1, <1>5 DEF Factor!Registered, Factor!Advance, Factor!Done
<1>8. DOMAIN server' = ServerKeys /\ server'.on = server.on /\ server'.on \in BOOLEAN
  BY <1>2, <1>7 DEF FactorTypes, ServerKeys
<1>9. \A v \in tasks' : v \in tasks \ {t} \/ v = u
  BY <1>7
<1>10. SetupsFit(tasks', x, server') /\ AsksFit(tasks', x.dialog) /\ StepsFit(tasks', x.dialog, server') /\ ResetsFit(tasks', server')
  <2>1. \A v \in tasks' : v \in tasks \ {t} \/ v.kind \in Looking
    BY <1>6, <1>9 DEF Looking
  <2>2. QED
    BY <1>2, <1>4, <2>1, FactorLooked
<1>11. ASSUME ~Faults PROVE StatusFits(tasks', x, server')
  <2>1. SameKinds(tasks, tasks', {"status", "verify"})
    BY <1>2, <1>6, <1>7 DEF SameKinds
  <2>2. StatusFits(tasks, win[w], server) /\ ~Setting(x.dialog)
    BY <1>2, <1>4, <1>11, Looked DEF FactorFits
  <2>3. \A v \in tasks : v.kind = "status" /\ x.dialog.kind = "disable" => ~server.on
    BY <1>4, <2>2 DEF StatusFits
  <2>4. QED
    BY <1>4, <1>8, <2>1, <2>2, <2>3, StatusKept
<1>12. ASSUME ~Faults PROVE KeysFit(tasks', x, server')
  <2>1. KeysFit(tasks, win[w], server)
    BY <1>2, <1>12 DEF FactorFits
  <2>2. \A v \in tasks \ {t} : v.kind \notin {"register", "keys"}
    BY <1>2, <2>1 DEF KeysFit
  <2>3. win[w].keys = server.keys
    BY <1>2, <2>1, <2>2 DEF KeysFit
  <2>4. CASE u \in tasks'
    BY <1>6, <1>9, <2>2, <2>4 DEF KeysFit
  <2>5. CASE u \notin tasks'
    <3>1. UNCHANGED server
      BY <1>7, <2>5
    <3>2. QED
      BY <1>4, <1>9, <2>2, <2>3, <2>5, <3>1 DEF KeysFit
  <2>6. QED
    BY <2>4, <2>5
<1>13. FactorFits(tasks', x, server')
  BY <1>10, <1>11, <1>12 DEF FactorFits
<1>14. \A v \in tasks' : DOMAIN v = JobKeys /\ v.w \in Windows /\ v.kind \in Looking \cup Asking \cup {"setup"}
  BY <1>2, <1>6, <1>9 DEF FactorTypes, Looking
<1>15. DOMAIN x.dialog = StepKeys
  BY <1>2, <1>4 DEF FactorTypes
<1>16. QED
  BY <1>2, <1>4, <1>8, <1>13, <1>14, <1>15, FactorOf
----------------------------------------------------------------------------
LEMMA FactorInvStep == ASSUME OneWindow, FactorInv, [Factor!Next]_(Factor!vars) PROVE FactorInv'
<1>1. CASE UNCHANGED Factor!vars
  <2>1. UNCHANGED <<server, win, tasks>>
    BY <1>1 DEF Factor!vars
  <2>2. QED
    BY <2>1 DEF FactorInv, FactorTypes
<1>2. ASSUME NEW w \in Windows,
             \/ Factor!AddKey(w) \/ Factor!RemoveKey(w) \/ Factor!OpenSetup(w) \/ Factor!Close(w) \/ Factor!Escape(w)
             \/ Factor!Scan(w) \/ Factor!Back(w) \/ Factor!Verify(w) \/ Factor!Save(w) \/ Factor!OpenDisable(w)
             \/ Factor!Disable(w) \/ Factor!OpenReset(w) \/ Factor!SubmitReset(w)
      PROVE  FactorInv'
  BY <1>2, FactorAddKey, FactorRemoveKey, FactorOpenSetup, FactorClose, FactorTurn, FactorVerify, FactorSave,
     FactorOpenDisable, FactorDisable, FactorOpenReset, FactorSubmit
<1>3. ASSUME NEW t \in tasks, Factor!Handler(t) PROVE FactorInv'
  BY <1>3, FactorRead, FactorLearn, FactorRegistered, FactorBegin, FactorShow, FactorCheck, FactorVerified,
     FactorDisabled, FactorAsked DEF Factor!Handler
<1>4. QED
  BY <1>1, <1>2, <1>3 DEF Factor!Next

\* The secret a dialog shows is the one a code will be checked against: nobody
\* else begins a set-up while the tab waits for its own answers.
THEOREM FactorShownIsStored == ASSUME OneWindow PROVE Factor!Spec => []Factor!ShownIsStored
<1>1. Factor!Init => FactorInv
  BY FactorInit
<1>2. FactorInv /\ [Factor!Next]_(Factor!vars) => FactorInv'
  BY FactorInvStep
<1>3. FactorInv => Factor!ShownIsStored
  <2>1. SUFFICES ASSUME FactorInv, NEW w \in Windows, Setting(win[w].dialog), win[w].dialog.secret # 0
                 PROVE  server.secret = win[w].dialog.secret
    BY DEF Factor!ShownIsStored, Factor!D, Setting
  <2>2. StepsFit(tasks, win[w].dialog, server)
    BY <2>1 DEF FactorInv, FactorFits
  <2>3. QED
    BY <2>1, <2>2 DEF StepsFit
<1>4. QED
  BY <1>1, <1>2, <1>3, PTL DEF Factor!Spec

\* A step-up asks for the factor the service asks for, as long as the status
\* requests are answered: no key is registered or removed, and nothing is turned
\* on or off, between what the tab read and the answer to the reset.
THEOREM FactorMethodMirrors == ASSUME OneWindow, ~Faults PROVE Factor!Spec => []Factor!MethodMirrors
<1>1. Factor!Init => FactorInv
  BY FactorInit
<1>2. FactorInv /\ [Factor!Next]_(Factor!vars) => FactorInv'
  BY FactorInvStep
<1>3. FactorInv => Factor!MethodMirrors
  <2>1. SUFFICES ASSUME FactorInv, NEW t \in tasks, t.kind = "reset" PROVE Factor!Precedence \in {t.at, "none"}
    BY DEF Factor!MethodMirrors
  <2>2. PICK w \in Windows : FactorFits(tasks, win[w], server)
    BY <2>1 DEF FactorInv, FactorTypes
  <2>3. t.at = Factor!Method(server.on, server.keys)
    BY <2>1, <2>2 DEF FactorFits, ResetsFit
  <2>4. QED
    BY <2>3 DEF Factor!Precedence, Factor!Method
<1>4. QED
  BY <1>1, <1>2, <1>3, PTL DEF Factor!Spec
=============================================================================
