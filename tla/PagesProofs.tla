--------------------------- MODULE PagesProofs ----------------------------
(***************************************************************************)
(* The pages, for every number of tabs, users, folders, items and          *)
(* documents: the timer that signs an idle user out (Idle), the invites    *)
(* and the access dialog of an account (Seats), a share link's page        *)
(* (ShareLanding), the sign-in page (SignIn), the shared sessions of the   *)
(* document editor (OfficeEditor), the signer's ceremony (SignCeremony),   *)
(* the picker of a member's folders (AccessPicker), the board of shares    *)
(* and portals (SharedPage) and the figures of the home page (HomeStats).  *)
(* They have nothing in common but this module, and each section declares  *)
(* what its page needs.                                                    *)
(***************************************************************************)
EXTENDS Integers, Sequences, FiniteSets, FiniteSetTheorems, TLAPS

CONSTANTS Tabs, Window
VARIABLES tab, live, unasked, unused
Timer == INSTANCE Idle

CONSTANTS Users, Ids, Spaces, Member, Access, Included, Tasks, Others, Commands,
          MaxLoads, MaxOpens, MaxFaults, MaxQty, NONE
VARIABLES member, invite, lapsed, grants, extra, opened, shown, ticked, access, buy, loads, task, past
Roster == INSTANCE Seats

CONSTANTS Root, Inside, Protected, Faults, Patient, MaxTasks, MaxDepth
VARIABLES open, meta, pw, unlocked, entries, crumbs, working, failed, tasks, proven
Link == INSTANCE ShareLanding

CONSTANTS Totp, Passkeys, Several, Providers, MaxMounts, MaxLogouts, ProbeFirst
VARIABLES at, page, mount, identity, cookie, trusted, popup, entered, outs
Entry == INSTANCE SignIn

CONSTANTS MaxDocs, MaxSess, MaxEdits, IdleSaves, Prompt, Opens, Ends
VARIABLES docs, sess, eng, swept
Office == INSTANCE OfficeEditor

\* As long as a tab is signed in, its timer is no further than the interaction
\* with it is old; and nothing has been said of a sign-out.
TimerOK(r) == r.at = "in" => r.since + r.left >= Window /\ r.why = "none"
TimerInv == Timer!TypeOK /\ \A t \in Tabs : TimerOK(tab[t])

States == {"in", "flush", "revoke", "login"}
Record == [at : States, since : 0..(2 * Window + 1), left : 0..Window, visible : BOOLEAN,
           why : {"none", "idle", "ended"}]
----------------------------------------------------------------------------
(* The timer.                                                              *)

\* One tab's step: it stays in its type, and is signed out by the timer only if
\* nobody has used it for the window.
StepOf(r, s) == /\ s \in Record /\ TimerOK(s)
                /\ r.at = "in" /\ s.at = "flush" /\ s.why = "idle" => r.since >= Window

LEMMA AgeFacts ==
  ASSUME Window \in Nat \ {0}, NEW n \in 0..(2 * Window + 1)
  PROVE  /\ Timer!Older(n) \in 0..(2 * Window + 1)
         /\ Timer!Older(n) = n + 1 \/ (Timer!Older(n) = n /\ n = 2 * Window + 1)
  BY DEF Timer!Older, Timer!Cap

LEMMA AllTabs ==
  ASSUME Window \in Nat \ {0}, TimerInv, DOMAIN tab' = Tabs,
         \A t \in Tabs : StepOf(tab[t], tab'[t]),
         tab' = [t \in Tabs |-> tab'[t]],
         live' \in BOOLEAN, unasked' \in 0..(2 * Window + 1), unused' \in 0..(2 * Window + 1)
  PROVE  TimerInv' /\ Timer!OwnActivity
<1>1. tab' \in [Tabs -> Record]
  BY DEF StepOf
<1>2. Timer!TypeOK'
  BY <1>1 DEF Timer!TypeOK, Timer!Cap, Record, States
<1>3. \A t \in Tabs : TimerOK(tab'[t])
  BY DEF StepOf
<1>4. Timer!OwnActivity
  BY DEF Timer!OwnActivity, Timer!SignsOut, StepOf
<1>5. QED
  BY <1>2, <1>3, <1>4 DEF TimerInv

LEMMA OneTab ==
  ASSUME Window \in Nat \ {0}, TimerInv, NEW t \in Tabs, NEW s,
         tab' = [tab EXCEPT ![t] = s], StepOf(tab[t], s),
         live' \in BOOLEAN, unasked' \in 0..(2 * Window + 1), unused' \in 0..(2 * Window + 1)
  PROVE  TimerInv' /\ Timer!OwnActivity
<1>1. tab \in [Tabs -> Record]
  BY DEF TimerInv, Timer!TypeOK, Timer!Cap, Record, States
<1>2. \A u \in Tabs : tab'[u] = IF u = t THEN s ELSE tab[u]
  BY <1>1
<1>3. \A u \in Tabs : tab[u] \in Record /\ TimerOK(tab[u])
  BY <1>1 DEF TimerInv
<1>4. \A u \in Tabs : StepOf(tab[u], tab'[u])
  <2>1. ASSUME NEW u \in Tabs, u # t
        PROVE  StepOf(tab[u], tab[u])
    BY <1>3, <2>1 DEF StepOf
  <2>2. QED
    BY <1>2, <2>1
<1>5. tab' = [u \in Tabs |-> tab'[u]] /\ DOMAIN tab' = Tabs
  BY <1>1
<1>6. QED
  BY <1>4, <1>5, AllTabs

LEMMA Tabs0 ==
  ASSUME Window \in Nat \ {0}, TimerInv, NEW t \in Tabs
  PROVE  /\ tab[t] \in Record /\ TimerOK(tab[t]) /\ StepOf(tab[t], tab[t])
         /\ live \in BOOLEAN /\ unasked \in 0..(2 * Window + 1) /\ unused \in 0..(2 * Window + 1)
<1>1. tab \in [Tabs -> Record]
  BY DEF TimerInv, Timer!TypeOK, Timer!Cap, Record, States
<1>2. tab[t] \in Record /\ TimerOK(tab[t])
  BY <1>1 DEF TimerInv
<1>3. QED
  BY <1>2 DEF StepOf, TimerInv, Timer!TypeOK, Timer!Cap

\* A record that has moved to a new place, or has a new timer.
LEMMA Moves ==
  ASSUME Window \in Nat \ {0}, NEW r \in Record, NEW a \in States
  PROVE  /\ [r EXCEPT !.at = a] \in Record
         /\ [r EXCEPT !.at = a].at = a /\ [r EXCEPT !.at = a].why = r.why
  BY DEF Record

LEMMA Leaves ==
  ASSUME Window \in Nat \ {0}, NEW r \in Record, NEW a \in States, NEW w \in {"none", "idle", "ended"}
  PROVE  /\ [r EXCEPT !.at = a, !.why = w] \in Record
         /\ [r EXCEPT !.at = a, !.why = w].at = a
  BY DEF Record

LEMMA TickStep == Window \in Nat \ {0} /\ TimerInv /\ Timer!Tick => TimerInv' /\ Timer!OwnActivity
<1> SUFFICES ASSUME Window \in Nat \ {0}, TimerInv, Timer!Tick
             PROVE  TimerInv' /\ Timer!OwnActivity
    OBVIOUS
<1>1. live' = live /\ unasked' = Timer!Older(unasked) /\ unused' = Timer!Older(unused)
  BY Zenon DEF Timer!Tick
<1>2. live \in BOOLEAN /\ unasked \in 0..(2 * Window + 1) /\ unused \in 0..(2 * Window + 1)
  BY DEF TimerInv, Timer!TypeOK, Timer!Cap
<1>3. ASSUME NEW t \in Tabs
      PROVE  StepOf(tab[t], tab'[t])
  <2> DEFINE r == tab[t]
             n == Timer!Older(r.since)
             l == IF r.left = 0 THEN 0 ELSE r.left - 1
  <2>1. r \in Record /\ TimerOK(r)
    BY <1>3, Tabs0
  <2>2. r.since \in 0..(2 * Window + 1) /\ r.left \in 0..Window
    BY <2>1 DEF Record
  <2>3. n \in 0..(2 * Window + 1) /\ (n = r.since + 1 \/ (n = r.since /\ n = 2 * Window + 1))
    BY <2>2, AgeFacts
  <2>4. l \in 0..Window /\ l + 1 >= r.left
    BY <2>2
  <2>5. tab'[t] = [r EXCEPT !.since = n, !.left = l]
    BY <1>3, Zenon DEF Timer!Tick
  <2> HIDE DEF n, l
  <2>6. /\ tab'[t] \in Record /\ tab'[t].at = r.at /\ tab'[t].why = r.why
        /\ tab'[t].since = n /\ tab'[t].left = l
    BY <2>1, <2>3, <2>4, <2>5 DEF Record
  <2>7. r.since + r.left >= Window => n + l >= Window
    BY <2>2, <2>3, <2>4
  <2>8. QED
    BY <2>1, <2>6, <2>7 DEF StepOf, TimerOK
<1>4. tab' = [t \in Tabs |-> tab'[t]] /\ DOMAIN tab' = Tabs
  BY Zenon DEF Timer!Tick
<1>5. QED
  BY <1>1, <1>2, <1>3, <1>4, AgeFacts, AllTabs

LEMMA ShowStep ==
  ASSUME Window \in Nat \ {0}, TimerInv, NEW t \in Tabs, Timer!Show(t)
  PROVE  TimerInv' /\ Timer!OwnActivity
<1>1. live' = live /\ unasked' = unasked /\ unused' = unused
  BY DEF Timer!Show
<1>2. live \in BOOLEAN /\ unasked \in 0..(2 * Window + 1) /\ unused \in 0..(2 * Window + 1)
  BY DEF TimerInv, Timer!TypeOK, Timer!Cap
<1>3. ASSUME NEW u \in Tabs
      PROVE  StepOf(tab[u], tab'[u])
  <2>1. tab[u] \in Record /\ TimerOK(tab[u])
    BY <1>3, Tabs0
  <2>2. ASSUME NEW v \in BOOLEAN
        PROVE  /\ [tab[u] EXCEPT !.visible = v] \in Record
               /\ StepOf(tab[u], [tab[u] EXCEPT !.visible = v])
    <3> DEFINE s == [tab[u] EXCEPT !.visible = v]
    <3>1. s \in Record /\ s.at = tab[u].at /\ s.why = tab[u].why /\ s.since = tab[u].since /\ s.left = tab[u].left
      BY <2>1, <2>2 DEF Record
    <3> HIDE DEF s
    <3>2. s \in Record /\ StepOf(tab[u], s)
      BY <2>1, <3>1 DEF StepOf, TimerOK
    <3>3. QED
      BY <3>2 DEF s
  <2>3. CASE u # t
    BY <2>2, <2>3 DEF Timer!Show
  <2>4. CASE u = t
    <3> DEFINE s == [tab[u] EXCEPT !.visible = TRUE]
    <3>1. s \in Record /\ s.at = tab[u].at /\ s.why = tab[u].why /\ s.since = tab[u].since /\ s.left = tab[u].left
      BY <2>1 DEF Record
    <3>2. tab'[u] = Timer!Reconcile(s)
      BY <2>4 DEF Timer!Show
    <3>3. StepOf(tab[u], s)
      BY <2>2
    <3> HIDE DEF s
    <3>4. CASE s.at = "in" /\ s.since >= Window
      <4>1. tab'[u] = [s EXCEPT !.at = "flush", !.why = "idle"]
        BY <3>2, <3>4 DEF Timer!Reconcile, Timer!Leaving
      <4>2. tab'[u] \in Record /\ tab'[u].at = "flush"
        BY <3>1, <4>1 DEF Record, States
      <4>3. QED
        BY <3>1, <3>4, <4>2 DEF StepOf, TimerOK
    <3>5. CASE s.at = "in" /\ ~(s.since >= Window)
      <4>1. tab'[u] = [s EXCEPT !.left = Window]
        BY <3>2, <3>5 DEF Timer!Reconcile
      <4>2. tab'[u] \in Record /\ tab'[u].at = "in" /\ tab'[u].why = s.why /\ tab'[u].since = s.since /\ tab'[u].left = Window
        BY <3>1, <3>5, <4>1 DEF Record
      <4>3. s.since \in 0..(2 * Window + 1)
        BY <3>1 DEF Record
      <4>4. tab'[u].since + tab'[u].left >= Window
        BY <4>2, <4>3
      <4>5. tab'[u].why = "none"
        BY <2>1, <3>1, <3>5, <4>2 DEF TimerOK
      <4>6. QED
        BY <4>2, <4>4, <4>5 DEF StepOf, TimerOK
    <3>6. CASE s.at # "in"
      BY <3>2, <3>3, <3>6 DEF Timer!Reconcile
    <3>7. QED
      BY <3>4, <3>5, <3>6
  <2>5. QED
    BY <2>3, <2>4
<1>4. tab' = [u \in Tabs |-> tab'[u]] /\ DOMAIN tab' = Tabs
  BY DEF Timer!Show
<1>5. QED
  BY <1>1, <1>2, <1>3, <1>4, AllTabs

LEMMA TabSteps ==
  ASSUME Window \in Nat \ {0}, TimerInv, NEW t \in Tabs,
         \/ Timer!Activity(t) \/ Timer!Fire(t) \/ Timer!Hide(t) \/ Timer!Request(t)
         \/ Timer!Logout(t) \/ Timer!Leave(t) \/ Timer!SignIn(t)
  PROVE  TimerInv' /\ Timer!OwnActivity
<1> DEFINE r == tab[t]
<1>1. /\ r \in Record /\ TimerOK(r)
      /\ live \in BOOLEAN /\ unasked \in 0..(2 * Window + 1) /\ unused \in 0..(2 * Window + 1)
  BY Tabs0
<1>2. r.since \in 0..(2 * Window + 1) /\ r.left \in 0..Window /\ r.at \in States /\ r.visible \in BOOLEAN
  BY <1>1 DEF Record
<1>0. 0 \in 0..(2 * Window + 1) /\ Window \in 0..Window
  OBVIOUS
<1>3. live' \in BOOLEAN /\ unasked' \in 0..(2 * Window + 1) /\ unused' \in 0..(2 * Window + 1)
  <2>1. ASSUME Timer!Serve
        PROVE  live' \in BOOLEAN /\ unasked' \in 0..(2 * Window + 1)
    <3>1. CASE Timer!Taken
      BY <1>0, <1>1, <2>1, <3>1 DEF Timer!Serve
    <3>2. CASE ~Timer!Taken
      BY <1>1, <2>1, <3>2 DEF Timer!Serve
    <3>3. QED
      BY <3>1, <3>2
  <2>2. QED
    BY <1>0, <1>1, <2>1 DEF Timer!Activity, Timer!Fire, Timer!Hide, Timer!Request, Timer!Logout, Timer!Leave,
                      Timer!EndOffice, Timer!Revoke, Timer!SignIn
<1>4. ASSUME NEW s, tab' = [tab EXCEPT ![t] = s], StepOf(r, s)
      PROVE  TimerInv' /\ Timer!OwnActivity
  BY <1>3, <1>4, OneTab
<1>5. CASE Timer!Activity(t) /\ r.at = "in"
  <2> DEFINE s == [r EXCEPT !.since = 0, !.left = Window]
  <2>1. tab' = [tab EXCEPT ![t] = s]
    BY <1>5 DEF Timer!Activity, Timer!Arm
  <2>2. s \in Record /\ s.at = "in" /\ s.why = r.why /\ s.since = 0 /\ s.left = Window
    BY <1>0, <1>1, <1>5 DEF Record
  <2>3. StepOf(r, s)
    BY <1>1, <1>5, <2>2 DEF StepOf, TimerOK
  <2>4. QED
    BY <1>4, <2>1, <2>3
<1>6. CASE Timer!Activity(t) /\ r.at # "in"
  <2> DEFINE s == [r EXCEPT !.since = 0]
  <2>1. tab' = [tab EXCEPT ![t] = s]
    BY <1>6 DEF Timer!Activity
  <2>2. s \in Record /\ s.at = r.at
    BY <1>1 DEF Record
  <2>3. StepOf(r, s)
    BY <1>6, <2>2 DEF StepOf, TimerOK
  <2>4. QED
    BY <1>4, <2>1, <2>3
<1>7. CASE Timer!Fire(t)
  <2> DEFINE s == [r EXCEPT !.at = "flush", !.why = "idle"]
  <2>1. tab' = [tab EXCEPT ![t] = s] /\ r.at = "in" /\ r.left = 0
    BY <1>7 DEF Timer!Fire, Timer!Leaving
  <2>2. s \in Record /\ s.at = "flush"
    BY <1>1, Leaves, Zenon DEF States
  <2>3. r.since >= Window
    BY <1>1, <1>2, <2>1 DEF TimerOK
  <2>4. StepOf(r, s)
    BY <2>2, <2>3 DEF StepOf, TimerOK
  <2>5. QED
    BY <1>4, <2>1, <2>4, Zenon
<1>8. CASE Timer!Hide(t)
  <2> DEFINE s == [r EXCEPT !.visible = FALSE]
  <2>1. tab' = [tab EXCEPT ![t] = s]
    BY <1>8 DEF Timer!Hide
  <2>2. s \in Record /\ s.at = r.at /\ s.why = r.why /\ s.since = r.since /\ s.left = r.left
    BY <1>1 DEF Record
  <2>3. StepOf(r, s)
    BY <1>1, <2>2 DEF StepOf, TimerOK
  <2>4. QED
    BY <1>4, <2>1, <2>3
<1>9. ASSUME NEW a \in States, a # "in" \/ r.at = "in", a = "flush" => r.why = "none",
             tab' = [tab EXCEPT ![t] = [tab[t] EXCEPT !.at = a]]
      PROVE  TimerInv' /\ Timer!OwnActivity
  <2> DEFINE s == [r EXCEPT !.at = a]
  <2>1. /\ s \in Record /\ s.at = a /\ s.why = r.why /\ s.since = r.since /\ s.left = r.left
    BY <1>1, <1>9 DEF Record
  <2>2. StepOf(r, s)
    BY <1>1, <1>9, <2>1 DEF StepOf, TimerOK
  <2>3. QED
    BY <1>4, <1>9, <2>2
<1>10. ASSUME tab' = [tab EXCEPT ![t] = Timer!Bounce(tab[t])]
       PROVE  TimerInv' /\ Timer!OwnActivity
  <2> DEFINE s == [r EXCEPT !.at = "login", !.why = "ended"]
  <2>1. tab' = [tab EXCEPT ![t] = s]
    BY <1>10 DEF Timer!Bounce
  <2>2. s \in Record /\ s.at = "login"
    BY <1>1, Leaves, Zenon DEF States
  <2>3. StepOf(r, s)
    BY <2>2 DEF StepOf, TimerOK
  <2>4. QED
    BY <1>4, <2>1, <2>3, Zenon
<1>11. CASE Timer!Request(t)
  <2>1. r.at = "in" /\ tab' = [tab EXCEPT ![t] = Timer!After(tab[t], "in")]
    BY <1>11 DEF Timer!Request
  <2>2. QED
    BY <1>9, <1>10, <2>1 DEF Timer!After, States
<1>12. CASE Timer!Logout(t)
  <2>1. r.at = "in" /\ tab' = [tab EXCEPT ![t] = [tab[t] EXCEPT !.at = "flush"]]
    BY <1>12 DEF Timer!Logout
  <2>2. QED
    BY <1>1, <1>9, <2>1 DEF TimerOK, States
<1>13. CASE Timer!EndOffice(t)
  <2>1. tab' = [tab EXCEPT ![t] = Timer!After(tab[t], "revoke")]
    BY <1>13 DEF Timer!EndOffice
  <2>2. QED
    BY <1>9, <1>10, <2>1 DEF Timer!After, States
<1>14. CASE Timer!Revoke(t)
  <2>1. tab' = [tab EXCEPT ![t] = [tab[t] EXCEPT !.at = "login"]]
    BY <1>14 DEF Timer!Revoke
  <2>2. QED
    BY <1>9, <2>1 DEF States
<1>15. CASE Timer!SignIn(t)
  <2> DEFINE s == [r EXCEPT !.at = "in", !.since = 0, !.left = Window, !.why = "none"]
  <2>1. tab' = [tab EXCEPT ![t] = s] /\ r.at = "login"
    BY <1>15 DEF Timer!SignIn
  <2>2. s \in Record /\ s.at = "in" /\ s.why = "none" /\ s.since = 0 /\ s.left = Window
    BY <1>0, <1>1 DEF Record, States
  <2>3. StepOf(r, s)
    BY <2>1, <2>2 DEF StepOf, TimerOK
  <2>4. QED
    BY <1>4, <2>1, <2>3
<1>16. QED
  BY <1>5, <1>6, <1>7, <1>8, <1>11, <1>12, <1>13, <1>14, <1>15 DEF Timer!Leave

LEMMA TimerInit == Timer!WindowAssumption /\ Timer!Init => TimerInv /\ Window \in Nat \ {0}
<1> SUFFICES ASSUME Timer!WindowAssumption, Timer!Init
             PROVE  TimerInv /\ Window \in Nat \ {0}
    OBVIOUS
<1>1. Window \in Nat \ {0}
  BY DEF Timer!WindowAssumption
<1>2. PICK front \in Tabs : tab = [t \in Tabs |-> [at |-> "in", since |-> 0, left |-> Window, visible |-> t = front, why |-> "none"]]
  BY DEF Timer!Init
<1>3. \A t \in Tabs : tab[t] \in Record /\ tab[t].at = "in" /\ tab[t].since = 0 /\ tab[t].left = Window /\ tab[t].why = "none"
  BY <1>1, <1>2 DEF Record, States
<1>4. tab \in [Tabs -> Record]
  BY <1>2, <1>3
<1>5. Timer!TypeOK
  BY <1>1, <1>4 DEF Timer!Init, Timer!TypeOK, Timer!Cap, Record, States
<1>6. QED
  BY <1>1, <1>3, <1>5 DEF TimerInv, TimerOK

TimerHolds == TimerInv /\ Window \in Nat \ {0}
LEMMA TimerStep == TimerHolds /\ [Timer!Next]_Timer!vars => TimerHolds' /\ Timer!OwnActivity
<1> SUFFICES ASSUME TimerInv, Window \in Nat \ {0}, [Timer!Next]_Timer!vars
             PROVE  TimerInv' /\ Timer!OwnActivity
    BY DEF TimerHolds
<1>1. CASE UNCHANGED Timer!vars
  <2>1. UNCHANGED <<tab, live, unasked, unused>>
    BY <1>1 DEF Timer!vars
  <2>2. TimerInv'
    BY <2>1 DEF TimerInv, Timer!TypeOK
  <2>3. Timer!OwnActivity
    BY <2>1 DEF Timer!OwnActivity, Timer!SignsOut
  <2>4. QED
    BY <2>2, <2>3
<1>2. QED
  BY <1>1, TickStep, ShowStep, TabSteps DEF Timer!Next

\* useInactivityLogout: whatever a tab hides and shows, however late its timer is
\* when hidden, it signs nobody out within the window of the last use of it.
THEOREM IdleOwnActivity == Timer!WindowAssumption /\ Timer!Spec => [][Timer!OwnActivity]_Timer!vars
<1>1. Timer!WindowAssumption /\ Timer!Init => TimerHolds
  BY TimerInit DEF TimerHolds
<1>2. QED
  BY <1>1, TimerStep, PTL DEF Timer!Spec
----------------------------------------------------------------------------
(* The invites.                                                            *)

\* A row that is marked expired is; of one email one row is pending.
InviteInv ==
  /\ invite = [i \in Ids |-> invite[i]]
  /\ \A i \in Ids : DOMAIN invite[i] = {"for", "status"}
  /\ \A i \in Ids : invite[i].status \in {"free", "pending", "expired", "accepted", "revoked"}
  /\ \A i \in Ids : invite[i].status = "expired" => i \in lapsed
  /\ \A i, j \in Roster!Pending : i # j => invite[i].for # invite[j].for

\* What a step may do to the invites.  What is not a row is not changed.
Revokes == \E S \in SUBSET Roster!Pending : invite' = Roster!SetStatus(S, "revoked") /\ UNCHANGED lapsed
Inserts == \E u : \E i \in Ids :
             /\ Roster!Unique(u, NONE) /\ invite[i].status = "free" /\ UNCHANGED lapsed
             /\ invite' = [invite EXCEPT ![i] = [for |-> u, status |-> "pending"]]
Expires == \E i \in lapsed : invite' = Roster!SetStatus({i} \cap Roster!Pending, "expired") /\ UNCHANGED lapsed
Accepts == \E i \in opened : /\ invite[i].status \notin {"accepted", "revoked"} /\ UNCHANGED lapsed
                             /\ invite' = Roster!SetStatus({i}, "accepted")
Resends == \E t \in Tasks : \E i \in task[t].who :
             Roster!Resendable(i) /\ invite' = Roster!SetStatus({i}, "pending") /\ lapsed' = lapsed \ {i}

LEMMA RosterStep ==
  ASSUME InviteInv, [Roster!Next]_Roster!vars
  PROVE  \/ invite' = invite /\ lapsed \subseteq lapsed'
         \/ Revokes \/ Inserts \/ Expires \/ Accepts \/ Resends
<1> DEFINE Goal == \/ invite' = invite /\ lapsed \subseteq lapsed'
                   \/ Revokes \/ Inserts \/ Expires \/ Accepts \/ Resends
<1>1. CASE UNCHANGED Roster!rows
  BY <1>1 DEF Roster!rows
<1>2. CASE UNCHANGED Roster!vars
  BY <1>1, <1>2 DEF Roster!vars
<1>3. ASSUME NEW t \in Tasks, Roster!Handler(t)
      PROVE  Goal
  <2>1. CASE \/ Roster!SubmitInvite(t) \/ Roster!CountSeats(t) \/ Roster!CloseInvite(t) \/ Roster!CancelInvite(t)
             \/ Roster!Resend(t) \/ Roster!FinishResend(t) \/ Roster!Revoke(t) \/ Roster!FinishRevoke(t)
             \/ Roster!BulkSetStatus(t) \/ Roster!FinishStatus(t) \/ Roster!ConfirmDelete(t)
             \/ Roster!FinishDelete(t) \/ Roster!OpenAccess(t) \/ Roster!Prefill(t)
             \/ Roster!SubmitAccess(t) \/ Roster!FinishAccess(t)
    BY <1>1, <2>1, Zenon DEF Roster!SubmitInvite, Roster!CountSeats, Roster!CloseInvite, Roster!CancelInvite,
         Roster!Resend, Roster!FinishResend, Roster!Revoke, Roster!FinishRevoke, Roster!BulkSetStatus,
         Roster!FinishStatus, Roster!ConfirmDelete, Roster!FinishDelete, Roster!OpenAccess,
         Roster!Prefill, Roster!SubmitAccess, Roster!FinishAccess
  <2>2. CASE Roster!SetOne(t) \/ Roster!RemoveMember(t) \/ Roster!GrantOne(t)
    BY <2>2 DEF Roster!SetOne, Roster!RemoveMember, Roster!GrantOne
  <2>3. CASE Roster!RevokePrior(t)
    <3>1. Roster!PendingFor(Head(task[t].todo)) \in SUBSET Roster!Pending
      BY DEF Roster!PendingFor
    <3>2. QED
      BY <2>3, <3>1 DEF Roster!RevokePrior, Revokes
  <2>4. CASE Roster!InsertInvite(t)
    BY <2>4 DEF Roster!InsertInvite, Inserts
  <2>5. CASE Roster!ResendOne(t)
    <3>1. PICK i \in task[t].who : Roster!Resent(IF Roster!Resendable(i) THEN {i} ELSE {})
      BY <2>5 DEF Roster!ResendOne
    <3>2. CASE Roster!Resendable(i)
      BY <3>1, <3>2 DEF Roster!Resent, Resends
    <3>3. CASE ~Roster!Resendable(i)
      <4>1. invite' = Roster!SetStatus({}, "pending") /\ lapsed' = lapsed
        BY <3>1, <3>3 DEF Roster!Resent
      <4>2. invite' = invite
        BY <4>1, Zenon DEF Roster!SetStatus, InviteInv
      <4>3. QED
        BY <4>1, <4>2
    <3>4. QED
      BY <3>2, <3>3
  <2>6. CASE Roster!RevokeOne(t)
    <3>1. PICK i \in task[t].who : invite' = Roster!SetStatus({i} \cap Roster!Pending, "revoked")
      BY <2>6, Zenon DEF Roster!RevokeOne
    <3>2. UNCHANGED lapsed /\ {i} \cap Roster!Pending \in SUBSET Roster!Pending
      BY <2>6 DEF Roster!RevokeOne
    <3>3. QED
      BY <3>1, <3>2 DEF Revokes
  <2>7. QED
    BY <1>3, <2>1, <2>2, <2>3, <2>4, <2>5, <2>6 DEF Roster!Handler
<1>4. CASE \/ Roster!AnswerList \/ Roster!ApplyList \/ Roster!FailList \/ Roster!TickUser \/ Roster!TickInvite
           \/ Roster!EditAccess \/ Roster!CloseAccess \/ Roster!OpenBuy \/ Roster!ChangeQty
           \/ Roster!PriceSeats \/ Roster!ConfirmBuy \/ Roster!CloseBuy
  BY <1>1, <1>4, Zenon DEF Roster!AnswerList, Roster!ApplyList, Roster!FailList, Roster!TickUser,
       Roster!TickInvite, Roster!EditAccess, Roster!CloseAccess, Roster!OpenBuy, Roster!ChangeQty,
       Roster!PriceSeats, Roster!ConfirmBuy, Roster!CloseBuy
<1>5. CASE Roster!AddSeats \/ Roster!Lapse
  BY <1>5 DEF Roster!AddSeats, Roster!Lapse
<1>6. CASE Roster!Lookup
  <2>1. PICK i \in Ids : IF i \in lapsed THEN invite' = Roster!SetStatus({i} \cap Roster!Pending, "expired")
                                         ELSE UNCHANGED invite
    BY <1>6 DEF Roster!Lookup
  <2>2. UNCHANGED lapsed
    BY <1>6 DEF Roster!Lookup
  <2>3. QED
    BY <2>1, <2>2 DEF Expires
<1>7. CASE Roster!Accept
  BY <1>7 DEF Roster!Accept, Roster!Open, Accepts
<1>8. QED
  BY <1>2, <1>3, <1>4, <1>5, <1>6, <1>7 DEF Roster!Next

\* The rows in S, and no others, get status st.
SetTo(S, st) == /\ invite' = [i \in Ids |-> invite'[i]]
                /\ \A i \in Ids : DOMAIN invite'[i] = {"for", "status"} /\ invite'[i].for = invite[i].for
                /\ \A i \in Ids : invite'[i].status = IF i \in S THEN st ELSE invite[i].status
                /\ \A i \in Ids \ S : invite'[i] = invite[i]
LEMMA SetFacts ==
  ASSUME InviteInv, NEW S, NEW st, invite' = Roster!SetStatus(S, st)
  PROVE  SetTo(S, st)
<1>1. \A i \in Ids : invite'[i] = IF i \in S THEN [invite[i] EXCEPT !.status = st] ELSE invite[i]
  BY DEF Roster!SetStatus
<1>2. invite' = [i \in Ids |-> invite'[i]]
  BY DEF Roster!SetStatus
<1>3. ASSUME NEW i \in Ids
      PROVE  /\ DOMAIN [invite[i] EXCEPT !.status = st] = {"for", "status"}
             /\ [invite[i] EXCEPT !.status = st].for = invite[i].for
             /\ [invite[i] EXCEPT !.status = st].status = st
  BY <1>3 DEF InviteInv
<1>4. QED
  BY <1>1, <1>2, <1>3 DEF InviteInv, SetTo

LEMMA InviteStep == Roster!SeatsAssumption /\ InviteInv /\ [Roster!Next]_Roster!vars => InviteInv'
<1> SUFFICES ASSUME Roster!SeatsAssumption, InviteInv, [Roster!Next]_Roster!vars
             PROVE  InviteInv'
    OBVIOUS
<1>1. CASE invite' = invite /\ lapsed \subseteq lapsed'
  BY <1>1 DEF InviteInv, Roster!Pending
<1>2. CASE Revokes
  <2>1. PICK S \in SUBSET Roster!Pending : invite' = Roster!SetStatus(S, "revoked") /\ UNCHANGED lapsed
    BY <1>2 DEF Revokes
  <2>2. QED
    BY <2>1, SetFacts DEF SetTo, InviteInv, Roster!Pending
<1>3. CASE Inserts
  <2>1. PICK u : \E i \in Ids :
          /\ Roster!Unique(u, NONE) /\ invite[i].status = "free" /\ UNCHANGED lapsed
          /\ invite' = [invite EXCEPT ![i] = [for |-> u, status |-> "pending"]]
    BY <1>3 DEF Inserts
  <2>0. PICK i \in Ids :
          /\ Roster!Unique(u, NONE) /\ invite[i].status = "free" /\ UNCHANGED lapsed
          /\ invite' = [invite EXCEPT ![i] = [for |-> u, status |-> "pending"]]
    BY <2>1
  <2>2. \A j \in Roster!Pending : invite[j].for # u
    BY <2>0 DEF Roster!Unique, Roster!PendingFor, Roster!Pending, Roster!SeatsAssumption
  <2>3. /\ invite' = [j \in Ids |-> invite'[j]]
        /\ \A j \in Ids : invite'[j] = IF j = i THEN [for |-> u, status |-> "pending"] ELSE invite[j]
    BY <2>0 DEF InviteInv
  <2>4. \A j \in Ids : DOMAIN invite'[j] = {"for", "status"}
    BY <2>3 DEF InviteInv
  <2>5. \A j \in Ids : j # i => invite'[j].status = invite[j].status /\ invite'[j].for = invite[j].for
    BY <2>3
  <2>6. invite'[i].status = "pending" /\ invite'[i].for = u
    BY <2>3
  <2>7. Roster!Pending' = Roster!Pending \cup {i}
    BY <2>0, <2>5, <2>6 DEF Roster!Pending
  <2>8. QED
    BY <2>0, <2>2, <2>3, <2>4, <2>5, <2>6, <2>7 DEF InviteInv, Roster!Pending
<1>4. CASE Expires
  <2>1. PICK i \in lapsed : invite' = Roster!SetStatus({i} \cap Roster!Pending, "expired") /\ UNCHANGED lapsed
    BY <1>4 DEF Expires
  <2>2. SetTo({i} \cap Roster!Pending, "expired") /\ lapsed' = lapsed
    BY <2>1, SetFacts
  <2>3. Roster!Pending' \subseteq Roster!Pending
    BY <2>2 DEF SetTo, Roster!Pending
  <2>4. \A j, k \in Roster!Pending' : j # k => invite'[j].for # invite'[k].for
    BY <2>2, <2>3 DEF SetTo, InviteInv, Roster!Pending
  <2>5. QED
    BY <2>2, <2>4 DEF SetTo, InviteInv
<1>5. CASE Accepts
  <2>1. PICK i \in opened : invite' = Roster!SetStatus({i}, "accepted") /\ UNCHANGED lapsed
    BY <1>5 DEF Accepts
  <2>2. SetTo({i}, "accepted") /\ lapsed' = lapsed
    BY <2>1, SetFacts
  <2>3. Roster!Pending' \subseteq Roster!Pending
    BY <2>2 DEF SetTo, Roster!Pending
  <2>4. \A j, k \in Roster!Pending' : j # k => invite'[j].for # invite'[k].for
    BY <2>2, <2>3 DEF SetTo, InviteInv, Roster!Pending
  <2>5. QED
    BY <2>2, <2>4 DEF SetTo, InviteInv
<1>6. CASE Resends
  <2>1. PICK i : /\ Roster!Resendable(i) /\ invite' = Roster!SetStatus({i}, "pending")
                 /\ lapsed' = lapsed \ {i}
    BY <1>6 DEF Resends
  <2>2. \A j \in Roster!Pending : j # i => invite[j].for # invite[i].for
    BY <2>1 DEF Roster!Resendable, Roster!Unique, Roster!PendingFor, Roster!Pending
  <2>0. SetTo({i}, "pending")
    BY <2>1, SetFacts
  <2>3. Roster!Pending' \subseteq Roster!Pending \cup {i}
    BY <2>0 DEF SetTo, Roster!Pending
  <2>4. \A j, k \in Roster!Pending' : j # k => invite'[j].for # invite'[k].for
    BY <2>0, <2>2, <2>3 DEF SetTo, InviteInv, Roster!Pending
  <2>5. \A j \in Ids : invite'[j].status = "expired" => j \in lapsed'
    BY <2>0, <2>1 DEF SetTo, InviteInv
  <2>6. QED
    BY <2>0, <2>4, <2>5 DEF SetTo, InviteInv
<1>7. QED
  BY <1>1, <1>2, <1>3, <1>4, <1>5, <1>6, RosterStep

LEMMA FinalStep == InviteInv /\ [Roster!Next]_Roster!vars => Roster!Final
<1> SUFFICES ASSUME InviteInv, [Roster!Next]_Roster!vars,
                    NEW i \in Ids, invite[i].status \in {"accepted", "revoked"}
             PROVE  invite'[i] = invite[i]
    BY DEF Roster!Final
<1>1. CASE Revokes \/ Expires
  <2>1. \E S \in SUBSET Roster!Pending : \E st : invite' = Roster!SetStatus(S, st)
    BY <1>1 DEF Revokes, Expires
  <2>2. QED
    BY <2>1, SetFacts DEF SetTo, Roster!Pending
<1>2. CASE Inserts
  BY <1>2 DEF Inserts, InviteInv
<1>3. CASE Accepts
  <2>1. PICK j \in opened : /\ invite[j].status \notin {"accepted", "revoked"}
                            /\ invite' = Roster!SetStatus({j}, "accepted")
    BY <1>3 DEF Accepts
  <2>2. SetTo({j}, "accepted")
    BY <2>1, SetFacts
  <2>3. QED
    BY <2>1, <2>2 DEF SetTo
<1>4. CASE Resends
  <2>1. PICK j : Roster!Resendable(j) /\ invite' = Roster!SetStatus({j}, "pending")
    BY <1>4 DEF Resends
  <2>2. SetTo({j}, "pending")
    BY <2>1, SetFacts
  <2>3. QED
    BY <2>1, <2>2 DEF SetTo, Roster!Resendable
<1>5. QED
  BY <1>1, <1>2, <1>3, <1>4, RosterStep

LEMMA OneLinkHolds == InviteInv => Roster!OneLink
<1> SUFFICES ASSUME InviteInv, NEW i \in Ids, NEW j \in Ids, i # j, Roster!Open(i), Roster!Open(j),
                    invite[i].status # "free", invite[j].status # "free"
             PROVE  invite[i].for # invite[j].for
    BY DEF Roster!OneLink
<1>1. i \in Roster!Pending /\ j \in Roster!Pending
  BY DEF InviteInv, Roster!Open, Roster!Pending
<1>2. QED
  BY <1>1 DEF InviteInv

LEMMA InviteInit == Roster!Init => InviteInv
  BY DEF Roster!Init, InviteInv, Roster!Pending

InviteHolds == InviteInv /\ Roster!SeatsAssumption
LEMMA InviteHoldsStep == InviteHolds /\ [Roster!Next]_Roster!vars => InviteHolds'
<1>1. Roster!SeatsAssumption => Roster!SeatsAssumption'
  BY DEF Roster!SeatsAssumption
<1>2. QED
  BY <1>1, InviteStep DEF InviteHolds

\* invites/service.go: of one email one link works, however invites are created by
\* two administrators, lapse, are marked expired and are sent again.
THEOREM SeatsOneLink == Roster!SeatsAssumption /\ Roster!Spec => []Roster!OneLink
<1>1. InviteHolds => Roster!OneLink
  BY OneLinkHolds DEF InviteHolds
<1>2. QED
  BY <1>1, InviteInit, InviteHoldsStep, PTL DEF Roster!Spec, InviteHolds

\* invites/service.go: no request gives a link back that was revoked or accepted.
THEOREM SeatsFinal == Roster!SeatsAssumption /\ Roster!Spec => [][Roster!Final]_Roster!vars
<1>1. InviteHolds /\ [Roster!Next]_Roster!vars => Roster!Final
  BY FinalStep DEF InviteHolds
<1>2. QED
  BY <1>1, InviteInit, InviteHoldsStep, PTL DEF Roster!Spec, InviteHolds

\* One administrator, who does not send lapsed invites again, nor restores
\* suspended members: those are taken in without a count of the seats.
OneAdmin == /\ Roster!SeatsAssumption /\ IsFiniteSet(Users) /\ IsFiniteSet(Ids) /\ Others = {}
            /\ Commands \cap {"resend", "bulk", "status"} = {} /\ 1 + Cardinality(Member) <= Included

TaskKeys == {"op", "todo", "who", "step", "prev"}
Counted == {"revoke", "insert"}
Quiets == {"none", "each", "send", "failed", "done", "sent"}
Fit(u) == /\ DOMAIN u = TaskKeys /\ u.op \notin {"resend", "status"}
          /\ u.step \in Quiets \/ (u.op = "invite" /\ u.step \in {"count"} \cup Counted)
\* One form for invites is open at a time, and a handler that has found a seat
\* is that form's.
HandlersFit == /\ task = [t \in Tasks |-> task[t]] /\ \A t \in Tasks : Fit(task[t])
            /\ \A s, t \in Tasks : task[s].op = "invite" /\ task[t].op = "invite" => s = t
BuyKeys == {"open", "qty", "price", "asked", "loading", "sent"}
\* A seat that was found free stays free until the invite takes it.
SeatFits == /\ member = [u \in Users |-> member[u]] /\ extra \in Nat /\ DOMAIN buy = BuyKeys /\ buy.qty \in Nat
            /\ Roster!Used <= Roster!Cap
            /\ \A t \in Tasks : task[t].step \in Counted => Roster!Used < Roster!Cap
            /\ \A i \in opened : i \in Ids /\ invite[i].status # "free"
SeatInv == InviteInv /\ HandlersFit /\ SeatFits

LEMMA SeatCardinality == \A S : Roster!Cardinality(S) = Cardinality(S)
BY DEF Roster!Cardinality, Cardinality

LEMMA SeatCounts ==
  ASSUME OneAdmin
  PROVE  /\ IsFiniteSet(Roster!Active) /\ IsFiniteSet(Roster!Pending)
         /\ Roster!Used \in Nat /\ (extra \in Nat => Roster!Cap \in Nat)
<1>1. Roster!Active \subseteq Users /\ Roster!Pending \subseteq Ids
  BY DEF Roster!Active, Roster!Pending
<1>2. IsFiniteSet(Roster!Active) /\ IsFiniteSet(Roster!Pending)
  BY <1>1, FS_Subset DEF OneAdmin
<1>3. Cardinality(Roster!Active) \in Nat /\ Cardinality(Roster!Pending) \in Nat
  BY <1>2, FS_CardinalityType
<1>4. Roster!Used \in Nat
  BY <1>3, SeatCardinality DEF Roster!Used
<1>5. extra \in Nat => Roster!Cap \in Nat
  BY DEF Roster!Cap, OneAdmin, Roster!SeatsAssumption
<1>6. QED
  BY <1>2, <1>4, <1>5

LEMMA SeatInit == ASSUME OneAdmin, Roster!Init PROVE SeatInv
<1>0. Member \subseteq Users /\ member = [u \in Users |-> IF u \in Member THEN "active" ELSE "none"]
  BY DEF OneAdmin, Roster!SeatsAssumption, Roster!Init
<1>1. Roster!Active = Member /\ Roster!Pending = {}
  <2>1. Roster!Active = Member
    BY <1>0 DEF Roster!Active
  <2>2. Roster!Pending = {}
    BY DEF Roster!Init, Roster!Pending
  <2>3. QED
    BY <2>1, <2>2
<1>2. Roster!Used = 1 + Cardinality(Member) + 0 /\ Roster!Cap = Included + 0
  BY <1>1, FS_EmptySet, SeatCardinality DEF Roster!Used, Roster!Cap, Roster!Init
<1>3. Cardinality(Member) \in Nat
  BY FS_Subset, FS_CardinalityType DEF OneAdmin, Roster!SeatsAssumption
<1>4. Roster!Used <= Roster!Cap
  BY <1>2, <1>3 DEF OneAdmin, Roster!SeatsAssumption
<1>5. HandlersFit
  BY DEF Roster!Init, Roster!Idle, HandlersFit, Fit, TaskKeys, Quiets, Counted
<1>6. \A t \in Tasks : task[t].step \notin Counted
  BY DEF Roster!Init, Roster!Idle, Counted
<1>7. /\ member = [u \in Users |-> member[u]] /\ extra \in Nat /\ DOMAIN buy = BuyKeys /\ buy.qty \in Nat
      /\ \A i \in opened : i \in Ids /\ invite[i].status # "free"
  BY DEF Roster!Init, Roster!NoSale, BuyKeys
<1>8. QED
  BY <1>4, <1>5, <1>6, <1>7, InviteInit DEF SeatInv, SeatFits

\* The handlers.

\* A task that is set to u, where u may open a form if no other is.
Sets(t, u) == /\ task' = [task EXCEPT ![t] = u] /\ Fit(u)
              /\ u.op = "invite" => task[t].op = "invite" \/ \A s \in Tasks : task[s].op # "invite"
              /\ u.step \in Counted => task[t].step \in Counted \/ ~Roster!Full
LEMMA TaskSet ==
  ASSUME HandlersFit, NEW t \in Tasks, NEW u, Sets(t, u)
  PROVE  /\ HandlersFit'
         /\ \A s \in Tasks : task'[s].step \in Counted => (\E r \in Tasks : task[r].step \in Counted) \/ ~Roster!Full
<1>1. /\ task' = [s \in Tasks |-> task'[s]]
      /\ \A s \in Tasks : task'[s] = IF s = t THEN u ELSE task[s]
  BY DEF HandlersFit, Sets
<1>2. \A s \in Tasks : Fit(task'[s])
  BY <1>1 DEF HandlersFit, Sets
<1>3. \A r, s \in Tasks : task'[r].op = "invite" /\ task'[s].op = "invite" => r = s
  BY <1>1 DEF HandlersFit, Sets
<1>4. QED
  BY <1>1, <1>2, <1>3 DEF HandlersFit, Sets

\* A handler that begins, while no form for invites is open if it is one.
LEMMA TaskBegins ==
  ASSUME OneAdmin, HandlersFit, NEW t \in Tasks,
         \/ Roster!SubmitInvite(t) \/ Roster!Revoke(t) \/ Roster!ConfirmDelete(t) \/ Roster!OpenAccess(t)
         \/ Roster!SubmitAccess(t)
  PROVE  \E u : Sets(t, u)
<1>1. CASE Roster!SubmitInvite(t)
  <2>1. PICK s : Roster!Begin(t, [Roster!Idle EXCEPT !.op = "invite", !.todo = s, !.step = "count"])
    BY <1>1, Zenon DEF Roster!SubmitInvite
  <2>2. PICK u : u = [Roster!Idle EXCEPT !.op = "invite", !.todo = s, !.step = "count"]
    OBVIOUS
  <2>3. DOMAIN u = TaskKeys /\ u.op = "invite" /\ u.step = "count"
    BY <2>2 DEF Roster!Idle, TaskKeys
  <2>4. \A r \in Tasks : task[r].op # "invite"
    BY <1>1, Zenon DEF Roster!SubmitInvite, Roster!Offered, Roster!Modal, OneAdmin
  <2>5. QED
    BY <2>1, <2>2, <2>3, <2>4 DEF Sets, Fit, Counted, Roster!Begin
<1>2. ASSUME ~Roster!SubmitInvite(t) PROVE \E u : Sets(t, u)
  <2>1. PICK u : /\ Roster!Begin(t, u) /\ DOMAIN u = TaskKeys
                 /\ u.op \in {"revoke", "delete", "prefill", "access"} /\ u.step \in Quiets
    <3>1. CASE Roster!Revoke(t)
      <4>1. "bulk" \notin Commands
        BY DEF OneAdmin
      <4>2. PICK S : Roster!Begin(t, [Roster!Idle EXCEPT !.op = "revoke", !.who = S, !.prev = shown.pending, !.step = "each"])
        BY <3>1, <4>1, Zenon DEF Roster!Revoke, Roster!InviteBar, Roster!Offered
      <4>3. PICK u : u = [Roster!Idle EXCEPT !.op = "revoke", !.who = S, !.prev = shown.pending, !.step = "each"]
        OBVIOUS
      <4>4. DOMAIN u = TaskKeys /\ u.op = "revoke" /\ u.step = "each"
        BY <4>3 DEF Roster!Idle, TaskKeys
      <4>5. QED
        BY <4>2, <4>3, <4>4 DEF Quiets
    <3>2. CASE Roster!ConfirmDelete(t)
      <4>1. PICK x : Roster!Begin(t, [Roster!Idle EXCEPT !.op = "delete", !.who = {x}, !.step = "send"])
        BY <3>2, Zenon DEF Roster!ConfirmDelete
      <4>2. PICK u : u = [Roster!Idle EXCEPT !.op = "delete", !.who = {x}, !.step = "send"]
        OBVIOUS
      <4>3. DOMAIN u = TaskKeys /\ u.op = "delete" /\ u.step = "send"
        BY <4>2 DEF Roster!Idle, TaskKeys
      <4>4. QED
        BY <4>1, <4>2, <4>3 DEF Quiets
    <3>3. CASE Roster!OpenAccess(t)
      <4>1. PICK u : u = [Roster!Idle EXCEPT !.op = "prefill", !.who = ticked.users]
        OBVIOUS
      <4>2. DOMAIN u = TaskKeys /\ u.op = "prefill" /\ u.step = "none"
        BY <4>1 DEF Roster!Idle, TaskKeys
      <4>3. Roster!Begin(t, u)
        BY <3>3, <4>1 DEF Roster!OpenAccess
      <4>4. QED
        BY <4>2, <4>3 DEF Quiets
    <3>4. CASE Roster!SubmitAccess(t)
      <4>1. PICK u : u = [Roster!Idle EXCEPT !.op = "access", !.who = ticked.users \cap shown.users, !.prev = access.val, !.step = "each"]
        OBVIOUS
      <4>2. DOMAIN u = TaskKeys /\ u.op = "access" /\ u.step = "each"
        BY <4>1 DEF Roster!Idle, TaskKeys
      <4>3. Roster!Begin(t, u)
        BY <3>4, <4>1 DEF Roster!SubmitAccess
      <4>4. QED
        BY <4>2, <4>3 DEF Quiets
    <3>5. QED
      BY <1>2, <3>1, <3>2, <3>3, <3>4
  <2>2. u.op \notin {"resend", "status", "invite"} /\ u.step \notin Counted
    BY <2>1 DEF Quiets, Counted
  <2>3. QED
    BY <2>1, <2>2 DEF Sets, Fit, Roster!Begin
<1>3. QED
  BY <1>1, <1>2

\* A handler that goes on, or ends.
LEMMA TaskEnds ==
  ASSUME HandlersFit, NEW t \in Tasks, task' = [task EXCEPT ![t] = Roster!Idle]
  PROVE  \E u : Sets(t, u)
<1>1. PICK u : u = Roster!Idle
  OBVIOUS
<1>2. DOMAIN u = TaskKeys /\ u.op = "idle" /\ u.step = "none"
  BY <1>1 DEF Roster!Idle, TaskKeys
<1>3. QED
  BY <1>1, <1>2 DEF Sets, Fit, Quiets, Counted

LEMMA TaskGoes ==
  ASSUME HandlersFit, NEW t \in Tasks, NEW u, task' = [task EXCEPT ![t] = u],
         DOMAIN u = DOMAIN task[t], u.op = task[t].op,
         \/ u.step \in Quiets \/ u.step = task[t].step
         \/ u.op = "invite" /\ u.step \in {"count"} \cup Counted /\ (u.step \in Counted => task[t].step \in Counted \/ ~Roster!Full)
  PROVE  Sets(t, u)
<1>1. Fit(task[t])
  BY DEF HandlersFit
<1>2. Fit(u)
  BY <1>1 DEF Fit
<1>3. u.step \in Counted => task[t].step \in Counted \/ ~Roster!Full
  BY DEF Quiets, Counted
<1>4. QED
  BY <1>2, <1>3 DEF Sets

LEMMA TaskInvites ==
  ASSUME HandlersFit, NEW t \in Tasks, Roster!CountSeats(t) \/ Roster!RevokePrior(t) \/ Roster!InsertInvite(t)
  PROVE  \E u : Sets(t, u)
<1>1. DOMAIN task[t] = TaskKeys /\ Fit(task[t])
  BY DEF HandlersFit, Fit
<1>2. CASE Roster!CountSeats(t)
  <2> DEFINE refused == member[Head(task[t].todo)] = "active" \/ Roster!Full
  <2>1. PICK x : /\ task' = [task EXCEPT ![t].step = x] /\ x \in {"failed", "revoke"} /\ (x = "revoke" => ~Roster!Full)
    <3>1. task' = [task EXCEPT ![t].step = IF refused THEN "failed" ELSE "revoke"]
      BY <1>2 DEF Roster!CountSeats
    <3>2. CASE refused
      <4> HIDE DEF refused
      <4>1. PICK x : x = "failed"
        OBVIOUS
      <4>2. task' = [task EXCEPT ![t].step = x]
        BY <3>1, <3>2, <4>1
      <4>3. x \in {"failed", "revoke"} /\ x # "revoke"
        BY <4>1
      <4>4. QED
        BY <4>2, <4>3
    <3>3. CASE ~refused
      <4>1. ~Roster!Full
        BY <3>3
      <4> HIDE DEF refused
      <4>2. task' = [task EXCEPT ![t].step = "revoke"]
        BY <3>1, <3>3
      <4>3. QED
        BY <4>1, <4>2
    <3>4. QED
      BY <3>2, <3>3
  <2> HIDE DEF refused
  <2>2. PICK u : u = [task[t] EXCEPT !.step = x]
    OBVIOUS
  <2>3. DOMAIN u = DOMAIN task[t] /\ u.op = task[t].op /\ u.step = x
    BY <1>1, <2>2 DEF TaskKeys
  <2>4. task' = [task EXCEPT ![t] = u]
    BY <2>1, <2>2
  <2>5. task[t].op = "invite"
    BY <1>1, <1>2 DEF Fit, Quiets, Roster!CountSeats
  <2>6. QED
    BY <2>1, <2>3, <2>4, <2>5, TaskGoes DEF Quiets, Counted
<1>3. CASE Roster!RevokePrior(t)
  <2>1. task' = [task EXCEPT ![t].step = "insert"] /\ task[t].step = "revoke"
    BY <1>3 DEF Roster!RevokePrior
  <2>2. PICK u : u = [task[t] EXCEPT !.step = "insert"]
    OBVIOUS
  <2>3. DOMAIN u = DOMAIN task[t] /\ u.op = task[t].op /\ u.step = "insert"
    BY <1>1, <2>2 DEF TaskKeys
  <2>4. task' = [task EXCEPT ![t] = u]
    BY <2>1, <2>2
  <2>5. task[t].op = "invite"
    BY <1>1, <2>1 DEF Fit, Quiets
  <2>6. QED
    BY <2>1, <2>3, <2>4, <2>5, TaskGoes DEF Counted
<1>4. CASE Roster!InsertInvite(t)
  <2>1. task[t].op = "invite"
    BY <1>1, <1>4 DEF Fit, Quiets, Roster!InsertInvite
  <2>2. CASE task' = [task EXCEPT ![t].step = "failed"]
    <3>1. PICK u : u = [task[t] EXCEPT !.step = "failed"]
      OBVIOUS
    <3>2. DOMAIN u = DOMAIN task[t] /\ u.op = task[t].op /\ u.step = "failed"
      BY <1>1, <3>1 DEF TaskKeys
    <3>3. task' = [task EXCEPT ![t] = u]
      BY <2>2, <3>1
    <3>4. QED
      BY <3>2, <3>3, TaskGoes DEF Quiets
  <2>3. ASSUME task' # [task EXCEPT ![t].step = "failed"] PROVE \E u : Sets(t, u)
    <3>1. PICK x \in {"sent", "count"} : task' = [task EXCEPT ![t].todo = Tail(@), ![t].step = x]
      BY <1>4, <2>3 DEF Roster!InsertInvite
    <3>2. PICK u : u = [task[t] EXCEPT !.todo = Tail(@), !.step = x]
      OBVIOUS
    <3>3. DOMAIN u = DOMAIN task[t] /\ u.op = task[t].op /\ u.step = x
      BY <1>1, <3>2 DEF TaskKeys
    <3>4. task' = [task EXCEPT ![t] = u]
      BY <3>1, <3>2 DEF HandlersFit
    <3>5. x \notin Counted
      BY DEF Counted
    <3>6. QED
      BY <2>1, <3>1, <3>3, <3>4, <3>5, TaskGoes DEF Quiets
  <2>4. QED
    BY <2>2, <2>3
<1>5. QED
  BY <1>2, <1>3, <1>4

LEMMA TaskWorks ==
  ASSUME HandlersFit, NEW t \in Tasks, Roster!RevokeOne(t) \/ Roster!RemoveMember(t) \/ Roster!GrantOne(t)
  PROVE  \E u : Sets(t, u)
<1>1. DOMAIN task[t] = TaskKeys /\ Fit(task[t])
  BY DEF HandlersFit, Fit
<1>2. ASSUME NEW w, NEW x, x \in Quiets \/ x = task[t].step, task' = [task EXCEPT ![t].who = w, ![t].step = x]
      PROVE  \E u : Sets(t, u)
  <2>1. PICK u : u = [task[t] EXCEPT !.who = w, !.step = x]
    OBVIOUS
  <2>2. DOMAIN u = DOMAIN task[t] /\ u.op = task[t].op /\ u.step = x
    BY <1>1, <2>1 DEF TaskKeys
  <2>3. task' = [task EXCEPT ![t] = u]
    BY <1>2, <2>1 DEF HandlersFit
  <2>4. QED
    BY <1>2, <2>2, <2>3, TaskGoes
<1>3. CASE Roster!RevokeOne(t)
  <2>1. PICK i : task' = [task EXCEPT ![t].who = @ \ {i}, ![t].step = IF i \in Roster!Pending THEN task[t].step ELSE "failed"]
    BY <1>3 DEF Roster!RevokeOne
  <2>2. PICK x : x = IF i \in Roster!Pending THEN task[t].step ELSE "failed"
    OBVIOUS
  <2>3. task' = [task EXCEPT ![t].who = task[t].who \ {i}, ![t].step = x]
    BY <2>1, <2>2 DEF HandlersFit
  <2>4. QED
    BY <1>2, <2>2, <2>3 DEF Quiets
<1>4. CASE Roster!RemoveMember(t)
  <2>1. PICK x \in {"failed", "done"} : task' = [task EXCEPT ![t].step = x]
    BY <1>4 DEF Roster!RemoveMember
  <2>2. PICK u : u = [task[t] EXCEPT !.step = x]
    OBVIOUS
  <2>3. DOMAIN u = DOMAIN task[t] /\ u.op = task[t].op /\ u.step = x
    BY <1>1, <2>2 DEF TaskKeys
  <2>4. task' = [task EXCEPT ![t] = u]
    BY <2>1, <2>2
  <2>5. QED
    BY <2>1, <2>3, <2>4, TaskGoes DEF Quiets
<1>5. CASE Roster!GrantOne(t)
  <2>1. PICK v, x : task' = [task EXCEPT ![t].who = @ \ {v}, ![t].step = x] /\ x \in {"failed", task[t].step}
    <3>1. PICK v : \/ task' = [task EXCEPT ![t].who = @ \ {v}, ![t].step = IF member[v] = "none" THEN "failed" ELSE @]
                   \/ task' = [task EXCEPT ![t].who = @ \ {v}, ![t].step = "failed"]
      BY <1>5 DEF Roster!GrantOne
    <3>2. QED
      BY <3>1, Zenon DEF HandlersFit
  <2>2. task' = [task EXCEPT ![t].who = task[t].who \ {v}, ![t].step = x]
    BY <2>1 DEF HandlersFit
  <2>3. QED
    BY <1>2, <2>1, <2>2 DEF Quiets
<1>6. QED
  BY <1>3, <1>4, <1>5

\* What a step does to the handlers: nothing, or it sets one.
LEMMA TaskStep ==
  ASSUME OneAdmin, HandlersFit, [Roster!Next]_Roster!vars
  PROVE  task' = task \/ \E t \in Tasks : \E u : Sets(t, u)
<1> DEFINE Goal == task' = task \/ \E t \in Tasks : \E u : Sets(t, u)
<1>1. ASSUME NEW t \in Tasks, Roster!Handler(t) PROVE Goal
  <2>1. CASE \/ Roster!SubmitInvite(t) \/ Roster!Revoke(t) \/ Roster!ConfirmDelete(t) \/ Roster!OpenAccess(t)
             \/ Roster!SubmitAccess(t)
    BY <2>1, TaskBegins
  <2>2. CASE Roster!CountSeats(t) \/ Roster!RevokePrior(t) \/ Roster!InsertInvite(t)
    BY <2>2, TaskInvites
  <2>3. CASE Roster!RevokeOne(t) \/ Roster!RemoveMember(t) \/ Roster!GrantOne(t)
    BY <2>3, TaskWorks
  <2>4. CASE Roster!Resend(t) \/ Roster!ResendOne(t) \/ Roster!BulkSetStatus(t) \/ Roster!SetOne(t)
    <3>1. task[t].op \notin {"resend", "status"} /\ {"resend", "bulk", "status"} \cap Commands = {}
      BY DEF HandlersFit, Fit, OneAdmin
    <3>2. QED
      BY <2>4, <3>1, Zenon DEF Roster!Resend, Roster!ResendOne, Roster!BulkSetStatus, Roster!SetOne, Roster!Offered,
           Roster!InviteBar, Roster!UserBar
  <2>5. CASE \/ Roster!CloseInvite(t) \/ Roster!CancelInvite(t) \/ Roster!FinishResend(t) \/ Roster!FinishRevoke(t)
             \/ Roster!FinishStatus(t) \/ Roster!FinishDelete(t) \/ Roster!Prefill(t) \/ Roster!FinishAccess(t)
    <3>1. task' = [task EXCEPT ![t] = Roster!Idle]
      BY <2>5, Zenon DEF Roster!CloseInvite, Roster!CancelInvite, Roster!FinishResend, Roster!FinishRevoke, Roster!FinishStatus,
           Roster!FinishDelete, Roster!Prefill, Roster!FinishAccess, Roster!End
    <3>2. QED
      BY <3>1, TaskEnds
  <2>6. QED
    BY <1>1, <2>1, <2>2, <2>3, <2>4, <2>5 DEF Roster!Handler
<1>2. CASE \/ Roster!AnswerList \/ Roster!ApplyList \/ Roster!FailList \/ Roster!TickUser \/ Roster!TickInvite
           \/ Roster!EditAccess \/ Roster!CloseAccess \/ Roster!OpenBuy \/ Roster!ChangeQty
           \/ Roster!PriceSeats \/ Roster!ConfirmBuy \/ Roster!CloseBuy
  BY <1>2, Zenon DEF Roster!AnswerList, Roster!ApplyList, Roster!FailList, Roster!TickUser,
       Roster!TickInvite, Roster!EditAccess, Roster!CloseAccess, Roster!OpenBuy, Roster!ChangeQty,
       Roster!PriceSeats, Roster!ConfirmBuy, Roster!CloseBuy
<1>3. CASE Roster!AddSeats \/ Roster!Lapse \/ Roster!Lookup \/ Roster!Accept
  BY <1>3 DEF Roster!AddSeats, Roster!Lapse, Roster!Lookup, Roster!Accept
<1>4. CASE UNCHANGED Roster!vars
  BY <1>4 DEF Roster!vars
<1>5. QED
  BY <1>1, <1>2, <1>3, <1>4 DEF Roster!Next

LEMMA TasksKept ==
  ASSUME OneAdmin, HandlersFit, [Roster!Next]_Roster!vars
  PROVE  /\ HandlersFit'
         /\ \A s \in Tasks : task'[s].step \in Counted => (\E r \in Tasks : task[r].step \in Counted) \/ ~Roster!Full
<1>1. CASE task' = task
  BY <1>1 DEF HandlersFit
<1>2. ASSUME NEW t \in Tasks, NEW u, Sets(t, u)
      PROVE  /\ HandlersFit'
             /\ \A s \in Tasks : task'[s].step \in Counted => (\E r \in Tasks : task[r].step \in Counted) \/ ~Roster!Full
  BY <1>2, TaskSet
<1>3. QED
  BY <1>1, <1>2, TaskStep

LEMMA AddedMore == ASSUME NEW m \in Nat, NEW n \in Nat, NEW k \in Nat, m <= n PROVE k + m <= k + n
OBVIOUS

\* The dialog in which seats are bought, and the seats.
LEMMA BuyStep ==
  ASSUME OneAdmin, SeatFits, [Roster!Next]_Roster!vars
  PROVE  /\ DOMAIN buy' = BuyKeys /\ buy'.qty \in Nat /\ extra' \in Nat
         /\ Roster!Cap <= Roster!Cap' /\ (extra' # extra => Roster!AddSeats)
<1> DEFINE Rest == UNCHANGED <<buy, extra>>
<1>1. /\ DOMAIN buy' = BuyKeys /\ buy'.qty \in Nat /\ extra' \in Nat /\ extra <= extra' /\ (extra' # extra => Roster!AddSeats)
  <2>1. DOMAIN buy = BuyKeys /\ buy.qty \in Nat /\ extra \in Nat
    BY DEF SeatFits
  <2>2. ASSUME NEW t \in Tasks, Roster!Handler(t) PROVE Rest
    <3>1. CASE \/ Roster!SubmitInvite(t) \/ Roster!CountSeats(t) \/ Roster!RevokePrior(t) \/ Roster!InsertInvite(t)
               \/ Roster!CloseInvite(t) \/ Roster!CancelInvite(t) \/ Roster!Resend(t) \/ Roster!ResendOne(t)
      BY <3>1, Zenon DEF Roster!SubmitInvite, Roster!CountSeats, Roster!RevokePrior, Roster!InsertInvite, Roster!CloseInvite,
           Roster!CancelInvite, Roster!Resend, Roster!ResendOne, Roster!Resent, Roster!rows, Roster!page
    <3>2. CASE \/ Roster!FinishResend(t) \/ Roster!Revoke(t) \/ Roster!RevokeOne(t) \/ Roster!FinishRevoke(t)
               \/ Roster!BulkSetStatus(t) \/ Roster!SetOne(t) \/ Roster!FinishStatus(t) \/ Roster!ConfirmDelete(t)
      BY <3>2, Zenon DEF Roster!FinishResend, Roster!Revoke, Roster!RevokeOne, Roster!FinishRevoke, Roster!BulkSetStatus,
           Roster!SetOne, Roster!FinishStatus, Roster!ConfirmDelete, Roster!rows, Roster!page
    <3>3. CASE \/ Roster!RemoveMember(t) \/ Roster!FinishDelete(t) \/ Roster!OpenAccess(t) \/ Roster!Prefill(t)
               \/ Roster!SubmitAccess(t) \/ Roster!GrantOne(t) \/ Roster!FinishAccess(t)
      BY <3>3, Zenon DEF Roster!RemoveMember, Roster!FinishDelete, Roster!OpenAccess, Roster!Prefill, Roster!SubmitAccess,
           Roster!GrantOne, Roster!FinishAccess, Roster!rows, Roster!page
    <3>4. QED
      BY <2>2, <3>1, <3>2, <3>3 DEF Roster!Handler
  <2>3. CASE \/ Roster!AnswerList \/ Roster!ApplyList \/ Roster!FailList \/ Roster!TickUser \/ Roster!TickInvite
             \/ Roster!EditAccess \/ Roster!CloseAccess \/ Roster!Lapse \/ Roster!Lookup \/ Roster!Accept
    <3>1. Rest
      BY <2>3, Zenon DEF Roster!AnswerList, Roster!ApplyList, Roster!FailList, Roster!TickUser, Roster!TickInvite,
           Roster!EditAccess, Roster!CloseAccess, Roster!Lapse, Roster!Lookup, Roster!Accept, Roster!rows, Roster!page
    <3>2. QED
      BY <2>1, <3>1
  <2>4. CASE \/ Roster!OpenBuy \/ Roster!ChangeQty \/ Roster!PriceSeats \/ Roster!ConfirmBuy \/ Roster!CloseBuy
    <3>1. UNCHANGED extra
      BY <2>4, Zenon DEF Roster!OpenBuy, Roster!ChangeQty, Roster!PriceSeats, Roster!ConfirmBuy, Roster!CloseBuy, Roster!rows
    <3>2. DOMAIN buy' = BuyKeys /\ buy'.qty \in Nat
      <4>1. CASE Roster!OpenBuy
        BY <4>1 DEF Roster!OpenBuy, Roster!NoSale, BuyKeys
      <4>2. CASE Roster!ChangeQty
        BY <2>1, <4>2 DEF Roster!ChangeQty, BuyKeys, OneAdmin, Roster!SeatsAssumption
      <4>3. CASE Roster!PriceSeats
        BY <2>1, <4>3 DEF Roster!PriceSeats, BuyKeys
      <4>4. CASE Roster!ConfirmBuy
        BY <2>1, <4>4 DEF Roster!ConfirmBuy, BuyKeys
      <4>5. CASE Roster!CloseBuy
        BY <4>5 DEF Roster!CloseBuy, Roster!NoSale, BuyKeys
      <4>6. QED
        BY <2>4, <4>1, <4>2, <4>3, <4>4, <4>5
    <3>3. QED
      BY <2>1, <3>1, <3>2
  <2>5. CASE Roster!AddSeats
    <3>1. DOMAIN buy' = BuyKeys /\ buy'.qty \in Nat
      BY <2>5 DEF Roster!AddSeats, Roster!NoSale, BuyKeys
    <3>2. extra' = extra + buy.qty
      BY <2>5 DEF Roster!AddSeats
    <3>3. QED
      BY <2>1, <2>5, <3>1, <3>2
  <2>6. CASE UNCHANGED Roster!vars
    BY <2>1, <2>6 DEF Roster!vars, Roster!rows, Roster!page
  <2>7. QED
    BY <2>1, <2>2, <2>3, <2>4, <2>5, <2>6 DEF Roster!Next
<1>2. extra \in Nat /\ Included \in Nat /\ extra' \in Nat /\ extra <= extra'
  BY <1>1 DEF SeatFits, OneAdmin, Roster!SeatsAssumption
<1>3. Roster!Cap <= Roster!Cap'
  <2>1. PICK n \in Nat : n = extra' /\ extra <= n
    BY <1>2
  <2>2. Roster!Cap = Included + extra /\ Roster!Cap' = Included + n
    BY <2>1 DEF Roster!Cap
  <2>3. Included + extra <= Included + n
    BY <1>2, <2>1, AddedMore
  <2>4. QED
    BY <2>2, <2>3
<1>4. QED
  BY <1>1, <1>3

\* What a step does to the members, the rows and the invitations looked at.
SeatForms ==
  \/ \E t \in Tasks : Roster!InsertInvite(t)
  \/ Roster!Accept
  \/ /\ member' = [u \in Users |-> member'[u]] /\ Roster!Active' \subseteq Roster!Active
     /\ invite' = invite \/ \E S, st : st # "pending" /\ st # "free" /\ SetTo(S, st)
     /\ \A i \in opened' : i \in opened \/ (i \in Ids /\ invite[i].status # "free")

LEMMA FormsRows ==
  ASSUME SeatFits, UNCHANGED <<member, invite, opened>> PROVE SeatForms
<1>1. Roster!Active' = Roster!Active
  BY DEF Roster!Active
<1>2. QED
  BY <1>1 DEF SeatForms, SeatFits

LEMMA FormsStatus ==
  ASSUME InviteInv, SeatFits, UNCHANGED <<member, opened>>, NEW S, NEW st, invite' = Roster!SetStatus(S, st),
         st # "pending", st # "free"
  PROVE  SeatForms
<1>1. Roster!Active' = Roster!Active
  BY DEF Roster!Active
<1>2. SetTo(S, st)
  BY SetFacts
<1>3. QED
  BY <1>1, <1>2 DEF SeatForms, SeatFits

LEMMA SeatHandler ==
  ASSUME OneAdmin, InviteInv, HandlersFit, SeatFits, NEW t \in Tasks, Roster!Handler(t) PROVE SeatForms
<1>1. CASE \/ Roster!SubmitInvite(t) \/ Roster!CountSeats(t) \/ Roster!CloseInvite(t) \/ Roster!CancelInvite(t)
           \/ Roster!FinishResend(t) \/ Roster!Revoke(t) \/ Roster!FinishRevoke(t) \/ Roster!FinishStatus(t)
  <2>1. UNCHANGED <<member, invite, opened>>
    BY <1>1, Zenon DEF Roster!SubmitInvite, Roster!CountSeats, Roster!CloseInvite, Roster!CancelInvite,
         Roster!FinishResend, Roster!Revoke, Roster!FinishRevoke, Roster!FinishStatus, Roster!rows
  <2>2. QED
    BY <2>1, FormsRows
<1>2. CASE \/ Roster!ConfirmDelete(t) \/ Roster!FinishDelete(t) \/ Roster!OpenAccess(t) \/ Roster!Prefill(t)
           \/ Roster!SubmitAccess(t) \/ Roster!FinishAccess(t) \/ Roster!GrantOne(t)
  <2>1. UNCHANGED <<member, invite, opened>>
    BY <1>2, Zenon DEF Roster!ConfirmDelete, Roster!FinishDelete, Roster!OpenAccess,
         Roster!Prefill, Roster!SubmitAccess, Roster!FinishAccess, Roster!GrantOne, Roster!rows
  <2>2. QED
    BY <2>1, FormsRows
<1>3. CASE Roster!Resend(t) \/ Roster!ResendOne(t) \/ Roster!BulkSetStatus(t) \/ Roster!SetOne(t)
  <2>1. task[t].op \notin {"resend", "status"} /\ {"resend", "bulk", "status"} \cap Commands = {}
    BY DEF HandlersFit, Fit, OneAdmin
  <2>2. QED
    BY <1>3, <2>1, Zenon DEF Roster!Resend, Roster!ResendOne, Roster!BulkSetStatus, Roster!SetOne, Roster!Offered,
         Roster!InviteBar, Roster!UserBar
<1>4. CASE Roster!RevokePrior(t)
  <2>1. PICK S : invite' = Roster!SetStatus(S, "revoked") /\ UNCHANGED <<member, opened>>
    BY <1>4 DEF Roster!RevokePrior
  <2>2. QED
    BY <2>1, FormsStatus
<1>5. CASE Roster!RevokeOne(t)
  <2>1. PICK S : invite' = Roster!SetStatus(S, "revoked")
    BY <1>5 DEF Roster!RevokeOne
  <2>2. UNCHANGED <<member, opened>>
    BY <1>5 DEF Roster!RevokeOne
  <2>3. QED
    BY <2>1, <2>2, FormsStatus
<1>6. CASE Roster!RemoveMember(t)
  <2>1. PICK v : member' = [member EXCEPT ![v] = "none"]
    BY <1>6 DEF Roster!RemoveMember
  <2>2. UNCHANGED <<invite, opened>>
    BY <1>6 DEF Roster!RemoveMember
  <2>3. member' = [u \in Users |-> member'[u]] /\ \A u \in Users : member'[u] = IF u = v THEN "none" ELSE member[u]
    BY <2>1 DEF SeatFits
  <2>4. Roster!Active' \subseteq Roster!Active
    BY <2>3 DEF Roster!Active
  <2>5. QED
    BY <2>2, <2>3, <2>4 DEF SeatForms
<1>7. CASE Roster!InsertInvite(t)
  BY <1>7 DEF SeatForms
<1>8. QED
  BY <1>1, <1>2, <1>3, <1>4, <1>5, <1>6, <1>7 DEF Roster!Handler

LEMMA SeatStep ==
  ASSUME OneAdmin, InviteInv, HandlersFit, SeatFits, [Roster!Next]_Roster!vars PROVE SeatForms
<1>1. CASE \E t \in Tasks : Roster!Handler(t)
  BY <1>1, SeatHandler
<1>2. CASE \/ Roster!AnswerList \/ Roster!ApplyList \/ Roster!FailList \/ Roster!TickUser \/ Roster!TickInvite
           \/ Roster!EditAccess \/ Roster!CloseAccess \/ Roster!OpenBuy \/ Roster!ChangeQty
           \/ Roster!PriceSeats \/ Roster!ConfirmBuy \/ Roster!CloseBuy
  <2>1. UNCHANGED <<member, invite, opened>>
    BY <1>2, Zenon DEF Roster!AnswerList, Roster!ApplyList, Roster!FailList, Roster!TickUser,
         Roster!TickInvite, Roster!EditAccess, Roster!CloseAccess, Roster!OpenBuy, Roster!ChangeQty,
         Roster!PriceSeats, Roster!ConfirmBuy, Roster!CloseBuy, Roster!rows
  <2>2. QED
    BY <2>1, FormsRows
<1>3. CASE Roster!AddSeats \/ Roster!Lapse \/ UNCHANGED Roster!vars
  <2>1. UNCHANGED <<member, invite, opened>>
    BY <1>3 DEF Roster!AddSeats, Roster!Lapse, Roster!vars, Roster!rows
  <2>2. QED
    BY <2>1, FormsRows
<1>4. CASE Roster!Lookup
  <2>1. PICK i \in Ids : /\ invite[i].status \in {"pending", "expired"} /\ UNCHANGED member
                         /\ \/ opened' = opened \cup {i} /\ UNCHANGED invite
                            \/ invite' = Roster!SetStatus({i} \cap Roster!Pending, "expired") /\ UNCHANGED opened
    BY <1>4 DEF Roster!Lookup
  <2>2. CASE opened' = opened \cup {i} /\ UNCHANGED invite
    <3>1. Roster!Active' = Roster!Active
      BY <2>1 DEF Roster!Active
    <3>2. QED
      BY <2>1, <2>2, <3>1 DEF SeatForms, SeatFits
  <2>3. CASE invite' = Roster!SetStatus({i} \cap Roster!Pending, "expired") /\ UNCHANGED opened
    BY <2>1, <2>3, FormsStatus
  <2>4. QED
    BY <2>1, <2>2, <2>3
<1>5. CASE Roster!Accept
  BY <1>5 DEF SeatForms
<1>6. QED
  BY <1>1, <1>2, <1>3, <1>4, <1>5 DEF Roster!Next

\* What each of them does to the count.
LEMMA SeatsShrink ==
  ASSUME OneAdmin, Roster!Active' \subseteq Roster!Active, Roster!Pending' \subseteq Roster!Pending
  PROVE  Roster!Used' <= Roster!Used /\ Roster!Used' \in Nat /\ Roster!Used \in Nat
<1>1. IsFiniteSet(Roster!Active) /\ IsFiniteSet(Roster!Pending)
  BY SeatCounts
<1>2. IsFiniteSet(Roster!Active') /\ IsFiniteSet(Roster!Pending')
  BY <1>1, FS_Subset
<1>3. Cardinality(Roster!Active') <= Cardinality(Roster!Active)
  BY <1>1, FS_Subset
<1>4. Cardinality(Roster!Pending') <= Cardinality(Roster!Pending)
  BY <1>1, FS_Subset
<1>5. /\ Cardinality(Roster!Active') \in Nat /\ Cardinality(Roster!Active) \in Nat
      /\ Cardinality(Roster!Pending') \in Nat /\ Cardinality(Roster!Pending) \in Nat
  BY <1>1, <1>2, FS_CardinalityType
<1>6. /\ Roster!Used' = 1 + Cardinality(Roster!Active') + Cardinality(Roster!Pending')
      /\ Roster!Used = 1 + Cardinality(Roster!Active) + Cardinality(Roster!Pending)
  BY SeatCardinality DEF Roster!Used
<1>7. QED
  BY <1>3, <1>4, <1>5, <1>6

LEMMA SeatTaken ==
  ASSUME OneAdmin, NEW i, Roster!Active' = Roster!Active, Roster!Pending' = Roster!Pending \cup {i}
  PROVE  Roster!Used' <= Roster!Used + 1 /\ Roster!Used' \in Nat /\ Roster!Used \in Nat
<1>1. IsFiniteSet(Roster!Pending)
  BY SeatCounts
<1>2. Cardinality(Roster!Pending \cup {i}) <= Cardinality(Roster!Pending) + 1
  BY <1>1, FS_AddElement, FS_CardinalityType
<1>3. /\ Cardinality(Roster!Active) \in Nat /\ Cardinality(Roster!Pending) \in Nat
      /\ Cardinality(Roster!Pending \cup {i}) \in Nat
  BY <1>1, SeatCounts, FS_AddElement, FS_CardinalityType
<1>4. /\ Roster!Used' = 1 + Cardinality(Roster!Active) + Cardinality(Roster!Pending \cup {i})
      /\ Roster!Used = 1 + Cardinality(Roster!Active) + Cardinality(Roster!Pending)
  BY SeatCardinality DEF Roster!Used
<1>5. QED
  BY <1>2, <1>3, <1>4

LEMMA SeatMoved ==
  ASSUME OneAdmin, NEW u, NEW i \in Roster!Pending, Roster!Active' \subseteq Roster!Active \cup {u},
         Roster!Pending' = Roster!Pending \ {i}
  PROVE  Roster!Used' <= Roster!Used /\ Roster!Used' \in Nat /\ Roster!Used \in Nat
<1> DEFINE A == Roster!Active \cup {u}
           P == Roster!Pending \ {i}
<1>1. IsFiniteSet(Roster!Active) /\ IsFiniteSet(Roster!Pending)
  BY SeatCounts
<1>2. IsFiniteSet(A) /\ Cardinality(A) <= Cardinality(Roster!Active) + 1
  <2>1. Cardinality(Roster!Active) \in Nat
    BY <1>1, FS_CardinalityType
  <2>2. /\ IsFiniteSet(A)
        /\ Cardinality(A) = IF u \in Roster!Active THEN Cardinality(Roster!Active) ELSE Cardinality(Roster!Active) + 1
    BY <1>1, FS_AddElement
  <2>3. QED
    BY <2>1, <2>2
<1>3. IsFiniteSet(Roster!Active') /\ Cardinality(Roster!Active') <= Cardinality(A)
  BY <1>2, FS_Subset
<1>4. IsFiniteSet(P) /\ Cardinality(P) = Cardinality(Roster!Pending) - 1
  BY <1>1, FS_RemoveElement
<1>5. /\ Cardinality(Roster!Active') \in Nat /\ Cardinality(Roster!Active) \in Nat /\ Cardinality(A) \in Nat
      /\ Cardinality(P) \in Nat /\ Cardinality(Roster!Pending) \in Nat
  BY <1>1, <1>2, <1>3, <1>4, FS_CardinalityType
<1>6. /\ Roster!Used' = 1 + Cardinality(Roster!Active') + Cardinality(P)
      /\ Roster!Used = 1 + Cardinality(Roster!Active) + Cardinality(Roster!Pending)
  BY SeatCardinality DEF Roster!Used
<1> HIDE DEF A, P
<1>7. QED
  BY <1>2, <1>3, <1>4, <1>5, <1>6

LEMMA SeatInserts ==
  ASSUME OneAdmin, SeatInv, NEW t \in Tasks, Roster!InsertInvite(t)
  PROVE  /\ member' = member /\ \A i \in Ids : invite[i].status # "free" => invite'[i].status # "free"
         /\ opened' = opened /\ Roster!Used' \in Nat
         /\ Roster!Used' <= Roster!Cap
         /\ Roster!Used' < Roster!Cap \/ \A s \in Tasks : task'[s].step \notin Counted
<1>1. /\ task[t].step = "insert" /\ UNCHANGED <<member, opened>>
  BY DEF Roster!InsertInvite
<1>2. Roster!Used < Roster!Cap /\ task[t].op = "invite"
  BY <1>1 DEF SeatInv, SeatFits, HandlersFit, Fit, Counted, Quiets
<1>3. Roster!Active' = Roster!Active
  BY <1>1 DEF Roster!Active
<1>4. Roster!Used \in Nat /\ Roster!Cap \in Nat
  BY SeatCounts DEF SeatInv, SeatFits
<1>5. CASE UNCHANGED invite
  <2>1. Roster!Pending' = Roster!Pending
    BY <1>5 DEF Roster!Pending
  <2>2. Roster!Used' <= Roster!Used /\ Roster!Used' \in Nat
    BY <1>3, <2>1, SeatsShrink
  <2>3. QED
    BY <1>1, <1>2, <1>4, <1>5, <2>2
<1>6. ASSUME ~UNCHANGED invite PROVE /\ \A i \in Ids : invite[i].status # "free" => invite'[i].status # "free"
                                     /\ Roster!Used' \in Nat /\ Roster!Used' <= Roster!Cap
                                     /\ \A s \in Tasks : task'[s].step \notin Counted
  <2>1. PICK u, x : /\ \E i \in Ids : invite[i].status = "free" /\ invite' = [invite EXCEPT ![i] = [for |-> u, status |-> "pending"]]
                    /\ task' = [task EXCEPT ![t].todo = Tail(@), ![t].step = x] /\ x \in {"sent", "count"}
    BY <1>6 DEF Roster!InsertInvite
  <2>2. PICK i \in Ids : invite[i].status = "free" /\ invite' = [invite EXCEPT ![i] = [for |-> u, status |-> "pending"]]
    BY <2>1
  <2>3. \A j \in Ids : invite'[j] = IF j = i THEN [for |-> u, status |-> "pending"] ELSE invite[j]
    BY <2>2 DEF SeatInv, InviteInv
  <2>4. \A j \in Ids : invite'[j].status = IF j = i THEN "pending" ELSE invite[j].status
    BY <2>3
  <2>5. Roster!Pending' = Roster!Pending \cup {i}
    BY <2>2, <2>4 DEF Roster!Pending
  <2>6. Roster!Used' <= Roster!Used + 1 /\ Roster!Used' \in Nat
    BY <1>3, <2>5, SeatTaken
  <2>7. Roster!Used' <= Roster!Cap
    BY <1>2, <1>4, <2>6
  <2>8. \A s \in Tasks : task'[s].step \notin Counted
    <3>1. DOMAIN task[t] = TaskKeys /\ task = [s \in Tasks |-> task[s]]
      BY <1>2 DEF SeatInv, HandlersFit, Fit
    <3>2. PICK v : v = [task[t] EXCEPT !.todo = Tail(@), !.step = x]
      OBVIOUS
    <3>3. v.step = x
      BY <3>1, <3>2 DEF TaskKeys
    <3>4. task' = [task EXCEPT ![t] = v]
      BY <2>1, <3>1, <3>2
    <3>5. \A s \in Tasks : s # t => task[s].op # "invite"
      BY <1>2 DEF SeatInv, HandlersFit
    <3>6. \A s \in Tasks : s # t => task[s].step \notin Counted
      BY <3>5 DEF SeatInv, HandlersFit, Fit, Quiets, Counted
    <3>7. \A s \in Tasks : task'[s] = IF s = t THEN v ELSE task[s]
      BY <3>1, <3>4
    <3>8. QED
      BY <2>1, <3>3, <3>6, <3>7 DEF Counted
  <2>9. QED
    BY <2>2, <2>4, <2>6, <2>7, <2>8
<1>7. QED
  BY <1>1, <1>5, <1>6

LEMMA SeatAccepts ==
  ASSUME OneAdmin, SeatInv, Roster!Accept
  PROVE  /\ member' = [u \in Users |-> member'[u]] /\ opened' = opened
         /\ \A i \in Ids : invite[i].status # "free" => invite'[i].status # "free"
         /\ Roster!Used' <= Roster!Used /\ Roster!Used' \in Nat
<1>1. PICK i \in opened : /\ Roster!Open(i) /\ member' = [member EXCEPT ![invite[i].for] = "active"]
                          /\ invite' = Roster!SetStatus({i}, "accepted") /\ opened' = opened
  BY DEF Roster!Accept
<1>2. i \in Ids /\ invite[i].status # "free"
  BY DEF SeatInv, SeatFits
<1>3. i \in Roster!Pending
  BY <1>1, <1>2 DEF SeatInv, InviteInv, Roster!Open, Roster!Pending
<1>4. SetTo({i}, "accepted")
  BY <1>1, SetFacts DEF SeatInv
<1>5. Roster!Pending' = Roster!Pending \ {i}
  BY <1>4 DEF SetTo, Roster!Pending
<1>6. PICK u : u = invite[i].for
  OBVIOUS
<1>7. member' = [v \in Users |-> member'[v]] /\ \A v \in Users : v # u => member'[v] = member[v]
  BY <1>1, <1>6 DEF SeatInv, SeatFits
<1>8. Roster!Active' \subseteq Roster!Active \cup {u}
  BY <1>7 DEF Roster!Active
<1>9. Roster!Used' <= Roster!Used /\ Roster!Used' \in Nat
  BY <1>3, <1>5, <1>8, SeatMoved
<1>10. QED
  BY <1>1, <1>4, <1>7, <1>9 DEF SetTo

LEMMA SeatInvStep == ASSUME OneAdmin, SeatInv, [Roster!Next]_Roster!vars PROVE SeatInv'
<1>1. InviteInv /\ HandlersFit /\ SeatFits /\ Roster!SeatsAssumption
  BY DEF SeatInv, OneAdmin
<1>2. InviteInv'
  BY <1>1, InviteStep
<1>3. HandlersFit' /\ \A s \in Tasks : task'[s].step \in Counted => Roster!Used < Roster!Cap
  <2>1. HandlersFit'
    BY <1>1, TasksKept
  <2>2. \A s \in Tasks : task'[s].step \in Counted => (\E r \in Tasks : task[r].step \in Counted) \/ ~Roster!Full
    BY <1>1, TasksKept
  <2>3. Roster!Used \in Nat /\ Roster!Cap \in Nat
    BY <1>1, SeatCounts DEF SeatFits
  <2>4. ~Roster!Full => Roster!Used < Roster!Cap
    BY <2>3 DEF Roster!Full
  <2>5. QED
    BY <1>1, <2>1, <2>2, <2>4 DEF SeatFits
<1>4. /\ DOMAIN buy' = BuyKeys /\ buy'.qty \in Nat /\ extra' \in Nat
      /\ Roster!Cap <= Roster!Cap'
  BY <1>1, BuyStep
<1>5. Roster!Used \in Nat /\ Roster!Cap \in Nat /\ Roster!Cap' \in Nat
  <2>1. Included \in Nat
    BY <1>1 DEF Roster!SeatsAssumption
  <2>2. PICK n \in Nat : n = extra'
    BY <1>4
  <2>3. Roster!Cap' = Included + n
    BY <2>2 DEF Roster!Cap
  <2>4. Roster!Cap' \in Nat
    BY <2>1, <2>3
  <2>5. QED
    BY <1>1, <2>4, SeatCounts DEF SeatFits
<1>6. Roster!Used <= Roster!Cap /\ \A i \in opened : i \in Ids /\ invite[i].status # "free"
  BY <1>1 DEF SeatFits
<1>7. /\ member' = [u \in Users |-> member'[u]]
      /\ Roster!Used' <= Roster!Cap'
      /\ \A t \in Tasks : task'[t].step \in Counted => Roster!Used' < Roster!Cap'
      /\ \A i \in opened' : i \in Ids /\ invite'[i].status # "free"
  <2>1. CASE \E t \in Tasks : Roster!InsertInvite(t)
    <3>1. PICK t \in Tasks : Roster!InsertInvite(t)
      BY <2>1
    <3>2. /\ member' = member /\ opened' = opened /\ Roster!Used' \in Nat /\ Roster!Used' <= Roster!Cap
          /\ \A i \in Ids : invite[i].status # "free" => invite'[i].status # "free"
          /\ Roster!Used' < Roster!Cap \/ \A s \in Tasks : task'[s].step \notin Counted
      BY <3>1, SeatInserts
    <3>3. Roster!Used' <= Roster!Cap' /\ (Roster!Used' < Roster!Cap => Roster!Used' < Roster!Cap')
      BY <1>4, <1>5, <3>2
    <3>4. QED
      BY <1>1, <1>6, <3>2, <3>3 DEF SeatFits
  <2>2. CASE Roster!Accept
    <3>1. /\ member' = [u \in Users |-> member'[u]] /\ opened' = opened /\ Roster!Used' \in Nat /\ Roster!Used' <= Roster!Used
          /\ \A i \in Ids : invite[i].status # "free" => invite'[i].status # "free"
      BY <2>2, SeatAccepts
    <3>2. Roster!Used' <= Roster!Cap' /\ (Roster!Used < Roster!Cap => Roster!Used' < Roster!Cap')
      BY <1>4, <1>5, <1>6, <3>1
    <3>3. QED
      BY <1>3, <1>6, <3>1, <3>2
  <2>3. ASSUME /\ member' = [u \in Users |-> member'[u]] /\ Roster!Active' \subseteq Roster!Active
               /\ invite' = invite \/ \E S, st : st # "pending" /\ st # "free" /\ SetTo(S, st)
               /\ \A i \in opened' : i \in opened \/ (i \in Ids /\ invite[i].status # "free")
        PROVE  /\ member' = [u \in Users |-> member'[u]]
               /\ Roster!Used' <= Roster!Cap'
               /\ \A t \in Tasks : task'[t].step \in Counted => Roster!Used' < Roster!Cap'
               /\ \A i \in opened' : i \in Ids /\ invite'[i].status # "free"
    <3>1. /\ \A i \in Ids : invite[i].status # "free" => invite'[i].status # "free"
          /\ Roster!Pending' \subseteq Roster!Pending
      <4>1. CASE invite' = invite
        BY <4>1 DEF Roster!Pending
      <4>2. ASSUME NEW S, NEW st, st # "pending", st # "free", SetTo(S, st)
            PROVE  /\ \A i \in Ids : invite[i].status # "free" => invite'[i].status # "free"
                   /\ Roster!Pending' \subseteq Roster!Pending
        BY <4>2 DEF SetTo, Roster!Pending
      <4>3. QED
        BY <2>3, <4>1, <4>2
    <3>2. Roster!Used' <= Roster!Used /\ Roster!Used' \in Nat
      BY <2>3, <3>1, SeatsShrink
    <3>3. Roster!Used' <= Roster!Cap' /\ (Roster!Used < Roster!Cap => Roster!Used' < Roster!Cap')
      BY <1>4, <1>5, <1>6, <3>2
    <3>4. QED
      BY <1>3, <1>6, <2>3, <3>1, <3>3
  <2>4. QED
    BY <1>1, <2>1, <2>2, <2>3, SeatStep DEF SeatForms
<1>8. QED
  BY <1>2, <1>3, <1>4, <1>7 DEF SeatInv, SeatFits

\* tenants/service.go and invites/service.go: members and pending invites never
\* take more seats than there are, with one administrator, who neither sends
\* lapsed invites again nor restores suspended members.
THEOREM SeatsSeatCap == OneAdmin /\ Roster!Spec => []Roster!SeatCap
<1>1. OneAdmin /\ Roster!Init => SeatInv
  BY SeatInit
<1>2. OneAdmin /\ SeatInv /\ [Roster!Next]_Roster!vars => SeatInv' /\ OneAdmin'
  BY SeatInvStep DEF OneAdmin, Roster!SeatsAssumption
<1>3. SeatInv => Roster!SeatCap
  BY DEF SeatInv, SeatFits, Roster!SeatCap
<1>4. QED
  BY <1>1, <1>2, <1>3, PTL DEF Roster!Spec

\* One opening of the access dialog, no request that fails, and nobody who
\* joins or is removed meanwhile.
OneOpening ==
  /\ Commands \cap {"accept", "delete"} = {} /\ MaxFaults = 0 /\ MaxOpens \in {0, 1}
  /\ Others \subseteq Tasks

HandlerKeys == {"op", "todo", "who", "step", "prev"}
Here == {u \in Users : member[u] # "none"}
\* A handler that fills the dialog in was sent for the users that are ticked; one
\* that saves holds the dialog open, and none of its users is unknown.
HandlerFits(t) ==
  /\ DOMAIN task[t] = HandlerKeys /\ task[t].op # "delete"
  /\ task[t].op = "status" => task[t].step \in {"active", "suspended"}
  /\ task[t].op = "access" => task[t].who \subseteq Here /\ task[t].step = "each" /\ access.open /\ access.busy /\ ~access.loading
  /\ task[t].op = "prefill" =>
       /\ task[t].step = "none" /\ past.opens = 1
       /\ access.open => access.loading /\ ~access.busy /\ ticked.users \in {task[t].who, {}}
RowsFit ==
  /\ DOMAIN shown = {"users", "pending", "meter"} /\ DOMAIN ticked = {"users", "invites"} /\ shown.users \subseteq Here
  /\ \A r \in loads : r.done /\ r.of = "users" => r.got.users \subseteq Here
PrefillInv ==
  /\ DOMAIN task = Tasks /\ (\A t \in Tasks : HandlerFits(t)) /\ RowsFit
  /\ DOMAIN member = Users /\ DOMAIN access = {"open", "loading", "busy", "val", "edited"}
  /\ DOMAIN past = {"refused", "faults", "opens"} /\ past.faults = 0 /\ past.opens \in Nat
  /\ (past.opens = 0 => ~access.open) /\ opened = {}
  /\ \A t, v \in Tasks : task[t].op \in {"prefill", "access"} /\ task[v].op \in {"prefill", "access"} => t = v
  /\ Roster!PrefillShown

LEMMA PrefillStart == Roster!SeatsAssumption /\ Roster!Init => PrefillInv
<1> SUFFICES ASSUME Roster!SeatsAssumption, Roster!Init PROVE PrefillInv
  OBVIOUS
<1>1. DOMAIN Roster!Idle = HandlerKeys /\ Roster!Idle.op = "idle"
  BY DEF Roster!Idle, HandlerKeys
<1>2. DOMAIN task = Tasks /\ \A t \in Tasks : task[t] = Roster!Idle
  BY DEF Roster!Init
<1>3. access = Roster!Shut /\ DOMAIN Roster!Shut = {"open", "loading", "busy", "val", "edited"} /\ ~Roster!Shut.open
  BY DEF Roster!Init, Roster!Shut
<1>4. shown.users = Member /\ DOMAIN shown = {"users", "pending", "meter"} /\ DOMAIN ticked = {"users", "invites"} /\ loads = {}
  BY DEF Roster!Init
<1>5. DOMAIN member = Users /\ Member \subseteq Here
  BY DEF Roster!Init, Here, Roster!SeatsAssumption
<1>6. DOMAIN past = {"refused", "faults", "opens"} /\ past.faults = 0 /\ past.opens = 0 /\ opened = {}
  BY DEF Roster!Init
<1> QED
  BY <1>1, <1>2, <1>3, <1>4, <1>5, <1>6 DEF PrefillInv, HandlerFits, RowsFit, Roster!PrefillShown

\* A step of the lists, or of a handler that is not the dialog's.
Aside ==
  /\ UNCHANGED <<access, grants>> /\ opened' = {} /\ DOMAIN member' = Users /\ Here \subseteq Here'
  /\ DOMAIN past' = DOMAIN past /\ past'.faults = 0 /\ past'.opens = past.opens
  /\ DOMAIN shown' = DOMAIN shown /\ shown'.users \subseteq Here' /\ DOMAIN ticked' = DOMAIN ticked
  /\ ticked'.users \in {ticked.users, {}} \/ ~access.open
  /\ \A r \in loads' : r.done /\ r.of = "users" => r.got.users \subseteq Here'

LEMMA AsideStays ==
  ASSUME PrefillInv, Aside, DOMAIN task' = Tasks,
         \A t \in Tasks : \/ task'[t] = task[t]
                          \/ /\ DOMAIN task'[t] = HandlerKeys /\ task'[t].op \notin {"prefill", "access", "delete"}
                             /\ task'[t].op = "status" => task'[t].step \in {"active", "suspended"}
  PROVE  PrefillInv'
<1>1. \A t \in Tasks : HandlerFits(t)'
  BY DEF PrefillInv, HandlerFits, Aside
<1>2. \A t, v \in Tasks : task'[t].op \in {"prefill", "access"} /\ task'[v].op \in {"prefill", "access"} => t = v
  BY DEF PrefillInv
<1>3. RowsFit'
  BY DEF PrefillInv, RowsFit, Aside
<1>4. Roster!PrefillShown'
  BY DEF PrefillInv, Roster!PrefillShown, Aside
<1> QED
  BY <1>1, <1>2, <1>3, <1>4 DEF PrefillInv, Aside

\* The same for the step of one handler.
LEMMA AsideTask ==
  ASSUME PrefillInv, Aside, NEW t \in Tasks, NEW r, task' = [task EXCEPT ![t] = r], DOMAIN r = HandlerKeys,
         r.op \notin {"prefill", "access", "delete"}, r.op = "status" => r.step \in {"active", "suspended"}
  PROVE  PrefillInv'
<1>1. DOMAIN task' = Tasks /\ task'[t] = r /\ \A v \in Tasks : v # t => task'[v] = task[v]
  BY DEF PrefillInv
<1> QED
  BY <1>1, AsideStays

LEMMA RestAside ==
  ASSUME PrefillInv, UNCHANGED <<access, grants, member, past, opened>>, DOMAIN shown' = DOMAIN shown, shown'.users \subseteq shown.users,
         DOMAIN ticked' = DOMAIN ticked, ticked'.users \in {ticked.users, {}} \/ ~access.open, \A r \in loads' : r \in loads \/ ~r.done
  PROVE  Aside
<1>1. Here' = Here
  BY DEF Here
<1> QED
  BY <1>1 DEF PrefillInv, RowsFit, Aside

\* What Asking adds is not answered yet.
LEMMA AskedLoads == ASSUME NEW S, Roster!Asking(S) PROVE \A r \in loads' : r \in loads \/ ~r.done
<1>1. ASSUME NEW of PROVE ~[of |-> of, done |-> FALSE, got |-> Roster!NoLists].done
  OBVIOUS
<1> QED
  BY <1>1 DEF Roster!Asking

LEMMA IdlingFacts == DOMAIN Roster!Idle = HandlerKeys /\ Roster!Idle.op = "idle" /\ Roster!Idle.step = "none"
  BY DEF Roster!Idle, HandlerKeys

\* The commands that begin.
LEMMA BeginsAside ==
  ASSUME OneOpening, PrefillInv, NEW t \in Tasks,
         Roster!SubmitInvite(t) \/ Roster!Resend(t) \/ Roster!Revoke(t) \/ Roster!BulkSetStatus(t)
  PROVE  PrefillInv'
<1>1. CASE Roster!SubmitInvite(t)
  <2>1. PICK s : /\ task' = [task EXCEPT ![t] = [Roster!Idle EXCEPT !.op = "invite", !.todo = s, !.step = "count"]]
                 /\ UNCHANGED <<access, grants, member, past, opened, shown, ticked, loads>>
    BY <1>1, Zenon DEF Roster!SubmitInvite, Roster!Begin, Roster!rows, Roster!page
  <2>2. PICK r : r = [Roster!Idle EXCEPT !.op = "invite", !.todo = s, !.step = "count"]
    OBVIOUS
  <2>3. DOMAIN r = HandlerKeys /\ r.op = "invite"
    BY <2>2, IdlingFacts DEF HandlerKeys
  <2>4. Aside
    BY <2>1, RestAside
  <2> QED
    BY <2>1, <2>2, <2>3, <2>4, AsideTask
<1>2. CASE Roster!Resend(t)
  <2>1. PICK S : /\ task' = [task EXCEPT ![t] = [Roster!Idle EXCEPT !.op = "resend", !.who = S, !.step = "each"]]
                 /\ UNCHANGED <<access, grants, member, past, opened, shown, ticked, loads>>
    BY <1>2, Zenon DEF Roster!Resend, Roster!Begin, Roster!rows, Roster!page
  <2>2. PICK r : r = [Roster!Idle EXCEPT !.op = "resend", !.who = S, !.step = "each"]
    OBVIOUS
  <2>3. DOMAIN r = HandlerKeys /\ r.op = "resend"
    BY <2>2, IdlingFacts DEF HandlerKeys
  <2>4. Aside
    BY <2>1, RestAside
  <2> QED
    BY <2>1, <2>2, <2>3, <2>4, AsideTask
<1>3. CASE Roster!Revoke(t)
  <2>1. PICK S, op : /\ task' = [task EXCEPT ![t] = [Roster!Idle EXCEPT !.op = op, !.who = S, !.prev = shown.pending, !.step = "each"]]
                     /\ op = "revoke" \/ op = "bulk"
                     /\ shown' = [shown EXCEPT !.pending = @ \ S] /\ ticked' = [ticked EXCEPT !.invites = @ \ S]
                     /\ UNCHANGED <<access, grants, member, past, opened, loads>>
    BY <1>3, Zenon DEF Roster!Revoke, Roster!Begin, Roster!rows
  <2>2. PICK r : r = [Roster!Idle EXCEPT !.op = op, !.who = S, !.prev = shown.pending, !.step = "each"]
    OBVIOUS
  <2>3. DOMAIN r = HandlerKeys /\ r.op = op
    BY <2>2, IdlingFacts DEF HandlerKeys
  <2>4. DOMAIN shown = {"users", "pending", "meter"} /\ DOMAIN ticked = {"users", "invites"}
    BY DEF PrefillInv, RowsFit
  <2>5. DOMAIN shown' = DOMAIN shown /\ shown'.users = shown.users /\ DOMAIN ticked' = DOMAIN ticked /\ ticked'.users = ticked.users
    BY <2>1, <2>4
  <2>6. Aside
    BY <2>1, <2>5, RestAside
  <2> QED
    BY <2>1, <2>2, <2>3, <2>6, AsideTask
<1>4. CASE Roster!BulkSetStatus(t)
  <2>1. PICK st \in {"active", "suspended"} :
          /\ task' = [task EXCEPT ![t] = [Roster!Idle EXCEPT !.op = "status", !.who = ticked.users, !.step = st]]
          /\ UNCHANGED <<access, grants, member, past, opened, shown, ticked, loads>>
    BY <1>4 DEF Roster!BulkSetStatus, Roster!Begin, Roster!rows, Roster!page
  <2>2. PICK r : r = [Roster!Idle EXCEPT !.op = "status", !.who = ticked.users, !.step = st]
    OBVIOUS
  <2>3. DOMAIN r = HandlerKeys /\ r.op = "status" /\ r.step = st
    BY <2>2, IdlingFacts DEF HandlerKeys
  <2>4. Aside
    BY <2>1, RestAside
  <2> QED
    BY <2>1, <2>2, <2>3, <2>4, AsideTask
<1> QED
  BY <1>1, <1>2, <1>3, <1>4

\* A handler that goes on with another step, list or set of users.
LEMMA GoesOn ==
  ASSUME PrefillInv, NEW t \in Tasks, task[t].op \notin {"prefill", "access"}, Aside,
         NEW todo, NEW who, NEW step, task[t].op = "status" => step = task[t].step,
         NEW r, r = [task[t] EXCEPT !.todo = todo, !.who = who, !.step = step], task' = [task EXCEPT ![t] = r]
  PROVE  PrefillInv'
<1>2. HandlerFits(t)
  BY DEF PrefillInv
<1>3. DOMAIN task[t] = HandlerKeys
  BY <1>2 DEF HandlerFits
<1>4. DOMAIN r = HandlerKeys /\ r.op = task[t].op /\ r.step = step
  BY <1>3 DEF HandlerKeys
<1> QED
  BY <1>2, <1>4, AsideTask DEF HandlerFits

LEMMA StepGoesOn ==
  ASSUME PrefillInv, NEW t \in Tasks, task[t].op \notin {"prefill", "access"}, Aside,
         NEW todo, NEW who, NEW step, task[t].op = "status" => step = task[t].step,
         \/ task' = [task EXCEPT ![t].step = step]
         \/ task' = [task EXCEPT ![t].who = who] /\ step = task[t].step
         \/ task' = [task EXCEPT ![t].who = who, ![t].step = step]
         \/ task' = [task EXCEPT ![t].todo = todo, ![t].step = step]
  PROVE  PrefillInv'
<1>0. DOMAIN task[t] = HandlerKeys /\ t \in DOMAIN task
  BY DEF PrefillInv, HandlerFits
<1>1. CASE task' = [task EXCEPT ![t].step = step]
  <2>1. PICK r : r = [task[t] EXCEPT !.step = step]
    OBVIOUS
  <2>2. r = [task[t] EXCEPT !.todo = task[t].todo, !.who = task[t].who, !.step = step]
    BY <1>0, <2>1 DEF HandlerKeys
  <2>3. task' = [task EXCEPT ![t] = r]
    BY <1>0, <1>1, <2>1
  <2> QED
    BY <2>2, <2>3, GoesOn, Zenon
<1>2. CASE task' = [task EXCEPT ![t].who = who] /\ step = task[t].step
  <2>1. PICK r : r = [task[t] EXCEPT !.who = who]
    OBVIOUS
  <2>2. r = [task[t] EXCEPT !.todo = task[t].todo, !.who = who, !.step = step]
    BY <1>0, <1>2, <2>1 DEF HandlerKeys
  <2>3. task' = [task EXCEPT ![t] = r]
    BY <1>0, <1>2, <2>1
  <2> QED
    BY <2>2, <2>3, GoesOn, Zenon
<1>3. CASE task' = [task EXCEPT ![t].who = who, ![t].step = step]
  <2>1. PICK r : r = [task[t] EXCEPT !.who = who, !.step = step]
    OBVIOUS
  <2>2. r = [task[t] EXCEPT !.todo = task[t].todo, !.who = who, !.step = step]
    BY <1>0, <2>1 DEF HandlerKeys
  <2>3. task' = [task EXCEPT ![t] = r]
    BY <1>0, <1>3, <2>1
  <2> QED
    BY <2>2, <2>3, GoesOn, Zenon
<1>4. CASE task' = [task EXCEPT ![t].todo = todo, ![t].step = step]
  <2>1. PICK r : r = [task[t] EXCEPT !.todo = todo, !.step = step]
    OBVIOUS
  <2>2. r = [task[t] EXCEPT !.todo = todo, !.who = task[t].who, !.step = step]
    BY <1>0, <2>1 DEF HandlerKeys
  <2>3. task' = [task EXCEPT ![t] = r]
    BY <1>0, <1>4, <2>1
  <2> QED
    BY <2>2, <2>3, GoesOn, Zenon
<1> QED
  BY <1>1, <1>2, <1>3, <1>4

\* The steps of the other handlers.
LEMMA StepsAside ==
  ASSUME OneOpening, PrefillInv, NEW t \in Tasks,
         \/ Roster!CountSeats(t) \/ Roster!RevokePrior(t) \/ Roster!InsertInvite(t)
         \/ Roster!ResendOne(t) \/ Roster!RevokeOne(t) \/ Roster!SetOne(t)
  PROVE  PrefillInv'
<1>0. HandlerFits(t)
  BY DEF PrefillInv
<1>1. CASE Roster!CountSeats(t)
  <2>1. /\ task[t].step = "count" /\ UNCHANGED <<access, grants, member, past, opened, shown, ticked, loads>>
        /\ task' = [task EXCEPT ![t].step = IF member[Roster!Head(task[t].todo)] = "active" \/ Roster!Full THEN "failed" ELSE "revoke"]
    BY <1>1 DEF Roster!CountSeats, Roster!rows, Roster!page
  <2>2. task[t].op \notin {"prefill", "access", "status"} /\ Aside
    BY <1>0, <2>1, RestAside DEF HandlerFits
  <2> QED
    BY <2>1, <2>2, StepGoesOn
<1>2. CASE Roster!RevokePrior(t)
  <2>1. /\ task[t].step = "revoke" /\ UNCHANGED <<access, grants, member, past, opened, shown, ticked, loads>>
        /\ task' = [task EXCEPT ![t].step = "insert"]
    BY <1>2 DEF Roster!RevokePrior, Roster!page
  <2>2. task[t].op \notin {"prefill", "access", "status"} /\ Aside
    BY <1>0, <2>1, RestAside DEF HandlerFits
  <2> QED
    BY <2>1, <2>2, StepGoesOn
<1>3. CASE Roster!InsertInvite(t)
  <2>1. /\ task[t].step = "insert" /\ UNCHANGED <<access, grants, member, past, opened, shown, ticked, loads>>
        /\ \/ task' = [task EXCEPT ![t].step = "failed"]
           \/ \E todo, step : task' = [task EXCEPT ![t].todo = todo, ![t].step = step]
    BY <1>3 DEF Roster!InsertInvite, Roster!page
  <2>2. task[t].op \notin {"prefill", "access", "status"} /\ Aside
    BY <1>0, <2>1, RestAside DEF HandlerFits
  <2>3. CASE task' = [task EXCEPT ![t].step = "failed"]
    BY <2>2, <2>3, StepGoesOn
  <2>4. CASE \E todo, step : task' = [task EXCEPT ![t].todo = todo, ![t].step = step]
    <3>1. PICK todo, step : task' = [task EXCEPT ![t].todo = todo, ![t].step = step]
      BY <2>4
    <3> QED
      BY <2>2, <3>1, StepGoesOn
  <2> QED
    BY <2>1, <2>3, <2>4
<1>4. CASE Roster!ResendOne(t)
  <2>1. PICK who : /\ task[t].op = "resend" /\ UNCHANGED <<access, grants, member, past, opened, shown, ticked, loads>>
                   /\ task' = [task EXCEPT ![t].who = who]
    BY <1>4 DEF Roster!ResendOne, Roster!Resent, Roster!page
  <2>2. Aside
    BY <2>1, RestAside
  <2> QED
    BY <2>1, <2>2, StepGoesOn
<1>5. CASE Roster!RevokeOne(t)
  <2>1. PICK who, step, i :
             /\ task[t].op \in {"revoke", "bulk"} /\ UNCHANGED <<access, grants, member, opened, shown, ticked, loads>>
             /\ past' = past \/ past' = [past EXCEPT !.refused = @ \cup {i}]
             /\ task' = [task EXCEPT ![t].who = who, ![t].step = step]
    BY <1>5 DEF Roster!RevokeOne, Roster!page
  <2>2. DOMAIN past' = DOMAIN past /\ past'.faults = 0 /\ past'.opens = past.opens
    BY <2>1 DEF PrefillInv
  <2>3. Here' = Here
    BY <2>1 DEF Here
  <2>4. Aside
    BY <2>1, <2>2, <2>3 DEF Aside, PrefillInv, RowsFit
  <2> QED
    BY <2>1, <2>4, StepGoesOn
<1>6. CASE Roster!SetOne(t)
  <2>1. PICK u \in task[t].who :
             /\ task[t].op = "status" /\ UNCHANGED <<access, grants, past, opened, shown, ticked, loads>>
             /\ member' = IF member[u] = "none" THEN member ELSE [member EXCEPT ![u] = task[t].step]
             /\ task' = [task EXCEPT ![t].who = @ \ {u}]
    BY <1>6 DEF Roster!SetOne, Roster!page
  <2>2. PICK who : task' = [task EXCEPT ![t].who = who]
    BY <2>1
  <2>3. Here' = Here /\ DOMAIN member' = Users
    BY <1>0, <2>1 DEF Here, HandlerFits, PrefillInv
  <2>4. Aside
    BY <2>1, <2>3 DEF Aside, PrefillInv, RowsFit
  <2> QED
    BY <2>1, <2>2, <2>4, StepGoesOn
<1> QED
  BY <1>1, <1>2, <1>3, <1>4, <1>5, <1>6

LEMMA EndsAside ==
  ASSUME OneOpening, PrefillInv, NEW t \in Tasks,
         \/ Roster!CloseInvite(t) \/ Roster!CancelInvite(t) \/ Roster!FinishResend(t)
         \/ Roster!FinishRevoke(t) \/ Roster!FinishStatus(t)
  PROVE  PrefillInv'
<1>1. task' = [task EXCEPT ![t] = Roster!Idle]
  BY DEF Roster!CloseInvite, Roster!CancelInvite, Roster!FinishResend, Roster!FinishRevoke, Roster!FinishStatus, Roster!End
<1>2. DOMAIN shown = {"users", "pending", "meter"} /\ DOMAIN ticked = {"users", "invites"}
  BY DEF PrefillInv, RowsFit
<1>3. UNCHANGED <<access, grants, member, past, opened>>
  BY DEF Roster!CloseInvite, Roster!CancelInvite, Roster!FinishResend, Roster!FinishRevoke, Roster!FinishStatus, Roster!rows, Roster!page
<1>4. \A r \in loads' : r \in loads \/ ~r.done
  BY AskedLoads DEF Roster!CloseInvite, Roster!CancelInvite, Roster!FinishResend, Roster!FinishRevoke, Roster!FinishStatus
<1>5. DOMAIN ticked' = DOMAIN ticked /\ ticked'.users \in {ticked.users, {}}
  <2>1. ticked' = ticked \/ ticked' = [ticked EXCEPT !.invites = {}] \/ ticked' = [ticked EXCEPT !.users = {}]
    BY DEF Roster!CloseInvite, Roster!CancelInvite, Roster!FinishResend, Roster!FinishRevoke, Roster!FinishStatus, Roster!page
  <2> QED
    BY <1>2, <2>1
<1>6. CASE ~Roster!FinishStatus(t)
  <2>1. PICK prev : shown' = shown \/ shown' = [shown EXCEPT !.pending = prev]
    BY <1>6 DEF Roster!CloseInvite, Roster!CancelInvite, Roster!FinishResend, Roster!FinishRevoke, Roster!page
  <2>2. DOMAIN shown' = DOMAIN shown /\ shown'.users = shown.users
    BY <1>2, <2>1
  <2>3. Aside
    BY <1>3, <1>4, <1>5, <2>2, RestAside
  <2> QED
    BY <1>1, <2>3, IdlingFacts, AsideTask
<1>7. CASE Roster!FinishStatus(t)
  <2>1. shown' = [shown EXCEPT !.users = Roster!Snapshot("users").users]
    BY <1>7 DEF Roster!FinishStatus
  <2>2. Roster!Snapshot("users").users = Here
    BY DEF Roster!Snapshot, Roster!NoLists, Here
  <2>3. DOMAIN shown' = DOMAIN shown /\ shown'.users = Here
    BY <1>2, <2>1, <2>2
  <2>4. Here' = Here
    BY <1>3 DEF Here
  <2>5. Aside
    BY <1>3, <1>4, <1>5, <2>3, <2>4 DEF Aside, PrefillInv, RowsFit
  <2> QED
    BY <1>1, <2>5, IdlingFacts, AsideTask
<1> QED
  BY <1>6, <1>7

LEMMA ListsAside ==
  ASSUME OneOpening, PrefillInv,
         \/ Roster!AnswerList \/ Roster!ApplyList \/ Roster!FailList \/ Roster!TickUser \/ Roster!TickInvite
         \/ Roster!Lapse \/ Roster!Lookup \/ Roster!Accept
         \/ Roster!OpenBuy \/ Roster!ChangeQty \/ Roster!PriceSeats \/ Roster!ConfirmBuy \/ Roster!AddSeats \/ Roster!CloseBuy
  PROVE  PrefillInv'
<1>0. ~Roster!Faulty /\ ~Roster!FailList /\ ~Roster!Lookup /\ ~Roster!Accept
  <2>1. past.faults = 0 /\ MaxFaults = 0 /\ opened = {} /\ "accept" \notin Commands
    BY DEF OneOpening, PrefillInv
  <2>2. ~Roster!Faulty
    BY <2>1 DEF Roster!Faulty
  <2> QED
    BY <2>1, <2>2 DEF Roster!FailList, Roster!Lookup, Roster!Accept
<1>1. DOMAIN shown = {"users", "pending", "meter"} /\ DOMAIN ticked = {"users", "invites"} /\ shown.users \subseteq Here
  BY DEF PrefillInv, RowsFit
<1>2. CASE Roster!AnswerList
  <2>1. PICK r \in loads : /\ loads' = (loads \ {r}) \cup {[of |-> r.of, done |-> TRUE, got |-> Roster!Snapshot(r.of)]}
                           /\ UNCHANGED <<access, grants, member, past, opened, shown, ticked, task>>
    BY <1>2 DEF Roster!AnswerList, Roster!rows, Roster!page
  <2>2. PICK s : s = [of |-> r.of, done |-> TRUE, got |-> Roster!Snapshot(r.of)]
    OBVIOUS
  <2>3. s.of = r.of /\ s.got = Roster!Snapshot(r.of)
    BY <2>2
  <2>4. Roster!Snapshot("users").users = Here
    BY DEF Roster!Snapshot, Roster!NoLists, Here
  <2>5. Here' = Here
    BY <2>1 DEF Here
  <2>6. Aside
    BY <2>1, <2>2, <2>3, <2>4, <2>5 DEF Aside, PrefillInv, RowsFit
  <2> QED
    BY <2>1, <2>6, AsideStays DEF PrefillInv
<1>3. CASE Roster!ApplyList
  <2>1. PICK r \in loads : /\ r.done /\ loads' = loads \ {r} /\ shown' = [shown EXCEPT ![r.of] = r.got[r.of]]
                           /\ UNCHANGED <<access, grants, member, past, opened, ticked, task>>
    BY <1>3 DEF Roster!ApplyList, Roster!rows
  <2>2. DOMAIN shown' = DOMAIN shown /\ shown'.users = IF r.of = "users" THEN r.got.users ELSE shown.users
    BY <1>1, <2>1
  <2>3. Here' = Here
    BY <2>1 DEF Here
  <2>4. Aside
    BY <1>1, <2>1, <2>2, <2>3 DEF Aside, PrefillInv, RowsFit
  <2> QED
    BY <2>1, <2>4, AsideStays DEF PrefillInv
<1>4. CASE Roster!TickUser
  <2>1. PICK users : ticked' = [ticked EXCEPT !.users = users] /\ ~access.open /\ UNCHANGED <<access, grants, member, past, opened, shown, loads, task>>
    BY <1>4 DEF Roster!TickUser, Roster!Modal, Roster!rows
  <2>2. Aside
    BY <1>1, <2>1, RestAside
  <2> QED
    BY <2>1, <2>2, AsideStays DEF PrefillInv
<1>5. CASE Roster!TickInvite
  <2>1. PICK them : ticked' = [ticked EXCEPT !.invites = them] /\ UNCHANGED <<access, grants, member, past, opened, shown, loads, task>>
    BY <1>5 DEF Roster!TickInvite, Roster!rows
  <2>2. DOMAIN ticked' = DOMAIN ticked /\ ticked'.users = ticked.users
    BY <1>1, <2>1
  <2>3. Aside
    BY <2>1, <2>2, RestAside
  <2> QED
    BY <2>1, <2>3, AsideStays DEF PrefillInv
<1>6. CASE \/ Roster!Lapse \/ Roster!OpenBuy \/ Roster!ChangeQty \/ Roster!PriceSeats \/ Roster!ConfirmBuy \/ Roster!AddSeats \/ Roster!CloseBuy
  <2>1. UNCHANGED <<access, grants, member, past, opened, shown, ticked, task>> /\ \A r \in loads' : r \in loads \/ ~r.done
    BY <1>0, <1>6, AskedLoads, Zenon DEF Roster!Lapse, Roster!OpenBuy, Roster!ChangeQty, Roster!PriceSeats, Roster!ConfirmBuy,
         Roster!AddSeats, Roster!CloseBuy, Roster!rows, Roster!page
  <2>2. Aside
    BY <2>1, RestAside
  <2> QED
    BY <2>1, <2>2, AsideStays DEF PrefillInv
<1> QED
  BY <1>0, <1>2, <1>3, <1>4, <1>5, <1>6

\* The dialog's own steps: the others' handlers stay what they are.
LEMMA DialogTask ==
  ASSUME PrefillInv, NEW t \in Tasks, NEW r, task' = [task EXCEPT ![t] = r], DOMAIN r = HandlerKeys,
         \A v \in Tasks : v # t => task[v].op \notin {"prefill", "access"},
         UNCHANGED <<member, opened, shown, loads>>, RowsFit', DOMAIN access' = DOMAIN access,
         DOMAIN past' = DOMAIN past, past'.faults = 0, past'.opens \in Nat, past'.opens = 0 => ~access'.open,
         HandlerFits(t)', Roster!PrefillShown'
  PROVE  PrefillInv'
<1>1. DOMAIN task' = Tasks /\ task'[t] = r /\ \A v \in Tasks : v # t => task'[v] = task[v]
  BY DEF PrefillInv
<1>2. \A v \in Tasks : HandlerFits(v)'
  BY <1>1 DEF PrefillInv, HandlerFits
<1> QED
  BY <1>1, <1>2 DEF PrefillInv

LEMMA DialogSteps ==
  ASSUME OneOpening, PrefillInv, NEW t \in Tasks,
         Roster!OpenAccess(t) \/ Roster!Prefill(t) \/ Roster!SubmitAccess(t) \/ Roster!GrantOne(t) \/ Roster!FinishAccess(t)
  PROVE  PrefillInv'
<1>0. /\ HandlerFits(t) /\ RowsFit /\ DOMAIN access = {"open", "loading", "busy", "val", "edited"} /\ opened = {}
      /\ DOMAIN past = {"refused", "faults", "opens"} /\ past.faults = 0 /\ past.opens \in Nat /\ DOMAIN task = Tasks
  BY DEF PrefillInv
<1>a. ~Roster!Faulty
  BY <1>0 DEF OneOpening, Roster!Faulty
<1>b. task[t].op \in {"prefill", "access"} => \A v \in Tasks : v # t => task[v].op \notin {"prefill", "access"}
  BY DEF PrefillInv
<1>1. CASE Roster!OpenAccess(t)
  <2>1. /\ ~access.open /\ past.opens < MaxOpens /\ past' = [past EXCEPT !.opens = @ + 1]
        /\ access' = [Roster!Shut EXCEPT !.open = TRUE, !.loading = TRUE]
        /\ task' = [task EXCEPT ![t] = [Roster!Idle EXCEPT !.op = "prefill", !.who = ticked.users]]
        /\ UNCHANGED <<member, opened, shown, loads, ticked>>
    BY <1>1 DEF Roster!OpenAccess, Roster!UserBar, Roster!Offered, Roster!Modal, Roster!Begin, Roster!rows
  <2>2. past.opens = 0 /\ past'.opens = 1 /\ past'.faults = 0 /\ DOMAIN past' = DOMAIN past
    BY <1>0, <2>1 DEF OneOpening
  <2>3. DOMAIN access' = DOMAIN access /\ access'.loading /\ ~access'.busy
    BY <1>0, <2>1 DEF Roster!Shut
  <2>4. PICK r : r = [Roster!Idle EXCEPT !.op = "prefill", !.who = ticked.users]
    OBVIOUS
  <2>5. DOMAIN r = HandlerKeys /\ r.op = "prefill" /\ r.who = ticked.users /\ r.step = "none"
    BY <2>4, IdlingFacts DEF HandlerKeys
  <2>6. \A v \in Tasks : task[v].op \notin {"prefill", "access"}
    BY <2>1, <2>2 DEF PrefillInv, HandlerFits
  <2>7. HandlerFits(t)'
    BY <1>0, <2>1, <2>2, <2>3, <2>4, <2>5 DEF HandlerFits
  <2>8. RowsFit' /\ Roster!PrefillShown'
    BY <1>0, <2>1, <2>3 DEF RowsFit, Here, Roster!PrefillShown
  <2>9. past'.opens \in Nat /\ (past'.opens = 0 => ~access'.open)
    BY <2>2
  <2>a. task' = [task EXCEPT ![t] = r] /\ UNCHANGED <<member, opened, shown, loads>>
    BY <2>1, <2>4
  <2>b. \A v \in Tasks : v # t => task[v].op \notin {"prefill", "access"}
    BY <2>6
  <2> QED
    BY <2>2, <2>3, <2>5, <2>7, <2>8, <2>9, <2>a, <2>b, DialogTask
<1>2. CASE Roster!Prefill(t)
  <2>1. /\ task[t].op = "prefill" /\ access' = [access EXCEPT !.val = Roster!Union(task[t].who), !.loading = FALSE]
        /\ task' = [task EXCEPT ![t] = Roster!Idle] /\ UNCHANGED <<member, grants, opened, shown, loads, ticked, past>>
    BY <1>2, <1>a, Zenon DEF Roster!Prefill, Roster!End, Roster!rows
  <2>2. DOMAIN access' = DOMAIN access /\ access'.val = Roster!Union(task[t].who) /\ access'.open = access.open
    BY <1>0, <2>1
  <2>3. access.open => ticked.users \in {task[t].who, {}}
    BY <1>0, <2>1 DEF HandlerFits
  <2>4. Roster!PrefillShown'
    BY <2>1, <2>2, <2>3 DEF Roster!PrefillShown, Roster!Union
  <2>5. HandlerFits(t)' /\ RowsFit'
    BY <1>0, <2>1, IdlingFacts DEF HandlerFits, RowsFit, Here
  <2>6. past.opens = 0 => ~access'.open
    BY <2>2 DEF PrefillInv
  <2> QED
    BY <1>0, <1>b, <2>1, <2>2, <2>4, <2>5, <2>6, IdlingFacts, DialogTask
<1>3. CASE Roster!SubmitAccess(t)
  <2>1. /\ access.open /\ ~access.loading /\ ~access.busy /\ access' = [access EXCEPT !.busy = TRUE]
        /\ task' = [task EXCEPT ![t] = [Roster!Idle EXCEPT !.op = "access", !.who = ticked.users \cap shown.users, !.prev = access.val, !.step = "each"]]
        /\ UNCHANGED <<member, opened, shown, loads, ticked, past>>
    BY <1>3 DEF Roster!SubmitAccess, Roster!Begin, Roster!rows
  <2>2. DOMAIN access' = DOMAIN access /\ access'.open = access.open /\ access'.busy = TRUE /\ access'.loading = access.loading
    BY <1>0, <2>1
  <2>4. PICK r : r = [Roster!Idle EXCEPT !.op = "access", !.who = ticked.users \cap shown.users, !.prev = access.val, !.step = "each"]
    OBVIOUS
  <2>5. DOMAIN r = HandlerKeys /\ r.op = "access" /\ r.who = ticked.users \cap shown.users /\ r.step = "each"
    BY <2>4, IdlingFacts DEF HandlerKeys
  <2>6. \A v \in Tasks : task[v].op \notin {"prefill", "access"}
    BY <2>1 DEF PrefillInv, HandlerFits
  <2>7. HandlerFits(t)'
    BY <1>0, <2>1, <2>2, <2>4, <2>5 DEF HandlerFits, RowsFit, Here
  <2>8. RowsFit' /\ Roster!PrefillShown'
    BY <1>0, <2>1, <2>2 DEF RowsFit, Here, Roster!PrefillShown
  <2>9. past.opens = 0 => ~access'.open
    BY <2>2 DEF PrefillInv
  <2> QED
    BY <1>0, <2>1, <2>2, <2>4, <2>5, <2>6, <2>7, <2>8, <2>9, DialogTask
<1>4. CASE Roster!GrantOne(t)
  <2>1. PICK u \in task[t].who :
          /\ task[t].op = "access" /\ UNCHANGED <<member, opened, shown, loads, ticked, past, access>>
          /\ task' = [task EXCEPT ![t].who = @ \ {u}, ![t].step = IF member[u] = "none" THEN "failed" ELSE @]
    BY <1>4, <1>a DEF Roster!GrantOne, Roster!page
  <2>2. member[u] # "none"
    BY <1>0, <2>1 DEF HandlerFits, Here
  <2>3. PICK r : r = [task[t] EXCEPT !.who = task[t].who \ {u}]
    OBVIOUS
  <2>4. DOMAIN r = HandlerKeys /\ r.op = "access" /\ r.who = task[t].who \ {u} /\ r.step = task[t].step
    BY <1>0, <2>1, <2>3 DEF HandlerFits, HandlerKeys
  <2>5. task' = [task EXCEPT ![t] = r]
    <3>1. [task EXCEPT ![t].who = task[t].who \ {u}] = [task EXCEPT ![t] = r]
      BY <1>0, <2>3
    <3>2. task' = [task EXCEPT ![t].who = task[t].who \ {u}, ![t].step = @]
      BY <2>1, <2>2
    <3>3. task' = [[task EXCEPT ![t] = r] EXCEPT ![t].step = @]
      BY <3>1, <3>2, Zenon
    <3>a. r = [k \in HandlerKeys |-> r[k]]
      BY <2>3, <2>4
    <3>4. [r EXCEPT !.step = @] = r
      BY <3>a
    <3> QED
      BY <1>0, <3>3, <3>4
  <2>6. HandlerFits(t)'
    BY <1>0, <2>1, <2>4, <2>5 DEF HandlerFits, Here
  <2>7. RowsFit' /\ Roster!PrefillShown'
    BY <1>0, <2>1 DEF RowsFit, Here, Roster!PrefillShown, HandlerFits
  <2>8. past.opens = 0 => ~access'.open
    BY <2>1 DEF PrefillInv
  <2> QED
    BY <1>0, <1>b, <2>1, <2>4, <2>5, <2>6, <2>7, <2>8, DialogTask
<1>5. CASE Roster!FinishAccess(t)
  <2>1. /\ task[t].op = "access" /\ task[t].step = "each"
        /\ access' = [access EXCEPT !.busy = FALSE, !.open = task[t].step = "failed"]
        /\ ticked' = [ticked EXCEPT !.users = {}] /\ task' = [task EXCEPT ![t] = Roster!Idle]
        /\ UNCHANGED <<member, opened, shown, loads, past>>
    BY <1>0, <1>5 DEF HandlerFits, Roster!FinishAccess, Roster!End, Roster!rows
  <2>2. DOMAIN access' = DOMAIN access /\ ~access'.open
    BY <1>0, <2>1
  <2>3. DOMAIN ticked' = DOMAIN ticked
    BY <2>1
  <2>4. RowsFit' /\ Roster!PrefillShown' /\ HandlerFits(t)'
    BY <1>0, <2>1, <2>2, <2>3, IdlingFacts DEF RowsFit, Here, Roster!PrefillShown, HandlerFits
  <2> QED
    BY <1>0, <1>b, <2>1, <2>2, <2>4, IdlingFacts, DialogTask
<1> QED
  BY <1>1, <1>2, <1>3, <1>4, <1>5

LEMMA DialogEdits == ASSUME OneOpening, PrefillInv, Roster!EditAccess \/ Roster!CloseAccess PROVE PrefillInv'
<1>1. PICK a : /\ access' = a /\ access.open /\ ~access.busy /\ DOMAIN a = DOMAIN access
               /\ ~a.open \/ (~access.loading /\ a.edited)
               /\ UNCHANGED <<member, grants, opened, shown, loads, ticked, past, task>>
  <2>1. DOMAIN access = {"open", "loading", "busy", "val", "edited"}
    BY DEF PrefillInv
  <2>2. CASE Roster!EditAccess
    <3>1. PICK S : access' = [access EXCEPT !.val = S, !.edited = TRUE] /\ access.open /\ ~access.loading /\ ~access.busy
      BY <2>2, Zenon DEF Roster!EditAccess
    <3>2. DOMAIN access' = DOMAIN access /\ access'.edited
      BY <2>1, <3>1
    <3> QED
      BY <2>2, <3>1, <3>2, Zenon DEF Roster!EditAccess, Roster!rows
  <2>3. CASE Roster!CloseAccess
    <3>1. DOMAIN access' = DOMAIN access /\ ~access'.open
      BY <2>1, <2>3 DEF Roster!CloseAccess
    <3> QED
      BY <2>3, <3>1 DEF Roster!CloseAccess, Roster!rows
  <2> QED
    BY <2>2, <2>3
<1>2. ASSUME NEW v \in Tasks PROVE HandlerFits(v)'
  <2>1. HandlerFits(v) /\ task[v].op # "access"
    BY <1>1 DEF PrefillInv, HandlerFits
  <2> QED
    BY <1>1, <2>1 DEF HandlerFits
<1>3. RowsFit' /\ Roster!PrefillShown'
  BY <1>1 DEF PrefillInv, RowsFit, Here, Roster!PrefillShown
<1> QED
  BY <1>1, <1>2, <1>3 DEF PrefillInv

LEMMA PrefillStep == OneOpening /\ PrefillInv /\ [Roster!Next]_Roster!vars => PrefillInv'
<1> SUFFICES ASSUME OneOpening, PrefillInv, [Roster!Next]_Roster!vars PROVE PrefillInv'
  OBVIOUS
<1>1. CASE UNCHANGED Roster!vars
  <2>1. UNCHANGED <<member, grants, opened, shown, ticked, access, loads, task, past>>
    BY <1>1 DEF Roster!vars, Roster!rows, Roster!page
  <2> QED
    BY <2>1 DEF PrefillInv, HandlerFits, RowsFit, Here, Roster!PrefillShown
<1>2. ASSUME NEW t \in Tasks, Roster!Handler(t) PROVE PrefillInv'
  <2>1. ~Roster!ConfirmDelete(t) /\ ~Roster!RemoveMember(t) /\ ~Roster!FinishDelete(t)
    <3>1. "delete" \notin Commands /\ task[t].op # "delete"
      BY DEF OneOpening, PrefillInv, HandlerFits
    <3> QED
      BY <3>1, Zenon DEF Roster!ConfirmDelete, Roster!Offered, Roster!RemoveMember, Roster!FinishDelete
  <2> QED
    BY <1>2, <2>1, BeginsAside, StepsAside, EndsAside, DialogSteps DEF Roster!Handler
<1> QED
  BY <1>1, <1>2, ListsAside, DialogEdits DEF Roster!Next

\* Members.tsx, the access dialog: filled in after it is on the screen, by
\* requests that other handlers and the lists' answers overlap, it shows what
\* the users it is about have, as long as it is opened once and nobody joins
\* or leaves.
THEOREM SeatsPrefillShown ==
  ASSUME OneOpening, Roster!SeatsAssumption PROVE Roster!Spec => []Roster!PrefillShown
<1>0. OneOpening /\ Roster!SeatsAssumption
  OBVIOUS
<1>1. PrefillInv => Roster!PrefillShown
  BY DEF PrefillInv
<1> QED
  BY <1>0, <1>1, PrefillStart, PrefillStep, PTL DEF Roster!Spec
----------------------------------------------------------------------------
(* The gate of a share link.                                               *)

\* Of a protected folder, a request that was served had the right password.
Slots == {"kind", "n", "of", "pw", "said"}
GateInv ==
  /\ Link!GateHolds
  /\ \A t \in tasks : DOMAIN t = Slots
  /\ Protected => \A t \in tasks : t.said = "ok" /\ t.kind # "meta" => proven

LEMMA SendStep == ASSUME GateInv, NEW kind, NEW f, Link!Send(kind, f) PROVE GateInv'
<1>1. DOMAIN Link!Request(kind, f) = Slots /\ Link!Request(kind, f).said = "no"
  BY DEF Link!Request, Slots
<1>2. tasks' = tasks \cup {Link!Request(kind, f)} /\ UNCHANGED <<unlocked, entries, proven>>
  BY DEF Link!Send
<1>3. QED
  BY <1>1, <1>2 DEF GateInv, Link!GateHolds

LEMMA ServeStep == ASSUME GateInv, NEW t \in tasks, Link!Serve(t) PROVE GateInv'
<1>1. PICK said \in {"ok", "failed"} :
        /\ said = "ok" /\ t.kind # "meta" => Link!Authorized(t)
        /\ tasks' = (tasks \ {t}) \cup {[t EXCEPT !.said = said]}
  BY DEF Link!Serve
<1>2. (proven' <=> proven \/ t.pw = "right") /\ UNCHANGED <<unlocked, entries>>
  BY DEF Link!Serve
<1>3. /\ DOMAIN [t EXCEPT !.said = said] = Slots /\ [t EXCEPT !.said = said].kind = t.kind
      /\ [t EXCEPT !.said = said].said = said
  BY DEF GateInv, Slots
<1>4. Protected => \A r \in tasks' : r.said = "ok" /\ r.kind # "meta" => proven'
  BY <1>1, <1>2, <1>3 DEF GateInv, Link!Authorized
<1>5. \A r \in tasks' : DOMAIN r = Slots
  BY <1>1, <1>3 DEF GateInv
<1>6. Link!GateHolds'
  BY <1>2 DEF GateInv, Link!GateHolds
<1>7. QED
  BY <1>4, <1>5, <1>6 DEF GateInv

LEMMA MetStep == ASSUME GateInv, NEW t \in tasks, Link!Met(t) PROVE GateInv'
<1>1. UNCHANGED <<unlocked, entries, proven>>
  BY DEF Link!Met
<1>2. CASE tasks' \subseteq tasks
  BY <1>1, <1>2 DEF GateInv, Link!GateHolds
<1>3. CASE ~Protected /\ tasks' = {[t EXCEPT !.kind = "browse", !.of = Root, !.said = "no"]}
  <2>1. DOMAIN [t EXCEPT !.kind = "browse", !.of = Root, !.said = "no"] = Slots
    BY DEF GateInv, Slots
  <2>2. QED
    BY <1>1, <1>3, <2>1 DEF GateInv, Link!GateHolds
<1>4. QED
  BY <1>2, <1>3 DEF Link!Met

LEMMA BrowsedStep == ASSUME GateInv, NEW t \in tasks, Link!Browsed(t) PROVE GateInv'
<1>1. /\ tasks' \subseteq tasks /\ UNCHANGED proven /\ t.kind # "meta"
      /\ unlocked' <=> unlocked \/ t.said = "ok"
      /\ t.said # "ok" => entries' = entries
  BY DEF Link!Browsed
<1>2. Link!GateHolds'
  BY <1>1 DEF GateInv, Link!GateHolds
<1>3. QED
  BY <1>1, <1>2 DEF GateInv

LEMMA GateStep == GateInv /\ [Link!Next]_Link!vars => GateInv'
<1> SUFFICES ASSUME GateInv, [Link!Next]_Link!vars
             PROVE  GateInv'
    OBVIOUS
<1>1. CASE UNCHANGED <<unlocked, entries, tasks, proven>>
  BY <1>1 DEF GateInv, Link!GateHolds
<1>2. CASE UNCHANGED Link!vars \/ Link!Revoke \/ \E p \in Link!Passwords : Link!Type(p)
  BY <1>1, <1>2 DEF Link!vars, Link!Revoke, Link!Type
<1>3. CASE Link!Unlock \/ Link!downloadFile
  BY <1>3, SendStep DEF Link!Unlock, Link!downloadFile, Link!browse
<1>4. ASSUME NEW f, Link!openInto(f)
      PROVE  GateInv'
  BY <1>4, SendStep DEF Link!openInto, Link!browse
<1>5. ASSUME NEW i, Link!goCrumb(i)
      PROVE  GateInv'
  BY <1>5, SendStep DEF Link!goCrumb, Link!browse
<1>6. QED
  BY <1>2, <1>3, <1>4, <1>5, ServeStep, MetStep, BrowsedStep DEF Link!Next, Link!Answer

LEMMA GateInit == Link!Init => GateInv
<1> SUFFICES ASSUME Link!Init
             PROVE  GateInv
    OBVIOUS
<1>1. PICK p : tasks = {[kind |-> "meta", n |-> 1, of |-> NONE, pw |-> p, said |-> "no"]}
  BY Zenon DEF Link!Init
<1>2. entries = NONE /\ unlocked = FALSE
  BY Zenon DEF Link!Init
<1>3. \A t \in tasks : DOMAIN t = Slots /\ t.said = "no"
  BY <1>1 DEF Slots
<1>4. QED
  BY <1>2, <1>3 DEF GateInv, Link!GateHolds

\* PublicBrowse and PublicDownload: whatever the page asks for, in any order and
\* with any answers lost, nothing of a protected folder is shown before the right
\* password was given.
THEOREM LandingGateHolds == Link!Spec => []Link!GateHolds
<1>1. GateInv => Link!GateHolds
  BY DEF GateInv
<1>2. QED
  BY <1>1, GateInit, GateStep, PTL DEF Link!Spec

\* The visitor waits for the answers, and no request fails.
Calm == Patient /\ ~Faults /\ Link!LandingAssumption /\ NONE \notin Link!Folders

\* One request at a time; once something is listed, the folder of the path is,
\* or has been asked for with the password that opens it.
AskFits(t) ==
  /\ DOMAIN t = Slots /\ t.said \in {"no", "ok", "failed"} /\ t.kind \in {"meta", "browse", "download"}
  /\ t.kind = "meta" => entries = NONE /\ crumbs = <<>>
  /\ t.kind = "browse" => t.of = Link!Path
  /\ t.kind = "download" => entries # NONE /\ entries = Link!Path
  /\ t.kind # "meta" /\ Protected => t.pw = pw
  /\ t.said = "ok" /\ t.kind # "meta" => open /\ Link!Authorized(t)
  /\ t.said = "failed" => entries = NONE
PathInv ==
  /\ \A t, u \in tasks : t = u
  /\ \A t \in tasks : AskFits(t)
  /\ crumbs \in Seq(Link!Folders) /\ Link!PathNests
  /\ entries = NONE => crumbs = <<>>
  /\ entries # NONE => open /\ (Protected => unlocked /\ pw = "right")
  /\ Protected /\ unlocked => entries # NONE
  /\ tasks = {} /\ entries # NONE => entries = Link!Path

LEMMA PathInit == Link!Init => PathInv
<1> SUFFICES ASSUME Link!Init PROVE PathInv
  OBVIOUS
<1>1. PICK t : t = [kind |-> "meta", n |-> 1, of |-> NONE, pw |-> "", said |-> "no"]
  BY Zenon
<1>2. tasks = {t} /\ crumbs = <<>> /\ entries = NONE /\ ~unlocked
  BY <1>1, Zenon DEF Link!Init
<1>3. DOMAIN t = Slots /\ t.said = "no" /\ t.kind = "meta"
  BY <1>1, Zenon DEF Slots
<1> QED
  BY <1>2, <1>3 DEF PathInv, AskFits, Link!PathNests, Link!Path

\* A request for a folder, once the path names it.
LEMMA PathSend ==
  ASSUME Calm, PathInv, tasks = {}, NEW kind \in {"browse", "download"}, NEW f, Link!Send(kind, f),
         crumbs' \in Seq(Link!Folders), Link!PathNests', entries = NONE => crumbs' = <<>>,
         kind = "browse" => f = Link!Path', kind = "download" => entries # NONE /\ entries = Link!Path'
  PROVE  PathInv'
<1>1. PICK t : t = Link!Request(kind, f)
  OBVIOUS
<1>2. DOMAIN t = Slots /\ t.kind = kind /\ t.of = f /\ t.pw = pw /\ t.said = "no"
  BY <1>1 DEF Link!Request, Slots
<1>3. tasks' = {t} /\ UNCHANGED <<open, pw, unlocked, entries>>
  BY <1>1 DEF Link!Send
<1>4. AskFits(t)'
  BY <1>2, <1>3 DEF AskFits
<1> QED
  BY <1>3, <1>4 DEF PathInv

LEMMA PathUser == 
  ASSUME Calm, PathInv,
         \/ \E w \in Link!Passwords : Link!Type(w)
         \/ \E f \in Link!Folders : Link!openInto(f)
         \/ \E i \in 0..MaxDepth : Link!goCrumb(i)
         \/ Link!Unlock \/ Link!downloadFile \/ Link!Revoke
  PROVE  PathInv'
<1>1. ASSUME NEW w \in Link!Passwords, Link!Type(w) PROVE PathInv'
  <2>1. entries = NONE /\ tasks = {} /\ UNCHANGED <<open, unlocked, entries, crumbs, tasks>>
    BY <1>1 DEF Link!Type, Link!May, Link!locked, PathInv, Calm
  <2> QED
    BY <2>1 DEF PathInv, Link!PathNests, Link!Path
<1>2. ASSUME NEW f \in Link!Folders, Link!openInto(f) PROVE PathInv'
  <2>1. /\ tasks = {} /\ entries # NONE /\ f \in Inside[entries] /\ crumbs' = Append(crumbs, f) /\ Link!Send("browse", f)
        /\ entries = Link!Path
    BY <1>2 DEF Link!openInto, Link!May, Link!browse, PathInv, Calm
  <2>2. /\ crumbs \in Seq(Link!Folders) /\ crumbs' \in Seq(Link!Folders) /\ Len(crumbs') = Len(crumbs) + 1
        /\ crumbs'[Len(crumbs) + 1] = f /\ \A i \in 1..Len(crumbs) : crumbs'[i] = crumbs[i]
    BY <2>1 DEF PathInv
  <2>3. Link!Path' = f
    BY <2>2 DEF Link!Path
  <2>4. Link!PathNests'
    BY <2>1, <2>2 DEF Link!PathNests, PathInv, Link!Path
  <2> QED
    BY <2>1, <2>2, <2>3, <2>4, PathSend
<1>3. ASSUME NEW i \in 0..MaxDepth, Link!goCrumb(i) PROVE PathInv'
  <2>1. /\ tasks = {} /\ i \in Nat /\ i <= Len(crumbs) /\ crumbs' = SubSeq(crumbs, 1, i)
        /\ Link!Send("browse", IF i = 0 THEN Root ELSE crumbs[i])
    BY <1>3 DEF Link!goCrumb, Link!May, Link!browse, Calm
  <2>2. /\ crumbs \in Seq(Link!Folders) /\ crumbs' \in Seq(Link!Folders) /\ Len(crumbs') = i
        /\ \A j \in 1..i : crumbs'[j] = crumbs[j]
    BY <2>1 DEF PathInv
  <2>3. Link!Path' = IF i = 0 THEN Root ELSE crumbs[i]
    BY <2>1, <2>2 DEF Link!Path
  <2>4. Link!PathNests'
    BY <2>1, <2>2 DEF Link!PathNests, PathInv
  <2>5. entries = NONE => crumbs' = <<>>
    BY <2>1, <2>2 DEF PathInv
  <2> QED
    BY <2>1, <2>2, <2>3, <2>4, <2>5, PathSend
<1>4. ASSUME Link!Unlock PROVE PathInv'
  <2>1. tasks = {} /\ entries = NONE /\ crumbs = <<>> /\ UNCHANGED crumbs /\ Link!Send("browse", Root)
    BY <1>4 DEF Link!Unlock, Link!May, Link!locked, Link!browse, PathInv, Calm
  <2>2. Link!Path' = Root /\ Link!PathNests' /\ crumbs' \in Seq(Link!Folders)
    BY <2>1 DEF Link!Path, Link!PathNests
  <2> QED
    BY <2>1, <2>2, PathSend
<1>5. ASSUME Link!downloadFile PROVE PathInv'
  <2>1. tasks = {} /\ entries # NONE /\ entries = Link!Path /\ UNCHANGED crumbs /\ Link!Send("download", entries)
    BY <1>5 DEF Link!downloadFile, Link!May, PathInv, Calm
  <2>2. Link!Path' = Link!Path /\ Link!PathNests' /\ crumbs' \in Seq(Link!Folders)
    BY <2>1 DEF Link!Path, Link!PathNests, PathInv
  <2> QED
    BY <2>1, <2>2, PathSend
<1>6. ~Link!Revoke
  BY DEF Calm, Link!Revoke
<1> QED
  BY <1>1, <1>2, <1>3, <1>4, <1>5, <1>6

LEMMA PathAnswer == ASSUME Calm, PathInv, NEW t \in tasks, Link!Answer(t) PROVE PathInv'
<1>1. AskFits(t) /\ tasks = {t}
  BY DEF PathInv
<1>2. CASE Link!Serve(t)
  <2>1. PICK said \in {"ok", "failed"} :
          /\ said = "ok" /\ t.kind # "meta" => open /\ Link!Authorized(t)
          /\ said = "failed" => ~open \/ (t.kind # "meta" /\ ~Link!Authorized(t))
          /\ tasks' = (tasks \ {t}) \cup {[t EXCEPT !.said = said]}
          /\ UNCHANGED <<open, pw, unlocked, entries, crumbs>>
    BY <1>2 DEF Link!Serve, Link!ByToken, Calm
  <2>2. PICK u : u = [t EXCEPT !.said = said]
    OBVIOUS
  <2>3. DOMAIN u = Slots /\ u.kind = t.kind /\ u.of = t.of /\ u.pw = t.pw /\ u.said = said
    BY <1>1, <2>2 DEF AskFits, Slots
  <2>4. said = "failed" => entries = NONE
    BY <1>1, <2>1 DEF PathInv, AskFits, Link!Authorized
  <2>5. AskFits(u)'
    BY <1>1, <2>1, <2>3, <2>4 DEF AskFits, Link!Authorized, Link!Path
  <2>6. tasks' = {u}
    BY <1>1, <2>1, <2>2
  <2> QED
    BY <2>1, <2>5, <2>6, <1>1 DEF PathInv, Link!PathNests, Link!Path
<1>3. CASE Link!Met(t)
  <2>1. t.kind = "meta" /\ entries = NONE /\ crumbs = <<>> /\ UNCHANGED <<open, pw, unlocked, entries, crumbs>>
    BY <1>1, <1>3 DEF Link!Met, AskFits
  <2>2. CASE ~Protected /\ tasks' = {[t EXCEPT !.kind = "browse", !.of = Root, !.said = "no"]}
    <3>1. PICK u : u = [t EXCEPT !.kind = "browse", !.of = Root, !.said = "no"]
      OBVIOUS
    <3>2. DOMAIN t = Slots
      BY <1>1 DEF AskFits
    <3>3. DOMAIN u = Slots /\ u.kind = "browse" /\ u.of = Root /\ u.said = "no"
      BY <3>1, <3>2 DEF Slots
    <3>4. AskFits(u)'
      BY <2>1, <2>2, <3>3 DEF AskFits, Link!Path
    <3> QED
      BY <2>1, <2>2, <3>1, <3>4 DEF PathInv, Link!PathNests, Link!Path
  <2>3. CASE tasks' = {}
    BY <2>1, <2>3 DEF PathInv, Link!PathNests, Link!Path
  <2> QED
    BY <1>1, <1>3, <2>2, <2>3 DEF Link!Met
<1>4. CASE Link!Browsed(t)
  <2>1. /\ t.kind # "meta" /\ t.said # "no" /\ tasks' = {} /\ unlocked' = (unlocked \/ t.said = "ok")
        /\ entries' = (IF t.said = "ok" /\ t.kind = "browse" THEN t.of ELSE entries)
        /\ UNCHANGED <<open, pw, crumbs>>
    BY <1>1, <1>4 DEF Link!Browsed
  <2>2. CASE t.said = "failed"
    BY <1>1, <2>1, <2>2 DEF PathInv, AskFits, Link!PathNests, Link!Path
  <2>3. CASE t.said = "ok"
    <3>0. Link!Path \in Link!Folders
      BY DEF PathInv, Calm, Link!Path, Link!LandingAssumption
    <3>1. entries' = Link!Path /\ Link!Path' = Link!Path /\ open /\ (Protected => pw = "right") /\ unlocked'
      BY <1>1, <2>1, <2>3 DEF AskFits, Link!Authorized, Link!Path
    <3> QED
      BY <1>1, <2>1, <3>0, <3>1 DEF PathInv, Link!PathNests, Calm
  <2> QED
    BY <1>1, <2>1, <2>2, <2>3 DEF AskFits
<1> QED
  BY <1>2, <1>3, <1>4 DEF Link!Answer

LEMMA PathStep == Calm /\ PathInv /\ [Link!Next]_Link!vars => PathInv'
<1> SUFFICES ASSUME Calm, PathInv, [Link!Next]_Link!vars PROVE PathInv'
  OBVIOUS
<1>1. CASE UNCHANGED Link!vars
  <2>1. UNCHANGED <<open, pw, unlocked, entries, crumbs, tasks>>
    BY <1>1 DEF Link!vars
  <2> QED
    BY <2>1 DEF PathInv, AskFits, Link!PathNests, Link!Path, Link!Authorized
<1> QED
  BY <1>1, PathUser, PathAnswer DEF Link!Next

\* ShareLanding's openInto and goCrumb write the path before the folder is
\* there: once the visitor has the answer, the listing is the path's folder.
THEOREM LandingEntriesFit == ASSUME Calm PROVE Link!Spec => []Link!EntriesFitOrFailed
<1>1. PathInv => Link!EntriesFitOrFailed
  BY DEF PathInv, Link!EntriesFitOrFailed, Link!Rested
<1>2. Calm
  OBVIOUS
<1> QED
  BY <1>1, <1>2, PathInit, PathStep, PTL DEF Link!Spec

\* openInto and goCrumb: the path is one of folders in folders from the shared
\* one down, also after jumps back to the middle of it.
THEOREM LandingPathNests == ASSUME Calm PROVE Link!Spec => []Link!PathNests
<1>1. PathInv => Link!PathNests
  BY DEF PathInv
<1>2. Calm
  OBVIOUS
<1> QED
  BY <1>1, <1>2, PathInit, PathStep, PTL DEF Link!Spec
----------------------------------------------------------------------------
(* Signing in.                                                             *)

\* Of the requests that share a button at most one is out for the page on the
\* screen, so that an answer that frees the button frees it for good reason;
\* a popup is of this page or of an earlier one.
ByForm == {"login", "twofa", "forgot"}
Sheet == [mode : Entry!Modes, email : Users \cup {NONE}, pending : Users \cup {NONE},
          method : {"totp", "passkey"}, recovery : BOOLEAN, sent : BOOLEAN, busy : BOOLEAN,
          pkBusy : BOOLEAN, error : BOOLEAN, connecting : Providers \cup {NONE}]
Request == [kind : ByForm \cup {"passkey", "probe"}, user : Users \cup {NONE}, mount : Nat,
            remember : BOOLEAN, mode : Entry!Modes]
PopupRecord == [open : BOOLEAN, heard : BOOLEAN, mount : Nat, grace : BOOLEAN]
OneOut == at = "login" => \A s, t \in tasks :
            /\ s.mount = mount /\ t.mount = mount
            /\ (s.kind \in ByForm /\ t.kind \in ByForm) \/ (s.kind = "passkey" /\ t.kind = "passkey")
            => s = t
EntryTypes == /\ mount \in Nat \ {0} /\ cookie \in Users \cup {NONE}
              /\ page \in Sheet /\ tasks \subseteq Request /\ popup \in PopupRecord
              /\ popup.mount <= mount /\ \A t \in tasks : t.mount <= mount
EntryInv == EntryTypes /\ OneOut /\ Entry!ChallengeFits /\ Entry!ConnectingHeard /\ Entry!ButtonWaits

\* A click that starts nothing.
LEMMA ClickStep ==
  ASSUME EntryInv, page' \in Sheet, Entry!ChallengeFits', page'.connecting = page.connecting,
         page'.busy = page.busy, page'.pkBusy = page.pkBusy,
         UNCHANGED <<at, mount, cookie, tasks, popup>>
  PROVE  EntryInv'
<1>1. EntryTypes' /\ OneOut'
  BY DEF EntryInv, EntryTypes, OneOut
<1>2. Entry!ConnectingHeard' /\ Entry!ButtonWaits'
  BY DEF EntryInv, Entry!ConnectingHeard, Entry!ButtonWaits
<1>3. QED
  BY <1>1, <1>2 DEF EntryInv

\* A request is sent: its button was free, so no other request is out for it.
LEMMA RequestStep ==
  ASSUME EntryInv, NEW r \in Request, r.mount = mount, tasks' = tasks \cup {r},
         page' \in Sheet, Entry!ChallengeFits', page'.connecting = page.connecting,
         \/ r.kind \in ByForm /\ ~page.busy /\ page'.busy /\ page'.pkBusy = page.pkBusy
         \/ r.kind = "passkey" /\ ~page.pkBusy /\ page'.pkBusy /\ page'.busy = page.busy,
         UNCHANGED <<at, mount, cookie, popup>>
  PROVE  EntryInv'
<1>1. EntryTypes'
  BY DEF EntryInv, EntryTypes
<1>2. Entry!ConnectingHeard'
  BY DEF EntryInv, Entry!ConnectingHeard
<1>3. CASE r.kind \in ByForm /\ ~page.busy /\ page'.busy /\ page'.pkBusy = page.pkBusy
  <2>1. at = "login" => \A t \in tasks : t.mount = mount => t.kind \notin ByForm
    BY <1>3 DEF EntryInv, Entry!ButtonWaits, ByForm
  <2>2. OneOut'
    BY <1>3, <2>1 DEF EntryInv, OneOut, ByForm
  <2>3. Entry!ButtonWaits'
    BY <1>3 DEF EntryInv, Entry!ButtonWaits, ByForm
  <2>4. QED
    BY <1>1, <1>2, <2>2, <2>3 DEF EntryInv
<1>4. CASE r.kind = "passkey" /\ ~page.pkBusy /\ page'.pkBusy /\ page'.busy = page.busy
  <2>1. at = "login" => \A t \in tasks : t.mount = mount => t.kind # "passkey"
    BY <1>4 DEF EntryInv, Entry!ButtonWaits
  <2>2. OneOut'
    BY <1>4, <2>1 DEF EntryInv, OneOut, ByForm
  <2>3. Entry!ButtonWaits'
    BY <1>4 DEF EntryInv, Entry!ButtonWaits
  <2>4. QED
    BY <1>1, <1>2, <2>2, <2>3 DEF EntryInv
<1>5. QED
  BY <1>3, <1>4

\* An answer frees the button of its own request and no other.
LEMMA AnswerStep ==
  ASSUME EntryInv, NEW t \in tasks, tasks' = tasks \ {t}, UNCHANGED <<mount, popup>>,
         at' = at \/ at' \in {"select", "home"}, cookie' \in Users \cup {NONE},
         page' \in Sheet, Entry!ChallengeFits', page'.connecting = page.connecting,
         page'.busy = page.busy \/ (t.kind \in ByForm /\ t.mount = mount),
         page'.pkBusy = page.pkBusy \/ (t.kind = "passkey" /\ t.mount = mount)
  PROVE  EntryInv'
<1>1. EntryTypes' /\ OneOut'
  BY DEF EntryInv, EntryTypes, OneOut
<1>2. Entry!ConnectingHeard'
  BY DEF EntryInv, Entry!ConnectingHeard
<1>3. ASSUME at' = "login"
      PROVE  Entry!ButtonWaits'
  <2>1. at = "login"
    BY <1>3
  <2>2. ASSUME NEW s \in tasks', s.mount = mount, s.kind \in ByForm
        PROVE  page'.busy
    <3>1. page.busy
      BY <2>1, <2>2 DEF EntryInv, Entry!ButtonWaits, ByForm
    <3>2. ~(t.kind \in ByForm /\ t.mount = mount)
      BY <2>1, <2>2 DEF EntryInv, OneOut
    <3>3. QED
      BY <3>1, <3>2
  <2>3. ASSUME NEW s \in tasks', s.mount = mount, s.kind = "passkey"
        PROVE  page'.pkBusy
    <3>1. page.pkBusy
      BY <2>1, <2>3 DEF EntryInv, Entry!ButtonWaits
    <3>2. ~(t.kind = "passkey" /\ t.mount = mount)
      BY <2>1, <2>3 DEF EntryInv, OneOut
    <3>3. QED
      BY <3>1, <3>2
  <2>4. QED
    BY <2>2, <2>3 DEF Entry!ButtonWaits, ByForm
<1>4. Entry!ButtonWaits'
  BY <1>3 DEF Entry!ButtonWaits
<1>5. QED
  BY <1>1, <1>2, <1>4 DEF EntryInv

\* The page is loaded again, or opened anew: nothing of this mount is out yet.
LEMMA MountStep ==
  ASSUME EntryInv, mount' = mount + 1, cookie' \in Users \cup {NONE},
         page' \in Sheet, Entry!ChallengeFits', page'.connecting = NONE,
         popup' = popup \/ popup' = Entry!NoPopup,
         tasks' \subseteq tasks \/ \E r \in Request :
            r.kind = "probe" /\ r.mount = mount + 1 /\ tasks' = {r}
  PROVE  EntryInv'
<1>1. popup' \in PopupRecord /\ popup'.mount <= mount
  <2>1. CASE popup' = popup
    BY <2>1 DEF EntryInv, EntryTypes
  <2>2. CASE popup' = Entry!NoPopup
    BY <2>2 DEF EntryInv, EntryTypes, Entry!NoPopup, PopupRecord
  <2>3. QED
    BY <2>1, <2>2
<1>2. tasks' \subseteq Request /\ \A t \in tasks' : t.mount <= mount' /\ (t.mount = mount' => t.kind = "probe")
  <2>1. CASE tasks' \subseteq tasks
    <3>1. ASSUME NEW t \in tasks'
          PROVE  t \in Request /\ t.mount <= mount' /\ t.mount # mount'
      <4>1. t \in Request /\ t.mount \in Nat /\ t.mount <= mount /\ mount \in Nat
        BY <2>1, <3>1 DEF EntryInv, EntryTypes, Request
      <4>2. QED
        BY <4>1
    <3>2. QED
      BY <3>1
  <2>2. ASSUME NEW r \in Request, r.kind = "probe", r.mount = mount + 1, tasks' = {r}
        PROVE  tasks' \subseteq Request /\ \A t \in tasks' : t.mount <= mount' /\ t.kind = "probe"
    BY <2>2 DEF EntryInv, EntryTypes
  <2>3. QED
    BY <2>1, <2>2
<1>3. EntryTypes'
  <2>1. mount' \in Nat \ {0} /\ popup'.mount <= mount'
    BY <1>1 DEF EntryInv, EntryTypes, PopupRecord
  <2>2. QED
    BY <1>1, <1>2, <2>1 DEF EntryTypes
<1>4. OneOut' /\ Entry!ButtonWaits'
  BY <1>2 DEF OneOut, Entry!ButtonWaits, ByForm
<1>5. popup'.mount # mount'
  BY <1>1 DEF EntryInv, EntryTypes, PopupRecord
<1>6. Entry!ConnectingHeard'
  BY <1>5 DEF Entry!ConnectingHeard
<1>7. QED
  BY <1>3, <1>4, <1>6 DEF EntryInv

\* Something befalls the popup: the page keeps its buttons.
LEMMA PopupStep ==
  ASSUME EntryInv, UNCHANGED <<at, mount, tasks>>, cookie' \in Users \cup {NONE},
         page' \in Sheet, Entry!ChallengeFits', popup' \in PopupRecord, popup'.mount <= mount,
         page'.busy = page.busy, page'.pkBusy = page.pkBusy, Entry!ConnectingHeard'
  PROVE  EntryInv'
<1>1. EntryTypes' /\ OneOut'
  BY DEF EntryInv, EntryTypes, OneOut
<1>2. Entry!ButtonWaits'
  BY DEF EntryInv, Entry!ButtonWaits
<1>3. QED
  BY <1>1, <1>2 DEF EntryInv

LEMMA ChallengeFacts ==
  ASSUME NEW u
  PROVE  /\ Entry!Challenge(u) \in {"none", "totp", "passkey"}
         /\ Entry!Challenge(u) = "totp" => u \in Totp
         /\ Entry!Challenge(u) = "passkey" => u \in Passkeys \ Totp
         /\ Entry!Challenge(u) = "none" => u \notin (Totp \ trusted) \cup (Passkeys \ Totp)
  BY DEF Entry!Challenge

LEMMA FormSteps ==
  ASSUME Entry!UsersAssumption, EntryInv, Entry!Form
  PROVE  EntryInv'
<1> USE DEF EntryInv, EntryTypes, Sheet, Entry!Modes
<1>0. page \in Sheet
  BY DEF EntryInv, EntryTypes
<1>1. ASSUME NEW u \in Users, Entry!Continue(u)
      PROVE  EntryInv'
  BY <1>0, <1>1, ClickStep DEF Entry!Continue, Entry!Click, Entry!ChallengeFits
<1>2. CASE Entry!Forgot \/ Entry!BackToSignIn
  BY <1>0, <1>2, ClickStep, Zenon DEF Entry!Forgot, Entry!BackToSignIn, Entry!Click, Entry!Reset, Entry!ChallengeFits
<1>3. CASE Entry!UseRecovery
  BY <1>0, <1>3, ClickStep DEF Entry!UseRecovery, Entry!Click, Entry!ChallengeFits
<1>4. CASE Entry!CancelPopup
  <2>1. page' = [page EXCEPT !.connecting = NONE, !.error = FALSE] /\ popup' = Entry!NoPopup
    BY <1>4 DEF Entry!CancelPopup
  <2>2. page' \in Sheet /\ page'.connecting = NONE /\ page'.mode = page.mode /\ page'.pending = page.pending
        /\ page'.method = page.method /\ page'.busy = page.busy /\ page'.pkBusy = page.pkBusy
    BY <1>0, <2>1
  <2>3. popup' \in PopupRecord /\ popup'.mount = 0 /\ ~popup'.heard
    BY <2>1 DEF Entry!NoPopup, PopupRecord
  <2>4. Entry!ChallengeFits' /\ Entry!ConnectingHeard'
    BY <2>2, <2>3 DEF Entry!ChallengeFits, Entry!ConnectingHeard
  <2>5. QED
    BY <1>4, <2>2, <2>3, <2>4, PopupStep DEF Entry!CancelPopup
<1>5. CASE Entry!SubmitPassword
  BY <1>0, <1>5, RequestStep DEF Entry!SubmitPassword, Entry!Send, Entry!Task, Entry!ChallengeFits, Request, ByForm
<1>6. CASE Entry!SubmitForgot
  BY <1>0, <1>6, RequestStep DEF Entry!SubmitForgot, Entry!Send, Entry!Task, Entry!ChallengeFits, Request, ByForm
<1>7. CASE Entry!VerifyPasskey
  BY <1>0, <1>7, RequestStep DEF Entry!VerifyPasskey, Entry!Waiting, Entry!Send, Entry!Task, Entry!ChallengeFits,
     Request, ByForm
<1>8. ASSUME NEW u \in Users, Entry!SignInWithPasskey(u)
      PROVE  EntryInv'
  BY <1>0, <1>8, RequestStep DEF Entry!SignInWithPasskey, Entry!Waiting, Entry!Send, Entry!Task,
     Entry!ChallengeFits, Request, ByForm
<1>9. ASSUME NEW r \in BOOLEAN, Entry!Verify2fa(r)
      PROVE  EntryInv'
  BY <1>0, <1>9, RequestStep DEF Entry!Verify2fa, Entry!Send, Entry!Task, Entry!ChallengeFits, Request, ByForm
<1>10. QED
  BY <1>1, <1>2, <1>3, <1>4, <1>5, <1>6, <1>7, <1>8, <1>9 DEF Entry!Form

\* What the page becomes when an answer comes: its own form, or unchanged.
LEMMA OnPageFacts ==
  ASSUME EntryInv, NEW t \in tasks, NEW p, Entry!OnPage(t, p)
  PROVE  page' = page \/ (t.mount = mount /\ page' = p)
  BY DEF Entry!OnPage

\* The form as a request's answer finds it: the button of the request is free.
LEMMA IdleFacts ==
  ASSUME EntryInv, NEW t \in tasks
  PROVE  /\ Entry!Idle(t) \in Sheet /\ Entry!Idle(t).connecting = page.connecting
         /\ Entry!Idle(t).mode = page.mode /\ Entry!Idle(t).pending = page.pending
         /\ Entry!Idle(t).method = page.method
         /\ t.kind # "passkey" => Entry!Idle(t).pkBusy = page.pkBusy
         /\ t.kind = "passkey" => Entry!Idle(t).busy = page.busy
  BY DEF EntryInv, EntryTypes, Sheet, Entry!Idle

LEMMA SessionStep ==
  ASSUME EntryInv, NEW t \in tasks, t.kind \in ByForm \cup {"passkey"}, Entry!Settle(t),
         Entry!GoAfterAuth(t.user), Entry!OnPage(t, Entry!Idle(t))
  PROVE  EntryInv'
<1>1. cookie' \in Users \cup {NONE} /\ at' \in {"select", "home"}
  BY DEF Entry!GoAfterAuth, EntryInv, EntryTypes, Request
<1>2. page' = page \/ (t.mount = mount /\ page' = Entry!Idle(t))
  BY OnPageFacts
<1>3. page \in Sheet /\ Entry!ChallengeFits
  BY DEF EntryInv, EntryTypes
<1>4. page' \in Sheet /\ Entry!ChallengeFits' /\ page'.connecting = page.connecting
  BY <1>2, <1>3, IdleFacts DEF Entry!ChallengeFits
<1>5. /\ page'.busy = page.busy \/ (t.kind \in ByForm /\ t.mount = mount)
      /\ page'.pkBusy = page.pkBusy \/ (t.kind = "passkey" /\ t.mount = mount)
  BY <1>2, IdleFacts
<1>6. QED
  BY <1>1, <1>4, <1>5, AnswerStep DEF Entry!Settle

\* The answer brings the form another step, a word or an error.
LEMMA WordStep ==
  ASSUME EntryInv, NEW t \in tasks, t.kind \in ByForm \cup {"passkey"}, Entry!Settle(t),
         UNCHANGED <<at, cookie>>, NEW p \in Sheet, Entry!OnPage(t, p),
         p.connecting = Entry!Idle(t).connecting,
         p.busy = Entry!Idle(t).busy, p.pkBusy = Entry!Idle(t).pkBusy,
         p.mode = "twofa" =>
           IF p.method = "totp" THEN p.pending \in Totp ELSE p.pending \in Passkeys \ Totp
  PROVE  EntryInv'
<1>1. page' = page \/ (t.mount = mount /\ page' = p)
  BY OnPageFacts
<1>2. page \in Sheet /\ Entry!ChallengeFits /\ cookie \in Users \cup {NONE}
  BY DEF EntryInv, EntryTypes
<1>3. page' \in Sheet /\ Entry!ChallengeFits' /\ page'.connecting = page.connecting
  BY <1>1, <1>2, IdleFacts DEF Entry!ChallengeFits
<1>4. /\ page'.busy = page.busy \/ (t.kind \in ByForm /\ t.mount = mount)
      /\ page'.pkBusy = page.pkBusy \/ (t.kind = "passkey" /\ t.mount = mount)
  BY <1>1, IdleFacts
<1>5. QED
  BY <1>2, <1>3, <1>4, AnswerStep DEF Entry!Settle

LEMMA AnswerSteps ==
  ASSUME Entry!UsersAssumption, EntryInv, NEW t \in tasks,
         \/ Entry!AnswerLogin(t) \/ Entry!AnswerFactor(t) \/ Entry!AnswerForgot(t)
         \/ Entry!Refuse(t) \/ Entry!AnswerProbe(t)
  PROVE  EntryInv'
<1>0. page \in Sheet /\ t \in Request /\ Entry!Idle(t) \in Sheet /\ Entry!ChallengeFits
  BY IdleFacts DEF EntryInv, EntryTypes
<1>1. CASE Entry!AnswerFactor(t)
  BY <1>1, SessionStep DEF Entry!AnswerFactor, ByForm
<1>2. CASE Entry!AnswerLogin(t) /\ Entry!Challenge(t.user) = "none"
  BY <1>2, SessionStep DEF Entry!AnswerLogin, ByForm
<1>3. CASE Entry!AnswerLogin(t) /\ Entry!Challenge(t.user) # "none"
  <2> DEFINE p == [Entry!Idle(t) EXCEPT !.mode = "twofa", !.pending = t.user, !.method = Entry!Challenge(t.user)]
  <2>1. p \in Sheet /\ p.connecting = Entry!Idle(t).connecting /\ p.busy = Entry!Idle(t).busy
        /\ p.pkBusy = Entry!Idle(t).pkBusy /\ p.method = Entry!Challenge(t.user) /\ p.pending = t.user
    BY <1>0, <1>3, ChallengeFacts DEF Sheet, Request, Entry!Modes
  <2>2. Entry!Settle(t) /\ Entry!OnPage(t, p) /\ UNCHANGED <<at, cookie>> /\ t.kind \in ByForm
    BY <1>3 DEF Entry!AnswerLogin, ByForm
  <2> HIDE DEF p
  <2>3. QED
    BY <1>3, <2>1, <2>2, ChallengeFacts, WordStep
<1>4. CASE Entry!AnswerForgot(t)
  <2> DEFINE p == [Entry!Idle(t) EXCEPT !.sent = TRUE]
  <2>1. p \in Sheet /\ p.connecting = Entry!Idle(t).connecting /\ p.busy = Entry!Idle(t).busy
        /\ p.pkBusy = Entry!Idle(t).pkBusy /\ p.method = page.method /\ p.pending = page.pending /\ p.mode = page.mode
    BY <1>0, IdleFacts DEF Sheet
  <2>2. Entry!Settle(t) /\ Entry!OnPage(t, p) /\ UNCHANGED <<at, cookie>> /\ t.kind \in ByForm
    BY <1>4 DEF Entry!AnswerForgot, Entry!Quiet, ByForm
  <2> HIDE DEF p
  <2>3. QED
    BY <1>0, <2>1, <2>2, WordStep DEF Entry!ChallengeFits
<1>5. CASE Entry!Refuse(t)
  <2> DEFINE p == [Entry!Idle(t) EXCEPT !.error = TRUE]
  <2>1. p \in Sheet /\ p.connecting = Entry!Idle(t).connecting /\ p.busy = Entry!Idle(t).busy
        /\ p.pkBusy = Entry!Idle(t).pkBusy /\ p.method = page.method /\ p.pending = page.pending /\ p.mode = page.mode
    BY <1>0, IdleFacts DEF Sheet
  <2>2. /\ Entry!Settle(t) /\ Entry!OnPage(t, p) /\ UNCHANGED <<at, cookie>>
        /\ t.kind \in ByForm \cup {"passkey"}
    BY <1>5 DEF Entry!Refuse, Entry!Quiet, ByForm
  <2> HIDE DEF p
  <2>3. QED
    BY <1>0, <2>1, <2>2, WordStep DEF Entry!ChallengeFits
<1>6. CASE Entry!AnswerProbe(t) /\ UNCHANGED <<at, page, mount>>
  BY <1>0, <1>6, AnswerStep DEF Entry!AnswerProbe, EntryInv, EntryTypes, Entry!ChallengeFits
<1>7. CASE Entry!AnswerProbe(t) /\ mount' = mount + 1 /\ page' = Entry!Fresh
  <2>1. page' \in Sheet /\ page'.connecting = NONE /\ page'.mode = "identifier"
    BY <1>7 DEF Entry!Fresh, Sheet, Entry!Modes
  <2>2. QED
    BY <1>7, <2>1, MountStep DEF Entry!AnswerProbe, EntryInv, EntryTypes, Entry!ChallengeFits
<1>8. QED
  BY <1>1, <1>2, <1>3, <1>4, <1>5, <1>6, <1>7 DEF Entry!AnswerProbe

\* The page is told of the popup's end only if it still listens to it.
LEMMA HeardStep ==
  ASSUME Entry!UsersAssumption, EntryInv, at' = at, mount' = mount, tasks' = tasks, cookie' = cookie,
         NEW p \in Sheet, Entry!Heard(p), p.connecting = NONE, p.busy = page.busy, p.pkBusy = page.pkBusy,
         p.mode = "twofa" => page.mode = "twofa" /\ p.pending = page.pending /\ p.method = page.method,
         popup' \in PopupRecord, popup'.mount <= mount, ~popup'.heard
  PROVE  EntryInv'
<1>1. page \in Sheet /\ cookie \in Users \cup {NONE}
  BY DEF EntryInv, EntryTypes
<1>2. page' \in Sheet /\ page'.busy = page.busy /\ page'.pkBusy = page.pkBusy /\ Entry!ChallengeFits'
  BY <1>1 DEF Entry!Heard, EntryInv, Entry!ChallengeFits
<1>3. at = "login" => page'.connecting = NONE
  <2>1. CASE popup.heard /\ popup.mount = mount /\ at = "login"
    BY <2>1 DEF Entry!Heard
  <2>2. CASE ~(popup.heard /\ popup.mount = mount /\ at = "login")
    BY <2>2 DEF Entry!Heard, EntryInv, Entry!ConnectingHeard
  <2>3. QED
    BY <2>1, <2>2
<1>4. Entry!ConnectingHeard'
  BY <1>3 DEF Entry!ConnectingHeard
<1>5. QED
  BY <1>1, <1>2, <1>4, PopupStep

LEMMA PopupSteps ==
  ASSUME Entry!UsersAssumption, EntryInv, Entry!Popup
  PROVE  EntryInv'
<1>0. /\ page \in Sheet /\ popup \in PopupRecord /\ popup.mount <= mount /\ mount \in Nat \ {0}
      /\ Entry!ChallengeFits /\ cookie \in Users \cup {NONE}
  BY DEF EntryInv, EntryTypes
<1>1. Entry!NoPopup \in PopupRecord /\ Entry!NoPopup.mount <= mount /\ ~Entry!NoPopup.heard
  BY <1>0 DEF Entry!NoPopup, PopupRecord
<1>2. ASSUME NEW pr \in Providers, Entry!StartProvider(pr)
      PROVE  EntryInv'
  <2>1. page' \in Sheet /\ page'.connecting = pr /\ page'.mode = page.mode /\ page'.mode = "identifier"
        /\ page'.busy = page.busy /\ page'.pkBusy = page.pkBusy
    BY <1>0, <1>2 DEF Entry!StartProvider, Sheet
  <2>2. popup' \in PopupRecord /\ popup'.mount = mount /\ popup'.heard
    BY <1>0, <1>2 DEF Entry!StartProvider, PopupRecord
  <2>3. Entry!ChallengeFits' /\ Entry!ConnectingHeard'
    BY <1>2, <2>1, <2>2 DEF Entry!StartProvider, Entry!ChallengeFits, Entry!ConnectingHeard, Entry!UsersAssumption
  <2>4. popup'.mount <= mount
    BY <1>0, <2>2
  <2>5. QED
    BY <1>0, <1>2, <2>1, <2>2, <2>3, <2>4, PopupStep DEF Entry!StartProvider
<1>3. ASSUME NEW u \in Users, Entry!Authenticated(u)
      PROVE  EntryInv'
  <2>1. cookie' \in Users \cup {NONE} /\ popup' = Entry!NoPopup
    BY <1>0, <1>3 DEF Entry!Authenticated
  <2>2. CASE popup.heard
    <3>1. Entry!Load(u)
      BY <1>3, <2>2 DEF Entry!Authenticated
    <3> DEFINE r == [kind |-> "probe", user |-> cookie', mount |-> mount + 1, remember |-> FALSE, mode |-> "identifier"]
    <3>2. r \in Request /\ r.kind = "probe" /\ r.mount = mount + 1
      BY <1>0, <2>1 DEF Request, Entry!Modes
    <3>3. tasks' = {r} /\ mount' = mount + 1
      BY <3>1 DEF Entry!Load
    <3>4. CASE Entry!Challenge(u) = "none"
      <4>1. page' = Entry!Fresh
        BY <3>1, <3>4 DEF Entry!Load
      <4>2. page' \in Sheet /\ page'.connecting = NONE /\ Entry!ChallengeFits'
        BY <4>1 DEF Entry!Fresh, Sheet, Entry!Modes, Entry!ChallengeFits
      <4> HIDE DEF r
      <4>3. QED
        BY <2>1, <3>2, <3>3, <4>2, MountStep
    <3>5. CASE Entry!Challenge(u) # "none"
      <4>1. page' = [Entry!Fresh EXCEPT !.mode = "twofa", !.pending = u, !.method = Entry!Challenge(u)]
        BY <3>1, <3>5 DEF Entry!Load
      <4>2. page' \in Sheet /\ page'.connecting = NONE /\ page'.pending = u /\ page'.method = Entry!Challenge(u)
        BY <3>5, <4>1, ChallengeFacts DEF Entry!Fresh, Sheet, Entry!Modes
      <4>3. Entry!ChallengeFits'
        BY <3>5, <4>2, ChallengeFacts DEF Entry!ChallengeFits
      <4> HIDE DEF r
      <4>4. QED
        BY <2>1, <3>2, <3>3, <4>2, <4>3, MountStep
    <3>6. QED
      BY <3>4, <3>5
  <2>3. CASE ~popup.heard
    <3>1. UNCHANGED <<at, page, mount, identity, tasks>>
      BY <1>3, <2>3 DEF Entry!Authenticated
    <3>2. Entry!ChallengeFits' /\ Entry!ConnectingHeard'
      BY <1>1, <2>1, <2>3, <3>1 DEF EntryInv, Entry!ChallengeFits, Entry!ConnectingHeard
    <3>3. QED
      BY <1>0, <1>1, <2>1, <3>1, <3>2, PopupStep
  <2>4. QED
    BY <2>2, <2>3
<1>4. CASE Entry!NoAccount
  <2> DEFINE p == [page EXCEPT !.connecting = NONE, !.mode = "no_account"]
  <2>1. p \in Sheet /\ p.connecting = NONE /\ p.mode = "no_account" /\ p.busy = page.busy /\ p.pkBusy = page.pkBusy
    BY <1>0 DEF Sheet, Entry!Modes
  <2>2. Entry!Heard(p) /\ popup' = Entry!NoPopup /\ UNCHANGED <<at, mount, tasks, cookie>>
    BY <1>4 DEF Entry!NoAccount
  <2> HIDE DEF p
  <2>3. QED
    BY <1>1, <2>1, <2>2, HeardStep
<1>5. CASE Entry!Denied
  <2> DEFINE p == [page EXCEPT !.connecting = NONE, !.error = TRUE]
  <2>1. p \in Sheet /\ p.connecting = NONE /\ p.mode = page.mode /\ p.busy = page.busy /\ p.pkBusy = page.pkBusy
        /\ p.pending = page.pending /\ p.method = page.method
    BY <1>0 DEF Sheet
  <2>2. Entry!Heard(p) /\ popup' = Entry!NoPopup /\ UNCHANGED <<at, mount, tasks, cookie>>
    BY <1>5 DEF Entry!Denied
  <2> HIDE DEF p
  <2>3. QED
    BY <1>1, <2>1, <2>2, HeardStep
<1>6. CASE Entry!GiveUp
  <2> DEFINE p == [page EXCEPT !.connecting = NONE]
  <2>1. p \in Sheet /\ p.connecting = NONE /\ p.mode = page.mode /\ p.busy = page.busy /\ p.pkBusy = page.pkBusy
        /\ p.pending = page.pending /\ p.method = page.method
    BY <1>0 DEF Sheet
  <2>2. Entry!Heard(p) /\ UNCHANGED <<at, mount, tasks, cookie>>
    BY <1>6 DEF Entry!GiveUp
  <2>3. popup' \in PopupRecord /\ popup'.mount <= mount /\ ~popup'.heard
    <3>1. CASE popup.open
      BY <1>0, <1>6, <3>1 DEF Entry!GiveUp, PopupRecord
    <3>2. CASE ~popup.open
      BY <1>1, <1>6, <3>2 DEF Entry!GiveUp
    <3>3. QED
      BY <3>1, <3>2
  <2> HIDE DEF p
  <2>4. QED
    BY <2>1, <2>2, <2>3, HeardStep
<1>7. ASSUME NEW c \in BOOLEAN, Entry!ReturnFocus(c)
      PROVE  EntryInv'
  <2>1. popup' \in PopupRecord /\ popup'.mount = popup.mount /\ popup'.heard = popup.heard
    BY <1>0, <1>7 DEF Entry!ReturnFocus, PopupRecord
  <2>2. UNCHANGED <<at, page, mount, cookie, tasks>>
    BY <1>7 DEF Entry!ReturnFocus
  <2>3. Entry!ChallengeFits' /\ Entry!ConnectingHeard'
    BY <2>1, <2>2 DEF EntryInv, Entry!ChallengeFits, Entry!ConnectingHeard
  <2>4. popup'.mount <= mount
    BY <1>0, <2>1
  <2>5. QED
    BY <1>0, <2>1, <2>2, <2>3, <2>4, PopupStep
<1>8. QED
  BY <1>2, <1>3, <1>4, <1>5, <1>6, <1>7 DEF Entry!Popup

LEMMA EntryStep == Entry!UsersAssumption /\ EntryInv /\ [Entry!Next]_Entry!vars => EntryInv'
<1> SUFFICES ASSUME Entry!UsersAssumption, EntryInv, [Entry!Next]_Entry!vars
             PROVE  EntryInv'
    OBVIOUS
<1>1. CASE UNCHANGED Entry!vars
  BY <1>1 DEF Entry!vars, EntryInv, EntryTypes, OneOut, Entry!ChallengeFits, Entry!ConnectingHeard, Entry!ButtonWaits
<1>2. CASE Entry!Choose
  <2>1. EntryTypes' /\ at' = "home" /\ page' = page
    BY <1>2 DEF Entry!Choose, EntryInv, EntryTypes
  <2>2. QED
    BY <2>1 DEF EntryInv, OneOut, Entry!ChallengeFits, Entry!ConnectingHeard, Entry!ButtonWaits
<1>3. CASE Entry!Logout
  <2>1. page' = Entry!Fresh /\ mount' = mount + 1 /\ UNCHANGED <<popup, tasks>> /\ cookie' \in {NONE, cookie}
    BY <1>3 DEF Entry!Logout
  <2>2. page' \in Sheet /\ page'.connecting = NONE /\ Entry!ChallengeFits'
    BY <2>1 DEF Entry!Fresh, Sheet, Entry!Modes, Entry!ChallengeFits
  <2>3. cookie' \in Users \cup {NONE}
    BY <2>1 DEF EntryInv, EntryTypes
  <2>4. QED
    BY <2>1, <2>2, <2>3, MountStep
<1>4. QED
  BY <1>1, <1>2, <1>3, FormSteps, AnswerSteps, PopupSteps DEF Entry!Next, Entry!Answer

LEMMA EntryInit == Entry!UsersAssumption /\ Entry!Init => EntryInv
<1> SUFFICES ASSUME Entry!UsersAssumption, Entry!Init
             PROVE  EntryInv
    OBVIOUS
<1>1. page \in Sheet /\ page.connecting = NONE /\ page.mode = "identifier"
  BY DEF Entry!Init, Entry!Fresh, Sheet, Entry!Modes
<1> DEFINE r == [kind |-> "probe", user |-> NONE, mount |-> 1, remember |-> FALSE, mode |-> "identifier"]
<1>0. r \in Request /\ r.kind = "probe" /\ r.mount = 1 /\ tasks = {r}
  BY DEF Entry!Init, Request, Entry!Modes
<1> HIDE DEF r
<1>2. \A t \in tasks : t \in Request /\ t.kind = "probe" /\ t.mount = 1
  BY <1>0
<1>3. popup \in PopupRecord /\ popup.mount = 0 /\ ~popup.heard
  BY DEF Entry!Init, Entry!NoPopup, PopupRecord
<1>4. EntryTypes
  BY <1>1, <1>2, <1>3 DEF EntryTypes, Entry!Init
<1>5. OneOut /\ Entry!ButtonWaits
  BY <1>2 DEF OneOut, Entry!ButtonWaits, ByForm
<1>6. Entry!ChallengeFits /\ Entry!ConnectingHeard
  BY <1>1, <1>3 DEF Entry!ChallengeFits, Entry!ConnectingHeard
<1>7. QED
  BY <1>4, <1>5, <1>6 DEF EntryInv

EntryHolds == Entry!UsersAssumption /\ EntryInv
LEMMA EntryHoldsStep == EntryHolds /\ [Entry!Next]_Entry!vars => EntryHolds'
  BY EntryStep DEF EntryHolds, Entry!UsersAssumption

\* Login and the callbacks: whatever answers, popups and buttons cross, a
\* challenge on the screen asks somebody who owes a factor for that factor.
THEOREM EntryChallengeFits == Entry!UsersAssumption /\ Entry!Spec => []Entry!ChallengeFits
<1>1. EntryHolds => Entry!ChallengeFits
  BY DEF EntryHolds, EntryInv
<1>2. QED
  BY <1>1, EntryInit, EntryHoldsStep, PTL DEF Entry!Spec, EntryHolds

\* startProvider and continueWithProvider: the page says "connecting" exactly
\* while it listens to a popup of its own.
THEOREM EntryConnectingHeard == Entry!UsersAssumption /\ Entry!Spec => []Entry!ConnectingHeard
<1>1. EntryHolds => Entry!ConnectingHeard
  BY DEF EntryHolds, EntryInv
<1>2. QED
  BY <1>1, EntryInit, EntryHoldsStep, PTL DEF Entry!Spec, EntryHolds

\* busy and pkBusy: a button stays disabled as long as a request it sent from
\* this mount of the page is out, however steps and answers cross.
THEOREM EntryButtonWaits == Entry!UsersAssumption /\ Entry!Spec => []Entry!ButtonWaits
<1>1. EntryHolds => Entry!ButtonWaits
  BY DEF EntryHolds, EntryInv
<1>2. QED
  BY <1>1, EntryInit, EntryHoldsStep, PTL DEF Entry!Spec, EntryHolds

LEMMA FactorStep ==
  Entry!UsersAssumption /\ EntryInv /\ [Entry!Next]_Entry!vars => [Entry!FactorGiven]_Entry!vars
<1> SUFFICES ASSUME Entry!UsersAssumption, EntryInv, Entry!Next, NEW u \in (Totp \ trusted) \cup (Passkeys \ Totp),
                    cookie' = u, cookie # u
             PROVE  \E t \in tasks : t.kind \in {"twofa", "passkey"} /\ t.user = u
    BY DEF Entry!FactorGiven
<1>1. u \in Users /\ u # NONE
  BY DEF Entry!UsersAssumption
<1>2. ASSUME NEW t \in tasks, Entry!AnswerLogin(t)
      PROVE  FALSE
  <2>1. CASE Entry!Challenge(t.user) = "none"
    BY <1>2, <2>1, ChallengeFacts DEF Entry!AnswerLogin, Entry!GoAfterAuth
  <2>2. CASE Entry!Challenge(t.user) # "none"
    BY <1>2, <2>2 DEF Entry!AnswerLogin
  <2>3. QED
    BY <2>1, <2>2
<1>3. ASSUME NEW t \in tasks, Entry!AnswerFactor(t)
      PROVE  t.kind \in {"twofa", "passkey"} /\ t.user = u
  BY <1>3 DEF Entry!AnswerFactor, Entry!GoAfterAuth
<1>4. ASSUME NEW t \in tasks, Entry!AnswerForgot(t) \/ Entry!Refuse(t) \/ Entry!AnswerProbe(t)
      PROVE  FALSE
  BY <1>4 DEF Entry!AnswerForgot, Entry!Refuse, Entry!AnswerProbe, Entry!Quiet
<1>5. ~Entry!Form /\ ~Entry!Choose /\ ~Entry!Logout
  BY <1>1, Zenon DEF Entry!Form, Entry!Continue, Entry!SignInWithPasskey, Entry!Forgot, Entry!UseRecovery,
     Entry!BackToSignIn, Entry!CancelPopup, Entry!SubmitPassword, Entry!VerifyPasskey, Entry!SubmitForgot,
     Entry!Verify2fa, Entry!Click, Entry!Send, Entry!Choose, Entry!Logout
<1>6. ASSUME NEW v, Entry!Authenticated(v)
      PROVE  FALSE
  <2>1. cookie' = IF Entry!Challenge(v) = "none" THEN v ELSE cookie
    BY <1>6 DEF Entry!Authenticated
  <2>2. v = u /\ Entry!Challenge(v) = "none"
    BY <2>1
  <2>3. QED
    BY <2>2, ChallengeFacts
<1>7. ~Entry!Popup
  BY <1>6, Zenon DEF Entry!Popup, Entry!StartProvider, Entry!NoAccount, Entry!Denied, Entry!GiveUp, Entry!ReturnFocus
<1>8. QED
  BY <1>2, <1>3, <1>4, <1>5, <1>7 DEF Entry!Next, Entry!Answer

\* Login, CompleteLogin and the callbacks: whoever owes a factor gets a session
\* only by the answer to a factor, by no path and in no order.
THEOREM EntryFactorGiven == Entry!UsersAssumption /\ Entry!Spec => [][Entry!FactorGiven]_Entry!vars
<1>1. EntryHolds /\ [Entry!Next]_Entry!vars => [Entry!FactorGiven]_Entry!vars
  BY FactorStep DEF EntryHolds
<1>2. QED
  BY <1>1, EntryInit, EntryHoldsStep, PTL DEF Entry!Spec, EntryHolds

\* A user who waits leaves the popup open only while the page listens to it, and
\* what the popup brought is what the page shows.
Attended == /\ popup.open => popup.heard /\ ~popup.grace
            /\ entered = "popup" => at = "home"

LEMMA ListensStep == Patient /\ EntryInv /\ Attended /\ [Entry!Next]_Entry!vars => (popup.open => popup.heard /\ ~popup.grace)'
<1> SUFFICES ASSUME Patient, EntryInv, Attended, [Entry!Next]_Entry!vars
             PROVE  (popup.open => popup.heard /\ ~popup.grace)'
    OBVIOUS
<1>1. CASE popup' = popup
  BY <1>1 DEF Attended
<1>2. CASE popup' = Entry!NoPopup
  BY <1>2 DEF Attended, Entry!NoPopup
<1>3. ASSUME NEW p, Entry!StartProvider(p)
      PROVE  (popup.open => popup.heard /\ ~popup.grace)'
  BY <1>3 DEF Entry!StartProvider, Attended
<1>4. ASSUME NEW c \in BOOLEAN, Entry!ReturnFocus(c)
      PROVE  (popup.open => popup.heard /\ ~popup.grace)'
  BY <1>4 DEF Entry!ReturnFocus, Attended, EntryInv, EntryTypes, PopupRecord
<1>5. CASE Entry!GiveUp
  <2>1. ~popup.open
    BY <1>5 DEF Entry!GiveUp, Attended
  <2>2. QED
    BY <1>2, <1>5, <2>1 DEF Entry!GiveUp
<1>6. CASE Entry!Form
  BY <1>1, <1>2, <1>6, Zenon DEF Entry!Form, Entry!Continue, Entry!SignInWithPasskey, Entry!Forgot, Entry!UseRecovery,
     Entry!BackToSignIn, Entry!CancelPopup, Entry!SubmitPassword, Entry!VerifyPasskey, Entry!SubmitForgot,
     Entry!Verify2fa, Entry!Click, Entry!Send
<1>7. CASE Entry!Answer
  BY <1>1, <1>7 DEF Entry!Answer, Entry!AnswerLogin, Entry!AnswerFactor, Entry!AnswerForgot, Entry!Refuse,
     Entry!AnswerProbe, Entry!Settle
<1>8. CASE UNCHANGED Entry!vars \/ Entry!Choose \/ Entry!Logout \/ Entry!NoAccount \/ Entry!Denied
  BY <1>1, <1>2, <1>8 DEF Entry!vars, Entry!Choose, Entry!Logout, Entry!NoAccount, Entry!Denied
<1>9. ASSUME NEW u, Entry!Authenticated(u)
      PROVE  (popup.open => popup.heard /\ ~popup.grace)'
  BY <1>2, <1>9 DEF Entry!Authenticated
<1>10. QED
  BY <1>3, <1>4, <1>5, <1>6, <1>7, <1>8, <1>9 DEF Entry!Next, Entry!Popup

LEMMA FinishStep ==
  Patient /\ EntryInv /\ Attended /\ Entry!Next => Entry!FinishHeard
<1> SUFFICES ASSUME Patient, EntryInv, Attended, Entry!Next, entered' = "popup"
             PROVE  at' = "home"
    BY DEF Entry!FinishHeard
<1>1. ~Entry!Form /\ ~Entry!Choose /\ ~Entry!Logout
  BY DEF Entry!Form, Entry!Continue, Entry!SignInWithPasskey, Entry!Forgot, Entry!UseRecovery,
     Entry!BackToSignIn, Entry!CancelPopup, Entry!SubmitPassword, Entry!VerifyPasskey, Entry!SubmitForgot,
     Entry!Verify2fa, Entry!Click, Entry!Send, Entry!Choose, Entry!Logout
<1>2. CASE Entry!Answer
  <2>1. PICK t \in tasks : \/ Entry!AnswerLogin(t) \/ Entry!AnswerFactor(t) \/ Entry!AnswerForgot(t)
                           \/ Entry!Refuse(t) \/ Entry!AnswerProbe(t)
    BY <1>2 DEF Entry!Answer
  <2>2. ~Entry!AnswerFactor(t) /\ ~Entry!AnswerLogin(t)
    BY DEF Entry!AnswerFactor, Entry!AnswerLogin, Entry!GoAfterAuth
  <2>3. UNCHANGED <<entered, at>>
    BY <2>1, <2>2 DEF Entry!AnswerForgot, Entry!Refuse, Entry!AnswerProbe, Entry!Quiet
  <2>4. QED
    BY <2>3 DEF Attended
<1>3. ASSUME NEW u, Entry!Authenticated(u)
      PROVE  at' = "home"
  <2>1. Entry!Challenge(u) = "none" /\ popup.heard
    BY <1>3 DEF Entry!Authenticated, Attended
  <2>2. QED
    BY <1>3, <2>1 DEF Entry!Authenticated, Entry!Load
<1>4. QED
  BY <1>1, <1>2, <1>3 DEF Entry!Next, Entry!Popup, Entry!StartProvider, Entry!NoAccount, Entry!Denied,
     Entry!GiveUp, Entry!ReturnFocus

\* finish, teardown and scheduleRevert: for a user who waits for the popup, signing
\* in in it always takes the page inside.
THEOREM EntryFinishHeard ==
  Patient /\ Entry!UsersAssumption /\ Entry!Spec => [][Entry!FinishHeard]_Entry!vars
<1> DEFINE Holds == Patient /\ EntryHolds /\ Attended
<1>1. Patient /\ Entry!UsersAssumption /\ Entry!Init => Holds
  BY EntryInit DEF EntryHolds, Attended, Entry!Init, Entry!NoPopup
<1>2. Holds /\ [Entry!Next]_Entry!vars => [Entry!FinishHeard]_Entry!vars
  BY FinishStep DEF EntryHolds
<1>3. Holds /\ [Entry!Next]_Entry!vars => (entered = "popup" => at = "home")'
  BY FinishStep DEF EntryHolds, Attended, Entry!vars, Entry!FinishHeard
<1>4. Holds /\ [Entry!Next]_Entry!vars => Holds'
  BY <1>3, EntryHoldsStep, ListensStep DEF EntryHolds, Attended
<1>5. QED
  BY <1>1, <1>2, <1>4, PTL DEF Entry!Spec

\* With the identity known before the user acts, and the popup closed before the
\* page is touched: a request for the identity is alone, asks for the session
\* there is, and meets nobody's identity; a window that is open has a listener.
WhoInv == /\ identity # NONE => identity = cookie
          /\ \A t \in tasks : t.kind = "probe" => tasks = {t} /\ t.user = cookie /\ identity = NONE /\ ~popup.open
          /\ DOMAIN popup = {"open", "heard", "mount", "grace"}
          /\ popup.open => popup.heard /\ ~popup.grace

LEMMA WhoInit == Entry!Init => WhoInv
BY DEF Entry!Init, Entry!NoPopup, WhoInv

\* A step of the form sends requests only for the user, and at most shuts the window.
LEMMA WhoForm == ASSUME ProbeFirst, WhoInv, Entry!Form PROVE WhoInv'
<1>1. CASE UNCHANGED <<identity, cookie, tasks>> /\ (popup' = popup \/ popup' = Entry!NoPopup)
  BY <1>1 DEF WhoInv, Entry!NoPopup
<1>2. ASSUME NEW u, NEW q, Entry!Send(u, q), u.kind # "probe" PROVE WhoInv'
  <2>1. tasks' = tasks \cup {u} /\ UNCHANGED <<identity, cookie, popup>> /\ \A t \in tasks : t.kind # "probe"
    BY <1>2 DEF Entry!Send, Entry!Here, Entry!Probing
  <2>2. QED
    BY <1>2, <2>1 DEF WhoInv
<1>3. CASE \/ Entry!Forgot \/ Entry!UseRecovery \/ Entry!BackToSignIn \/ Entry!CancelPopup
           \/ \E u \in Users : Entry!Continue(u)
  BY <1>1, <1>3, Zenon DEF Entry!Forgot, Entry!UseRecovery, Entry!BackToSignIn, Entry!CancelPopup, Entry!Continue, Entry!Click
<1>4. \A kind, user : Entry!Task(kind, user).kind = kind
  BY DEF Entry!Task
<1>5. \A kind, user, r : [Entry!Task(kind, user) EXCEPT !.remember = r].kind = kind
  BY DEF Entry!Task
<1>6. CASE Entry!SubmitPassword \/ Entry!VerifyPasskey \/ Entry!SubmitForgot \/ \E u \in Users : Entry!SignInWithPasskey(u)
  BY <1>2, <1>4, <1>6 DEF Entry!SubmitPassword, Entry!VerifyPasskey, Entry!SubmitForgot, Entry!SignInWithPasskey
<1>7. CASE \E r \in BOOLEAN : Entry!Verify2fa(r)
  BY <1>2, <1>5, <1>7 DEF Entry!Verify2fa
<1>8. QED
  BY <1>3, <1>6, <1>7 DEF Entry!Form

LEMMA WhoAnswer == ASSUME WhoInv, Entry!Answer PROVE WhoInv'
<1>1. PICK t \in tasks : Entry!AnswerLogin(t) \/ Entry!AnswerFactor(t) \/ Entry!AnswerForgot(t) \/ Entry!Refuse(t) \/ Entry!AnswerProbe(t)
  BY DEF Entry!Answer
<1>2. CASE t.kind # "probe"
  <2>1. tasks' = tasks \ {t} /\ popup' = popup
    BY <1>1, <1>2 DEF Entry!AnswerLogin, Entry!AnswerFactor, Entry!AnswerForgot, Entry!Refuse, Entry!AnswerProbe, Entry!Settle
  <2>2. UNCHANGED <<identity, cookie>> \/ (identity' = t.user /\ cookie' = t.user)
    BY <1>1, <1>2 DEF Entry!AnswerLogin, Entry!AnswerFactor, Entry!AnswerForgot, Entry!Refuse, Entry!AnswerProbe, Entry!GoAfterAuth, Entry!Quiet
  <2>3. \A v \in tasks : v.kind # "probe"
    BY <1>2 DEF WhoInv
  <2>4. QED
    BY <2>1, <2>2, <2>3 DEF WhoInv
<1>3. CASE t.kind = "probe"
  <2>1. tasks' = tasks \ {t} /\ UNCHANGED <<cookie, popup>> /\ identity' \in {t.user, NONE}
    BY <1>1, <1>3 DEF Entry!AnswerLogin, Entry!AnswerFactor, Entry!AnswerForgot, Entry!Refuse, Entry!AnswerProbe, Entry!Identified
  <2>2. tasks = {t} /\ t.user = cookie
    BY <1>3 DEF WhoInv
  <2>3. QED
    BY <2>1, <2>2 DEF WhoInv
<1>4. QED
  BY <1>2, <1>3

LEMMA WhoPopup == ASSUME Patient, ProbeFirst, WhoInv, Entry!Popup PROVE WhoInv'
<1>1. CASE UNCHANGED <<identity, cookie, tasks>> /\ popup' = Entry!NoPopup
  BY <1>1 DEF WhoInv, Entry!NoPopup
<1>2. ASSUME NEW q, Entry!StartProvider(q) PROVE WhoInv'
  <2>1. /\ popup' = [open |-> TRUE, heard |-> TRUE, mount |-> mount, grace |-> FALSE] /\ UNCHANGED <<identity, cookie, tasks>>
        /\ \A t \in tasks : t.kind # "probe"
    BY <1>2 DEF Entry!StartProvider, Entry!Here, Entry!Probing
  <2>2. QED
    BY <2>1 DEF WhoInv
<1>3. ASSUME NEW u, Entry!Authenticated(u) PROVE WhoInv'
  <2>1. popup.open /\ popup.heard /\ Entry!Load(u) /\ popup' = Entry!NoPopup
    BY <1>3 DEF Entry!Authenticated, WhoInv
  <2>2. PICK v : v = [kind |-> "probe", user |-> cookie', mount |-> mount + 1, remember |-> FALSE, mode |-> "identifier"]
    OBVIOUS
  <2>3. identity' = NONE /\ tasks' = {v} /\ v.user = cookie'
    BY <2>1, <2>2 DEF Entry!Load
  <2>4. QED
    BY <2>1, <2>3 DEF WhoInv, Entry!NoPopup
<1>4. CASE Entry!NoAccount \/ Entry!Denied
  BY <1>1, <1>4 DEF Entry!NoAccount, Entry!Denied
<1>5. CASE Entry!GiveUp
  BY <1>1, <1>5 DEF Entry!GiveUp, WhoInv
<1>6. ASSUME NEW c \in BOOLEAN, Entry!ReturnFocus(c) PROVE WhoInv'
  BY <1>6 DEF Entry!ReturnFocus, WhoInv
<1>7. QED
  BY <1>2, <1>3, <1>4, <1>5, <1>6 DEF Entry!Popup

LEMMA WhoStep == ASSUME Patient, ProbeFirst, WhoInv, [Entry!Next]_(Entry!vars) PROVE WhoInv'
<1>1. CASE UNCHANGED Entry!vars \/ Entry!Choose
  BY <1>1 DEF WhoInv, Entry!vars, Entry!Choose
<1>2. CASE Entry!Logout
  BY <1>2 DEF WhoInv, Entry!Logout
<1>3. QED
  BY <1>1, <1>2, WhoForm, WhoAnswer, WhoPopup DEF Entry!Next

\* AuthContext.tsx: whom the page shows is whose session the browser has, for a
\* user who acts once the page knows who is signed in and who closes the
\* provider's window before going on: every sign-in sets both, a sign-out nobody.
THEOREM EntryShownIsSession == ASSUME Patient, ProbeFirst PROVE Entry!Spec => []Entry!ShownIsSession
<1>1. WhoInv /\ [Entry!Next]_(Entry!vars) => WhoInv'
  BY WhoStep
<1>2. WhoInv => Entry!ShownIsSession
  BY DEF WhoInv, Entry!ShownIsSession
<1>3. QED
  BY <1>1, <1>2, WhoInit, PTL DEF Entry!Spec
----------------------------------------------------------------------------
(* The sessions of a document.                                             *)

\* Whoever has a document on the screen holds a token of its session, and a page
\* that is to get a session has none.
PageSlots == {"ses", "mint", "state", "last", "dirty", "seq", "dialog", "busy", "after", "run"}
SessionSlots == {"owner", "tokens", "src", "work", "seq", "live", "old"}
Rows == /\ \E S : sess \in Seq(S)
        /\ \A s \in DOMAIN sess : DOMAIN sess[s] = SessionSlots
TokenOf(u) == page[u].ses = 0 \/ (page[u].ses \in DOMAIN sess /\ u \in sess[page[u].ses].tokens)
TokenInv == /\ Rows /\ page = [u \in Users |-> page[u]]
            /\ \A u \in Users : /\ DOMAIN page[u] = PageSlots /\ TokenOf(u)
                                /\ page[u].mint = NONE \/ page[u].ses = 0

LEMMA SequenceOf ==
  ASSUME NEW f, NEW n \in Nat, f = [i \in 1..n |-> f[i]]
  PROVE  /\ \E S : f \in Seq(S)
         /\ Len(f) = n
<1>1. f \in Seq({f[i] : i \in 1..n})
  OBVIOUS
<1>2. Len(f) \in Nat /\ DOMAIN f = 1..Len(f) /\ DOMAIN f = 1..n
  BY <1>1
<1>3. \A i \in Int : i \in 1..n <=> i \in 1..Len(f)
  BY <1>2
<1>4. Len(f) = n
  <2>1. Len(f) <= n
    BY <1>2, <1>3
  <2>2. n <= Len(f)
    BY <1>2, <1>3
  <2>3. QED
    BY <1>2, <2>1, <2>2
<1>5. QED
  BY <1>1, <1>4

\* What a page may become while the sessions stay: it keeps its document or has none.
Kept(p, q) == /\ DOMAIN q = PageSlots
              /\ (q.ses = p.ses /\ q.mint = p.mint) \/ q.ses = 0

LEMMA QuietStep ==
  ASSUME TokenInv, Rows', DOMAIN sess' = DOMAIN sess,
         \A s \in DOMAIN sess : sess'[s].tokens = sess[s].tokens /\ sess'[s].live = sess[s].live,
         page' = [u \in Users |-> page'[u]], \A u \in Users : Kept(page[u], page'[u])
  PROVE  TokenInv' /\ Office!CoEdited
<1>1. TokenInv'
  BY DEF TokenInv, TokenOf, Kept
<1>2. Office!CoEdited
  BY DEF Office!CoEdited
<1>3. QED
  BY <1>1, <1>2

LEMMA SetStep ==
  ASSUME TokenInv, NEW u \in Users, NEW p, Kept(page[u], p), Office!Set(u, p), sess' = sess
  PROVE  TokenInv' /\ Office!CoEdited
<1>1. page' = [page EXCEPT ![u] = p]
  BY DEF Office!Set
<1>2. page' = [v \in Users |-> page'[v]] /\ \A v \in Users : Kept(page[v], page'[v])
  BY <1>1 DEF TokenInv, Kept
<1>3. QED
  BY <1>2, QuietStep DEF TokenInv, Rows

\* A row of a session is changed in other fields than these.
LEMMA RowStep ==
  ASSUME TokenInv, NEW s \in DOMAIN sess, NEW r, sess' = [sess EXCEPT ![s] = r],
         DOMAIN r = SessionSlots, r.tokens = sess[s].tokens, r.live = sess[s].live
  PROVE  /\ Rows' /\ DOMAIN sess' = DOMAIN sess
         /\ \A x \in DOMAIN sess : sess'[x].tokens = sess[x].tokens /\ sess'[x].live = sess[x].live
<1>1. PICK S : sess \in Seq(S)
  BY DEF TokenInv, Rows
<1>2. Len(sess) \in Nat /\ DOMAIN sess = 1..Len(sess)
  BY <1>1
<1>3. sess' = [i \in 1..Len(sess) |-> sess'[i]]
  BY <1>1, <1>2
<1>4. \E T : sess' \in Seq(T)
  BY <1>2, <1>3, SequenceOf
<1>5. QED
  BY <1>2, <1>4 DEF TokenInv, Rows

LEMMA MintStep ==
  ASSUME TokenInv, NEW u \in Users, Office!Mint(u)
  PROVE  TokenInv' /\ Office!CoEdited
<1>0. /\ page[u].ses = 0 /\ page = [v \in Users |-> page[v]] /\ \A v \in Users : DOMAIN page[v] = PageSlots
      /\ \A v \in Users : page[v].mint = NONE \/ page[v].ses = 0
      /\ \A v \in Users : TokenOf(v) /\ \A s \in DOMAIN sess : DOMAIN sess[s] = SessionSlots
  BY DEF TokenInv, Rows, Office!Mint
<1>1. PICK S : sess \in Seq(S)
  BY DEF TokenInv, Rows
<1>2. Len(sess) \in Nat /\ DOMAIN sess = 1..Len(sess)
  BY <1>1
\* The sessions the user leaves or ends.
<1> DEFINE ended == Office!EndUserApp(u)
<1>3. /\ DOMAIN ended = 1..Len(sess) /\ ended = [s \in 1..Len(sess) |-> ended[s]]
      /\ \A s \in 1..Len(sess) :
           /\ DOMAIN ended[s] = SessionSlots /\ sess[s].tokens \ {u} \subseteq ended[s].tokens
           /\ sess[s].live /\ ~ended[s].live => sess[s].tokens \subseteq {u}
  BY <1>0, <1>2 DEF Office!EndUserApp, Office!Others, SessionSlots
<1>4. (\E T : ended \in Seq(T)) /\ Len(ended) = Len(sess)
  BY <1>2, <1>3, SequenceOf
<1> HIDE DEF ended
<1>5. ASSUME NEW s, s \in DOMAIN sess, NEW last, Office!Join(u, s, last)
      PROVE  TokenInv' /\ Office!CoEdited
  <2>1. page' = [page EXCEPT ![u] = [page[u] EXCEPT !.ses = s, !.mint = NONE, !.state = "loading", !.last = last]]
    BY <1>5 DEF Office!Join, Office!Shows
  <2>2. /\ page' = [v \in Users |-> page'[v]] /\ \A v \in Users : DOMAIN page'[v] = PageSlots
        /\ page'[u].ses = s /\ page'[u].mint = NONE
        /\ \A v \in Users : v # u => page'[v] = page[v]
    BY <1>0, <2>1 DEF PageSlots
  <2>3. /\ DOMAIN sess' = DOMAIN sess /\ sess' = [x \in 1..Len(sess) |-> sess'[x]]
        /\ \A x \in DOMAIN sess : /\ DOMAIN sess'[x] = SessionSlots /\ sess'[x].live = sess[x].live
                                  /\ sess[x].tokens \subseteq sess'[x].tokens
        /\ u \in sess'[s].tokens
    BY <1>0, <1>2, <1>5 DEF Office!Join, Office!Touch, SessionSlots
  <2>4. Rows'
    BY <1>2, <2>3, SequenceOf DEF Rows
  <2>5. TokenInv'
    BY <1>0, <1>5, <2>2, <2>3, <2>4 DEF TokenInv, TokenOf
  <2>6. QED
    BY <2>3, <2>5 DEF Office!CoEdited
<1>6. ASSUME NEW d, Office!Create(u, d)
      PROVE  TokenInv' /\ Office!CoEdited
  <2>1. PICK last, r : /\ sess' = Append(ended, r) /\ DOMAIN r = SessionSlots /\ r.tokens = {u}
                       /\ page' = [page EXCEPT ![u] = [page[u] EXCEPT !.ses = Len(sess) + 1, !.mint = NONE, !.state = "loading", !.last = last]]
    <3> DEFINE text == IF d = Office!Blank THEN {} ELSE docs[d].text
               src == IF d = Office!Blank THEN NONE ELSE d
               new == [owner |-> u, tokens |-> {u}, src |-> src, work |-> text, seq |-> 0, live |-> TRUE, old |-> FALSE]
    <3>1. Office!Shows(u, Len(sess) + 1, src) /\ sess' = Append(ended, new)
      BY <1>6, Zenon DEF Office!Create, ended
    <3>2. DOMAIN new = SessionSlots /\ new.tokens = {u}
      BY DEF SessionSlots
    <3> HIDE DEF new, src
    <3>3. page' = [page EXCEPT ![u] = [page[u] EXCEPT !.ses = Len(sess) + 1, !.mint = NONE, !.state = "loading", !.last = src]]
      BY <3>1 DEF Office!Shows
    <3>4. QED
      BY <3>1, <3>2, <3>3, Zenon
  <2>2. /\ page' = [v \in Users |-> page'[v]] /\ \A v \in Users : DOMAIN page'[v] = PageSlots
        /\ page'[u].ses = Len(sess) + 1 /\ page'[u].mint = NONE
        /\ \A v \in Users : v # u => page'[v] = page[v]
    BY <1>0, <2>1 DEF PageSlots
  <2>3. /\ DOMAIN sess' = 1..(Len(sess) + 1) /\ sess'[Len(sess) + 1] = r
        /\ \A s \in 1..Len(sess) : sess'[s] = ended[s]
        /\ sess' = [s \in 1..(Len(sess) + 1) |-> sess'[s]]
    <3>1. PICK T : ended \in Seq(T)
      BY <1>4
    <3>2. ended \in Seq(T \cup {r})
      BY <3>1
    <3>3. sess' \in Seq(T \cup {r}) /\ Len(sess') = Len(sess) + 1
      BY <1>4, <2>1, <3>2
    <3>4. \A s \in 1..(Len(sess) + 1) : sess'[s] = IF s = Len(sess) + 1 THEN r ELSE ended[s]
      BY <1>2, <1>4, <2>1, <3>2
    <3>5. DOMAIN sess' = 1..(Len(sess) + 1) /\ sess' = [s \in 1..(Len(sess) + 1) |-> sess'[s]]
      BY <3>3
    <3>6. QED
      BY <1>2, <3>4, <3>5
  <2>4. Rows'
    BY <1>2, <1>3, <2>1, <2>3, SequenceOf DEF Rows
  <2>5. TokenInv'
    BY <1>0, <1>2, <1>3, <2>1, <2>2, <2>3, <2>4 DEF TokenInv, TokenOf
  <2>6. Office!CoEdited
    BY <1>0, <1>2, <1>3, <2>2, <2>3 DEF Office!CoEdited, TokenOf
  <2>7. QED
    BY <2>5, <2>6
<1>7. ASSUME page' = [page EXCEPT ![u].mint = NONE], sess' \in {sess, ended}
      PROVE  TokenInv' /\ Office!CoEdited
  <2>1. /\ page' = [v \in Users |-> page'[v]] /\ \A v \in Users : DOMAIN page'[v] = PageSlots
        /\ page'[u].ses = 0 /\ \A v \in Users : v # u => page'[v] = page[v]
    BY <1>0, <1>7 DEF PageSlots
  <2>2. CASE sess' = sess
    BY <1>0, <2>1, <2>2 DEF TokenInv, TokenOf, Rows, Office!CoEdited
  <2>3. CASE sess' = ended
    <3>1. Rows'
      BY <1>3, <1>4, <2>3 DEF Rows
    <3>2. TokenInv'
      BY <1>0, <1>2, <1>3, <2>1, <2>3, <3>1 DEF TokenInv, TokenOf
    <3>3. Office!CoEdited
      BY <1>0, <1>2, <1>3, <2>1, <2>3 DEF Office!CoEdited, TokenOf
    <3>4. QED
      BY <3>2, <3>3
  <2>4. QED
    BY <1>7, <2>2, <2>3
<1>8. QED
  <2>1. \/ \E s \in DOMAIN sess, last \in {sess[x].src : x \in DOMAIN sess} \cup {page[u].mint} : Office!Join(u, s, last)
        \/ \E d : Office!Create(u, d)
        \/ page' = [page EXCEPT ![u].mint = NONE] /\ sess' \in {sess, ended}
    BY DEF Office!Mint, Office!Own, Office!Joined, Office!Editing, Office!Newest, ended
  <2>2. QED
    BY <1>5, <1>6, <1>7, <2>1

LEMMA HearFacts ==
  ASSUME NEW p, DOMAIN p = PageSlots
  PROVE  /\ Kept(p, Office!HearModified(p)) /\ Kept(p, Office!HearClean(p))
         /\ \A x : Kept(p, [Office!HearModified(p) EXCEPT !.state = x])
<1> DEFINE seq == IF p.dirty THEN p.seq ELSE Office!PutSeq(p.ses)
           q == [p EXCEPT !.state = "modified", !.dirty = TRUE, !.seq = seq]
<1>1. Office!HearModified(p) = q
  BY DEF Office!HearModified
<1> HIDE DEF seq
<1>2. Kept(p, q) /\ Kept(p, Office!HearClean(p))
  BY DEF Office!HearClean, Kept, PageSlots
<1>3. \A x : Kept(p, [q EXCEPT !.state = x])
  BY <1>2 DEF Kept, PageSlots
<1>4. QED
  BY <1>1, <1>2, <1>3, Zenon

LEMMA SaveSteps ==
  ASSUME TokenInv, NEW u \in Users,
         \/ Office!Loaded(u) \/ Office!Save(u) \/ Office!SaveAs(u) \/ Office!Choose(u)
         \/ Office!Poll(u) \/ Office!Deadline(u)
  PROVE  TokenInv' /\ Office!CoEdited
<1>0. DOMAIN page[u] = PageSlots
  BY DEF TokenInv
\* What save() does with the page leaves its document alone.
<1>1. ASSUME NEW p, Kept(page[u], p), NEW over, NEW chosen, Office!Begin(u, p, over, chosen)
      PROVE  TokenInv' /\ Office!CoEdited
  <2>1. sess' = sess
    BY <1>1, Zenon DEF Office!Begin
  <2>2. PICK run : Office!Set(u, [p EXCEPT !.run = run, !.state = IF p.dirty THEN "saving" ELSE "saved"])
    BY <1>1, Zenon DEF Office!Begin
  <2>3. Kept(page[u], [p EXCEPT !.run = run, !.state = IF p.dirty THEN "saving" ELSE "saved"])
    BY <1>1 DEF Kept, PageSlots
  <2>4. QED
    BY <2>1, <2>2, <2>3, SetStep
<1>2. CASE Office!Loaded(u)
  <2>1. PICK p : Office!Set(u, p) /\ Kept(page[u], p)
    <3>1. Kept(page[u], [page[u] EXCEPT !.state = "ready"])
      BY <1>0 DEF Kept, PageSlots
    <3>2. \/ \E x : Office!Set(u, [Office!HearModified(page[u]) EXCEPT !.state = x])
          \/ Office!Set(u, [page[u] EXCEPT !.state = "ready"])
      BY <1>2, Zenon DEF Office!Loaded
    <3>3. QED
      BY <1>0, <3>1, <3>2, HearFacts
  <2>2. QED
    BY <1>2, <2>1, SetStep DEF Office!Loaded
<1>3. Kept(page[u], [page[u] EXCEPT !.dialog = "save"]) /\ Kept(page[u], page[u])
      /\ Kept(page[u], [page[u] EXCEPT !.busy = TRUE])
  BY <1>0 DEF Kept, PageSlots
<1>4. CASE Office!Save(u)
  BY <1>1, <1>3, <1>4, SetStep DEF Office!Save
<1>5. CASE Office!SaveAs(u)
  BY <1>3, <1>5, SetStep DEF Office!SaveAs
<1>6. CASE Office!Choose(u)
  BY <1>1, <1>3, <1>6, Zenon DEF Office!Choose
<1>7. CASE Office!Poll(u)
  <2>1. Kept(page[u], Office!Confirmed(page[u]))
    BY <1>0 DEF Office!Confirmed, Kept, PageSlots
  <2>2. QED
    BY <1>7, <2>1, SetStep DEF Office!Poll, Office!Polling
<1>8. CASE Office!Deadline(u)
  <2>1. Kept(page[u], [page[u] EXCEPT !.state = "modified", !.run = NONE])
    BY <1>0 DEF Kept, PageSlots
  <2>2. QED
    BY <1>8, <2>1, SetStep DEF Office!Deadline, Office!Polling
<1>9. QED
  BY <1>2, <1>4, <1>5, <1>6, <1>7, <1>8

LEMMA LeaveSteps ==
  ASSUME TokenInv, NEW u \in Users,
         \/ Office!Answer(u) \/ Office!handleNew(u) \/ Office!Discard(u) \/ Office!SaveFirst(u)
         \/ Office!Cancel(u) \/ Office!Refresh(u) \/ \E d \in Opens : Office!handleOpen(u, d)
  PROVE  TokenInv' /\ Office!CoEdited
<1>0. DOMAIN page[u] = PageSlots
  BY DEF TokenInv
<1>1. ASSUME NEW p, NEW d
      PROVE  Kept(page[u], Office!Started(p, d))
  BY DEF Office!Started, Office!Closed, Kept, PageSlots
<1>2. ASSUME NEW d, Office!Start(u, d)
      PROVE  TokenInv' /\ Office!CoEdited
  BY <1>1, <1>2, SetStep DEF Office!Start
<1>3. CASE Office!Answer(u)
  <2>1. PICK p : Office!Set(u, p) /\ Kept(page[u], p)
    <3> DEFINE done == [page[u] EXCEPT !.last = page[u].run.id, !.dialog = IF @ = "save" THEN "none" ELSE @,
                                       !.busy = FALSE, !.after = FALSE, !.run = NONE]
    <3>1. Kept(page[u], done) /\ Kept(page[u], [page[u] EXCEPT !.busy = FALSE, !.run = NONE])
      BY <1>0 DEF Kept, PageSlots
    <3>2. \/ Office!Set(u, done) \/ Office!Set(u, [page[u] EXCEPT !.busy = FALSE, !.run = NONE])
          \/ Office!Set(u, Office!Started(done, Office!Blank))
      BY <1>3, Zenon DEF Office!Answer
    <3> HIDE DEF done
    <3>3. QED
      BY <1>1, <3>1, <3>2
  <2>2. QED
    BY <1>3, <2>1, SetStep DEF Office!Answer
<1>4. CASE Office!handleNew(u)
  <2>1. Kept(page[u], [page[u] EXCEPT !.dialog = "confirm"])
    BY <1>0 DEF Kept, PageSlots
  <2>2. QED
    BY <1>2, <1>4, <2>1, SetStep DEF Office!handleNew
<1>5. CASE Office!Discard(u) \/ \E d \in Opens : Office!handleOpen(u, d)
  BY <1>2, <1>5 DEF Office!Discard, Office!handleOpen
<1>6. CASE Office!SaveFirst(u)
  <2>1. Kept(page[u], [page[u] EXCEPT !.dialog = "save", !.after = TRUE])
    BY <1>0 DEF Kept, PageSlots
  <2>2. QED
    BY <1>6, <2>1, SetStep DEF Office!SaveFirst
<1>7. CASE Office!Cancel(u)
  <2>1. Kept(page[u], [page[u] EXCEPT !.dialog = "none"])
    BY <1>0 DEF Kept, PageSlots
  <2>2. QED
    BY <1>7, <2>1, SetStep DEF Office!Cancel
<1>8. CASE Office!Refresh(u)
  <2>1. Kept(page[u], [Office!Closed EXCEPT !.mint = Office!Resume])
    BY DEF Office!Closed, Kept, PageSlots
  <2>2. QED
    BY <1>8, <2>1, SetStep DEF Office!Refresh
<1>9. QED
  BY <1>3, <1>4, <1>5, <1>6, <1>7, <1>8

LEMMA OfficeServeStep ==
  ASSUME TokenInv, NEW u \in Users, Office!Serve(u)
  PROVE  TokenInv' /\ Office!CoEdited
<1>0. DOMAIN page[u] = PageSlots /\ page = [v \in Users |-> page[v]] /\ \A v \in Users : DOMAIN page[v] = PageSlots
  BY DEF TokenInv
<1>1. ASSUME NEW s, NEW d, Office!Live(s), sess' = [sess EXCEPT ![s].src = d],
             Office!Set(u, [page[u] EXCEPT !.run.at = "ok", !.run.id = d])
      PROVE  TokenInv' /\ Office!CoEdited
  <2>1. s \in DOMAIN sess /\ sess' = [sess EXCEPT ![s] = [sess[s] EXCEPT !.src = d]]
    BY <1>1 DEF Office!Live
  <2>2. DOMAIN [sess[s] EXCEPT !.src = d] = SessionSlots /\ [sess[s] EXCEPT !.src = d].tokens = sess[s].tokens
        /\ [sess[s] EXCEPT !.src = d].live = sess[s].live
    BY <2>1 DEF TokenInv, Rows, SessionSlots
  <2>3. Kept(page[u], [page[u] EXCEPT !.run.at = "ok", !.run.id = d])
    BY <1>0 DEF Kept, PageSlots
  <2>4. page' = [v \in Users |-> page'[v]] /\ \A v \in Users : Kept(page[v], page'[v])
    BY <1>0, <1>1, <2>3 DEF Office!Set, Kept
  <2>5. QED
    BY <2>1, <2>2, <2>4, RowStep, QuietStep
<1>2. ASSUME Office!Set(u, [page[u] EXCEPT !.run.at = "failed"]), sess' = sess
      PROVE  TokenInv' /\ Office!CoEdited
  <2>1. Kept(page[u], [page[u] EXCEPT !.run.at = "failed"])
    BY <1>0 DEF Kept, PageSlots
  <2>2. QED
    BY <1>2, <2>1, SetStep
<1>3. QED
  BY <1>1, <1>2, Zenon DEF Office!Serve

\* The engine's news and its uploads.
LEMMA EngineSteps ==
  ASSUME TokenInv, NEW s, \/ Office!IdleSave(s) \/ Office!Land(s) \/ \E u \in Users : Office!Obey(s, u)
  PROVE  TokenInv' /\ Office!CoEdited
<1>0. /\ Rows /\ page = [v \in Users |-> page[v]] /\ \A v \in Users : DOMAIN page[v] = PageSlots
      /\ \A v \in Users : Kept(page[v], page[v])
  BY DEF TokenInv, Kept
<1>1. /\ Office!Heard(s) = [v \in Users |-> Office!Heard(s)[v]]
      /\ \A v \in Users : Kept(page[v], Office!Heard(s)[v])
  BY <1>0 DEF Office!Heard, Office!Tell, Office!HearClean, Kept, PageSlots
<1>2. CASE Office!IdleSave(s)
  BY <1>0, <1>1, <1>2, QuietStep DEF Office!IdleSave, Rows
<1>3. ASSUME NEW u \in Users, Office!Obey(s, u)
      PROVE  TokenInv' /\ Office!CoEdited
  <2>1. ASSUME NEW p, Kept(page[u], p)
        PROVE  Kept(page[u], Office!Acked(p))
    BY <2>1 DEF Office!Acked, Kept, PageSlots
  <2>2. sess' = sess
    BY <1>3 DEF Office!Obey
  <2>3. \/ page' = [Office!Heard(s) EXCEPT ![u] = IF @.ses = s THEN Office!Acked(@) ELSE @]
        \/ page' = page \/ page' = [page EXCEPT ![u] = IF @.ses = s THEN Office!Acked(@) ELSE @]
    BY <1>3 DEF Office!Obey
  <2>4. page' = [v \in Users |-> page'[v]] /\ \A v \in Users : Kept(page[v], page'[v])
    BY <1>0, <1>1, <2>1, <2>3
  <2>5. QED
    BY <1>0, <2>2, <2>4, QuietStep DEF Rows
<1>4. CASE Office!Land(s)
  <2>1. page' = page
    BY <1>4 DEF Office!Land
  <2>2. CASE sess' = sess
    BY <1>0, <2>1, <2>2, QuietStep DEF Rows
  <2>3. CASE Office!Live(s) /\ sess' = [sess EXCEPT ![s].work = eng[s].put, ![s].seq = @ + 1, ![s].old = FALSE]
    <3> DEFINE r == [[[sess[s] EXCEPT !.work = eng[s].put] EXCEPT !.seq = @ + 1] EXCEPT !.old = FALSE]
    <3>1. s \in DOMAIN sess /\ sess' = [sess EXCEPT ![s] = r]
      BY <2>3 DEF Office!Live
    <3>2. DOMAIN r = SessionSlots /\ r.tokens = sess[s].tokens /\ r.live = sess[s].live
      BY <1>0, <3>1 DEF Rows, SessionSlots
    <3> HIDE DEF r
    <3>3. QED
      BY <1>0, <2>1, <3>1, <3>2, RowStep, QuietStep
  <2>4. QED
    BY <1>4, <2>2, <2>3 DEF Office!Land
<1>5. QED
  BY <1>2, <1>3, <1>4

LEMMA EditStep ==
  ASSUME TokenInv, NEW u \in Users, Office!Edit(u)
  PROVE  TokenInv' /\ Office!CoEdited
<1>0. /\ Rows /\ page = [v \in Users |-> page[v]] /\ \A v \in Users : DOMAIN page[v] = PageSlots
      /\ \A v \in Users : Kept(page[v], page[v])
  BY DEF TokenInv, Kept
<1>1. /\ sess' = sess
      /\ page' = page \/ page' = Office!Tell(page[u].ses, [v \in Users |-> Office!HearModified(page[v])])
  BY <1>0 DEF Office!Edit
<1>2. page' = [v \in Users |-> page'[v]] /\ \A v \in Users : Kept(page[v], page'[v])
  <2>1. \A v \in Users : Kept(page[v], Office!HearModified(page[v]))
    BY <1>0, HearFacts
  <2>2. QED
    BY <1>0, <1>1, <2>1 DEF Office!Tell
<1>3. QED
  BY <1>0, <1>1, <1>2, QuietStep DEF Rows

LEMMA TokenStep ==
  ASSUME "logout" \notin Ends, "expire" \notin Ends, TokenInv, [Office!Next]_Office!vars
  PROVE  TokenInv' /\ [Office!CoEdited]_Office!vars
<1>1. CASE UNCHANGED Office!vars
  BY <1>1 DEF Office!vars, TokenInv, TokenOf, Rows
<1>2. ASSUME NEW d, Office!Trash(d)
      PROVE  TokenInv' /\ Office!CoEdited
  BY <1>2 DEF Office!Trash, TokenInv, TokenOf, Rows, Office!CoEdited
<1>3. ~Office!Expire /\ \A u \in Users : ~Office!Logout(u)
  BY DEF Office!Expire, Office!Logout
<1>4. QED
  BY <1>1, <1>2, <1>3, MintStep, SaveSteps, LeaveSteps, OfficeServeStep, EngineSteps, EditStep DEF Office!Next

LEMMA TokenInit == Office!Init => TokenInv
  BY DEF Office!Init, Office!Closed, TokenInv, TokenOf, Rows, PageSlots

\* EndUserApp: "if OTHER participants still hold tokens on this session, the document
\* must survive": with any number of users, documents, failures and saves no session
\* ends under the hands of somebody else, a logout and the sweep apart.
THEOREM OfficeCoEdited ==
  "logout" \notin Ends /\ "expire" \notin Ends /\ Office!Spec => [][Office!CoEdited]_Office!vars
<1> DEFINE Stay == "logout" \notin Ends /\ "expire" \notin Ends
<1>1. Stay /\ TokenInv /\ [Office!Next]_Office!vars => (Stay /\ TokenInv)' /\ [Office!CoEdited]_Office!vars
  BY TokenStep
<1>2. QED
  BY <1>1, TokenInit, PTL DEF Office!Spec

----------------------------------------------------------------------------
(* The ceremony of a signer.                                               *)

CONSTANTS Kind, Required, Files, Preview, MaxVisits
VARIABLES p, env, me, other, rec, visit, shownAt
Sign == INSTANCE SignCeremony

\* The rows of the record that a signer's values do not change.
Apart == {f \in Sign!Fields : Kind[f] \in {"attachment", "decline"}}
Stamped(sent) == [f \in Sign!Fields |-> IF f \in Apart THEN rec[f] ELSE sent[f]]

\* One request at most, while the signer waits for the answers.
Lone == Patient => \A t, u \in tasks : t = u

SheetKeys == {"view", "error", "sig", "modal", "canvas", "hasInk", "pending", "applied", "values", "consent",
              "finishing", "done", "declineOpen", "declining", "declinedHere", "uploading"}
RequestKeys == {"kind", "n", "visit", "of", "file", "sent", "at", "answer"}
SheetOK == /\ DOMAIN p = SheetKeys /\ DOMAIN p.values = Sign!Fields /\ DOMAIN rec = Sign!Fields
           /\ \A f \in Sign!Of("decline") : p.values[f] = "" /\ rec[f] = ""
RequestOK(t) == /\ DOMAIN t = RequestKeys /\ t.kind \in {"load", "attach", "decline", "finish"}
                /\ t.kind = "attach" => t.of \in Sign!Of("attachment") /\ t.file \in Files
CeremonyInv == SheetOK /\ Lone /\ \A t \in tasks : RequestOK(t)

LEMMA SheetShape == DOMAIN Sign!Page = SheetKeys /\ Sign!Page.values = Sign!Empty /\ Sign!Page.view = NONE
                    /\ ~Sign!Page.done /\ ~Sign!Page.declinedHere
BY DEF Sign!Page, SheetKeys

LEMMA LoadShape ==
  ASSUME NEW v
  PROVE  /\ DOMAIN Sign!LoadOf(v) = RequestKeys /\ Sign!LoadOf(v).kind = "load"
         /\ Sign!LoadOf(v).visit = v /\ Sign!LoadOf(v).at = "sent"
BY DEF Sign!LoadOf, RequestKeys

LEMMA CeremonyInit == Sign!Init => CeremonyInv
<1> SUFFICES ASSUME Sign!Init PROVE CeremonyInv
    OBVIOUS
<1>1. SheetOK
  BY SheetShape, Zenon DEF Sign!Init, SheetOK, Sign!Empty, Sign!Of
<1>2. Lone /\ \A t \in tasks : RequestOK(t)
  BY LoadShape DEF Sign!Init, Lone, RequestOK
<1>3. QED
  BY <1>1, <1>2 DEF CeremonyInv

\* What the page does without a request, in the dry run every click.
Clicks ==
  \/ \E f \in Sign!Fields : Sign!ClickSig(f) \/ Sign!Approve(f) \/ Sign!Choose(f)
  \/ \E f \in Sign!Fields, v \in {"", "1", "-"} : Sign!Write(f, v)
  \/ Sign!Consent \/ Sign!OpenDecline \/ Sign!CancelDecline
  \/ (\E t \in {"type", "draw"} : Sign!Tab(t)) \/ Sign!Stroke \/ Sign!Clear \/ Sign!adopt \/ Sign!CloseModal
  \/ Preview /\ ((\E f \in Sign!Fields, file \in Files : Sign!uploadAttachment(f, file)) \/ Sign!decline \/ Sign!finish)
Asks == ~Preview /\ ((\E f \in Sign!Fields, file \in Files : Sign!uploadAttachment(f, file)) \/ Sign!decline \/ Sign!finish)
Held(q) == /\ DOMAIN q = SheetKeys /\ DOMAIN q.values = Sign!Fields /\ q.view = p.view
           /\ \A f \in Sign!Of("decline") : q.values[f] = p.values[f]
           /\ ~Preview => /\ q.done = p.done /\ q.declinedHere = p.declinedHere
                          /\ \A f \in Sign!Of("attachment") : q.values[f] = p.values[f]

LEMMA CeremonyNext ==
  Sign!Next => \/ Clicks \/ Asks \/ Sign!Open \/ Sign!OtherSigns \/ Sign!Close
               \/ \E t \in tasks : Sign!Check(t) \/ Sign!Store(t) \/ Sign!Act(t) \/ Sign!Answer(t)
BY Zenon DEF Sign!Next, Clicks, Asks

LEMMA ClicksHold ==
  ASSUME CeremonyInv, Clicks
  PROVE  Held(p') /\ UNCHANGED <<env, me, other, rec, tasks, visit, shownAt>>
<1> USE DEF CeremonyInv, SheetOK, SheetKeys, Held, Sign!Set, Sign!Stay, Sign!service, Sign!Of
<1>1. ASSUME NEW f \in Sign!Fields, Sign!ClickSig(f) PROVE Held(p') /\ UNCHANGED <<env, me, other, rec, tasks, visit, shownAt>>
  BY <1>1, Zenon DEF Sign!ClickSig
<1>2. ASSUME NEW f \in Sign!Fields, Sign!Approve(f) PROVE Held(p') /\ UNCHANGED <<env, me, other, rec, tasks, visit, shownAt>>
  BY <1>2, Zenon DEF Sign!Approve
<1>3. ASSUME NEW f \in Sign!Fields, Sign!Choose(f) PROVE Held(p') /\ UNCHANGED <<env, me, other, rec, tasks, visit, shownAt>>
  BY <1>3, Zenon DEF Sign!Choose
<1>4. ASSUME NEW f \in Sign!Fields, NEW v, Sign!Write(f, v) PROVE Held(p') /\ UNCHANGED <<env, me, other, rec, tasks, visit, shownAt>>
  BY <1>4, Zenon DEF Sign!Write
<1>5. ASSUME Sign!Consent \/ Sign!OpenDecline \/ Sign!CancelDecline PROVE Held(p') /\ UNCHANGED <<env, me, other, rec, tasks, visit, shownAt>>
  BY <1>5, Zenon DEF Sign!Consent, Sign!OpenDecline, Sign!CancelDecline
<1>6. ASSUME NEW t, Sign!Tab(t) PROVE Held(p') /\ UNCHANGED <<env, me, other, rec, tasks, visit, shownAt>>
  BY <1>6, Zenon DEF Sign!Tab
<1>7. ASSUME Sign!Stroke \/ Sign!Clear PROVE Held(p') /\ UNCHANGED <<env, me, other, rec, tasks, visit, shownAt>>
  BY <1>7, Zenon DEF Sign!Stroke, Sign!Clear
<1>8. ASSUME Sign!adopt \/ Sign!CloseModal PROVE Held(p') /\ UNCHANGED <<env, me, other, rec, tasks, visit, shownAt>>
  BY <1>8, Zenon DEF Sign!adopt, Sign!CloseModal, Sign!Closed
<1>9. ASSUME Preview, NEW f \in Sign!Fields, NEW file \in Files, Sign!uploadAttachment(f, file)
      PROVE Held(p') /\ UNCHANGED <<env, me, other, rec, tasks, visit, shownAt>>
  BY <1>9, Zenon DEF Sign!uploadAttachment
<1>10. ASSUME Preview, Sign!decline \/ Sign!finish PROVE Held(p') /\ UNCHANGED <<env, me, other, rec, tasks, visit, shownAt>>
  BY <1>10, Zenon DEF Sign!decline, Sign!finish
<1>11. QED
  BY <1>1, <1>2, <1>3, <1>4, <1>5, <1>6, <1>7, <1>8, <1>9, <1>10, Zenon DEF Clicks

\* A request that is sent, with what the page knew; nothing else is on its way
\* while the signer waits.
Sent(u) == /\ tasks' = tasks \cup {u} /\ u.visit = visit /\ u.at = "sent" /\ u.sent = Sign!Payload /\ RequestOK(u) /\ u.kind # "load"
           /\ (Patient => tasks = {}) /\ UNCHANGED <<env, me, other, rec, visit>>
           /\ IF u.kind = "finish" THEN Sign!canFinish /\ shownAt' = shownAt \cup {Sign!Shown} ELSE shownAt' = shownAt

LEMMA AsksSend ==
  ASSUME CeremonyInv, Asks
  PROVE  Held(p') /\ \E u : Sent(u)
<1> USE DEF CeremonyInv, SheetOK, SheetKeys, Held, Sign!Send, Sign!service
<1>1. ASSUME NEW f \in Sign!Fields, NEW file \in Files, ~Preview, Sign!uploadAttachment(f, file)
      PROVE  Held(p') /\ \E u : Sent(u)
  <2>1. Held(p')
    BY <1>1, Zenon DEF Sign!uploadAttachment
  <2> DEFINE u == Sign!Request("attach", f, file, Sign!Payload)
  <2>2. /\ tasks' = tasks \cup {u} /\ (Patient => tasks = {}) /\ UNCHANGED <<env, me, other, rec, visit>>
        /\ UNCHANGED shownAt
    BY <1>1, Zenon DEF Sign!uploadAttachment, Sign!May, Sign!Waits, Sign!Of
  <2>3. RequestOK(u) /\ u.kind = "attach" /\ u.at = "sent" /\ u.sent = Sign!Payload /\ u.visit = visit
    BY <1>1, Zenon DEF RequestOK, RequestKeys, Sign!Request, Sign!Of, Sign!uploadAttachment
  <2> HIDE DEF u
  <2>4. Sent(u)
    BY <2>2, <2>3, Zenon DEF Sent
  <2>5. QED
    BY <2>1, <2>4, Zenon
<1>2. ASSUME ~Preview, Sign!decline PROVE Held(p') /\ \E u : Sent(u)
  <2>1. Held(p')
    BY <1>2, Zenon DEF Sign!decline
  <2> DEFINE u == Sign!Request("decline", NONE, "", Sign!Payload)
  <2>2. /\ tasks' = tasks \cup {u} /\ (Patient => tasks = {}) /\ UNCHANGED <<env, me, other, rec, visit>>
        /\ UNCHANGED shownAt
    BY <1>2, Zenon DEF Sign!decline, Sign!Waits
  <2>3. RequestOK(u) /\ u.kind = "decline" /\ u.at = "sent" /\ u.sent = Sign!Payload /\ u.visit = visit
    BY <1>2, Zenon DEF RequestOK, RequestKeys, Sign!Request, Sign!Of
  <2> HIDE DEF u
  <2>4. Sent(u)
    BY <2>2, <2>3, Zenon DEF Sent
  <2>5. QED
    BY <2>1, <2>4, Zenon
<1>3. ASSUME ~Preview, Sign!finish PROVE Held(p') /\ \E u : Sent(u)
  <2>1. Held(p')
    BY <1>3, Zenon DEF Sign!finish
  <2> DEFINE u == Sign!Request("finish", NONE, "", Sign!Payload)
  <2>2. /\ tasks' = tasks \cup {u} /\ (Patient => tasks = {}) /\ UNCHANGED <<env, me, other, rec, visit>>
        /\ Sign!canFinish /\ shownAt' = shownAt \cup {Sign!Shown}
    BY <1>3, Zenon DEF Sign!finish, Sign!May, Sign!Waits
  <2>3. RequestOK(u) /\ u.kind = "finish" /\ u.at = "sent" /\ u.sent = Sign!Payload /\ u.visit = visit
    BY <1>3, Zenon DEF RequestOK, RequestKeys, Sign!Request, Sign!Of
  <2> HIDE DEF u
  <2>4. Sent(u)
    BY <2>2, <2>3, Zenon DEF Sent
  <2>5. QED
    BY <2>1, <2>4, Zenon
<1>4. QED
  BY <1>1, <1>2, <1>3, Zenon DEF Asks

\* The signer marked signed, and a finish that will mark it, have on record what
\* was shown; a finish before that will put it there.
SignedInv ==
  /\ me = "signed" => rec \in shownAt
  /\ \A t \in tasks : t.kind = "finish" =>
       /\ t.at \in {"sent", "checked"} => Stamped(t.sent) \in shownAt
       /\ t.at = "stored" => rec \in shownAt

\* For a signer who waits, with nothing failing, the attachments on the page are
\* those on record, but for one whose answer is on its way.
Steady == Patient /\ ~Faults /\ ~Preview /\ "" \notin Files
Fits(f) == /\ p.values[f] # "" => p.values[f] = rec[f]
           /\ p.view # NONE /\ p.values[f] = "" => p.view.files[f] = rec[f]
Pending(f) == \E t \in tasks : t.kind = "attach" /\ t.at = "ok" /\ t.of = f
TaskFits(t) == /\ t.visit = visit
               /\ t.kind = "attach" /\ t.at = "checked" => me # "signed"
               /\ t.kind \in {"load", "finish"} /\ t.at = "ok" => t.answer.files = rec
               /\ t.kind = "attach" /\ t.at = "ok" => rec[t.of] = t.file
FilesInv == Steady => /\ \A t \in tasks : TaskFits(t)
                      /\ \A f \in Sign!Of("attachment") : Fits(f) \/ Pending(f)
ShowsInv == CeremonyInv /\ SignedInv /\ FilesInv

\* The values on the page, stamped, are what it shows once Finish may be pressed.
LEMMA PayloadShown ==
  ASSUME ShowsInv, Sign!Of("attachment") = {} \/ Steady, tasks = {} \/ Sign!Of("attachment") = {}, Sign!canFinish
  PROVE  Stamped(Sign!Payload) = Sign!Shown
<1>1. \A f \in Sign!Of("attachment") : Sign!Attached(f) = rec[f]
  BY Zenon DEF ShowsInv, FilesInv, Fits, Pending, Sign!Attached, Sign!canFinish, Sign!Form, Sign!signable
<1>2. \A f \in Sign!Of("sig") : f \in p.applied
  BY DEF Sign!canFinish
<1>3. \A f \in Sign!Of("decline") : p.values[f] = "" /\ rec[f] = ""
  BY Zenon DEF ShowsInv, CeremonyInv, SheetOK
<1>4. ASSUME NEW f \in Sign!Fields PROVE Stamped(Sign!Payload)[f] = Sign!Shown[f]
  BY <1>1, <1>2, <1>3, Zenon DEF Stamped, Apart, Sign!Payload, Sign!Shown, Sign!Of
<1>5. QED
  BY <1>4, Zenon DEF Stamped, Sign!Shown

LEMMA ShowsInit == Sign!Init => ShowsInv
<1> SUFFICES ASSUME Sign!Init PROVE ShowsInv
    OBVIOUS
<1>1. CeremonyInv
  BY CeremonyInit
<1>2. SignedInv
  BY LoadShape DEF SignedInv, Sign!Init
<1>3. \A f \in Sign!Of("attachment") : Fits(f)
  BY Zenon DEF Sign!Init, Fits, Sign!Page, Sign!Empty, Sign!Of
<1>4. \A t \in tasks : t.visit = visit /\ t.kind = "load" /\ t.at = "sent"
  BY LoadShape DEF Sign!Init
<1>5. FilesInv
  BY <1>3, <1>4 DEF FilesInv, TaskFits
<1>6. QED
  BY <1>1, <1>2, <1>5 DEF ShowsInv

LEMMA ShowsClicks ==
  ASSUME ShowsInv, Held(p'), UNCHANGED <<env, me, other, rec, tasks, visit, shownAt>>
  PROVE  ShowsInv'
<1>1. CeremonyInv'
  BY Zenon DEF ShowsInv, CeremonyInv, SheetOK, Lone, Held
<1>2. SignedInv'
  BY DEF ShowsInv, SignedInv, Stamped
<1>3. FilesInv'
  <2>1. Steady => \A f \in Sign!Of("attachment") : Fits(f) => Fits(f)'
    BY Zenon DEF Held, Fits, Steady
  <2>2. \A f : Pending(f) => Pending(f)'
    BY DEF Pending
  <2>3. \A t \in tasks : TaskFits(t) => TaskFits(t)'
    BY DEF TaskFits
  <2>4. QED
    BY <2>1, <2>2, <2>3, Zenon DEF ShowsInv, FilesInv, Steady
<1>4. QED
  BY <1>1, <1>2, <1>3 DEF ShowsInv

LEMMA ShowsAsks ==
  ASSUME ShowsInv, Sign!Of("attachment") = {} \/ Steady, Held(p'), NEW u, Sent(u)
  PROVE  ShowsInv'
<1>1. CeremonyInv'
  <2>1. SheetOK'
    BY Zenon DEF ShowsInv, CeremonyInv, SheetOK, Held, Sent
  <2>2. Lone' /\ \A t \in tasks' : RequestOK(t)
    BY DEF ShowsInv, CeremonyInv, Lone, Sent
  <2>3. QED
    BY <2>1, <2>2 DEF CeremonyInv
<1>2. SignedInv'
  <2>1. u.kind = "finish" => Stamped(u.sent) = Sign!Shown
    BY PayloadShown, Zenon DEF Sent, Steady
  <2>2. QED
    BY <2>1 DEF ShowsInv, SignedInv, Sent, Stamped
<1>3. FilesInv'
  <2>1. Steady => \A f \in Sign!Of("attachment") : Fits(f) => Fits(f)'
    BY Zenon DEF Held, Fits, Steady, Sent
  <2>2. Steady => \A f \in Sign!Of("attachment") : Fits(f)
    BY Zenon DEF ShowsInv, FilesInv, Pending, Steady, Sent
  <2>3. TaskFits(u)'
    BY DEF TaskFits, Sent
  <2>4. Steady => tasks' = {u}
    BY Zenon DEF Steady, Sent
  <2>5. QED
    BY <2>1, <2>2, <2>3, <2>4, Zenon DEF FilesInv, Steady
<1>4. QED
  BY <1>1, <1>2, <1>3 DEF ShowsInv

\* A request goes on by a step, and stays the request it was.
Onward(t, u) == /\ tasks' = (tasks \ {t}) \cup {u} /\ DOMAIN u = RequestKeys
                /\ \A k \in RequestKeys \ {"at", "answer"} : u[k] = t[k]

LEMMA CeremonyOnward ==
  ASSUME CeremonyInv, NEW t \in tasks, NEW u, Onward(t, u), UNCHANGED p,
         DOMAIN rec' = Sign!Fields, \A f \in Sign!Of("decline") : rec'[f] = rec[f]
  PROVE  CeremonyInv' /\ u.kind = t.kind /\ u.visit = t.visit /\ u.of = t.of /\ u.file = t.file /\ u.sent = t.sent
<1>1. u.kind = t.kind /\ u.visit = t.visit /\ u.of = t.of /\ u.file = t.file /\ u.sent = t.sent
  BY DEF Onward, RequestKeys
<1>2. SheetOK'
  BY Zenon DEF CeremonyInv, SheetOK
<1>3. RequestOK(u)
  BY <1>1 DEF CeremonyInv, RequestOK, Onward
<1>4. Lone' /\ \A v \in tasks' : RequestOK(v)
  BY <1>3 DEF CeremonyInv, Lone, Onward
<1>5. QED
  BY <1>1, <1>2, <1>4 DEF CeremonyInv

LEMMA EachOnward ==
  ASSUME CeremonyInv, NEW t \in tasks, NEW x, Sign!Becomes(t, [t EXCEPT !.at = x])
  PROVE  Onward(t, [t EXCEPT !.at = x]) /\ [t EXCEPT !.at = x].at = x
<1>1. DOMAIN t = RequestKeys
  BY DEF CeremonyInv, RequestOK
<1>2. QED
  BY <1>1 DEF Onward, RequestKeys, Sign!Becomes

LEMMA ShowsCheck ==
  ASSUME ShowsInv, NEW t \in tasks, Sign!Check(t)
  PROVE  ShowsInv'
<1>1. PICK to \in {"checked", "refused"} : (to = "checked" => Sign!Passes(t)) /\ Sign!Becomes(t, [t EXCEPT !.at = to])
  BY DEF Sign!Check
<1>2. t.at = "sent" /\ UNCHANGED <<env, me, other, rec, p, visit, shownAt>>
  BY DEF Sign!Check, Sign!service
<1> DEFINE u == [t EXCEPT !.at = to]
<1>3. Onward(t, u) /\ u.at = to
  BY <1>1, EachOnward DEF ShowsInv
<1> HIDE DEF u
<1>4. CeremonyInv' /\ u.kind = t.kind /\ u.visit = t.visit /\ u.of = t.of /\ u.file = t.file /\ u.sent = t.sent
  BY <1>2, <1>3, CeremonyOnward, Zenon DEF ShowsInv, CeremonyInv, SheetOK
<1>5. SignedInv'
  BY <1>2, <1>3, <1>4 DEF ShowsInv, SignedInv, Stamped, Onward
<1>6. t.kind = "attach" /\ to = "checked" => me # "signed"
  BY <1>1 DEF Sign!Passes, Sign!Signable
<1>7. FilesInv'
  <2>1. \A f : Fits(f) => Fits(f)'
    BY <1>2, Zenon DEF Fits
  <2>2. \A f : Pending(f) => Pending(f)'
    BY <1>2, <1>3 DEF Pending, Onward
  <2>3. Steady => TaskFits(u)'
    BY <1>2, <1>3, <1>4, <1>6 DEF ShowsInv, FilesInv, TaskFits
  <2>4. \A v : TaskFits(v) => TaskFits(v)'
    BY <1>2 DEF TaskFits
  <2>5. tasks' = (tasks \ {t}) \cup {u}
    BY <1>3 DEF Onward
  <2>6. QED
    BY <2>1, <2>2, <2>3, <2>4, <2>5, Zenon DEF ShowsInv, FilesInv, Steady
<1>8. QED
  BY <1>4, <1>5, <1>7 DEF ShowsInv

LEMMA ShowsStore ==
  ASSUME ShowsInv, NEW t \in tasks, Sign!Store(t)
  PROVE  ShowsInv'
<1>a. t.kind = "finish" /\ t.at = "checked"
  BY DEF Sign!Store
<1>b. rec' = Stamped(t.sent)
  BY DEF Sign!Store, Stamped, Apart
<1>c. UNCHANGED <<env, me, other, p, visit, shownAt>>
  BY DEF Sign!Store
<1>d. Sign!Becomes(t, [t EXCEPT !.at = "stored"])
  BY DEF Sign!Store
<1>1. t.kind = "finish" /\ t.at = "checked" /\ UNCHANGED <<env, me, other, p, visit, shownAt>>
  BY <1>a, <1>c
<1> DEFINE u == [t EXCEPT !.at = "stored"]
<1>2. Onward(t, u) /\ u.at = "stored"
  BY <1>d, EachOnward DEF ShowsInv
<1> HIDE DEF u
<1>3. DOMAIN rec' = Sign!Fields /\ \A f \in Apart : rec'[f] = rec[f]
  BY <1>b DEF Stamped, Apart
<1>4. CeremonyInv' /\ u.kind = t.kind /\ u.visit = t.visit /\ u.of = t.of /\ u.file = t.file /\ u.sent = t.sent
  BY <1>1, <1>2, <1>3, CeremonyOnward DEF ShowsInv, Apart, Sign!Of
<1>5. SignedInv'
  <2>1. rec' \in shownAt'
    <3>1. SignedInv
      BY DEF ShowsInv
    <3>2. Stamped(t.sent) \in shownAt
      BY <1>a, <3>1 DEF SignedInv
    <3>3. QED
      BY <1>b, <1>c, <3>2
  <2>2. \A x : Stamped(x)' = Stamped(x)
    BY <1>3 DEF Stamped
  <2>3. QED
    BY <1>1, <1>2, <1>4, <2>1, <2>2 DEF ShowsInv, SignedInv, Onward
<1>6. FilesInv'
  <2>1. Steady => tasks' = {u}
    BY <1>2, Zenon DEF ShowsInv, CeremonyInv, Lone, Steady, Onward
  <2>2. \A f \in Sign!Of("attachment") : rec'[f] = rec[f]
    BY <1>3 DEF Apart, Sign!Of
  <2>3. \A f \in Sign!Of("attachment") : Fits(f) => Fits(f)'
    BY <1>1, <2>2, Zenon DEF Fits
  <2>4. Steady => \A f \in Sign!Of("attachment") : Fits(f)
    BY <1>1, Zenon DEF ShowsInv, CeremonyInv, Lone, Steady, FilesInv, Pending
  <2>5. Steady => TaskFits(u)'
    BY <1>1, <1>2, <1>4 DEF ShowsInv, FilesInv, TaskFits
  <2>6. QED
    BY <2>1, <2>3, <2>4, <2>5, Zenon DEF FilesInv, Steady
<1>7. QED
  BY <1>4, <1>5, <1>6 DEF ShowsInv

\* What a reply does, whatever it was a reply to.
LEMMA ShowsReply ==
  ASSUME ShowsInv, NEW t \in tasks, NEW x, Sign!Replies(t, x), UNCHANGED <<p, visit, shownAt>>,
         IF t.kind = "attach" THEN Steady /\ t.at = "checked" /\ rec' = [rec EXCEPT ![t.of] = t.file] ELSE UNCHANGED rec,
         t.at # "ok", t.kind = "load" => x.files = rec, t.kind = "finish" => x.files = rec,
         me' = "signed" => me = "signed" \/ rec \in shownAt,
         me' = "signed" => me = "signed" \/ t.kind # "attach"
  PROVE  ShowsInv'
<1>1. PICK to \in {"ok", "refused"} : (to = "refused" => Faults) /\ Sign!Becomes(t, [t EXCEPT !.at = to, !.answer = x])
  BY DEF Sign!Replies
<1> DEFINE u == [t EXCEPT !.at = to, !.answer = x]
<1>2. Onward(t, u) /\ u.at = to /\ u.answer = x
  <2>1. DOMAIN t = RequestKeys
    BY DEF ShowsInv, CeremonyInv, RequestOK
  <2>2. QED
    BY <1>1, <2>1 DEF Onward, RequestKeys, Sign!Becomes
<1> HIDE DEF u
<1>3. Steady => tasks' = {u} /\ tasks = {t}
  BY <1>2, Zenon DEF ShowsInv, CeremonyInv, Lone, Steady, Onward
<1>4. t.kind = "attach" => t.of \in Sign!Of("attachment") /\ t.file \in Files
  BY DEF ShowsInv, CeremonyInv, RequestOK
<1>5. DOMAIN rec' = Sign!Fields /\ \A f \in Sign!Of("decline") : rec'[f] = rec[f]
  BY <1>4, Zenon DEF ShowsInv, CeremonyInv, SheetOK, Sign!Of
<1>6. CeremonyInv' /\ u.kind = t.kind /\ u.visit = t.visit /\ u.of = t.of /\ u.file = t.file /\ u.sent = t.sent
  BY <1>2, <1>5, CeremonyOnward DEF ShowsInv
<1>7. SignedInv'
  <2>1. CASE t.kind # "attach"
    BY <1>1, <1>2, <1>6, <2>1 DEF ShowsInv, SignedInv, Stamped, Onward
  <2>2. CASE t.kind = "attach"
    <3>1. me # "signed"
      BY <2>2 DEF ShowsInv, FilesInv, TaskFits
    <3>2. QED
      BY <1>3, <1>6, <2>2, <3>1 DEF SignedInv
  <2>3. QED
    BY <2>1, <2>2
<1>8. FilesInv'
  <2>1. ASSUME Steady, NEW f \in Sign!Of("attachment") PROVE (Fits(f) \/ Pending(f))'
    <3>1. Fits(f)
      BY <1>3, <2>1 DEF ShowsInv, FilesInv, Pending
    <3>2. CASE t.kind # "attach"
      BY <3>1, <3>2, Zenon DEF Fits
    <3>3. CASE t.kind = "attach"
      <4>1. CASE f # t.of
        BY <3>1, <3>3, <4>1, Zenon DEF Fits, ShowsInv, CeremonyInv, SheetOK, Sign!Of
      <4>2. CASE f = t.of
        <5>1. to = "ok"
          BY <1>1, <2>1, Zenon DEF Steady
        <5>2. QED
          BY <1>2, <1>3, <1>6, <2>1, <3>3, <4>2, <5>1 DEF Pending
      <4>3. QED
        BY <4>1, <4>2
    <3>4. QED
      BY <3>2, <3>3
  <2>2. ASSUME Steady PROVE TaskFits(u)'
    <3>1. TaskFits(t)
      BY <2>2 DEF ShowsInv, FilesInv
    <3>2. t.kind = "attach" => rec'[t.of] = t.file
      BY <1>4, Zenon DEF ShowsInv, CeremonyInv, SheetOK, Sign!Of
    <3>3. QED
      BY <1>2, <1>6, <2>2, <3>1, <3>2 DEF TaskFits
  <2>3. QED
    BY <1>3, <2>1, <2>2, Zenon DEF FilesInv, Steady
<1>9. QED
  BY <1>6, <1>7, <1>8 DEF ShowsInv

LEMMA ShowsAct ==
  ASSUME ShowsInv, Sign!Of("attachment") = {} \/ Steady, NEW t \in tasks, Sign!Act(t)
  PROVE  ShowsInv'
<1> USE DEF Sign!SeenBy
<1>1. UNCHANGED <<p, visit, shownAt>>
  BY DEF Sign!Act
<1>2. CASE /\ t.kind = "load" /\ t.at = "checked"
           /\ Sign!Replies(t, IF Preview THEN Sign!SeenBy("sent", "viewed") ELSE Sign!SeenBy(env, me)) /\ UNCHANGED Sign!service
  <2>1. UNCHANGED <<rec, me>>
    BY <1>2 DEF Sign!service
  <2>2. QED
    BY <1>1, <1>2, <2>1, ShowsReply
<1>3. CASE /\ t.kind = "attach" /\ t.at = "checked" /\ rec' = [rec EXCEPT ![t.of] = t.file]
           /\ Sign!Replies(t, NONE) /\ UNCHANGED <<env, me, other>>
  <2>1. Steady
    BY <1>3 DEF ShowsInv, CeremonyInv, RequestOK
  <2>2. QED
    BY <1>1, <1>3, <2>1, ShowsReply
<1>4. CASE /\ t.kind = "decline" /\ t.at = "checked" /\ me' = "declined"
           /\ Sign!Replies(t, NONE) /\ UNCHANGED <<other, rec>>
  BY <1>1, <1>4, ShowsReply
<1>5. CASE /\ t.kind = "finish" /\ t.at = "stored" /\ me' = "signed"
           /\ Sign!Replies(t, Sign!SeenBy(env', me')) /\ UNCHANGED <<other, rec>>
  <2>1. rec \in shownAt
    BY <1>5 DEF ShowsInv, SignedInv
  <2>2. PICK x : x.files = rec /\ Sign!Replies(t, x)
    BY <1>5
  <2>3. QED
    BY <1>1, <1>5, <2>1, <2>2, ShowsReply
<1>6. QED
  BY <1>2, <1>3, <1>4, <1>5 DEF Sign!Act

\* The other signer and the sender leave the record and the page alone.
LEMMA ShowsOthers ==
  ASSUME ShowsInv, Sign!OtherSigns \/ Sign!Close
  PROVE  ShowsInv'
<1>1. UNCHANGED <<me, rec, p, tasks, visit, shownAt>>
  BY DEF Sign!OtherSigns, Sign!Close
<1>2. CeremonyInv'
  BY <1>1, Zenon DEF ShowsInv, CeremonyInv, SheetOK, Lone
<1>3. SignedInv'
  BY <1>1 DEF ShowsInv, SignedInv, Stamped
<1>4. FilesInv'
  BY <1>1, Zenon DEF ShowsInv, FilesInv, Fits, Pending, TaskFits
<1>5. QED
  BY <1>2, <1>3, <1>4 DEF ShowsInv

LEMMA OpenLoads ==
  ASSUME Sign!Open
  PROVE  \E u : /\ tasks' = tasks \cup {u} /\ RequestOK(u)
                /\ u.kind = "load" /\ u.at = "sent" /\ u.visit = visit'
<1>1. visit' = visit + 1
  BY DEF Sign!Open
<1>2. PICK n : tasks' = tasks \cup {[Sign!LoadOf(visit + 1) EXCEPT !.n = n]}
  BY DEF Sign!Open
<1>3. LET u == [Sign!LoadOf(visit + 1) EXCEPT !.n = n]
      IN  DOMAIN u = RequestKeys /\ u.kind = "load" /\ u.at = "sent" /\ u.visit = visit'
  BY <1>1, LoadShape DEF RequestKeys
<1>4. QED
  BY <1>2, <1>3 DEF RequestOK

LEMMA ShowsOpen ==
  ASSUME ShowsInv, Sign!Open
  PROVE  ShowsInv'
<1>1. (Patient => tasks = {}) /\ visit' = visit + 1 /\ p' = Sign!Page /\ UNCHANGED <<env, me, other, rec, shownAt>>
  BY DEF Sign!Open, Sign!Waits, Sign!service
<1>2. PICK u : tasks' = tasks \cup {u} /\ RequestOK(u) /\ u.kind = "load" /\ u.at = "sent" /\ u.visit = visit'
  BY OpenLoads
<1>5. CeremonyInv'
  <2>1. SheetOK'
    BY <1>1, SheetShape, Zenon DEF ShowsInv, CeremonyInv, SheetOK, Sign!Empty, Sign!Of
  <2>2. Lone' /\ \A v \in tasks' : RequestOK(v)
    BY <1>1, <1>2 DEF ShowsInv, CeremonyInv, Lone, RequestOK
  <2>3. QED
    BY <2>1, <2>2 DEF CeremonyInv
<1>6. SignedInv'
  BY <1>1, <1>2 DEF ShowsInv, SignedInv, Stamped
<1>7. FilesInv'
  <2>1. Steady => \A f \in Sign!Of("attachment") : Fits(f)'
    BY <1>1, SheetShape, Zenon DEF Fits, Sign!Empty, Sign!Of
  <2>2. TaskFits(u)'
    BY <1>2 DEF TaskFits
  <2>3. QED
    BY <1>1, <1>2, <2>1, <2>2, Zenon DEF FilesInv, Steady
<1>8. QED
  BY <1>5, <1>6, <1>7 DEF ShowsInv

LEMMA AnswerHolds ==
  ASSUME CeremonyInv, NEW t \in tasks, Sign!Answer(t)
  PROVE  /\ DOMAIN p' = SheetKeys /\ DOMAIN p'.values = Sign!Fields
         /\ \A f \in Sign!Fields : p'.values[f] = IF t.visit = visit /\ t.kind = "attach" /\ t.at = "ok" /\ t.of = f
                                                  THEN t.file ELSE p.values[f]
         /\ p'.view = p.view \/ (t.kind \in {"load", "finish"} /\ t.at = "ok" /\ p'.view = t.answer)
         /\ p'.done => \/ p.done
                       \/ t.kind = "load" /\ t.at = "ok" /\ t.answer.me = "signed"
                       \/ t.kind = "finish" /\ t.at = "ok"
         /\ p'.declinedHere => p.declinedHere \/ (t.kind = "decline" /\ t.at = "ok")
<1>a. DOMAIN p = SheetKeys /\ DOMAIN p.values = Sign!Fields
  BY Zenon DEF CeremonyInv, SheetOK
<1> USE DEF SheetKeys, Sign!Good
<1>1. CASE Sign!Loaded(t)
  BY <1>a, <1>1 DEF Sign!Loaded
<1>2. CASE Sign!Attaching(t) /\ t.visit = visit
  BY <1>a, <1>2 DEF Sign!Attaching
<1>3. CASE Sign!Declined(t)
  BY <1>a, <1>3 DEF Sign!Declined
<1>4. CASE Sign!Finished(t)
  BY <1>a, <1>4 DEF Sign!Finished
<1>5. CASE t.visit # visit /\ UNCHANGED p
  BY <1>a, <1>5
<1>6. QED
  BY <1>1, <1>2, <1>3, <1>4, <1>5 DEF Sign!Answer

LEMMA ShowsAnswer ==
  ASSUME ShowsInv, NEW t \in tasks, Sign!Answer(t)
  PROVE  ShowsInv'
<1>1. t.at \in {"ok", "refused"} /\ tasks' = tasks \ {t} /\ UNCHANGED <<env, me, other, rec, visit, shownAt>>
  BY DEF Sign!Answer, Sign!Loaded, Sign!Attaching, Sign!Declined, Sign!Finished, Sign!Hear, Sign!Stay, Sign!service
<1>2. RequestOK(t)
  BY DEF ShowsInv, CeremonyInv
<1>3. /\ DOMAIN p' = SheetKeys /\ DOMAIN p'.values = Sign!Fields
      /\ \A f \in Sign!Fields : p'.values[f] = IF t.visit = visit /\ t.kind = "attach" /\ t.at = "ok" /\ t.of = f
                                               THEN t.file ELSE p.values[f]
      /\ p'.view = p.view \/ (t.kind \in {"load", "finish"} /\ t.at = "ok" /\ p'.view = t.answer)
  BY AnswerHolds DEF ShowsInv
<1>4. CeremonyInv'
  <2>1. SheetOK'
    BY <1>1, <1>2, <1>3, Zenon DEF ShowsInv, CeremonyInv, SheetOK, RequestOK, Sign!Of
  <2>2. QED
    BY <1>1, <2>1 DEF ShowsInv, CeremonyInv, Lone
<1>5. SignedInv'
  BY <1>1 DEF ShowsInv, SignedInv, Stamped
<1>6. FilesInv'
  <2>1. ASSUME Steady PROVE tasks' = {} /\ TaskFits(t)
    BY <1>1, <2>1, Zenon DEF ShowsInv, CeremonyInv, Lone, Steady, FilesInv
  <2>2. ASSUME Steady, NEW f \in Sign!Of("attachment") PROVE Fits(f)'
    <3>1. f \in Sign!Fields
      BY DEF Sign!Of
    <3>2. CASE t.kind = "attach" /\ t.at = "ok" /\ t.of = f
      BY <1>1, <1>2, <1>3, <2>1, <2>2, <3>1, <3>2, Zenon DEF Fits, TaskFits, Steady, RequestOK
    <3>3. CASE ~(t.kind = "attach" /\ t.at = "ok" /\ t.of = f)
      <4>1. Fits(f)
        BY <1>1, <2>1, <2>2, <3>3 DEF ShowsInv, FilesInv, Pending
      <4>2. p'.view # p.view => p'.view.files = rec
        BY <1>3, <2>1, <2>2 DEF TaskFits
      <4>3. QED
        BY <1>1, <1>3, <3>1, <3>3, <4>1, <4>2, Zenon DEF Fits
    <3>4. QED
      BY <3>2, <3>3
  <2>3. QED
    BY <2>1, <2>2, Zenon DEF FilesInv, Steady
<1>7. QED
  BY <1>4, <1>5, <1>6 DEF ShowsInv

\* What is on record for a signer who has signed is what the page showed when
\* Finish was pressed: with no attachments for any signer, in any number of tabs
\* and whatever fails; with attachments for one who waits, when nothing fails.
THEOREM CeremonySignedAsShown ==
  ASSUME Sign!Of("attachment") = {} \/ Steady
  PROVE  Sign!Spec => []Sign!SignedAsShown
<1>1. Sign!Init => ShowsInv
  BY ShowsInit
<1>2. ASSUME ShowsInv, [Sign!Next]_Sign!vars PROVE ShowsInv'
  <2>1. CASE UNCHANGED Sign!vars
    <3>1. UNCHANGED <<env, me, other, rec, p, tasks, visit, shownAt>>
      BY <2>1 DEF Sign!vars
    <3>2. Held(p)
      BY <1>2, Zenon DEF Held, ShowsInv, CeremonyInv, SheetOK
    <3>3. QED
      BY <1>2, <3>1, <3>2, ShowsClicks
  <2>2. CASE Clicks
    BY <1>2, <2>2, ClicksHold, ShowsClicks DEF ShowsInv
  <2>3. CASE Asks
    BY <1>2, <2>3, AsksSend, ShowsAsks DEF ShowsInv
  <2>4. CASE Sign!Open
    BY <1>2, <2>4, ShowsOpen
  <2>5. CASE Sign!OtherSigns \/ Sign!Close
    BY <1>2, <2>5, ShowsOthers
  <2>6. CASE \E t \in tasks : Sign!Check(t) \/ Sign!Store(t) \/ Sign!Act(t) \/ Sign!Answer(t)
    BY <1>2, <2>6, ShowsCheck, ShowsStore, ShowsAct, ShowsAnswer
  <2>7. QED
    BY <1>2, <2>1, <2>2, <2>3, <2>4, <2>5, <2>6, CeremonyNext
<1>3. ShowsInv => Sign!SignedAsShown
  BY DEF ShowsInv, SignedInv, Sign!SignedAsShown
<1>4. QED
  BY <1>1, <1>2, <1>3, PTL DEF Sign!Spec

\* What is known of a request of a signer who waits: a decline or a finish that
\* was checked is of a signer who has done neither, and answers are up to date.
Known(t) == /\ t.kind = "finish" /\ t.at \in {"checked", "stored"} => me = "viewed"
            /\ t.kind = "decline" /\ t.at = "checked" => me = "viewed"
            /\ t.kind = "load" /\ t.at = "ok" => t.answer.me = me
            /\ t.kind = "finish" /\ t.at = "ok" => me = "signed"
            /\ t.kind = "decline" /\ t.at = "ok" => me = "declined"
Unsigned == \A f \in Sign!Of("sig") : rec[f] = ""
Stamping == \E t \in tasks : t.kind = "finish" /\ t.at = "stored"
OutcomeInv ==
  /\ CeremonyInv
  /\ me \in {"viewed", "signed", "declined"}
  /\ me = "declined" => env # "sent"
  /\ p.declinedHere => me = "declined"
  /\ p.done => me = "signed"
  /\ Unsigned \/ me = "signed" \/ Stamping
  /\ \A t \in tasks : Known(t)

LEMMA OutcomeInit == Sign!Init => OutcomeInv
<1> SUFFICES ASSUME Sign!Init PROVE OutcomeInv
    OBVIOUS
<1>1. CeremonyInv
  BY CeremonyInit
<1>2. \A t \in tasks : t.kind = "load" /\ t.at = "sent"
  BY LoadShape DEF Sign!Init
<1>3. Unsigned
  BY Zenon DEF Sign!Init, Unsigned, Sign!Empty, Sign!Of
<1>4. me = "viewed" /\ ~p.done /\ ~p.declinedHere
  BY SheetShape DEF Sign!Init
<1>5. QED
  BY <1>1, <1>2, <1>3, <1>4 DEF OutcomeInv, Known

\* A step of the service that takes one request on: the invariant follows from
\* what is then known of that request.
LEMMA OutcomeOnward ==
  ASSUME OutcomeInv, Patient, NEW t \in tasks, NEW u, Onward(t, u), UNCHANGED p,
         DOMAIN rec' = Sign!Fields, \A f \in Sign!Of("decline") : rec'[f] = rec[f],
         Known(u)', me' \in {"viewed", "signed", "declined"}, me' = "declined" => env' # "sent",
         me' = me \/ (me = "viewed" /\ UNCHANGED rec),
         \/ (\A f \in Sign!Of("sig") : rec'[f] = rec[f]) /\ (t.at = "stored" /\ t.kind = "finish" => me' = "signed")
         \/ u.kind = "finish" /\ u.at = "stored"
  PROVE  OutcomeInv'
<1>1. CeremonyInv'
  BY CeremonyOnward DEF OutcomeInv
<1>2. tasks = {t} /\ tasks' = {u}
  BY DEF OutcomeInv, CeremonyInv, Lone, Onward
<1>3. (p'.declinedHere => me' = "declined") /\ (p'.done => me' = "signed")
  BY DEF OutcomeInv
<1>4. (Unsigned \/ me = "signed" \/ Stamping)'
  BY <1>2, Zenon DEF OutcomeInv, Unsigned, Stamping
<1>5. QED
  BY <1>1, <1>2, <1>3, <1>4 DEF OutcomeInv

LEMMA OutcomeCheck ==
  ASSUME OutcomeInv, Patient, NEW t \in tasks, Sign!Check(t)
  PROVE  OutcomeInv'
<1>1. PICK to \in {"checked", "refused"} : (to = "checked" => Sign!Passes(t)) /\ Sign!Becomes(t, [t EXCEPT !.at = to])
  BY DEF Sign!Check
<1>2. t.at = "sent" /\ UNCHANGED <<env, me, other, rec, p, visit, shownAt>>
  BY DEF Sign!Check, Sign!service
<1> DEFINE u == [t EXCEPT !.at = to]
<1>3. Onward(t, u) /\ u.at = to
  BY <1>1, EachOnward DEF OutcomeInv
<1> HIDE DEF u
<1>4. u.kind = t.kind
  BY <1>3 DEF Onward, RequestKeys
<1>5. t.kind \in {"finish", "decline"} /\ to = "checked" => me = "viewed"
  BY <1>1 DEF OutcomeInv, Sign!Passes, Sign!Signable, Sign!MayDecline
<1>6. Known(u)'
  BY <1>1, <1>2, <1>3, <1>4, <1>5 DEF Known
<1>7. DOMAIN rec' = Sign!Fields
  BY <1>2, Zenon DEF OutcomeInv, CeremonyInv, SheetOK
<1>8. QED
  BY <1>2, <1>3, <1>6, <1>7, OutcomeOnward DEF OutcomeInv

LEMMA OutcomeStore ==
  ASSUME OutcomeInv, Patient, NEW t \in tasks, Sign!Store(t)
  PROVE  OutcomeInv'
<1>1. t.kind = "finish" /\ t.at = "checked" /\ Sign!Becomes(t, [t EXCEPT !.at = "stored"])
  BY DEF Sign!Store
<1>2. UNCHANGED <<env, me, p>> /\ DOMAIN rec' = Sign!Fields /\ \A f \in Sign!Of("decline") : rec'[f] = rec[f]
  BY DEF Sign!Store, Sign!Of
<1> DEFINE u == [t EXCEPT !.at = "stored"]
<1>3. Onward(t, u) /\ u.at = "stored"
  BY <1>1, EachOnward DEF OutcomeInv
<1> HIDE DEF u
<1>4. u.kind = t.kind
  BY <1>3 DEF Onward, RequestKeys
<1>5. Known(u)'
  BY <1>1, <1>2, <1>3, <1>4 DEF Known, OutcomeInv
<1>6. QED
  BY <1>1, <1>2, <1>3, <1>4, <1>5, OutcomeOnward DEF OutcomeInv

LEMMA OutcomeAct ==
  ASSUME OutcomeInv, Patient, ~Preview, NEW t \in tasks, Sign!Act(t)
  PROVE  OutcomeInv'
<1>1. UNCHANGED p
  BY DEF Sign!Act
<1>a. PICK x : Sign!Replies(t, x) /\ (t.kind = "load" => x = Sign!SeenBy(env, me))
  BY DEF Sign!Act
<1>b. t.kind = "load" => x.me = me
  BY <1>a DEF Sign!SeenBy
<1>2. PICK to \in {"ok", "refused"} : Sign!Becomes(t, [t EXCEPT !.at = to, !.answer = x])
  BY <1>a DEF Sign!Replies
<1> DEFINE u == [t EXCEPT !.at = to, !.answer = x]
<1>3. Onward(t, u) /\ u.at = to /\ u.answer = x
  <2>1. DOMAIN t = RequestKeys
    BY DEF OutcomeInv, CeremonyInv, RequestOK
  <2>2. QED
    BY <1>2, <2>1 DEF Onward, RequestKeys, Sign!Becomes
<1> HIDE DEF u
<1>4. u.kind = t.kind
  BY <1>3 DEF Onward, RequestKeys
<1>5. RequestOK(t) /\ Known(t) /\ DOMAIN rec = Sign!Fields
  BY Zenon DEF OutcomeInv, CeremonyInv, SheetOK
<1>6. CASE t.kind = "load" /\ UNCHANGED <<env, me, rec>>
  <2>1. Known(u)'
    BY <1>b, <1>2, <1>3, <1>4, <1>6 DEF Known
  <2>2. QED
    BY <1>1, <1>3, <1>5, <1>6, <2>1, OutcomeOnward DEF OutcomeInv
<1>7. CASE t.kind = "attach" /\ rec' = [rec EXCEPT ![t.of] = t.file] /\ UNCHANGED <<env, me>>
  <2>1. Known(u)'
    BY <1>4, <1>7 DEF Known
  <2>2. DOMAIN rec' = Sign!Fields /\ \A f \in Sign!Of("decline") \cup Sign!Of("sig") : rec'[f] = rec[f]
    BY <1>5, <1>7 DEF RequestOK, Sign!Of
  <2>3. QED
    BY <1>1, <1>3, <1>7, <2>1, <2>2, OutcomeOnward DEF OutcomeInv
<1>8. CASE /\ t.kind = "decline" /\ t.at = "checked" /\ me' = "declined" /\ UNCHANGED rec
           /\ env' = IF env = "sent" THEN "declined" ELSE env
  <2>1. Known(u)' /\ me = "viewed" /\ env' # "sent"
    BY <1>2, <1>3, <1>4, <1>5, <1>8 DEF Known
  <2>2. QED
    BY <1>1, <1>3, <1>5, <1>8, <2>1, OutcomeOnward DEF OutcomeInv
<1>9. CASE t.kind = "finish" /\ t.at = "stored" /\ me' = "signed" /\ UNCHANGED rec
  <2>1. Known(u)' /\ me = "viewed"
    BY <1>2, <1>3, <1>4, <1>5, <1>9 DEF Known
  <2>2. QED
    BY <1>1, <1>3, <1>5, <1>9, <2>1, OutcomeOnward DEF OutcomeInv
<1>10. QED
  BY <1>6, <1>7, <1>8, <1>9 DEF Sign!Act, Sign!service

LEMMA OutcomeAnswer ==
  ASSUME OutcomeInv, Patient, NEW t \in tasks, Sign!Answer(t)
  PROVE  OutcomeInv'
<1>1. t.at \in {"ok", "refused"} /\ tasks' = tasks \ {t} /\ UNCHANGED <<env, me, other, rec, visit, shownAt>>
  BY DEF Sign!Answer, Sign!Loaded, Sign!Attaching, Sign!Declined, Sign!Finished, Sign!Hear, Sign!Stay, Sign!service
<1>2. Known(t) /\ RequestOK(t) /\ tasks' = {}
  BY <1>1 DEF OutcomeInv, CeremonyInv, Lone
<1>3. (p'.done => me = "signed") /\ (p'.declinedHere => me = "declined")
  BY <1>1, <1>2, AnswerHolds DEF OutcomeInv, Known
<1>4. SheetOK'
  BY <1>1, <1>2, AnswerHolds, Zenon DEF OutcomeInv, CeremonyInv, SheetOK, RequestOK, Sign!Of
<1>5. (Unsigned \/ me = "signed" \/ Stamping)'
  BY <1>1, <1>2, Zenon DEF OutcomeInv, CeremonyInv, Lone, Unsigned, Stamping
<1>6. QED
  BY <1>1, <1>2, <1>3, <1>4, <1>5 DEF OutcomeInv, CeremonyInv, Lone

\* A step that leaves the service and the flags of the page alone, and sends at most.
LEMMA OutcomeAside ==
  ASSUME OutcomeInv, UNCHANGED <<me, rec>>, env = "sent" \/ UNCHANGED env, SheetOK', Lone',
         me = "declined" => UNCHANGED env,
         p'.done => p.done, p'.declinedHere => p.declinedHere,
         \A t \in tasks' : t \in tasks \/ (t.at = "sent" /\ RequestOK(t)), tasks \subseteq tasks'
  PROVE  OutcomeInv'
<1>1. CeremonyInv'
  BY DEF OutcomeInv, CeremonyInv
<1>2. \A t \in tasks' : Known(t)'
  BY DEF OutcomeInv, Known
<1>3. (Unsigned \/ me = "signed" \/ Stamping)'
  BY Zenon DEF OutcomeInv, Unsigned, Stamping
<1>4. QED
  BY <1>1, <1>2, <1>3 DEF OutcomeInv

\* For a signer who waits, whatever fails and whoever acts, the last screen tells
\* what the service holds: declined, with no signature on record, or signed.
THEOREM CeremonyOutcomeTrue ==
  ASSUME Patient, ~Preview
  PROVE  Sign!Spec => []Sign!OutcomeTrue
<1>1. Sign!Init => OutcomeInv
  BY OutcomeInit
<1>2. ASSUME OutcomeInv, [Sign!Next]_Sign!vars PROVE OutcomeInv'
  <2>0. SheetOK /\ Lone /\ \A t \in tasks : RequestOK(t)
    BY <1>2 DEF OutcomeInv, CeremonyInv
  <2>1. CASE UNCHANGED Sign!vars
    BY <1>2, <2>0, <2>1, OutcomeAside, Zenon DEF Sign!vars, SheetOK, Lone
  <2>2. CASE Clicks
    <3>1. Held(p') /\ UNCHANGED <<env, me, other, rec, tasks, visit, shownAt>>
      BY <1>2, <2>2, ClicksHold DEF OutcomeInv
    <3>2. SheetOK' /\ Lone'
      BY <2>0, <3>1, Zenon DEF Held, SheetOK, Lone
    <3>3. QED
      BY <1>2, <2>0, <3>1, <3>2, OutcomeAside DEF Held
  <2>3. CASE Asks
    <3>1. PICK u : Held(p') /\ Sent(u)
      BY <1>2, <2>3, AsksSend DEF OutcomeInv
    <3>2. SheetOK' /\ Lone'
      BY <2>0, <3>1, Zenon DEF Held, SheetOK, Lone, Sent
    <3>3. QED
      BY <1>2, <2>0, <3>1, <3>2, OutcomeAside DEF Held, Sent
  <2>4. CASE Sign!Open
    <3>1. tasks = {} /\ p' = Sign!Page /\ UNCHANGED <<env, me, other, rec, shownAt>>
      BY <2>4 DEF Sign!Open, Sign!Waits, Sign!service
    <3>2. PICK u : tasks' = tasks \cup {u} /\ RequestOK(u) /\ u.at = "sent"
      BY <2>4, OpenLoads
    <3>3. SheetOK' /\ Lone'
      BY <2>0, <3>1, <3>2, SheetShape, Zenon DEF SheetOK, Lone, Sign!Empty, Sign!Of
    <3>4. QED
      BY <1>2, <2>0, <3>1, <3>2, <3>3, SheetShape, OutcomeAside
  <2>5. CASE Sign!OtherSigns \/ Sign!Close
    <3>1. env = "sent" /\ UNCHANGED <<me, rec, p, tasks>>
      BY <2>5 DEF Sign!OtherSigns, Sign!Close
    <3>2. SheetOK' /\ Lone'
      BY <2>0, <3>1, Zenon DEF SheetOK, Lone
    <3>3. me # "declined"
      BY <1>2, <3>1 DEF OutcomeInv
    <3>4. QED
      BY <1>2, <2>0, <3>1, <3>2, <3>3, OutcomeAside
  <2>6. CASE \E t \in tasks : Sign!Check(t) \/ Sign!Store(t) \/ Sign!Act(t) \/ Sign!Answer(t)
    BY <1>2, <2>6, OutcomeCheck, OutcomeStore, OutcomeAct, OutcomeAnswer
  <2>7. QED
    BY <1>2, <2>1, <2>2, <2>3, <2>4, <2>5, <2>6, CeremonyNext
<1>3. OutcomeInv => Sign!OutcomeTrue
  BY Zenon DEF OutcomeInv, Known, Unsigned, Stamping, Sign!OutcomeTrue, Sign!DeclinedTrue
<1>4. QED
  BY <1>1, <1>2, <1>3, PTL DEF Sign!Spec

\* The dry run of the sender writes nothing, nobody else acting.
THEOREM CeremonyPreviewKeeps ==
  ASSUME Preview, ~Others
  PROVE  Sign!Spec => [][Sign!PreviewKeeps]_Sign!vars
<1> DEFINE Loads == CeremonyInv /\ \A t \in tasks : t.kind = "load"
<1>1. Sign!Init => Loads
  BY CeremonyInit, LoadShape DEF Sign!Init
<1>2. ASSUME Loads, [Sign!Next]_Sign!vars PROVE Loads' /\ Sign!PreviewKeeps
  <2>0. SheetOK /\ Lone /\ \A t \in tasks : RequestOK(t) /\ t.kind = "load"
    BY <1>2 DEF CeremonyInv
  <2>1. CASE UNCHANGED Sign!vars
    BY <1>2, <2>1, Zenon DEF Sign!vars, Sign!PreviewKeeps, Sign!service, CeremonyInv, SheetOK, Lone
  <2>2. CASE Clicks
    <3>1. Held(p') /\ UNCHANGED <<env, me, other, rec, tasks, visit, shownAt>>
      BY <1>2, <2>2, ClicksHold
    <3>2. QED
      BY <2>0, <3>1, Zenon DEF Held, Sign!PreviewKeeps, Sign!service, CeremonyInv, SheetOK, Lone
  <2>3. CASE Sign!Open
    <3>1. (Patient => tasks = {}) /\ p' = Sign!Page /\ UNCHANGED <<env, me, other, rec, shownAt>>
      BY <2>3 DEF Sign!Open, Sign!Waits, Sign!service
    <3>2. PICK u : tasks' = tasks \cup {u} /\ RequestOK(u) /\ u.kind = "load"
      BY <2>3, OpenLoads
    <3>3. SheetOK' /\ Lone'
      BY <2>0, <3>1, <3>2, SheetShape, Zenon DEF SheetOK, Lone, Sign!Empty, Sign!Of
    <3>4. QED
      BY <2>0, <3>1, <3>2, <3>3 DEF Sign!PreviewKeeps, Sign!service, CeremonyInv
  <2>4. ASSUME NEW t \in tasks, Sign!Check(t) \/ Sign!Store(t) \/ Sign!Act(t) PROVE Loads' /\ Sign!PreviewKeeps
    <3>1. UNCHANGED <<env, me, other, rec, p, visit, shownAt>>
      BY <2>0, <2>4 DEF Sign!Check, Sign!Store, Sign!Act, Sign!service
    <3>2. PICK x, a : Sign!Becomes(t, [t EXCEPT !.at = x]) \/ Sign!Becomes(t, [t EXCEPT !.at = x, !.answer = a])
      BY <2>0, <2>4, Zenon DEF Sign!Check, Sign!Store, Sign!Act, Sign!Replies
    <3>3. PICK u : Onward(t, u)
      BY <2>0, <3>2 DEF Onward, RequestOK, RequestKeys, Sign!Becomes
    <3>4. CeremonyInv' /\ u.kind = t.kind
      BY <1>2, <2>0, <3>1, <3>3, CeremonyOnward, Zenon DEF SheetOK
    <3>5. QED
      BY <2>0, <3>1, <3>3, <3>4 DEF Onward, Sign!PreviewKeeps, Sign!service
  <2>5. ASSUME NEW t \in tasks, Sign!Answer(t) PROVE Loads' /\ Sign!PreviewKeeps
    <3>1. tasks' = tasks \ {t} /\ UNCHANGED <<env, me, other, rec, visit, shownAt>>
      BY <2>5 DEF Sign!Answer, Sign!Loaded, Sign!Attaching, Sign!Declined, Sign!Finished, Sign!Hear, Sign!Stay, Sign!service
    <3>2. SheetOK'
      BY <1>2, <2>0, <2>5, <3>1, AnswerHolds, Zenon DEF SheetOK, Sign!Of
    <3>3. QED
      BY <2>0, <3>1, <3>2 DEF Sign!PreviewKeeps, Sign!service, CeremonyInv, Lone
  <2>6. ~Asks /\ ~Sign!OtherSigns /\ ~Sign!Close
    BY DEF Asks, Sign!OtherSigns, Sign!Close
  <2>7. QED
    BY <1>2, <2>1, <2>2, <2>3, <2>4, <2>5, <2>6, CeremonyNext
<1>3. QED
  BY <1>1, <1>2, PTL DEF Sign!Spec

----------------------------------------------------------------------------
(* The access picker.                                                      *)

CONSTANTS Nodes, Parent
VARIABLES whole, loaded, known, clicked
Picker == INSTANCE AccessPicker

\* The folders form a forest under the workspaces: going up from any of a set of
\* folders one leaves the set.
Forest == /\ Picker!PickerAssumption
          /\ \A S \in SUBSET Nodes : S # {} => \E n \in S : Parent[n] \notin S

\* The path of a folder is its own and that of the folder above it: the least
\* sets closed upwards are such paths, so there are some.
Climbs(g) == g = [n \in Nodes |-> {n} \cup IF Parent[n] \in Nodes THEN g[Parent[n]] ELSE {}]
Upward(S) == \A y \in S : Parent[y] \in Nodes => Parent[y] \in S
LEMMA ClimbExists == \E g : Climbs(g)
<1> DEFINE A(n) == {x \in Nodes : \A S \in SUBSET Nodes : n \in S /\ Upward(S) => x \in S}
           G == [n \in Nodes |-> A(n)]
<1>1. ASSUME NEW n \in Nodes PROVE A(n) = {n} \cup IF Parent[n] \in Nodes THEN A(Parent[n]) ELSE {}
  <2> DEFINE B == {n} \cup IF Parent[n] \in Nodes THEN A(Parent[n]) ELSE {}
  <2>1. n \in A(n) /\ \A m : A(m) \in SUBSET Nodes
    OBVIOUS
  <2>2. ASSUME Parent[n] \in Nodes PROVE A(Parent[n]) \subseteq A(n)
    BY <2>2 DEF Upward
  <2>3. B \in SUBSET Nodes /\ n \in B
    OBVIOUS
  <2>4. Upward(B)
    <3>1. SUFFICES ASSUME NEW y \in B, Parent[y] \in Nodes PROVE Parent[y] \in B
      BY DEF Upward
    <3>2. CASE y = n
      BY <3>1, <3>2
    <3>3. CASE y # n
      BY <3>1, <3>3 DEF Upward
    <3>4. QED
      BY <3>2, <3>3
  <2>5. A(n) \subseteq B
    BY <2>3, <2>4
  <2>6. QED
    BY <2>1, <2>2, <2>5
<1>2. G = [n \in Nodes |-> {n} \cup IF Parent[n] \in Nodes THEN G[Parent[n]] ELSE {}]
  BY <1>1
<1>3. Climbs(G)
  <2> HIDE DEF G
  <2>1. QED
    BY <1>2 DEF Climbs
<1>4. QED
  BY <1>3

LEMMA PathEq ==
  \A n \in Nodes : Picker!Path(n) = {n} \cup IF Parent[n] \in Nodes THEN Picker!Path(Parent[n]) ELSE {}
<1>1. PICK g : Climbs(g)
  BY ClimbExists
<1>2. Climbs(Picker!Paths)
  BY <1>1 DEF Picker!Paths, Climbs
<1>3. QED
  BY <1>2 DEF Climbs, Picker!Path

\* The folders above a folder, itself among them.
LEMMA PathsAre ==
  ASSUME Forest
  PROVE  /\ \A n \in Nodes : n \in Picker!Path(n) /\ Picker!Path(n) \subseteq Nodes
         /\ \A n \in Nodes : \A x \in Picker!Path(n) : Picker!Path(x) \subseteq Picker!Path(n)
<1>1. \A n \in Nodes : n \in Picker!Path(n)
  BY PathEq
<1>2. ASSUME NEW n \in Nodes PROVE Picker!Path(n) \subseteq Nodes
  <2> DEFINE Bad == {m \in Nodes : ~(Picker!Path(m) \subseteq Nodes)}
  <2>1. ASSUME Bad # {} PROVE FALSE
    <3>1. PICK m \in Bad : Parent[m] \notin Bad
      BY <2>1 DEF Forest
    <3>2. QED
      BY <3>1, PathEq
  <2>2. QED
    BY <2>1
<1>3. ASSUME NEW n \in Nodes PROVE \A x \in Picker!Path(n) : Picker!Path(x) \subseteq Picker!Path(n)
  <2> DEFINE Bad == {m \in Nodes : ~\A x \in Picker!Path(m) : Picker!Path(x) \subseteq Picker!Path(m)}
  <2>1. ASSUME Bad # {} PROVE FALSE
    <3>1. PICK m \in Bad : Parent[m] \notin Bad
      BY <2>1 DEF Forest
    <3>2. Picker!Path(m) = {m} \cup IF Parent[m] \in Nodes THEN Picker!Path(Parent[m]) ELSE {}
      BY PathEq
    <3>3. QED
      BY <3>1, <3>2
  <2>2. QED
    BY <2>1
<1>4. QED
  BY <1>1, <1>2, <1>3

\* No folder is above itself.
LEMMA NoCycle ==
  ASSUME Forest, NEW n \in Nodes, Parent[n] \in Nodes
  PROVE  n \notin Picker!Path(Parent[n])
<1> DEFINE Bad == {m \in Nodes : Parent[m] \in Nodes /\ m \in Picker!Path(Parent[m])}
<1>1. SUFFICES ASSUME Bad # {} PROVE FALSE
  OBVIOUS
<1>2. PICK m \in Bad : Parent[m] \notin Bad
  BY <1>1 DEF Forest
<1>3. PICK k : k = Parent[m]
  OBVIOUS
<1>4. k \in Nodes /\ m \in Picker!Path(k) /\ Picker!Path(k) = {k} \cup IF Parent[k] \in Nodes THEN Picker!Path(Parent[k]) ELSE {}
  BY <1>2, <1>3, PathEq
<1>5. m # k
  BY <1>2, <1>3
<1>6. Parent[k] \in Nodes /\ m \in Picker!Path(Parent[k])
  BY <1>4, <1>5
<1>7. k \in Picker!Path(m)
  BY <1>3, <1>4, PathEq, PathsAre
<1>8. k \in Picker!Path(Parent[k])
  BY <1>6, <1>7, PathsAre
<1>9. QED
  BY <1>2, <1>3, <1>4, <1>6, <1>8

\* Two folders above one are above one another; two above each other are the same.
LEMMA PathChain ==
  ASSUME Forest, NEW n \in Nodes, NEW x \in Picker!Path(n), NEW y \in Picker!Path(n)
  PROVE  x \in Picker!Path(y) \/ y \in Picker!Path(x)
<1> DEFINE Bad == {m \in Nodes : \E u, v \in Picker!Path(m) : u \notin Picker!Path(v) /\ v \notin Picker!Path(u)}
<1>1. SUFFICES ASSUME Bad # {} PROVE FALSE
  OBVIOUS
<1>2. PICK m \in Bad : Parent[m] \notin Bad
  BY <1>1 DEF Forest
<1>3. PICK u, v \in Picker!Path(m) : u \notin Picker!Path(v) /\ v \notin Picker!Path(u)
  BY <1>2
<1>4. u # m /\ v # m
  BY <1>3
<1>5. Parent[m] \in Nodes /\ u \in Picker!Path(Parent[m]) /\ v \in Picker!Path(Parent[m])
  BY <1>3, <1>4, PathEq
<1>6. QED
  BY <1>2, <1>3, <1>5

LEMMA PathAnti ==
  ASSUME Forest, NEW x \in Nodes, NEW y \in Picker!Path(x), x \in Picker!Path(y)
  PROVE  x = y
<1>1. SUFFICES ASSUME x # y PROVE FALSE
  OBVIOUS
<1>2. Parent[x] \in Nodes /\ y \in Picker!Path(Parent[x])
  BY <1>1, PathEq
<1>3. x \in Picker!Path(Parent[x])
  BY <1>2, PathsAre
<1>4. QED
  BY <1>2, <1>3, NoCycle

\* A folder on a path, and not its end, has a child on it.
LEMMA PathDown ==
  ASSUME Forest, NEW n \in Nodes, NEW z \in Picker!Path(n), z # n
  PROVE  \E x \in Picker!Path(n) : Parent[x] = z
<1> DEFINE Bad == {m \in Nodes : \E u \in Picker!Path(m) : u # m /\ \A x \in Picker!Path(m) : Parent[x] # u}
<1>1. SUFFICES ASSUME Bad # {} PROVE FALSE
  OBVIOUS
<1>2. PICK m \in Bad : Parent[m] \notin Bad
  BY <1>1 DEF Forest
<1>3. PICK u \in Picker!Path(m) : u # m /\ \A x \in Picker!Path(m) : Parent[x] # u
  BY <1>2
<1>4. Parent[m] \in Nodes /\ u \in Picker!Path(Parent[m]) /\ Picker!Path(Parent[m]) \subseteq Picker!Path(m) /\ m \in Picker!Path(m)
  BY <1>3, PathEq
<1>5. QED
  BY <1>2, <1>3, <1>4

\* Every folder of a path is in the workspace of its end, which is above the top.
InSpace(n, w) == \E x \in Picker!Path(n) : Parent[x] = w
LEMMA SpaceAbove ==
  ASSUME Forest, NEW n \in Nodes
  PROVE  /\ Picker!SpaceOf(n) \in Spaces /\ InSpace(n, Picker!SpaceOf(n))
         /\ Picker!SpaceOf(n) = IF Parent[n] \in Nodes THEN Picker!SpaceOf(Parent[n]) ELSE Parent[n]
         /\ \A x \in Picker!Path(n) : Picker!SpaceOf(x) = Picker!SpaceOf(n)
<1>1. Spaces \cap Nodes = {} /\ \A m \in Nodes : Parent[m] \in Spaces \cup Nodes
  BY DEF Forest, Picker!PickerAssumption
<1>2. ASSUME NEW m \in Nodes, NEW w \in Spaces
      PROVE  InSpace(m, w) <=> IF Parent[m] \in Nodes THEN InSpace(Parent[m], w) ELSE w = Parent[m]
  BY <1>1, <1>2, PathEq DEF InSpace
<1>3. \A m \in Nodes : Picker!SpaceOf(m) = CHOOSE w \in Spaces : InSpace(m, w)
  BY DEF Picker!SpaceOf, InSpace
<1>4. ASSUME NEW m \in Nodes
      PROVE  Picker!SpaceOf(m) = IF Parent[m] \in Nodes THEN Picker!SpaceOf(Parent[m]) ELSE Parent[m]
  <2>1. CASE Parent[m] \in Nodes
    <3>1. \A w \in Spaces : InSpace(m, w) <=> InSpace(Parent[m], w)
      BY <1>2, <2>1
    <3>2. (CHOOSE w \in Spaces : InSpace(m, w)) = (CHOOSE w \in Spaces : InSpace(Parent[m], w))
      BY <3>1
    <3>3. QED
      BY <1>3, <2>1, <3>2
  <2>2. CASE Parent[m] \notin Nodes
    <3>1. \A w \in Spaces : InSpace(m, w) <=> w = Parent[m]
      BY <1>2, <2>2
    <3>2. (CHOOSE w \in Spaces : InSpace(m, w)) = Parent[m]
      BY <1>1, <2>2, <3>1
    <3>3. QED
      BY <1>3, <2>2, <3>2
  <2>3. QED
    BY <2>1, <2>2
<1>5. Picker!SpaceOf(n) \in Spaces /\ InSpace(n, Picker!SpaceOf(n))
  <2> DEFINE Bad == {m \in Nodes : ~(Picker!SpaceOf(m) \in Spaces /\ InSpace(m, Picker!SpaceOf(m)))}
  <2>1. SUFFICES ASSUME Bad # {} PROVE FALSE
    OBVIOUS
  <2>2. PICK m \in Bad : Parent[m] \notin Bad
    BY <2>1 DEF Forest
  <2>3. Picker!SpaceOf(m) \in Spaces
    BY <1>1, <1>4, <2>2
  <2>4. QED
    BY <1>2, <1>4, <2>2, <2>3
<1>6. \A x \in Picker!Path(n) : Picker!SpaceOf(x) = Picker!SpaceOf(n)
  <2> DEFINE Bad == {m \in Nodes : \E x \in Picker!Path(m) : Picker!SpaceOf(x) # Picker!SpaceOf(m)}
  <2>1. SUFFICES ASSUME Bad # {} PROVE FALSE
    OBVIOUS
  <2>2. PICK m \in Bad : Parent[m] \notin Bad
    BY <2>1 DEF Forest
  <2>3. QED
    BY <1>4, <2>2, PathEq
<1>7. QED
  BY <1>4, <1>5, <1>6


\* What is granted is known, and what was loaded; a workspace is whole or not.
PickInv == /\ whole \subseteq Spaces /\ grants \subseteq known /\ known \subseteq Nodes
           /\ \A x \in loaded : Picker!Children(x) \subseteq known
           /\ Picker!WholeXorFolders

\* A folder that is drawn was loaded, as all those on the way to it.
LEMMA ShownKnown ==
  ASSUME Forest, PickInv, NEW n \in Picker!Shown
  PROVE  n \in Nodes /\ n \in known /\ \A x \in Picker!Path(n) : Parent[x] \in loaded /\ x \in Nodes
<1>1. n \in Nodes /\ \A x \in Picker!Path(n) : Parent[x] \in loaded /\ x \in Nodes
  BY PathsAre DEF Picker!Shown
<1>2. n \in Picker!Children(Parent[n]) /\ Parent[n] \in loaded
  BY <1>1, PathsAre DEF Picker!Children
<1>3. QED
  BY <1>1, <1>2 DEF PickInv

LEMMA PickInit == ASSUME Forest, Picker!Init PROVE PickInv
BY DEF Picker!Init, PickInv, Picker!WholeXorFolders

LEMMA PickExpand == ASSUME Forest, PickInv, Picker!Expand PROVE PickInv'
<1>1. PICK x : loaded' = loaded \cup {x} /\ known' = known \cup Picker!Children(x) /\ UNCHANGED <<whole, grants>>
  BY DEF Picker!Expand, Picker!Remember
<1>2. known' \subseteq Nodes /\ grants' \subseteq known' /\ whole' \subseteq Spaces
  BY <1>1 DEF PickInv, Picker!Children
<1>3. \A y \in loaded' : Picker!Children(y) \subseteq known'
  BY <1>1 DEF PickInv
<1>4. Picker!WholeXorFolders'
  BY <1>1 DEF PickInv, Picker!WholeXorFolders
<1>5. QED
  BY <1>2, <1>3, <1>4 DEF PickInv, Picker!Children

LEMMA PickWhole == ASSUME Forest, PickInv, Picker!ToggleWhole PROVE PickInv'
<1>1. PICK w \in Spaces :
        /\ IF w \in whole THEN whole' = whole \ {w} /\ grants' = grants
           ELSE whole' = whole \cup {w} /\ grants' = grants \ Picker!Inside(w)
        /\ UNCHANGED <<loaded, known>>
  BY DEF Picker!ToggleWhole
<1>2. Picker!WholeXorFolders'
  BY <1>1 DEF PickInv, Picker!WholeXorFolders, Picker!Inside
<1>3. QED
  BY <1>1, <1>2 DEF PickInv, Picker!Children

\* A tick: what it makes of the grants, and of the workspaces.
LEMMA PickGrant == ASSUME Forest, PickInv, NEW n \in Picker!Shown, ~Picker!Checked(n), Picker!Grant(n) PROVE PickInv'
<1>1. PICK G : G = (grants \ Picker!Subtree(n)) \cup {n}
  OBVIOUS
<1>2. PICK w : w = Picker!SpaceOf(n)
  OBVIOUS
<1>3. /\ IF Picker!Promote(w, G) THEN whole' = whole \cup {w} /\ grants' = G \ Picker!Inside(w)
         ELSE whole' = whole /\ grants' = G
      /\ UNCHANGED <<loaded, known>>
  BY <1>1, <1>2 DEF Picker!Grant
<1>4. G \subseteq known /\ w \in Spaces /\ \A g \in G : Picker!SpaceOf(g) \notin whole
  BY <1>1, <1>2, ShownKnown, SpaceAbove DEF PickInv, Picker!WholeXorFolders, Picker!Checked
<1>5. Picker!WholeXorFolders'
  BY <1>3, <1>4 DEF PickInv, Picker!WholeXorFolders, Picker!Inside
<1>6. QED
  BY <1>3, <1>4, <1>5 DEF PickInv, Picker!Children

\* The siblings that replace a grant are loaded, and in its workspace.
LEMMA SiblingsAre ==
  ASSUME Forest, PickInv, NEW n \in Nodes, NEW C, NEW y \in Picker!Siblings(n, C)
  PROVE  y \in Nodes /\ y \in known /\ Picker!SpaceOf(y) = Picker!SpaceOf(n)
<1>1. PICK x \in Picker!Path(n) : y \in Picker!Loaded(Parent[x])
  BY DEF Picker!Siblings
<1>2. x \in Nodes /\ y \in Nodes /\ Parent[y] = Parent[x] /\ y \in known
  BY <1>1, PathsAre DEF Picker!Loaded, Picker!Children, PickInv
<1>3. Picker!SpaceOf(y) = Picker!SpaceOf(x) /\ Picker!SpaceOf(x) = Picker!SpaceOf(n)
  BY <1>1, <1>2, SpaceAbove
<1>4. QED
  BY <1>2, <1>3

LEMMA PickDemote == ASSUME Forest, PickInv, NEW n \in Picker!Shown, Picker!Checked(n), Picker!Demote(n) PROVE PickInv'
<1>1. PICK C : C = Picker!Cover(n)
  OBVIOUS
<1>2. /\ whole' = IF C = {} THEN whole \ {Picker!SpaceOf(n)} ELSE whole
      /\ grants' = ((grants \ C) \cup Picker!Siblings(n, C)) \ Picker!Subtree(n) /\ UNCHANGED <<loaded, known>>
  BY <1>1 DEF Picker!Demote
<1>3. n \in Nodes
  BY ShownKnown
<1>4. Picker!SpaceOf(n) \notin whole'
  <2>1. CASE C = {}
    BY <1>2, <2>1
  <2>2. CASE C # {}
    <3>1. PICK c \in C : c \in grants /\ c \in Picker!Path(n)
      BY <1>1, <2>2 DEF Picker!Cover
    <3>2. QED
      BY <1>2, <1>3, <2>2, <3>1, SpaceAbove DEF PickInv, Picker!WholeXorFolders
  <2>3. QED
    BY <2>1, <2>2
<1>5. \A g \in grants' : g \in known /\ Picker!SpaceOf(g) \notin whole'
  BY <1>2, <1>3, <1>4, SiblingsAre DEF PickInv, Picker!WholeXorFolders
<1>6. QED
  BY <1>2, <1>5 DEF PickInv, Picker!Children, Picker!WholeXorFolders

LEMMA PickStep == ASSUME Forest, PickInv, [Picker!Next]_(Picker!vars) PROVE PickInv'
<1>1. CASE UNCHANGED Picker!vars
  BY <1>1 DEF PickInv, Picker!vars, Picker!WholeXorFolders, Picker!Children
<1>2. CASE Picker!ToggleFolder
  BY <1>2, PickGrant, PickDemote DEF Picker!ToggleFolder
<1>3. QED
  BY <1>1, <1>2, PickExpand, PickWhole DEF Picker!Next

\* WorkspaceFolderPicker.tsx: of a workspace that is ticked as a whole, no folder
\* is picked, in whatever order the user clicks and the folders arrive.
THEOREM PickerWholeXorFolders == ASSUME Forest PROVE Picker!Spec => []Picker!WholeXorFolders
<1>1. Picker!Init => PickInv
  BY PickInit
<1>2. PickInv /\ [Picker!Next]_(Picker!vars) => PickInv'
  BY PickStep
<1>3. PickInv => Picker!WholeXorFolders
  BY DEF PickInv
<1>4. QED
  BY <1>1, <1>2, <1>3, PTL DEF Picker!Spec

\* A folder is covered as the workspace, or as one of those above it.
LEMMA CoveredAs == \A m \in Nodes : m \in Picker!Covered <=> Picker!SpaceOf(m) \in whole \/ \E g \in grants : g \in Picker!Path(m)
BY DEF Picker!Covered, Picker!Checked

LEMMA TickCovers ==
  ASSUME Forest, PickInv, NEW n \in Picker!Shown, ~Picker!Checked(n), Picker!Grant(n)
  PROVE  Picker!Covered' = Picker!Covered \cup Picker!Below(n)
<1>1. PICK G : G = (grants \ Picker!Subtree(n)) \cup {n}
  OBVIOUS
<1>2. PICK w : w = Picker!SpaceOf(n)
  OBVIOUS
<1>3. IF Picker!Promote(w, G) THEN whole' = whole \cup {w} /\ grants' = G \ Picker!Inside(w)
      ELSE whole' = whole /\ grants' = G
  BY <1>1, <1>2 DEF Picker!Grant
<1>4. n \in Nodes /\ Picker!Subtree(n) \subseteq Picker!Below(n) /\ G \subseteq Nodes /\ w \in Spaces
  BY <1>1, <1>2, ShownKnown, SpaceAbove DEF Picker!Subtree, PickInv
<1>5. ASSUME NEW m \in Nodes
      PROVE  (\E g \in G : g \in Picker!Path(m)) \/ Picker!SpaceOf(m) \in whole <=> m \in Picker!Covered \/ m \in Picker!Below(n)
  <2>1. ASSUME NEW g \in grants, g \in Picker!Path(m), g \in Picker!Subtree(n) PROVE n \in Picker!Path(m)
    BY <1>4, <2>1, PathsAre DEF Picker!Below
  <2>2. m \in Picker!Below(n) <=> n \in Picker!Path(m)
    BY DEF Picker!Below
  <2>3. (\E g \in G : g \in Picker!Path(m)) <=> n \in Picker!Path(m) \/ \E g \in grants : g \in Picker!Path(m)
    BY <1>1, <2>1
  <2>4. QED
    BY <2>2, <2>3, CoveredAs
<1>6. Picker!Covered' = {m \in Nodes : Picker!SpaceOf(m) \in whole' \/ \E g \in grants' : g \in Picker!Path(m)}
  BY DEF Picker!Covered, Picker!Checked
<1>7. Picker!Covered \subseteq Nodes /\ Picker!Below(n) \subseteq Nodes
  BY DEF Picker!Covered, Picker!Below
<1>8. CASE ~Picker!Promote(w, G)
  BY <1>3, <1>5, <1>6, <1>7, <1>8
<1>9. CASE Picker!Promote(w, G)
  <2>1. Picker!Children(w) \subseteq G
    BY <1>9 DEF Picker!Promote, Picker!Loaded
  <2>2. ASSUME NEW m \in Nodes, Picker!SpaceOf(m) = w PROVE \E g \in G : g \in Picker!Path(m)
    <3>1. PICK x \in Picker!Path(m) : Parent[x] = w
      BY <2>2, SpaceAbove DEF InSpace
    <3>2. x \in Picker!Children(w)
      BY <3>1, PathsAre DEF Picker!Children
    <3>3. QED
      BY <2>1, <3>1, <3>2
  <2>3. ASSUME NEW m \in Nodes, NEW g \in G, g \in Picker!Path(m), g \in Picker!Inside(w) PROVE Picker!SpaceOf(m) = w
    BY <2>3, SpaceAbove DEF Picker!Inside
  <2>4. \A m \in Nodes : Picker!SpaceOf(m) \in whole' \/ (\E g \in grants' : g \in Picker!Path(m))
                         <=> (\E g \in G : g \in Picker!Path(m)) \/ Picker!SpaceOf(m) \in whole
    BY <1>3, <1>9, <2>2, <2>3
  <2>5. QED
    BY <1>5, <1>6, <1>7, <2>4
<1>10. QED
  BY <1>8, <1>9

\* WorkspaceFolderPicker.tsx, toggleFolder: a tick covers the folder and all below
\* it and changes nothing else of what is covered, although it drops grants and
\* may promote the workspace.
THEOREM PickerTickGrants == ASSUME Forest PROVE Picker!Spec => [][Picker!TickGrants]_(Picker!vars)
<1>1. Picker!Init => PickInv
  BY PickInit
<1>2. PickInv /\ [Picker!Next]_(Picker!vars) => PickInv'
  BY PickStep
<1>3. PickInv /\ [Picker!Next]_(Picker!vars) => Picker!TickGrants
  <2>1. SUFFICES ASSUME PickInv, [Picker!Next]_(Picker!vars), clicked' # clicked, clicked'.do = "tick"
                 PROVE  Picker!Covered' = Picker!Covered \cup Picker!Below(clicked'.on)
    BY DEF Picker!TickGrants
  <2>2. PICK n \in Picker!Shown : ~Picker!Checked(n) /\ Picker!Grant(n)
    BY <2>1 DEF Picker!vars, Picker!Next, Picker!Expand, Picker!ToggleWhole, Picker!ToggleFolder, Picker!Demote
  <2>3. clicked'.on = n
    BY <2>2 DEF Picker!Grant
  <2>4. Picker!Below(clicked'.on) = Picker!Below(n)
    BY <2>3 DEF Picker!Below
  <2>5. QED
    BY <2>1, <2>2, <2>4, TickCovers
<1>4. QED
  BY <1>1, <1>2, <1>3, PTL DEF Picker!Spec


LEMMA UntickCovers ==
  ASSUME Forest, PickInv, NEW n \in Picker!Shown, Picker!Checked(n), Picker!Demote(n),
         NEW m \in Picker!Covered, m \notin Picker!Below(n), m \notin Picker!Path(n)
  PROVE  m \in Picker!Covered'
<1>1. PICK C : C = Picker!Cover(n)
  OBVIOUS
<1>2. /\ whole' = IF C = {} THEN whole \ {Picker!SpaceOf(n)} ELSE whole
      /\ grants' = ((grants \ C) \cup Picker!Siblings(n, C)) \ Picker!Subtree(n)
  BY <1>1 DEF Picker!Demote
<1>3. n \in Nodes /\ m \in Nodes /\ \A x \in Picker!Path(n) : Parent[x] \in loaded /\ x \in Nodes
  BY ShownKnown DEF Picker!Covered
<1>4. m \in Picker!Covered' <=> Picker!SpaceOf(m) \in whole' \/ \E g \in grants' : g \in Picker!Path(m)
  BY <1>3 DEF Picker!Covered, Picker!Checked
<1>5. n \notin Picker!Path(m) /\ \A x \in Picker!Path(m) : x \in Nodes /\ x \notin Picker!Subtree(n)
  BY <1>3, PathsAre DEF Picker!Below, Picker!Subtree
\* In one workspace, the way up from m leaves a sibling of a folder on the way to n.
<1>6. ASSUME Picker!SpaceOf(m) = Picker!SpaceOf(n)
      PROVE  \E y \in Picker!Path(m) : \E x \in Picker!Path(n) :
               y \notin Picker!Path(n) /\ Parent[y] = Parent[x] /\ (Parent[y] \in Nodes => Parent[y] \in Picker!Path(n))
  <2>1. Picker!Path(m) \ Picker!Path(n) \in SUBSET Nodes /\ m \in Picker!Path(m) \ Picker!Path(n)
    BY <1>3, PathsAre
  <2>2. PICK y \in Picker!Path(m) \ Picker!Path(n) : Parent[y] \notin Picker!Path(m) \ Picker!Path(n)
    BY <2>1 DEF Forest
  <2>3. CASE Parent[y] \in Nodes
    <3>1. Parent[y] \in Picker!Path(m)
      BY <1>3, <2>2, <2>3, PathEq, PathsAre
    <3>2. Parent[y] \in Picker!Path(n) /\ Parent[y] # n
      BY <1>5, <2>2, <3>1
    <3>3. PICK x \in Picker!Path(n) : Parent[x] = Parent[y]
      BY <1>3, <3>2, PathDown
    <3>4. QED
      BY <2>2, <3>2, <3>3
  <2>4. CASE Parent[y] \notin Nodes
    <3>1. Picker!SpaceOf(y) = Parent[y] /\ Picker!SpaceOf(y) = Picker!SpaceOf(m)
      BY <1>3, <1>5, <2>2, <2>4, SpaceAbove
    <3>2. PICK x \in Picker!Path(n) : Parent[x] = Picker!SpaceOf(n)
      BY <1>3, SpaceAbove DEF InSpace
    <3>3. QED
      BY <1>6, <2>2, <2>4, <3>1, <3>2
  <2>5. QED
    BY <2>3, <2>4
<1>7. ASSUME NEW y \in Picker!Path(m), NEW x \in Picker!Path(n), y \notin Picker!Path(n), Parent[y] = Parent[x],
             x \notin UNION {Picker!Path(c) : c \in C}
      PROVE  m \in Picker!Covered'
  <2>1. y \in Picker!Loaded(Parent[x]) \ {x}
    BY <1>3, <1>5, <1>7 DEF Picker!Loaded, Picker!Children
  <2>2. y \in Picker!Siblings(n, C)
    BY <1>7, <2>1 DEF Picker!Siblings
  <2>3. y \in grants'
    BY <1>2, <1>5, <2>2
  <2>4. QED
    BY <1>4, <2>3
<1>8. CASE \E g \in grants \ C : g \in Picker!Path(m)
  BY <1>2, <1>4, <1>5, <1>8
<1>9. CASE \E c \in C : c \in Picker!Path(m)
  <2>1. PICK c \in C : c \in Picker!Path(m)
    BY <1>9
  <2>2. c \in Picker!Path(n) /\ \A d \in C : d \in Picker!Path(c)
    BY <1>1, <2>1 DEF Picker!Cover
  <2>3. Picker!SpaceOf(m) = Picker!SpaceOf(n)
    BY <1>3, <2>1, <2>2, SpaceAbove
  <2>4. PICK y \in Picker!Path(m) : \E x \in Picker!Path(n) :
          y \notin Picker!Path(n) /\ Parent[y] = Parent[x] /\ (Parent[y] \in Nodes => Parent[y] \in Picker!Path(n))
    BY <1>6, <2>3
  <2>5. PICK x \in Picker!Path(n) : y \notin Picker!Path(n) /\ Parent[y] = Parent[x]
    BY <2>4
  <2>6. c \in Picker!Path(y) /\ c # y
    <3>1. y \notin Picker!Path(c)
      BY <1>3, <2>2, <2>5, PathsAre
    <3>2. QED
      BY <1>3, <2>1, <2>2, <2>5, <3>1, PathChain
  <2>7. Parent[y] \in Nodes /\ c \in Picker!Path(Parent[y])
    BY <1>5, <2>6, PathEq
  <2>8. x \notin Picker!Path(c)
    <3>1. SUFFICES ASSUME x \in Picker!Path(c) PROVE FALSE
      OBVIOUS
    <3>2. Picker!Path(c) \subseteq Picker!Path(Parent[x]) /\ Parent[x] \in Nodes /\ x \in Nodes
      BY <1>3, <2>5, <2>7, PathsAre
    <3>3. QED
      BY <3>1, <3>2, NoCycle
  <2>9. x \notin UNION {Picker!Path(d) : d \in C}
    <3>1. \A d \in C : Picker!Path(d) \subseteq Picker!Path(c)
      BY <1>3, <2>2, PathsAre
    <3>2. QED
      BY <2>8, <3>1
  <2>10. QED
    BY <1>7, <2>5, <2>9
<1>10. CASE ~\E g \in grants : g \in Picker!Path(m)
  <2>1. Picker!SpaceOf(m) \in whole
    BY <1>3, <1>10, CoveredAs
  <2>2. CASE C # {} \/ Picker!SpaceOf(m) # Picker!SpaceOf(n)
    BY <1>2, <1>4, <2>1, <2>2
  <2>3. CASE C = {} /\ Picker!SpaceOf(m) = Picker!SpaceOf(n)
    BY <1>6, <1>7, <2>3
  <2>4. QED
    BY <2>2, <2>3
<1>11. QED
  BY <1>8, <1>9, <1>10

\* WorkspaceFolderPicker.tsx, demote: unticking a folder takes nothing away beside
\* it, on any level: the siblings on the way down get the grant that is dropped.
THEOREM PickerUntickKeeps == ASSUME Forest PROVE Picker!Spec => [][Picker!UntickKeeps]_(Picker!vars)
<1>1. Picker!Init => PickInv
  BY PickInit
<1>2. PickInv /\ [Picker!Next]_(Picker!vars) => PickInv'
  BY PickStep
<1>3. PickInv /\ [Picker!Next]_(Picker!vars) => Picker!UntickKeeps
  <2>1. SUFFICES ASSUME PickInv, [Picker!Next]_(Picker!vars), clicked' # clicked, clicked'.do = "untick"
                 PROVE  Picker!Covered \ (Picker!Below(clicked'.on) \cup Picker!Path(clicked'.on)) \subseteq Picker!Covered'
    BY DEF Picker!UntickKeeps
  <2>a. \A x : Picker!Grant(x) => clicked'.do = "tick"
    BY DEF Picker!Grant
  <2>b. Picker!ToggleFolder
    BY <2>1 DEF Picker!vars, Picker!Next, Picker!Expand, Picker!ToggleWhole
  <2>2. PICK n \in Picker!Shown : Picker!Checked(n) /\ Picker!Demote(n)
    BY <2>1, <2>a, <2>b DEF Picker!ToggleFolder
  <2>3. clicked'.on = n
    BY <2>2 DEF Picker!Demote
  <2>4. Picker!Below(clicked'.on) = Picker!Below(n)
    BY <2>3 DEF Picker!Below
  <2>5. Picker!Path(clicked'.on) = Picker!Path(n)
    BY <2>3 DEF Picker!Path
  <2>6. QED
    BY <2>1, <2>2, <2>4, <2>5, UntickCovers
<1>4. QED
  BY <1>1, <1>2, <1>3, PTL DEF Picker!Spec
-----------------------------------------------------------------------------
(* The page of the shares and portals one has made.                        *)

CONSTANTS Shares, Portals, Item, People, Offers
VARIABLES modal, link, item, rows, prows, busy, pBusy, off
Board == INSTANCE SharedPage

ModalKeys == {"kind", "of", "to", "sending", "made", "sent", "turn"}
PleaKeys == {"kind", "n", "of", "to", "after", "turn", "said", "s", "p"}
\* A request for a link that the dialog on the screen sent is about what the
\* dialog is about; once it is served, so is the link.
PleaFits(t) ==
  /\ DOMAIN t = PleaKeys /\ t.turn \in {0, 1} /\ t.said \in {"no", "ok", "failed"}
  /\ modal.kind # NONE /\ t.turn = modal.turn /\ t.said = "no" /\ t.kind = "share" => t.of = modal.of
  /\ modal.kind # NONE /\ t.turn = modal.turn /\ t.said = "ok" =>
       /\ t.kind = "share" => t.of \in Shares /\ Item[t.of] = modal.of
       /\ t.kind = "portal" => t.of \in Portals
DialogInv == /\ DOMAIN modal = ModalKeys /\ modal.turn \in {0, 1} /\ Board!LinkOfModal
             /\ \A t \in tasks : PleaFits(t)

LEMMA SharedStart == Board!SharedAssumption /\ Board!Init => DialogInv
  BY DEF Board!SharedAssumption, Board!Init, DialogInv, Board!Closed, ModalKeys, PleaFits, PleaKeys, Board!LinkOfModal, Board!Links

LEMMA NewPlea ==
  ASSUME NEW ts, NEW kind, NEW of, NEW after
  PROVE  \E r : /\ r = Board!Request(ts, kind, of, after) /\ DOMAIN r = PleaKeys /\ r.kind = kind /\ r.of = of /\ r.turn = modal.turn
                /\ r.said = "no"
<1>1. PICK r : r = Board!Request(ts, kind, of, after)
  OBVIOUS
<1> QED
  BY <1>1 DEF Board!Request, PleaKeys

\* A step that leaves the dialog alone, or closes it.
LEMMA DialogKept ==
  ASSUME Board!SharedAssumption, DialogInv, modal' = modal \/ modal' = Board!Closed(modal.turn),
         \A t \in tasks' : t \in tasks \/ PleaFits(t)'
  PROVE  DialogInv'
<1>1. CASE modal' = modal
  BY <1>1 DEF DialogInv, Board!LinkOfModal, PleaFits
<1>2. CASE modal' = Board!Closed(modal.turn)
  BY <1>2 DEF DialogInv, Board!LinkOfModal, PleaFits, Board!Closed, ModalKeys, Board!SharedAssumption, Board!Links
<1> QED
  BY <1>1, <1>2

LEMMA SharedUser == ASSUME Board!SharedAssumption, DialogInv, Board!User PROVE DialogInv'
<1>1. ASSUME NEW s \in Shares, Board!revoke(s) \/ Board!deleteShare(s) PROVE DialogInv'
  <2>1. PICK kind \in {"revoke", "delete"} : tasks' = tasks \cup {Board!Request(tasks, kind, s, "row")} /\ modal' = modal /\ modal.kind = NONE
    BY <1>1 DEF Board!revoke, Board!deleteShare, Board!RowRequest, Board!OnPage
  <2>2. PICK r : /\ r = Board!Request(tasks, kind, s, "row") /\ DOMAIN r = PleaKeys /\ r.turn = modal.turn /\ r.said = "no"
    BY NewPlea
  <2>3. PleaFits(r)'
    BY <2>1, <2>2 DEF PleaFits, DialogInv
  <2> QED
    BY <2>1, <2>2, <2>3, DialogKept
<1>2. ASSUME NEW door \in Portals, Board!deletePortal(door) PROVE DialogInv'
  <2>1. tasks' = tasks \cup {Board!Request(tasks, "delete", door, "prow")} /\ modal' = modal /\ modal.kind = NONE
    BY <1>2 DEF Board!deletePortal, Board!OnPage
  <2>2. PICK r : /\ r = Board!Request(tasks, "delete", door, "prow") /\ DOMAIN r = PleaKeys /\ r.turn = modal.turn /\ r.said = "no"
    BY NewPlea
  <2>3. PleaFits(r)'
    BY <2>1, <2>2 DEF PleaFits, DialogInv
  <2> QED
    BY <2>1, <2>2, <2>3, DialogKept
<1>3. ASSUME NEW door \in Portals, Board!Disable(door) PROVE DialogInv'
  <2>1. UNCHANGED <<tasks, modal>>
    BY <1>3 DEF Board!Disable
  <2> QED
    BY <2>1, DialogKept
<1>4. ASSUME NEW kind, NEW of, Board!Open(kind, of) PROVE DialogInv'
  <2>1. /\ modal' = [Board!Closed(1 - modal.turn) EXCEPT !.kind = kind, !.of = of] /\ UNCHANGED tasks
        /\ \A t \in tasks : t.turn = modal.turn
    BY <1>4 DEF Board!Open
  <2>2. /\ DOMAIN modal' = ModalKeys /\ modal'.turn \in {0, 1} /\ modal'.turn # modal.turn /\ modal'.made = NONE
    BY <2>1 DEF DialogInv, Board!Closed, ModalKeys
  <2>3. Board!LinkOfModal'
    BY <2>2 DEF Board!LinkOfModal, Board!SharedAssumption, Board!Links
  <2> QED
    BY <2>1, <2>2, <2>3 DEF DialogInv, PleaFits
<1>5. ASSUME NEW who \in People, Board!Choose(who) PROVE DialogInv'
  <2>1. modal' = [modal EXCEPT !.to = who] /\ UNCHANGED tasks
    BY <1>5 DEF Board!Choose
  <2>2. DOMAIN modal' = ModalKeys /\ modal'.turn = modal.turn /\ modal'.kind = modal.kind /\ modal'.of = modal.of /\ modal'.made = modal.made
    BY <2>1 DEF DialogInv, ModalKeys
  <2> QED
    BY <2>1, <2>2 DEF DialogInv, PleaFits, Board!LinkOfModal
<1>6. ASSUME Board!Submit PROVE DialogInv'
  <2>1. PICK after : /\ modal' = (IF modal.kind = "move" THEN Board!Closed(modal.turn) ELSE [modal EXCEPT !.sending = TRUE])
                     /\ tasks' = tasks \cup {Board!Request(tasks, modal.kind, modal.of, after)}
    BY <1>6 DEF Board!Submit
  <2>2. PICK r : /\ r = Board!Request(tasks, modal.kind, modal.of, after) /\ DOMAIN r = PleaKeys /\ r.turn = modal.turn
                 /\ r.of = modal.of /\ r.said = "no"
    BY NewPlea
  <2>3. CASE modal.kind = "move"
    <3>1. PleaFits(r)'
      BY <2>1, <2>2, <2>3 DEF PleaFits, DialogInv, Board!Closed
    <3> QED
      BY <2>1, <2>2, <2>3, <3>1, DialogKept
  <2>4. CASE modal.kind # "move"
    <3>1. DOMAIN modal' = ModalKeys /\ modal'.turn = modal.turn /\ modal'.kind = modal.kind /\ modal'.of = modal.of /\ modal'.made = modal.made
      BY <2>1, <2>4 DEF DialogInv, ModalKeys
    <3>2. PleaFits(r)'
      BY <2>2, <3>1 DEF PleaFits, DialogInv
    <3> QED
      BY <2>1, <2>2, <3>1, <3>2 DEF DialogInv, PleaFits, Board!LinkOfModal
  <2> QED
    BY <2>3, <2>4
<1>7. ASSUME Board!Close PROVE DialogInv'
  <2>1. modal' = Board!Closed(modal.turn) /\ UNCHANGED tasks
    BY <1>7 DEF Board!Close
  <2> QED
    BY <2>1, DialogKept
<1> QED
  BY <1>1, <1>2, <1>3, <1>4, <1>5, <1>6, <1>7 DEF Board!User, Board!Menu, Board!EditPortal

LEMMA SharedServe == ASSUME Board!SharedAssumption, DialogInv, NEW t \in tasks, Board!Serve(t) PROVE DialogInv'
<1>1. t.said = "no" /\ modal' = modal /\ PleaFits(t)
  BY DEF Board!Serve, DialogInv
<1>2. CASE Board!Create(t)
  <2>1. PICK k : /\ t.kind = "share" => k \in Shares /\ Item[k] = t.of
                 /\ t.kind = "portal" => k \in Portals
                 /\ t.kind \in {"share", "portal"} /\ tasks' = Board!Now(t, [t EXCEPT !.said = "ok", !.of = k])
    BY <1>2, Zenon DEF Board!Create
  <2>2. PICK r : r = [t EXCEPT !.said = "ok", !.of = k]
    OBVIOUS
  <2>3. DOMAIN r = PleaKeys /\ r.kind = t.kind /\ r.turn = t.turn /\ r.said = "ok" /\ r.of = k
    BY <1>1, <2>2 DEF PleaFits, PleaKeys
  <2>4. PleaFits(r)'
    BY <1>1, <2>1, <2>3 DEF PleaFits
  <2> QED
    BY <1>1, <2>1, <2>2, <2>4, DialogKept DEF Board!Now, Board!Rest
<1>3. CASE Board!Change(t) \/ Board!Refuse(t) \/ Board!ReadShares(t) \/ Board!ReadPortals(t)
  <2>1. PICK r : /\ tasks' = Board!Now(t, r) /\ DOMAIN r = PleaKeys /\ r.kind = t.kind /\ r.turn = t.turn /\ r.said \in {"no", "ok", "failed"}
                 /\ r.said = "ok" => t.kind \notin {"share", "portal"}
                 /\ r.of = t.of
    <3>1. CASE Board!Change(t)
      <4>1. PICK r : r = [t EXCEPT !.said = "ok"]
        OBVIOUS
      <4> QED
        BY <1>1, <3>1, <4>1 DEF Board!Change, PleaFits, PleaKeys
    <3>2. CASE Board!Refuse(t)
      <4>1. PICK r : r = [t EXCEPT !.said = "failed"]
        OBVIOUS
      <4> QED
        BY <1>1, <3>2, <4>1 DEF Board!Refuse, PleaFits, PleaKeys
    <3>3. CASE Board!ReadShares(t)
      <4>1. PICK x, y : y \in {"no", "ok"} /\ t.kind = "load" /\ tasks' = Board!Now(t, [t EXCEPT !.s = x, !.said = y])
        BY <3>3, Zenon DEF Board!ReadShares
      <4>2. PICK r : r = [t EXCEPT !.s = x, !.said = y] /\ tasks' = Board!Now(t, r)
        BY <4>1
      <4>3. DOMAIN t = PleaKeys
        BY <1>1 DEF PleaFits
      <4>4. DOMAIN r = PleaKeys /\ r.kind = t.kind /\ r.turn = t.turn /\ r.said = y /\ r.of = t.of
        BY <4>2, <4>3 DEF PleaKeys
      <4> QED
        BY <4>1, <4>2, <4>4
    <3>4. CASE Board!ReadPortals(t)
      <4>1. PICK x, y : y \in {"no", "ok"} /\ t.kind = "load" /\ tasks' = Board!Now(t, [t EXCEPT !.p = x, !.said = y])
        BY <3>4, Zenon DEF Board!ReadPortals
      <4>2. PICK r : r = [t EXCEPT !.p = x, !.said = y] /\ tasks' = Board!Now(t, r)
        BY <4>1
      <4>3. DOMAIN t = PleaKeys
        BY <1>1 DEF PleaFits
      <4>4. DOMAIN r = PleaKeys /\ r.kind = t.kind /\ r.turn = t.turn /\ r.said = y /\ r.of = t.of
        BY <4>2, <4>3 DEF PleaKeys
      <4> QED
        BY <4>1, <4>2, <4>4
    <3> QED
      BY <1>3, <3>1, <3>2, <3>3, <3>4
  <2>2. PleaFits(r)'
    BY <1>1, <2>1 DEF PleaFits
  <2> QED
    BY <1>1, <2>1, <2>2, DialogKept DEF Board!Now, Board!Rest
<1> QED
  BY <1>2, <1>3 DEF Board!Serve

LEMMA SharedAnswer ==
  ASSUME Board!SharedAssumption, DialogInv, NEW t \in tasks, Board!Changed(t) \/ Board!Ended(t) \/ Board!Answered(t)
  PROVE  DialogInv'
<1>1. PICK r : r = [t EXCEPT !.kind = "load", !.said = "no", !.s = NONE, !.p = NONE]
  OBVIOUS
<1>2. PleaFits(t) /\ t.turn \in {0, 1} /\ DOMAIN r = PleaKeys /\ r.kind = "load" /\ r.said = "no" /\ r.turn = t.turn
  BY <1>1 DEF DialogInv, PleaFits, PleaKeys
<1>3. \A u \in tasks' : u \in tasks \/ u = r
  BY <1>1 DEF Board!Changed, Board!Ended, Board!Answered, Board!load, Board!Now, Board!Rest
<1>4. PleaFits(r)'
  BY <1>2 DEF PleaFits
<1>5. CASE modal' = modal \/ modal' = Board!Closed(modal.turn)
  BY <1>3, <1>4, <1>5, DialogKept
<1>6. CASE modal' = [modal EXCEPT !.sending = FALSE]
  <2>1. DOMAIN modal' = ModalKeys /\ modal'.turn = modal.turn /\ modal'.kind = modal.kind /\ modal'.of = modal.of /\ modal'.made = modal.made
    BY <1>6 DEF DialogInv, ModalKeys
  <2> QED
    BY <2>1, <1>3, <1>4 DEF DialogInv, PleaFits, Board!LinkOfModal
<1>7. CASE /\ modal' = [modal EXCEPT !.sending = FALSE, !.made = t.of, !.sent = t.to]
           /\ t.kind \in {"share", "portal"} /\ t.said = "ok" /\ Board!Mounted(t)
  <2>1. /\ DOMAIN modal' = ModalKeys /\ modal'.turn = modal.turn /\ modal'.kind = modal.kind /\ modal'.of = modal.of
        /\ modal'.made = t.of
    BY <1>7 DEF DialogInv, ModalKeys
  <2>2. Board!LinkOfModal'
    BY <1>2, <1>7, <2>1 DEF PleaFits, Board!LinkOfModal, Board!Mounted, Board!SharedAssumption
  <2> QED
    BY <2>1, <2>2, <1>3, <1>4 DEF DialogInv, PleaFits
<1>8. \/ modal' = modal \/ modal' = Board!Closed(modal.turn) \/ modal' = [modal EXCEPT !.sending = FALSE]
      \/ /\ modal' = [modal EXCEPT !.sending = FALSE, !.made = t.of, !.sent = t.to]
         /\ t.kind \in {"share", "portal"} /\ t.said = "ok" /\ Board!Mounted(t)
  <2>1. CASE Board!Changed(t)
    BY <2>1 DEF Board!Changed
  <2>2. CASE Board!Ended(t)
    BY <2>2 DEF Board!Ended, Board!DialogDone
  <2>3. CASE Board!Answered(t)
    BY <1>2, <2>3 DEF PleaFits, Board!Answered
  <2> QED
    BY <2>1, <2>2, <2>3
<1> QED
  BY <1>5, <1>6, <1>7, <1>8

\* ShareModal: the link a dialog shows is one to what the dialog was opened
\* for, whatever dialog was closed over its request before.
THEOREM SharedLinkOfModal == ASSUME Board!SharedAssumption PROVE Board!Spec => []Board!LinkOfModal
<1>1. Board!Init => DialogInv
  BY SharedStart
<1>2. DialogInv /\ [Board!Next]_Board!vars => DialogInv'
  <2>1. CASE UNCHANGED Board!vars
    <3>1. UNCHANGED <<modal, tasks>>
      BY <2>1 DEF Board!vars
    <3> QED
      BY <3>1 DEF DialogInv, PleaFits, Board!LinkOfModal
  <2> QED
    BY <2>1, SharedUser, SharedServe, SharedAnswer DEF Board!Next, Board!Answer
<1>3. DialogInv => Board!LinkOfModal
  BY DEF DialogInv
<1> QED
  BY <1>1, <1>2, <1>3, PTL DEF Board!Spec

\* The user waits for the answers, no request fails, and nothing is shared: a
\* link that is made is shown, and the tables are not loaded again.
Tidy == Patient /\ ~Faults /\ {"share", "portal"} \cap Offers = {}

PleaKinds == {"load", "revoke", "delete", "edit", "rename", "move", "trash"}
RowsRight(r) == \A s \in Shares : r[s].status = link[s] /\ (link[s] # "none" => r[s].name = item[Item[s]])
PortalsRight(r) == \A q \in Portals : r[q] = link[q]
TablesRight == rows = NONE \/ (RowsRight(rows) /\ PortalsRight(prows))
\* Until its change is made a request finds the tables right; a load brings
\* them as they are.
TablesFit(t) ==
  /\ DOMAIN t = PleaKeys /\ t.kind \in PleaKinds /\ t.said \in {"no", "ok", "failed"}
  /\ t.kind # "load" /\ t.said # "ok" => TablesRight
  /\ t.kind = "load" => /\ t.said # "failed"
                        /\ (t.s = NONE /\ t.said = "no") \/ RowsRight(t.s)
                        /\ (t.p = NONE /\ t.said = "no") \/ PortalsRight(t.p)
TablesInv == /\ DOMAIN modal = ModalKeys /\ modal.kind \in {NONE, "edit", "rename", "move", "trash"}
             /\ modal.kind # NONE /\ ~modal.sending => tasks = {}
             /\ (\A t, u \in tasks : t = u) /\ (\A t \in tasks : TablesFit(t))
             /\ tasks = {} => TablesRight

LEMMA TablesStart == Tidy /\ Board!Init => TablesInv
  BY DEF Board!Init, TablesInv, Board!Closed, ModalKeys, TablesFit, PleaKeys, PleaKinds, TablesRight

\* A request sent when the tables are right.
LEMMA TablesSent ==
  ASSUME TablesInv, tasks = {}, UNCHANGED <<link, item, rows, prows>>, NEW kind \in PleaKinds \ {"load"}, NEW of, NEW after,
         tasks' = tasks \cup {Board!Request(tasks, kind, of, after)}, DOMAIN modal' = ModalKeys,
         modal'.kind = NONE \/ (modal'.kind = modal.kind /\ modal'.sending)
  PROVE  TablesInv'
<1>1. TablesRight'
  BY DEF TablesInv, TablesRight, RowsRight, PortalsRight
<1>2. PICK r : /\ r = Board!Request(tasks, kind, of, after) /\ DOMAIN r = PleaKeys /\ r.kind = kind /\ r.said = "no"
  BY NewPlea
<1>3. TablesFit(r)'
  BY <1>1, <1>2 DEF TablesFit
<1> QED
  BY <1>2, <1>3 DEF TablesInv

\* A step that sends nothing, with nothing on its way.
LEMMA TablesKept ==
  ASSUME TablesInv, tasks = {}, UNCHANGED <<link, item, rows, prows, tasks>>, DOMAIN modal' = ModalKeys,
         modal'.kind \in {NONE, "edit", "rename", "move", "trash"}
  PROVE  TablesInv'
<1>1. TablesRight'
  BY DEF TablesInv, TablesRight, RowsRight, PortalsRight
<1> QED
  BY <1>1 DEF TablesInv

LEMMA TablesUser == ASSUME Tidy, TablesInv, Board!User PROVE TablesInv'
<1>0. Patient
  BY DEF Tidy
<1>1. ASSUME NEW s \in Shares, Board!revoke(s) \/ Board!deleteShare(s) PROVE TablesInv'
  <2>1. PICK kind \in {"revoke", "delete"} :
          /\ tasks' = tasks \cup {Board!Request(tasks, kind, s, "row")} /\ modal.kind = NONE /\ tasks = {}
          /\ UNCHANGED <<link, item, rows, prows, modal>>
    BY <1>0, <1>1 DEF Board!revoke, Board!deleteShare, Board!RowRequest, Board!OnPage, Board!May
  <2> QED
    BY <2>1, TablesSent DEF TablesInv, PleaKinds
<1>2. ASSUME NEW q \in Portals, Board!deletePortal(q) PROVE TablesInv'
  <2>1. /\ tasks' = tasks \cup {Board!Request(tasks, "delete", q, "prow")} /\ modal.kind = NONE /\ tasks = {}
        /\ UNCHANGED <<link, item, rows, prows, modal>>
    BY <1>0, <1>2 DEF Board!deletePortal, Board!OnPage, Board!May
  <2> QED
    BY <2>1, TablesSent DEF TablesInv, PleaKinds
<1>3. ASSUME NEW q \in Portals, Board!Disable(q) PROVE TablesInv'
  <2>1. tasks = {} /\ UNCHANGED <<link, item, rows, prows, modal, tasks>>
    BY <1>0, <1>3 DEF Board!Disable, Board!OnPage, Board!May
  <2> QED
    BY <2>1, TablesKept DEF TablesInv
<1>4. ASSUME NEW kind, NEW of, Board!OnPage(kind), kind \in {"edit", "share", "portal", "rename", "move", "trash"}, Board!Open(kind, of)
      PROVE  TablesInv'
  <2>1. tasks = {} /\ kind \in {"edit", "rename", "move", "trash"} /\ UNCHANGED <<link, item, rows, prows, tasks>>
        /\ modal' = [Board!Closed(1 - modal.turn) EXCEPT !.kind = kind, !.of = of]
    BY <1>0, <1>4 DEF Tidy, Board!OnPage, Board!May, Board!Open
  <2>2. DOMAIN modal' = ModalKeys /\ modal'.kind = kind
    BY <2>1 DEF Board!Closed, ModalKeys
  <2> QED
    BY <2>1, <2>2, TablesKept
<1>5. ASSUME NEW who \in People, Board!Choose(who) PROVE FALSE
  BY <1>5 DEF Tidy, Board!Choose, Board!May
<1>6. ASSUME Board!Submit PROVE TablesInv'
  <2>1. PICK after : /\ modal' = (IF modal.kind = "move" THEN Board!Closed(modal.turn) ELSE [modal EXCEPT !.sending = TRUE])
                     /\ tasks' = tasks \cup {Board!Request(tasks, modal.kind, modal.of, after)} /\ tasks = {}
                     /\ modal.kind \in {"edit", "rename", "move", "trash"} /\ UNCHANGED <<link, item, rows, prows>>
    BY <1>6 DEF Board!Submit, TablesInv
  <2>2. DOMAIN modal' = ModalKeys /\ (modal'.kind = NONE \/ (modal'.kind = modal.kind /\ modal'.sending))
    BY <2>1 DEF TablesInv, Board!Closed, ModalKeys
  <2> QED
    BY <2>1, <2>2, TablesSent DEF PleaKinds
<1>7. ASSUME Board!Close PROVE TablesInv'
  <2>1. modal' = Board!Closed(modal.turn) /\ tasks = {} /\ UNCHANGED <<link, item, rows, prows, tasks>>
    BY <1>0, <1>7 DEF Board!Close
  <2> QED
    BY <2>1, TablesKept DEF Board!Closed, ModalKeys
<1> QED
  BY <1>1, <1>2, <1>3, <1>4, <1>5, <1>6, <1>7 DEF Board!User, Board!Menu, Board!EditPortal

\* The step of the one request: what it becomes fits.
LEMMA TablesMoved ==
  ASSUME TablesInv, NEW t \in tasks, NEW r, tasks' = Board!Now(t, r), TablesFit(r)', modal' = modal
                                       \/ (DOMAIN modal' = ModalKeys /\ modal'.kind = NONE)
  PROVE  TablesInv'
  BY DEF TablesInv, Board!Now, Board!Rest

LEMMA TablesServe == ASSUME Tidy, TablesInv, NEW t \in tasks, Board!Serve(t) PROVE TablesInv'
<1>1. ~Faults /\ t.said = "no" /\ UNCHANGED <<rows, prows, modal>> /\ TablesFit(t)
  BY DEF Tidy, Board!Serve, TablesInv
<1>2. DOMAIN t = PleaKeys /\ t.kind \in PleaKinds
  BY <1>1 DEF TablesFit
<1>3. CASE Board!Create(t)
  BY <1>2, <1>3 DEF Board!Create, PleaKinds
<1>4. CASE Board!Change(t)
  <2>1. PICK r : r = [t EXCEPT !.said = "ok"] /\ tasks' = Board!Now(t, r)
    BY <1>4 DEF Board!Change
  <2>2. t.kind # "load"
    BY <1>4 DEF Board!Change
  <2>3. DOMAIN r = PleaKeys /\ r.kind = t.kind /\ r.said = "ok"
    BY <1>2, <2>1 DEF PleaKeys
  <2>4. TablesFit(r)'
    BY <1>2, <2>2, <2>3 DEF TablesFit
  <2> QED
    BY <1>1, <2>1, <2>4, TablesMoved
<1>5. CASE Board!Refuse(t)
  <2>1. PICK r : r = [t EXCEPT !.said = "failed"] /\ tasks' = Board!Now(t, r) /\ UNCHANGED <<link, item>>
    BY <1>5 DEF Board!Refuse
  <2>2. t.kind # "load"
    BY <1>1, <1>5 DEF Board!Refuse, Board!Possible
  <2>3. DOMAIN r = PleaKeys /\ r.kind = t.kind /\ r.said = "failed"
    BY <1>2, <2>1 DEF PleaKeys
  <2>4. TablesRight'
    BY <1>1, <2>1, <2>2 DEF TablesFit, TablesRight, RowsRight, PortalsRight
  <2>5. TablesFit(r)'
    BY <1>2, <2>2, <2>3, <2>4 DEF TablesFit
  <2> QED
    BY <1>1, <2>1, <2>5, TablesMoved
<1>6. CASE Board!ReadShares(t)
  <2>1. PICK r : /\ r = [t EXCEPT !.s = [s \in Shares |-> [status |-> link[s], name |-> item[Item[s]]]],
                                  !.said = IF t.p = NONE THEN "no" ELSE "ok"]
                 /\ tasks' = Board!Now(t, r) /\ t.kind = "load" /\ UNCHANGED <<link, item>>
    BY <1>6, Zenon DEF Board!ReadShares
  <2>2. /\ DOMAIN r = PleaKeys /\ r.kind = "load" /\ r.p = t.p /\ r.said = (IF t.p = NONE THEN "no" ELSE "ok")
        /\ r.s = [s \in Shares |-> [status |-> link[s], name |-> item[Item[s]]]]
    BY <1>2, <2>1 DEF PleaKeys
  <2>3. RowsRight(r.s)'
    BY <2>1, <2>2 DEF RowsRight
  <2>4. t.p = NONE \/ PortalsRight(t.p)'
    BY <1>1, <2>1 DEF TablesFit, PortalsRight
  <2>5. TablesFit(r)'
    BY <1>2, <2>1, <2>2, <2>3, <2>4 DEF TablesFit
  <2> QED
    BY <1>1, <2>1, <2>5, TablesMoved, Zenon
<1>7. CASE Board!ReadPortals(t)
  <2>1. PICK r : /\ r = [t EXCEPT !.p = [q \in Portals |-> link[q]], !.said = IF t.s = NONE THEN "no" ELSE "ok"]
                 /\ tasks' = Board!Now(t, r) /\ t.kind = "load" /\ UNCHANGED <<link, item>>
    BY <1>7, Zenon DEF Board!ReadPortals
  <2>2. /\ DOMAIN r = PleaKeys /\ r.kind = "load" /\ r.s = t.s /\ r.said = (IF t.s = NONE THEN "no" ELSE "ok")
        /\ r.p = [q \in Portals |-> link[q]]
    BY <1>2, <2>1 DEF PleaKeys
  <2>3. PortalsRight(r.p)'
    BY <2>1, <2>2 DEF PortalsRight
  <2>4. t.s = NONE \/ RowsRight(t.s)'
    BY <1>1, <2>1 DEF TablesFit, RowsRight
  <2>5. TablesFit(r)'
    BY <1>2, <2>1, <2>2, <2>3, <2>4 DEF TablesFit
  <2> QED
    BY <1>1, <2>1, <2>5, TablesMoved, Zenon
<1> QED
  BY <1>3, <1>4, <1>5, <1>6, <1>7 DEF Board!Serve

LEMMA TablesAnswer ==
  ASSUME Tidy, TablesInv, NEW t \in tasks, Board!Changed(t) \/ Board!Ended(t) \/ Board!Answered(t)
  PROVE  TablesInv'
<1>1. TablesFit(t) /\ DOMAIN t = PleaKeys /\ t.kind \in PleaKinds /\ t.said \in {"no", "ok", "failed"} /\ tasks = {t}
      /\ UNCHANGED <<link, item>>
  BY DEF TablesInv, TablesFit, Board!Changed, Board!Ended, Board!Answered
<1>2. PICK r : r = [t EXCEPT !.kind = "load", !.said = "no", !.s = NONE, !.p = NONE]
  OBVIOUS
<1>3. DOMAIN r = PleaKeys /\ r.kind = "load" /\ r.said = "no" /\ r.s = NONE /\ r.p = NONE
  BY <1>1, <1>2 DEF PleaKeys
<1>4. TablesFit(r)'
  BY <1>3 DEF TablesFit, PleaKinds
<1>5. CASE tasks' = Board!load(t) /\ (modal' = modal \/ (DOMAIN modal' = ModalKeys /\ modal'.kind = NONE))
  BY <1>2, <1>4, <1>5, TablesMoved DEF Board!load
<1>6. CASE tasks' = {} /\ TablesRight' /\ modal' \in {modal, Board!Closed(modal.turn), [modal EXCEPT !.sending = FALSE]}
  <2>1. DOMAIN modal' = ModalKeys /\ modal'.kind \in {NONE, modal.kind}
    BY <1>6 DEF TablesInv, Board!Closed, ModalKeys
  <2> QED
    BY <1>6, <2>1 DEF TablesInv
<1>7. CASE Board!Changed(t)
  BY <1>5, <1>7 DEF Board!Changed
<1>8. CASE Board!Ended(t)
  <2>1. tasks' = {} /\ modal' \in {modal, Board!Closed(modal.turn), [modal EXCEPT !.sending = FALSE]}
    BY <1>1, <1>8 DEF Board!Ended, Board!Rest, Board!DialogDone
  <2>2. TablesRight'
    <3>1. CASE t.said = "ok"
      BY <1>1, <1>8, <3>1 DEF Board!Ended, TablesFit, TablesRight, RowsRight, PortalsRight
    <3>2. CASE t.said = "failed"
      BY <1>1, <1>8, <3>2 DEF Board!Ended, TablesFit, TablesRight, RowsRight, PortalsRight
    <3> QED
      BY <1>8, <3>1, <3>2 DEF Board!Ended
  <2> QED
    BY <1>6, <2>1, <2>2
<1>9. CASE Board!Answered(t)
  <2>1. t.kind = "edit" /\ t.said # "no" /\ UNCHANGED <<rows, prows>>
    BY <1>1, <1>9 DEF Board!Answered, PleaKinds
  <2>2. CASE t.said = "ok"
    BY <1>5, <1>9, <2>1, <2>2 DEF Board!Answered, Board!Closed, ModalKeys
  <2>3. CASE t.said = "failed"
    <3>1. tasks' = {} /\ modal' \in {modal, [modal EXCEPT !.sending = FALSE]}
      BY <1>1, <1>9, <2>1, <2>3 DEF Board!Answered, Board!Rest
    <3>2. TablesRight'
      BY <1>1, <2>1, <2>3 DEF TablesFit, TablesRight, RowsRight, PortalsRight
    <3> QED
      BY <1>6, <3>1, <3>2
  <2> QED
    BY <1>1, <2>1, <2>2, <2>3
<1> QED
  BY <1>7, <1>8, <1>9

\* With nothing on its way the tables are what the service has.
THEOREM SharedListTrue == ASSUME Tidy PROVE Board!Spec => []Board!ListTrue
<1>1. Board!Init => TablesInv
  BY TablesStart
<1>2. TablesInv /\ [Board!Next]_Board!vars => TablesInv'
  <2>1. CASE TablesInv /\ UNCHANGED Board!vars
    <3>1. UNCHANGED <<link, item, rows, prows, modal, tasks>>
      BY <2>1 DEF Board!vars
    <3> QED
      BY <2>1, <3>1 DEF TablesInv, TablesFit, TablesRight, RowsRight, PortalsRight
  <2> QED
    BY <2>1, TablesUser, TablesServe, TablesAnswer DEF Board!Next, Board!Answer
<1>3. TablesInv => Board!ListTrue
  BY DEF TablesInv, TablesRight, RowsRight, PortalsRight, Board!ListTrue, Board!Rested
<1> QED
  BY <1>1, <1>2, <1>3, PTL DEF Board!Spec
----------------------------------------------------------------------------
(* The quick stats of the home page.                                       *)

CONSTANTS PresetRange, Days, Ordered
VARIABLES figures, loading, firstLoad, preset
Stats == INSTANCE HomeStats

\* The presets are other spans than the custom one, which ends at a last day.
PresetsNamed == Stats!StatsAssumption /\ "custom" \notin Stats!Presets /\ Stats!Today \in Days
InOrder == PresetsNamed /\ Ordered

Span == [span : Stats!Presets \cup {"custom"}, prev : Stats!Presets, from : Days \cup {0}, to : Days \cup {0}]
Span2 == (Days \cup {0}) \X (Days \cup {0})
\* What is asked for last is the range on the screen; with no request out, it
\* is what the figures are of.
StatsInv ==
  /\ shown \in Span /\ tasks \in Seq(Span2)
  /\ IF shown.span = "custom" THEN shown.prev = preset ELSE shown.span = preset
  /\ Ordered /\ Stats!resolveSpan(shown) \in Days \X Days =>
       IF Len(tasks) = 0 THEN figures \in {<<>>, Stats!resolveSpan(shown)} ELSE tasks[Len(tasks)] = Stats!resolveSpan(shown)

LEMMA StatsStart == PresetsNamed /\ Stats!Init => StatsInv
<1> SUFFICES ASSUME PresetsNamed, Stats!Init PROVE StatsInv
  OBVIOUS
<1>1. PICK d \in Stats!Presets :
        /\ shown = [span |-> d, prev |-> d, from |-> Stats!Today, to |-> Stats!Today] /\ preset = d
        /\ figures = <<>> /\ tasks = <<PresetRange[d]>>
  BY DEF Stats!Init
<1>2. shown \in Span /\ shown.span = d /\ d # "custom"
  BY <1>1 DEF Span, PresetsNamed
<1>3. PresetRange[d] \in Span2 /\ Stats!resolveSpan(shown) = PresetRange[d]
  BY <1>2 DEF PresetsNamed, Stats!StatsAssumption, Span2, Stats!resolveSpan
<1>4. tasks \in Seq(Span2) /\ Len(tasks) # 0 /\ tasks[Len(tasks)] = PresetRange[d]
  BY <1>1, <1>3
<1> QED
  BY <1>1, <1>2, <1>3, <1>4 DEF StatsInv

LEMMA RangeType == ASSUME PresetsNamed, NEW s \in Span PROVE Stats!resolveSpan(s) \in Span2
<1>1. CASE s.span = "custom"
  BY <1>1 DEF Span, Span2, Stats!resolveSpan
<1>2. CASE s.span # "custom"
  BY <1>2 DEF Span, Span2, Stats!resolveSpan, PresetsNamed, Stats!StatsAssumption
<1> QED
  BY <1>1, <1>2

\* A new range on the screen is asked for.
LEMMA RangeShown ==
  ASSUME PresetsNamed, StatsInv, NEW s \in Span, Stats!Show(s),
         IF s.span = "custom" THEN s.prev = preset' ELSE s.span = preset'
  PROVE  StatsInv'
<1>1. shown' = s /\ Stats!Fetch(Stats!resolveSpan(s)) /\ UNCHANGED figures
  BY DEF Stats!Show
<1>2. Stats!resolveSpan(shown)' = Stats!resolveSpan(s) /\ Stats!resolveSpan(s) \in Span2
  BY <1>1, RangeType DEF Stats!resolveSpan
<1> DEFINE range == Stats!resolveSpan(s)
<1>3. tasks \in Seq(Span2)
  BY DEF StatsInv
<1>4. CASE range = Stats!resolveSpan(shown) \/ 0 \in {range[1], range[2]}
  <2>1. UNCHANGED tasks
    BY <1>1, <1>4 DEF Stats!Fetch
  <2>2. range \in Days \X Days => range = Stats!resolveSpan(shown)
    BY <1>4 DEF PresetsNamed, Stats!StatsAssumption
  <2> QED
    BY <1>1, <1>2, <2>1, <2>2 DEF StatsInv
<1>5. CASE ~(range = Stats!resolveSpan(shown) \/ 0 \in {range[1], range[2]})
  <2>1. tasks' = Append(tasks, range)
    BY <1>1, <1>5 DEF Stats!Fetch
  <2>2. tasks' \in Seq(Span2) /\ Len(tasks') # 0 /\ tasks'[Len(tasks')] = range
    BY <2>1, <1>2, <1>3
  <2> QED
    BY <1>1, <1>2, <2>2 DEF StatsInv
<1> QED
  BY <1>4, <1>5

LEMMA StatsAnswer == ASSUME PresetsNamed, StatsInv, NEW k \in 1..MaxTasks, Stats!Answer(k) PROVE StatsInv'
<1>1. /\ k \in 1..Len(tasks) /\ (Ordered => k = 1) /\ figures' \in {tasks[k], <<>>} /\ UNCHANGED <<shown, preset>>
      /\ tasks' = SubSeq(tasks, 1, k - 1) \o SubSeq(tasks, k + 1, Len(tasks)) /\ tasks \in Seq(Span2)
  BY DEF Stats!Answer, StatsInv
<1>2. SubSeq(tasks, 1, k - 1) \in Seq(Span2) /\ SubSeq(tasks, k + 1, Len(tasks)) \in Seq(Span2)
  BY <1>1
<1>3. tasks' \in Seq(Span2)
  BY <1>1, <1>2
<1>4. Stats!resolveSpan(shown)' = Stats!resolveSpan(shown)
  BY <1>1 DEF Stats!resolveSpan
<1>5. CASE Ordered
  <2>1. k = 1 /\ Len(tasks) \in Nat
    BY <1>1, <1>5
  <2>2. tasks' = SubSeq(tasks, 2, Len(tasks))
    BY <1>1, <1>2, <2>1
  <2>3. CASE Len(tasks) = 1
    <3>1. Len(tasks') = 0 /\ Len(tasks) # 0 /\ tasks[Len(tasks)] = tasks[k]
      BY <1>1, <2>1, <2>2, <2>3
    <3>2. Stats!resolveSpan(shown) \in Days \X Days => figures' \in {<<>>, Stats!resolveSpan(shown)}
      BY <1>1, <1>5, <3>1 DEF StatsInv
    <3> QED
      BY <1>1, <1>3, <1>4, <3>1, <3>2 DEF StatsInv
  <2>4. CASE Len(tasks) # 1
    <3>0. Len(tasks) # 0
      BY <1>1, <2>1
    <3>a. Len(tasks) \in Nat /\ \A n \in Nat : n # 0 /\ n # 1 => n >= 2
      BY <2>1
    <3>1. Len(tasks) >= 2 /\ Len(tasks) \in Nat
      BY <2>4, <3>0, <3>a
    <3>2. Len(SubSeq(tasks, 2, Len(tasks))) = Len(tasks) - 1
      BY <1>1, <3>1
    <3>3. SubSeq(tasks, 2, Len(tasks))[Len(tasks) - 1] = tasks[Len(tasks)]
      BY <1>1, <3>1
    <3>4. tasks'[Len(tasks')] = tasks[Len(tasks)] /\ Len(tasks') # 0 /\ Len(tasks) # 0
      BY <1>3, <2>2, <3>1, <3>2, <3>3
    <3> QED
      BY <1>1, <1>3, <1>4, <1>5, <3>4 DEF StatsInv
  <2> QED
    BY <2>3, <2>4
<1>6. CASE ~Ordered
  BY <1>1, <1>3, <1>4, <1>6 DEF StatsInv
<1> QED
  BY <1>5, <1>6

LEMMA StatsStep == PresetsNamed /\ StatsInv /\ [Stats!Next]_Stats!vars => StatsInv'
<1> SUFFICES ASSUME PresetsNamed, StatsInv, [Stats!Next]_Stats!vars PROVE StatsInv'
  OBVIOUS
<1>0. shown \in Span
  BY DEF StatsInv
<1>1. CASE UNCHANGED Stats!vars
  <2>1. UNCHANGED <<shown, figures, tasks, preset>>
    BY <1>1 DEF Stats!vars
  <2> QED
    BY <2>1 DEF StatsInv, Stats!resolveSpan
<1>2. ASSUME NEW d \in Stats!Presets, Stats!Pick(d) PROVE StatsInv'
  <2>1. PICK s : s = [shown EXCEPT !.span = d]
    OBVIOUS
  <2>2. s \in Span /\ s.span = d /\ d # "custom"
    BY <1>0, <2>1 DEF Span, PresetsNamed
  <2> QED
    BY <1>2, <2>1, <2>2, RangeShown DEF Stats!Pick
<1>3. ASSUME NEW d \in Days \cup {0}, Stats!SetFrom(d) \/ Stats!SetTo(d) PROVE StatsInv'
  <2>1. PICK s : s \in {[shown EXCEPT !.from = d], [shown EXCEPT !.to = d]} /\ Stats!Show(s)
    BY <1>3 DEF Stats!SetFrom, Stats!SetTo
  <2>2. s \in Span /\ s.span = shown.span /\ s.prev = shown.prev
    BY <1>0, <2>1 DEF Span
  <2>3. UNCHANGED preset
    BY <1>3 DEF Stats!SetFrom, Stats!SetTo
  <2> QED
    BY <2>1, <2>2, <2>3, RangeShown DEF StatsInv
<1>4. CASE Stats!EnterCustom
  <2>1. PICK s : s = [shown EXCEPT !.span = "custom", !.prev = shown.span]
    OBVIOUS
  <2>2. s \in Span /\ s.span = "custom" /\ s.prev = shown.span /\ shown.span = preset
    BY <1>0, <1>4, <2>1 DEF Span, Stats!EnterCustom, StatsInv
  <2> QED
    BY <1>4, <2>1, <2>2, RangeShown DEF Stats!EnterCustom
<1>5. CASE Stats!ExitCustom
  <2>1. PICK s : s = [shown EXCEPT !.span = shown.prev]
    OBVIOUS
  <2>2. s \in Span /\ s.span = preset /\ s.span # "custom"
    BY <1>0, <1>5, <2>1 DEF Span, Stats!ExitCustom, StatsInv, PresetsNamed
  <2> QED
    BY <1>5, <2>1, <2>2, RangeShown DEF Stats!ExitCustom
<1> QED
  BY <1>1, <1>2, <1>3, <1>4, <1>5, StatsAnswer DEF Stats!Next, Stats!Answering

\* SpanControl's exit: the custom range folds back to the preset chosen before
\* it, whatever was done to the range meanwhile.
THEOREM StatsCustomUndone == ASSUME PresetsNamed PROVE Stats!Spec => []Stats!CustomUndone
<1>1. StatsInv => Stats!CustomUndone
  BY DEF StatsInv, Stats!CustomUndone
<1>2. PresetsNamed
  OBVIOUS
<1> QED
  BY <1>1, <1>2, StatsStart, StatsStep, PTL DEF Stats!Spec

\* Home's effect, which has no clean-up: with answers in the order of the
\* requests, the figures are of the range the tiles are labelled with.
THEOREM StatsFigures == ASSUME InOrder PROVE Stats!Spec => []Stats!StatsFit
<1>1. InOrder /\ StatsInv => Stats!StatsFit
  BY DEF StatsInv, InOrder, Stats!StatsFit
<1>2. PresetsNamed /\ InOrder
  BY DEF InOrder
<1> QED
  BY <1>1, <1>2, StatsStart, StatsStep, PTL DEF Stats!Spec
=============================================================================
