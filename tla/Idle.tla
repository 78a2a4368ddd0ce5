-------------------------------- MODULE Idle --------------------------------
(***************************************************************************)
(* Signing an idle user out: the timer of useInactivityLogout in every     *)
(* open tab, the logout of AuthContext it calls, the reaction of every     *)
(* request to a 401 (api.ts), and the window the server keeps for itself   *)
(* on the one session the tabs share (LoadIdentity, Touch).                *)
(* Time is kept in ages, up to Cap, so the module needs no clock.          *)
(***************************************************************************)
EXTENDS Naturals

CONSTANTS Tabs,  \* the tabs in which the account is open
          Window \* idle_timeout_seconds, in ticks

WindowAssumption == Window \in Nat \ {0}

VARIABLES tab,     \* each tab: where it is, its timer, its last interaction
          live,    \* the session is neither revoked nor gone
          unasked, \* ticks since the last request the server took: last_seen_at
          unused   \* ticks since the last interaction, in whichever tab

vars == <<tab, live, unasked, unused>>
Cap == 2 * Window + 1
Older(n) == IF n = Cap THEN Cap ELSE n + 1
In(t) == tab[t].at \in {"in", "flush", "revoke"}

Init == /\ \E front \in Tabs :
             tab = [t \in Tabs |-> [at |-> "in", since |-> 0, left |-> Window, visible |-> t = front, why |-> "none"]]
        /\ live = TRUE /\ unasked = 0 /\ unused = 0

\* A visible tab's timer is punctual; a hidden one's may be throttled.
Punctual == \A t \in Tabs : tab[t].at = "in" /\ tab[t].visible => tab[t].left > 0
Tick == /\ Punctual
        /\ tab' = [t \in Tabs |-> [tab[t] EXCEPT !.since = Older(@), !.left = IF @ = 0 THEN 0 ELSE @ - 1]]
        /\ unasked' = Older(unasked) /\ unused' = Older(unused) /\ UNCHANGED live
----------------------------------------------------------------------------
(* The hook.                                                               *)

Arm(r) == [r EXCEPT !.since = 0, !.left = Window]
\* onActivity: the timer starts again; a sign-out under way goes on (firedOnce).
Activity(t) == /\ tab[t].visible /\ In(t)
               /\ tab' = [tab EXCEPT ![t] = IF @.at = "in" THEN Arm(@) ELSE [@ EXCEPT !.since = 0]]
               /\ unused' = 0 /\ UNCHANGED <<live, unasked>>

\* signOut: the reason is left for the sign-in page, then logout begins.
Leaving(r) == [r EXCEPT !.at = "flush", !.why = "idle"]
Fire(t) == /\ tab[t].at = "in" /\ tab[t].left = 0
           /\ tab' = [tab EXCEPT ![t] = Leaving(@)] /\ UNCHANGED <<live, unasked, unused>>
\* onVisibility: out at once if the window has passed, else a whole new window.
Reconcile(r) == IF r.at # "in" THEN r ELSE IF r.since >= Window THEN Leaving(r) ELSE [r EXCEPT !.left = Window]
Show(t) == /\ ~tab[t].visible
           /\ tab' = [u \in Tabs |-> IF u = t THEN Reconcile([tab[u] EXCEPT !.visible = TRUE])
                                     ELSE [tab[u] EXCEPT !.visible = FALSE]]
           /\ UNCHANGED <<live, unasked, unused>>
Hide(t) == tab[t].visible /\ tab' = [tab EXCEPT ![t].visible = FALSE] /\ UNCHANGED <<live, unasked, unused>>
----------------------------------------------------------------------------
(* Requests and logout.                                                    *)

\* LoadIdentity: a session too long without requests is revoked.
Taken == live /\ unasked <= Window
Serve == IF Taken THEN unasked' = 0 /\ UNCHANGED live ELSE live' = FALSE /\ UNCHANGED unasked
\* parseResponse: a 401 leaves its own reason and loads the sign-in page.
Bounce(r) == [r EXCEPT !.at = "login", !.why = "ended"]
After(r, next) == IF Taken THEN [r EXCEPT !.at = next] ELSE Bounce(r)

Request(t) == /\ tab[t].at = "in" /\ Serve
              /\ tab' = [tab EXCEPT ![t] = After(@, "in")] /\ UNCHANGED unused
Logout(t) == /\ tab[t].at = "in" /\ tab[t].visible
             /\ tab' = [tab EXCEPT ![t].at = "flush"] /\ UNCHANGED <<live, unasked, unused>>
\* First the office sessions are deleted, as an authenticated request.
EndOffice(t) == /\ tab[t].at = "flush" /\ Serve
                /\ tab' = [tab EXCEPT ![t] = After(@, "revoke")] /\ UNCHANGED unused
\* Then the session is revoked, unless the request is lost; the identity goes
\* either way.
Revoke(t) == /\ tab[t].at = "revoke" /\ live' \in {FALSE, live}
             /\ tab' = [tab EXCEPT ![t].at = "login"] /\ UNCHANGED <<unasked, unused>>
\* Signing in again, in whichever tab is at the sign-in page.
SignIn(t) == /\ tab[t].at = "login" /\ tab[t].visible
             /\ tab' = [tab EXCEPT ![t] = [@ EXCEPT !.at = "in", !.since = 0, !.left = Window, !.why = "none"]]
             /\ live' = TRUE /\ unasked' = 0 /\ unused' = 0

Leave(t) == EndOffice(t) \/ Revoke(t)
Next == \/ Tick
        \/ \E t \in Tabs : Activity(t) \/ Fire(t) \/ Show(t) \/ Hide(t) \/ Request(t) \/ Logout(t) \/ Leave(t) \/ SignIn(t)
Spec == Init /\ [][Next]_vars
----------------------------------------------------------------------------
(* What must hold.                                                         *)

TypeOK == /\ tab \in [Tabs -> [at : {"in", "flush", "revoke", "login"}, since : 0..Cap, left : 0..Window,
                               visible : BOOLEAN, why : {"none", "idle", "ended"}]]
          /\ live \in BOOLEAN /\ unasked \in 0..Cap /\ unused \in 0..Cap

SignsOut(t) == tab[t].at = "in" /\ tab'[t].at = "flush" /\ tab'[t].why = "idle"

\* No tab signs its user out within the window of the last interaction with
\* that very tab, whatever it hid and showed in between (onActivity, arm).
OwnActivity == \A t \in Tabs : SignsOut(t) => tab[t].since >= Window

\* Using the account in one tab keeps it from being signed out by another: "any
\* interaction resets the timer".
\* (Not kept by the code: see the README.)
ActiveStays == [][\A t \in Tabs : SignsOut(t) => unused >= Window]_vars

\* A tab on the screen is not open beyond the window without an interaction.
\* (Not kept by the code: see the README.)
IdleBounded == \A t \in Tabs : tab[t].at = "in" /\ tab[t].visible => tab[t].since <= Window

\* Whoever is signed out by the timer is told so on the sign-in page.
\* (Not kept by the code: see the README.)
IdleSaid == [][\A t \in Tabs : tab[t].why = "idle" /\ tab'[t].at = "login" => tab'[t].why = "idle"]_vars
=============================================================================
