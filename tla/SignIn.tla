------------------------------- MODULE SignIn -------------------------------
(***************************************************************************)
(* Getting into an account: the sign-in page (Login.tsx), the provider's   *)
(* popup (googlePopup.ts), the identity kept by AuthContext, the account   *)
(* picker, and what auth.Login and CompleteLogin answer.  Every request is *)
(* a task that holds what its closure captured; the page that asked may be *)
(* in another step, or gone, when the answer comes.                        *)
(***************************************************************************)
EXTENDS Naturals, FiniteSets

CONSTANTS Users,      \* the people who sign in on this browser
          Totp,       \* those with an authenticator app
          Passkeys,   \* those with a passkey
          Several,    \* those with more than one account
          Providers,  \* who can vouch for a user: Google, Microsoft
          MaxMounts,  \* how often the sign-in page may be opened
          MaxLogouts, \* how often somebody signs out
          Patient,    \* the user waits for an answer before going back, and
                      \* for the popup to close before touching the page
          ProbeFirst, \* the identity request is answered before the user acts
          NONE

UsersAssumption == Totp \cup Passkeys \cup Several \subseteq Users /\ NONE \notin Users \cup Providers

VARIABLES at,        \* the route: "login", "select", "home"
          page,      \* the state of the sign-in page, of the mount-th mount
          mount,
          identity,  \* AuthContext.identity: whom the page shows
          cookie,    \* whose session the browser's cookie is
          trusted,   \* users who ticked "Trust this device"
          tasks,     \* requests in flight
          popup,     \* the provider's window and who listens to it
          entered,   \* what the last step was: an authentication, a sign-out
          outs

vars == <<at, page, mount, identity, cookie, trusted, tasks, popup, entered, outs>>

Modes == {"identifier", "password", "twofa", "forgot", "no_account"}
NoPopup == [open |-> FALSE, heard |-> FALSE, mount |-> 0, grace |-> FALSE]
Fresh == [mode |-> "identifier", email |-> NONE, pending |-> NONE, method |-> "totp", recovery |-> FALSE,
          sent |-> FALSE, busy |-> FALSE, pkBusy |-> FALSE, error |-> FALSE, connecting |-> NONE]
Task(kind, user) == [kind |-> kind, user |-> user, mount |-> mount, remember |-> FALSE, mode |-> page.mode]

Init == /\ at = "login" /\ page = Fresh /\ mount = 1 /\ identity = NONE /\ cookie = NONE /\ trusted = {}
        /\ tasks = {[kind |-> "probe", user |-> NONE, mount |-> 1, remember |-> FALSE, mode |-> "identifier"]}
        /\ popup = NoPopup /\ entered = "no" /\ outs = 0

Probing == \E t \in tasks : t.kind = "probe"
Here == at = "login" /\ (ProbeFirst => ~Probing)
Waiting == page.busy \/ page.pkBusy
MayLeave == Patient => ~Waiting
----------------------------------------------------------------------------
(* What the server says.                                                   *)

\* Login: an authenticator app comes first, a passkey is the fallback, and a
\* trusted device skips the app (and only the app).
Challenge(u) == IF u \in Totp THEN (IF u \in trusted THEN "none" ELSE "totp")
                ELSE IF u \in Passkeys THEN "passkey" ELSE "none"

GoQuietly(u) == /\ identity' = u /\ UNCHANGED cookie /\ entered' = "auth"
                /\ at' = IF u \in Several THEN "select" ELSE "home"
\* goAfterAuth: the identity is set and the user moves on, to the picker when
\* there is a choice, whatever page is on the screen by now.
GoAfterAuth(u) == /\ identity' = u /\ cookie' = u /\ entered' = "auth"
                  /\ at' = IF u \in Several THEN "select" ELSE "home"

\* An answer changes the page only while the page that asked is mounted.
OnPage(t, p) == IF at = "login" /\ t.mount = mount THEN page' = p ELSE UNCHANGED page
Quiet == UNCHANGED <<at, identity, cookie, entered>>
----------------------------------------------------------------------------
(* The steps of the form.                                                  *)

Click(p) == /\ Here /\ page.connecting = NONE /\ page' = p /\ entered' = "no"
            /\ UNCHANGED <<at, mount, identity, cookie, trusted, tasks, popup, outs>>

Continue(u) == page.mode = "identifier" /\ MayLeave /\ Click([page EXCEPT !.email = u, !.error = FALSE, !.mode = "password"])
Forgot == page.mode = "password" /\ MayLeave /\ Click([page EXCEPT !.sent = FALSE, !.error = FALSE, !.mode = "forgot"])
UseRecovery == page.mode = "twofa" /\ page.method = "totp" /\ Click([page EXCEPT !.recovery = ~@, !.error = FALSE])

\* backToSignIn: what the form holds goes, the requests do not.
Reset(p) == [p EXCEPT !.mode = "identifier", !.pending = NONE, !.recovery = FALSE, !.sent = FALSE, !.error = FALSE]
BackToSignIn == page.mode # "identifier" /\ MayLeave /\ Click(Reset(page))

\* handleBack while a popup is out: the listeners go and the window is closed.
CancelPopup == /\ Here /\ page.connecting # NONE
               /\ popup' = NoPopup /\ page' = [page EXCEPT !.connecting = NONE, !.error = FALSE] /\ entered' = "no"
               /\ UNCHANGED <<at, mount, identity, cookie, trusted, tasks, outs>>

Send(task, p) == /\ Here /\ page.connecting = NONE /\ tasks' = tasks \cup {task} /\ page' = p /\ entered' = "no"
                 /\ UNCHANGED <<at, mount, identity, cookie, trusted, popup, outs>>
SubmitPassword == /\ page.mode = "password" /\ ~page.busy
                  /\ Send(Task("login", page.email), [page EXCEPT !.error = FALSE, !.busy = TRUE])
Verify2fa(remember) == /\ page.mode = "twofa" /\ page.method = "totp" /\ page.pending # NONE /\ ~page.busy
                       /\ Send([Task("twofa", page.pending) EXCEPT !.remember = remember],
                               [page EXCEPT !.error = FALSE, !.busy = TRUE])
VerifyPasskey == /\ page.mode = "twofa" /\ page.method = "passkey" /\ page.pending # NONE /\ ~Waiting
                 /\ Send(Task("passkey", page.pending), [page EXCEPT !.error = FALSE, !.pkBusy = TRUE])
SignInWithPasskey(u) == /\ page.mode = "identifier" /\ ~Waiting /\ u \in Passkeys
                        /\ Send(Task("passkey", u), [page EXCEPT !.error = FALSE, !.pkBusy = TRUE])
SubmitForgot == /\ page.mode = "forgot" /\ ~page.sent /\ ~page.busy
                /\ Send(Task("forgot", page.email), [page EXCEPT !.error = FALSE, !.busy = TRUE])
----------------------------------------------------------------------------
(* The answers.                                                            *)

Settle(t) == tasks' = tasks \ {t} /\ UNCHANGED <<mount, popup, outs>>
Idle(t) == IF t.kind = "passkey" THEN [page EXCEPT !.pkBusy = FALSE] ELSE [page EXCEPT !.busy = FALSE]

\* The login's answer is a session, or a pending token and the page that asks
\* for the second factor.
AnswerLogin(t) == /\ t.kind = "login" /\ Settle(t) /\ UNCHANGED trusted
                  /\ IF Challenge(t.user) = "none"
                     THEN GoAfterAuth(t.user) /\ OnPage(t, Idle(t))
                     ELSE /\ OnPage(t, [Idle(t) EXCEPT !.mode = "twofa", !.pending = t.user, !.method = Challenge(t.user)])
                          /\ entered' = "no" /\ UNCHANGED <<at, identity, cookie>>
AnswerFactor(t) == /\ t.kind \in {"twofa", "passkey"} /\ Settle(t) /\ GoAfterAuth(t.user) /\ OnPage(t, Idle(t))
                   /\ trusted' = IF t.remember THEN trusted \cup {t.user} ELSE trusted
AnswerForgot(t) == /\ t.kind = "forgot" /\ Settle(t) /\ UNCHANGED trusted /\ Quiet
                   /\ OnPage(t, [Idle(t) EXCEPT !.sent = TRUE])
Refuse(t) == /\ t.kind \in {"login", "twofa", "passkey"} /\ Settle(t) /\ UNCHANGED trusted /\ Quiet
             /\ OnPage(t, [Idle(t) EXCEPT !.error = TRUE])

\* refresh: the identity is what /api/me said of the cookie it was sent with,
\* and nobody if the request failed.
Identified(t, ok) == IF ok THEN t.user ELSE NONE
AnswerProbe(t) == /\ t.kind = "probe" /\ tasks' = tasks \ {t}
                  /\ \E ok \in BOOLEAN :
                       /\ identity' = Identified(t, ok)
                       /\ IF identity' = NONE /\ at # "login"
                          THEN mount < MaxMounts /\ at' = "login" /\ mount' = mount + 1 /\ page' = Fresh
                          ELSE UNCHANGED <<at, page, mount>>
                  /\ entered' = "no" /\ UNCHANGED <<cookie, trusted, popup, outs>>
----------------------------------------------------------------------------
(* The provider's popup.                                                   *)

StartProvider(p) == /\ Here /\ page.mode = "identifier" /\ page.connecting = NONE /\ MayLeave /\ ~popup.heard
                    /\ popup' = [open |-> TRUE, heard |-> TRUE, mount |-> mount, grace |-> FALSE]
                    /\ page' = [page EXCEPT !.error = FALSE, !.connecting = p] /\ entered' = "no"
                    /\ UNCHANGED <<at, mount, identity, cookie, trusted, tasks, outs>>

\* The whole page is loaded again: at the challenge a provider's sign-in still
\* has to pass (its token comes in a cookie), or inside.
Load(u) == /\ mount < MaxMounts /\ mount' = mount + 1 /\ identity' = NONE
           /\ tasks' = {[kind |-> "probe", user |-> cookie', mount |-> mount + 1, remember |-> FALSE, mode |-> "identifier"]}
           /\ IF Challenge(u) = "none"
              THEN /\ at' = "home" /\ page' = Fresh
              ELSE /\ at' = "login" /\ page' = [Fresh EXCEPT !.mode = "twofa", !.pending = u, !.method = Challenge(u)]

\* The user has chosen an account in the window: the callback sets the session
\* unless a factor is due, tells the opener, and the window closes.
Authenticated(u) == /\ popup.open /\ entered' = (IF Challenge(u) = "none" THEN "popup" ELSE "challenge")
                    /\ cookie' = IF Challenge(u) = "none" THEN u ELSE cookie
                    /\ popup' = NoPopup
                    /\ IF popup.heard
                       THEN Load(u)
                       ELSE UNCHANGED <<at, page, mount, identity, tasks>>
                    /\ UNCHANGED <<trusted, outs>>
Heard(p) == IF popup.heard /\ popup.mount = mount /\ at = "login" THEN page' = p ELSE UNCHANGED page
NoAccount == /\ popup.open /\ popup' = NoPopup /\ entered' = "no"
             /\ Heard([page EXCEPT !.connecting = NONE, !.mode = "no_account"])
             /\ UNCHANGED <<at, mount, identity, cookie, trusted, tasks, outs>>
Denied == /\ popup.open /\ popup' = NoPopup /\ entered' = "no"
          /\ Heard([page EXCEPT !.connecting = NONE, !.error = TRUE])
          /\ UNCHANGED <<at, mount, identity, cookie, trusted, tasks, outs>>

\* The user closes the window, or clicks back here with the window still open:
\* the focus returns and starts the grace period.
ReturnFocus(closed) == /\ popup.heard /\ ~popup.grace /\ at = "login" /\ (closed => popup.open) /\ (Patient => closed)
                       /\ popup' = [popup EXCEPT !.grace = TRUE, !.open = ~closed]
                       /\ entered' = "no" /\ UNCHANGED <<at, page, mount, identity, cookie, trusted, tasks, outs>>
GiveUpOnGrace == /\ popup.heard /\ popup.grace
                 /\ popup' = IF popup.open THEN [popup EXCEPT !.heard = FALSE, !.grace = FALSE] ELSE NoPopup
                 /\ Heard([page EXCEPT !.connecting = NONE])
                 /\ entered' = "no" /\ UNCHANGED <<at, mount, identity, cookie, trusted, tasks, outs>>
\* The grace period or the three minutes are over: nobody listens from here on.
GiveUp == /\ popup.heard /\ (Patient => popup.grace \/ ~popup.open)
          /\ popup' = IF popup.open THEN [popup EXCEPT !.heard = FALSE, !.grace = FALSE] ELSE NoPopup
          /\ Heard([page EXCEPT !.connecting = NONE])
          /\ entered' = "no" /\ UNCHANGED <<at, mount, identity, cookie, trusted, tasks, outs>>
----------------------------------------------------------------------------
(* Inside: the picker and signing out.                                     *)

Choose == /\ at = "select" /\ identity # NONE /\ at' = "home" /\ entered' = "no"
          /\ UNCHANGED <<page, mount, identity, cookie, trusted, tasks, popup, outs>>
\* logout: the request may fail, the identity goes all the same.
Logout == /\ at = "home" /\ identity # NONE /\ outs < MaxLogouts /\ mount < MaxMounts
          /\ outs' = outs + 1 /\ mount' = mount + 1 /\ page' = Fresh /\ at' = "login" /\ identity' = NONE
          /\ cookie' \in {NONE, cookie} /\ entered' = "out"
          /\ UNCHANGED <<trusted, tasks, popup>>

Form == \/ \E u \in Users : Continue(u) \/ SignInWithPasskey(u)
        \/ Forgot \/ UseRecovery \/ BackToSignIn \/ CancelPopup
        \/ SubmitPassword \/ VerifyPasskey \/ SubmitForgot \/ \E r \in BOOLEAN : Verify2fa(r)
Answer == \E t \in tasks : AnswerLogin(t) \/ AnswerFactor(t) \/ AnswerForgot(t) \/ Refuse(t) \/ AnswerProbe(t)
Popup == \/ \E p \in Providers : StartProvider(p)
         \/ \E u \in Users : Authenticated(u)
         \/ NoAccount \/ Denied \/ GiveUp \/ \E c \in BOOLEAN : ReturnFocus(c)
Next == Form \/ Answer \/ Popup \/ Choose \/ Logout
Spec == Init /\ [][Next]_vars
----------------------------------------------------------------------------
(* What must hold.                                                         *)

TypeOK == /\ at \in {"login", "select", "home"} /\ mount \in 1..MaxMounts /\ outs \in 0..MaxLogouts
          /\ {identity, cookie} \subseteq Users \cup {NONE} /\ trusted \subseteq Users
          /\ page.mode \in Modes /\ page.method \in {"totp", "passkey"}
          /\ page.connecting \in Providers \cup {NONE} /\ {page.email, page.pending} \subseteq Users \cup {NONE}
          /\ \A t \in tasks : t.kind \in {"login", "twofa", "passkey", "forgot", "probe"} /\ t.mount \in 1..mount

\* A challenge on the screen asks somebody who owes a factor for that very
\* factor, the app before the passkey; without the pending token the form's
\* button would do nothing at all (Login; verify2fa's first line).
ChallengeFits == page.mode = "twofa" =>
                   IF page.method = "totp" THEN page.pending \in Totp ELSE page.pending \in Passkeys \ Totp

\* Whoever owes a factor gets in only by giving it: no answer other than the
\* factor's makes the session theirs (Login, the providers' callbacks).
FactorGiven == \A u \in (Totp \ trusted) \cup (Passkeys \ Totp) :
                  cookie' = u /\ cookie # u => \E t \in tasks : t.kind \in {"twofa", "passkey"} /\ t.user = u

\* "Connecting" is on the screen exactly as long as somebody listens to the
\* popup: a dismissed window never leaves the page waiting (startProvider,
\* teardown, onClosed).
ConnectingHeard == at = "login" => (page.connecting # NONE <=> popup.heard /\ popup.mount = mount)

\* One button's answer frees one button: while a request of this page is out,
\* the button that sent it stays disabled (busy and pkBusy, setBusy in finally).
ButtonWaits == at = "login" =>
                 /\ (\E t \in tasks : t.mount = mount /\ t.kind \in {"login", "twofa", "forgot"}) => page.busy
                 /\ (\E t \in tasks : t.mount = mount /\ t.kind = "passkey") => page.pkBusy

\* Whom the page shows is whose session it is, unless a sign-out failed
\* (goAfterAuth; AuthContext.refresh).
ShownIsSession == identity # NONE => identity = cookie

\* Once authenticated, the user stays in: only signing out brings the sign-in
\* page back (goAfterAuth: "everyone else goes home").
\* (Not kept by the code: see the README.)
StaysIn == [][(at # "login" /\ at' = "login") => entered' \in {"out", "challenge"}]_vars

\* Back means back: an answer to a form the user has left changes nothing on
\* the page (handleBack: "resets any sub-step").
\* (Not kept by the code: see the README.)
BackResets == [][\A t \in tasks \ tasks' :
                   t.kind \in {"login", "twofa"} /\ at = "login" /\ t.mount = mount /\ t.mode # page.mode => page'.mode = page.mode /\ at' = at]_vars

\* Somebody who finishes in the provider's window is taken in, even after a
\* click on this page (the grace period of scheduleRevert).
FinishHeard == entered' = "popup" => at' = "home"
=============================================================================
