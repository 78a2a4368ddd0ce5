---------------------------- MODULE SecondFactor ----------------------------
(***************************************************************************)
(* Settings -> Security: turning the authenticator app on and off, the     *)
(* passkeys, the step-up before a password reset (Settings.tsx SecurityTab, *)
(* the three modals, twofactor/service.go).  Each window shows its own     *)
(* copy of the status; the server's handlers read, decide and write in     *)
(* separate statements.                                                    *)
(***************************************************************************)
EXTENDS Naturals, FiniteSets

CONSTANTS Windows,    \* browser windows showing the tab
          MaxSecrets, \* secrets generated
          MaxKeys,    \* passkeys registered
          Faults,     \* a status request may fail
          Hasty,      \* the user acts on a tab that is still asking for its status
          NONE

VARIABLES server,  \* user_totp: the secret and whether it is confirmed; recovery codes; passkeys
          made,    \* secrets generated so far
          app,     \* secrets the user has scanned into the authenticator app
          kept,    \* recovery codes (named by their secret) the user says are saved
          win,     \* each window: what it believes, the dialog it shows
          tasks    \* requests in flight and how far the handler has come

vars == <<server, made, app, kept, win, tasks>>

Secrets == 1..MaxSecrets
Closed == [kind |-> NONE, step |-> "scan", secret |-> 0, busy |-> FALSE, codes |-> 0, saved |-> FALSE, error |-> FALSE]
Init == /\ server = [secret |-> 0, on |-> FALSE, codes |-> 0, keys |-> 0]
        /\ made = 0 /\ app = {} /\ kept = {} /\ tasks = {}
        /\ win = [w \in Windows |-> [totp |-> FALSE, keys |-> 0, pkBusy |-> FALSE, dialog |-> Closed]]
D(w) == win[w].dialog
Set(w, d) == win' = [win EXCEPT ![w].dialog = d]
Task(kind, w, x) == [kind |-> kind, w |-> w, at |-> "sent", x |-> x, live |-> TRUE]
Server == UNCHANGED <<server, made, app, kept>>
Advance(t, u) == tasks' = (tasks \ {t}) \cup {u}
Done(t) == tasks' = tasks \ {t}
----------------------------------------------------------------------------
(* The tab.                                                                *)

Settled(w) == Hasty \/ ~\E t \in tasks : t.w = w /\ t.kind \in {"status", "keys", "setup", "register"}

\* loadTwofa and loadPasskeys, one request after every change.
Reload(w, factor) == Task(factor, w, 0)
Read(t) == /\ t.kind \in {"status", "keys"} /\ t.at = "sent"
           /\ Advance(t, [t EXCEPT !.at = "read", !.x = IF t.kind = "keys" THEN server.keys ELSE IF server.on THEN 1 ELSE 0])
           /\ Server /\ UNCHANGED win
\* A failure counts as "off", as no passkeys.
Believed(t) == IF t.kind = "keys" THEN [win EXCEPT ![t.w].keys = t.x] ELSE [win EXCEPT ![t.w].totp = (t.x = 1)]
Learn(t) == t.kind \in {"status", "keys"} /\ t.at = "read" /\ win' = Believed(t) /\ Done(t) /\ Server
Fail(t) == Faults /\ t.kind \in {"status", "keys"} /\ win' = Believed([t EXCEPT !.x = 0]) /\ Done(t) /\ Server

\* addPasskey and removePasskey; the list is asked for again.
AddKey(w) == /\ Settled(w) /\ D(w).kind = NONE /\ ~win[w].pkBusy /\ win' = [win EXCEPT ![w].pkBusy = TRUE]
             /\ tasks' = tasks \cup {Task("register", w, 0)} /\ Server
Registered(t) == /\ t.kind = "register" /\ win' = [win EXCEPT ![t.w].pkBusy = FALSE]
                 /\ \/ /\ server.keys < MaxKeys /\ server' = [server EXCEPT !.keys = @ + 1]
                       /\ Advance(t, Reload(t.w, "keys"))
                    \/ UNCHANGED server /\ Done(t)
                 /\ UNCHANGED <<made, app, kept>>
RemoveKey(w) == /\ Settled(w) /\ D(w).kind = NONE /\ win[w].keys > 0 /\ server.keys > 0
                /\ server' = [server EXCEPT !.keys = @ - 1] /\ tasks' = tasks \cup {Reload(w, "keys")}
                /\ UNCHANGED <<made, app, kept, win>>
----------------------------------------------------------------------------
(* Turning the app on.                                                     *)

\* The effect of opening: everything is reset and a secret is asked for.
OpenSetup(w) == /\ D(w).kind = NONE /\ ~win[w].totp
                /\ Settled(w)
                /\ Set(w, [Closed EXCEPT !.kind = "setup"])
                /\ tasks' = tasks \cup {Task("setup", w, 0)} /\ Server
\* Closing runs the effect's clean-up: the answer will not be looked at.
Cancelled(w) == {IF t.kind = "setup" /\ t.w = w THEN [t EXCEPT !.live = FALSE] ELSE t : t \in tasks}
\* The backdrop, the X and Done keep to their guards; Escape has its own.
MayClose(w) == D(w).kind # NONE /\ ~D(w).busy /\ (D(w).step = "recovery" => D(w).saved)
Close(w) == MayClose(w) /\ Set(w, Closed) /\ tasks' = Cancelled(w) /\ Server
Escape(w) == D(w).kind # NONE /\ ~D(w).busy /\ Set(w, Closed) /\ tasks' = Cancelled(w) /\ Server

\* BeginSetup refuses a confirmed user, then writes a fresh, pending secret.
BeginSetup(t) == /\ t.kind = "setup" /\ t.at = "sent"
                 /\ IF server.on THEN Advance(t, [t EXCEPT !.at = "refused"]) /\ UNCHANGED made
                    ELSE /\ made < MaxSecrets /\ made' = made + 1
                         /\ Advance(t, [t EXCEPT !.at = "allowed", !.x = made + 1])
                 /\ UNCHANGED <<server, app, kept, win>>
StorePending(t) == /\ t.kind = "setup" /\ t.at = "allowed" /\ Advance(t, [t EXCEPT !.at = "stored"])
                   /\ server' = [server EXCEPT !.secret = t.x, !.on = FALSE] /\ UNCHANGED <<made, app, kept, win>>
ShowSecret(t) == /\ t.kind = "setup" /\ t.at \in {"stored", "refused"} /\ Done(t) /\ Server
                 /\ win' = IF ~t.live THEN win ELSE
                           [win EXCEPT ![t.w].dialog = IF t.at = "stored" THEN [@ EXCEPT !.secret = t.x] ELSE [@ EXCEPT !.error = TRUE]]

\* The code has been scanned: on to the verify step, and back.
Scan(w) == /\ D(w).kind = "setup" /\ D(w).step = "scan" /\ D(w).secret # 0
           /\ Set(w, [D(w) EXCEPT !.step = "verify"]) /\ app' = app \cup {D(w).secret}
           /\ UNCHANGED <<server, made, kept, tasks>>
Back(w) == /\ D(w).kind = "setup" /\ D(w).step = "verify" /\ ~D(w).busy
           /\ Set(w, [D(w) EXCEPT !.step = "scan"]) /\ UNCHANGED tasks /\ Server
\* A code from the app, for the secret this dialog showed.
Verify(w) == /\ D(w).kind = "setup" /\ D(w).step = "verify" /\ ~D(w).busy
             /\ Set(w, [D(w) EXCEPT !.busy = TRUE, !.error = FALSE])
             /\ tasks' = tasks \cup {Task("verify", w, D(w).secret)} /\ Server
\* Confirm validates the code against the pending secret it has read, ...
Validate(t) == /\ t.kind = "verify" /\ t.at = "sent"
               /\ Advance(t, [t EXCEPT !.at = IF ~server.on /\ server.secret = t.x THEN "valid" ELSE "refused"])
               /\ Server /\ UNCHANGED win
\* ... then confirms whatever row the user has, and replaces the codes.
Confirm(t) == /\ t.kind = "verify" /\ t.at = "valid" /\ Advance(t, [t EXCEPT !.at = "confirmed"])
              /\ server' = [server EXCEPT !.on = (@ \/ server.secret # 0), !.codes = t.x]
              /\ UNCHANGED <<made, app, kept, win>>
Verified(t) == /\ t.kind = "verify" /\ t.at \in {"confirmed", "refused"} /\ Server
               /\ IF t.at = "refused"
                  THEN Done(t) /\ Set(t.w, [D(t.w) EXCEPT !.busy = FALSE, !.error = TRUE])
                  ELSE /\ Set(t.w, [D(t.w) EXCEPT !.busy = FALSE, !.step = "recovery", !.codes = t.x])
                       /\ Advance(t, Reload(t.w, "status"))
Save(w) == /\ D(w).step = "recovery" /\ ~D(w).saved /\ Set(w, [D(w) EXCEPT !.saved = TRUE])
           /\ kept' = kept \cup {D(w).codes} /\ UNCHANGED <<server, made, app, tasks>>
----------------------------------------------------------------------------
(* Turning it off, and the step-up of a password reset.                    *)

OpenDisable(w) == D(w).kind = NONE /\ win[w].totp /\ Set(w, [Closed EXCEPT !.kind = "disable"]) /\ UNCHANGED tasks /\ Server
\* Disable: a code of the app or one of the recovery codes, then the rows go.
Disable(w) == /\ D(w).kind = "disable" /\ ~D(w).busy /\ Set(w, [D(w) EXCEPT !.busy = TRUE])
              /\ tasks' = tasks \cup {Task("disable", w, 0)} /\ Server
CanProve == server.on /\ (server.secret \in app \/ (server.codes # 0 /\ server.codes \in kept))
Disabled(t) == /\ t.kind = "disable"
               /\ IF CanProve
                  THEN /\ server' = [server EXCEPT !.secret = 0, !.on = FALSE, !.codes = 0]
                       /\ Set(t.w, Closed) /\ Advance(t, Reload(t.w, "status"))
                  ELSE /\ UNCHANGED server /\ Done(t)
                       /\ Set(t.w, [D(t.w) EXCEPT !.busy = FALSE, !.error = TRUE])
               /\ UNCHANGED <<made, app, kept>>

\* PasswordResetModal: the method is what the window believes; the server has
\* its own order of precedence.
Method(totp, keys) == IF totp THEN "totp" ELSE IF keys > 0 THEN "passkey" ELSE "none"
Shown(w) == Method(win[w].totp, win[w].keys)
OpenReset(w) == Settled(w) /\ D(w).kind = NONE /\ Set(w, [Closed EXCEPT !.kind = "reset"]) /\ UNCHANGED tasks /\ Server
SubmitReset(w) == /\ D(w).kind = "reset" /\ ~D(w).busy /\ D(w).step = "scan"
                  /\ Set(w, [D(w) EXCEPT !.busy = TRUE, !.error = FALSE])
                  /\ tasks' = tasks \cup {[Task("reset", w, 0) EXCEPT !.at = Shown(w)]} /\ Server
Precedence == IF server.on THEN "totp" ELSE IF server.keys > 0 THEN "passkey" ELSE "none"
\* What is sent without being asked for is ignored; what is asked for must come.
ResetAsked(t) == /\ t.kind = "reset" /\ Done(t) /\ Server
                 /\ Set(t.w, [D(t.w) EXCEPT !.busy = FALSE, !.step = IF Precedence \in {t.at, "none"} THEN "sent" ELSE "scan",
                                            !.error = (Precedence \notin {t.at, "none"})])
----------------------------------------------------------------------------
Handler(t) == \/ Read(t) \/ Learn(t) \/ Fail(t) \/ Registered(t) \/ BeginSetup(t) \/ StorePending(t) \/ ShowSecret(t)
              \/ Validate(t) \/ Confirm(t) \/ Verified(t) \/ Disabled(t) \/ ResetAsked(t)
Next == \/ \E w \in Windows : \/ AddKey(w) \/ RemoveKey(w) \/ OpenSetup(w) \/ Close(w) \/ Escape(w) \/ Scan(w) \/ Back(w)
                              \/ Verify(w) \/ Save(w) \/ OpenDisable(w) \/ Disable(w) \/ OpenReset(w) \/ SubmitReset(w)
        \/ \E t \in tasks : Handler(t)
Spec == Init /\ [][Next]_vars
----------------------------------------------------------------------------
(* What must hold.                                                         *)

TypeOK == /\ server \in [secret : 0..MaxSecrets, on : BOOLEAN, codes : 0..MaxSecrets, keys : 0..MaxKeys]
          /\ made \in 0..MaxSecrets /\ app \subseteq Secrets /\ kept \subseteq Secrets
          /\ \A w \in Windows : /\ win[w].totp \in BOOLEAN /\ win[w].keys \in 0..MaxKeys
                                /\ D(w).kind \in {NONE, "setup", "disable", "reset"}
                                /\ D(w).step \in {"scan", "verify", "recovery", "sent"} /\ D(w).secret \in 0..MaxSecrets

\* A second factor that is on is one the user has: the confirmed secret was
\* scanned into the app ("nothing is enabled until this passes").
\* (Not kept by the code: see the README.)
NoLockout == server.on => server.secret \in app

\* The app is turned off by its own dialog and by nothing else (BeginSetup
\* "refuses if 2FA is already enabled").
\* (Not kept by the code: see the README.)
OnStaysOn == [][server.on /\ ~server'.on => \E t \in tasks \ tasks' : t.kind = "disable"]_vars

\* The secret a dialog shows is the one the server will check the code against,
\* from the moment it is shown (one window, dialogs opened one after another).
ShownIsStored == \A w \in Windows : D(w).kind = "setup" /\ D(w).step # "recovery" /\ D(w).secret # 0 => server.secret = D(w).secret

\* With nothing on its way the tab shows what the server has: the amber banner
\* and the step-up's method depend on it.
\* (Not kept by the code: see the README.)
BannerTrue == tasks = {} => \A w \in Windows : win[w].totp = server.on /\ win[w].keys = server.keys

\* A step-up is never refused for want of the factor the account asks for: the
\* modal "mirrors the server's precedence".
MethodMirrors == \A t \in tasks : t.kind = "reset" => Precedence \in {t.at, "none"}

\* The backup codes are left only once the user says they are saved.
\* (Not kept by the code: see the README.)
CodesSaved == [][\A w \in Windows : D(w).step = "recovery" /\ D(w)'.kind = NONE => D(w).saved]_vars
=============================================================================
