----------------------------- MODULE SignFields -----------------------------
(***************************************************************************)
(* The second step of the envelope wizard (SignEditor.tsx, FieldsStep):    *)
(* fields that are placed, moved, nudged, changed, copied and removed on   *)
(* the page at once and on the service later, and Send.                    *)
(* A field is [id, who, pos, req, meta]; a field whose number the service  *)
(* has not told yet has the negative number of its place on the page.      *)
(***************************************************************************)
EXTENDS Integers, FiniteSets

CONSTANTS Recipients, Positions,
          Patient, \* the user waits for the answers and for the nudge's timer
          Copies,  \* fields whose settings were changed are duplicated
          Faults,  \* the service refuses, having done nothing
          MaxTasks, MaxId, NONE

FieldsAssumption == MaxTasks \in Nat /\ MaxId \in Nat

VARIABLES status, flds, next, \* the service: "draft" or "sent", its fields, the next number
          p, tasks,
          sentAs              \* history: the fields on the page when Send was pressed

vars == <<status, flds, next, p, tasks, sentAs>>
service == <<status, flds, next>>
Numbers == 1..MaxTasks
Blank == [kind |-> "get", n |-> 1, id |-> 0, field |-> NONE, what |-> "pos", to |-> NONE, at |-> "sent", view |-> {}]
Request(r) == [r EXCEPT !.n = CHOOSE n \in Numbers : \A t \in tasks : t.n # n]
Send(r) == Cardinality(tasks) < MaxTasks /\ tasks' = tasks \cup {Request(r)}
Init == /\ status = "draft" /\ flds = {} /\ next = 1 /\ tasks = {} /\ sentAs = NONE
        /\ p = [screen |-> "fields", fields |-> {}, active |-> CHOOSE w \in Recipients : TRUE, sel |-> 0, drag |-> 0,
                nudge |-> NONE, error |-> FALSE]
----------------------------------------------------------------------------
(* The page. "sending" is a send among the tasks; the summary of a sent    *)
(* envelope is shown by the same component, which still hears the keys.    *)

Mounted == p.screen \in {"fields", "summary"}
Waits == Patient => tasks = {} /\ p.nudge = NONE /\ p.drag = 0 /\ p.screen = "fields"
Editing == p.screen = "fields" /\ Waits
Keep == UNCHANGED <<service, sentAs>>
Set(page) == p' = page /\ UNCHANGED tasks /\ Keep
Put(page, f) == [page EXCEPT !.fields = {g \in @ : g.id # f.id} \cup {f}]
Temp == CHOOSE i \in {0 - k : k \in 1..MaxId + MaxTasks} : \A f \in p.fields : f.id # i
Choose(w) == Editing /\ Set([p EXCEPT !.active = w])
Select(f) == Editing /\ f.id # p.sel /\ Set([p EXCEPT !.sel = f.id])
Leave(to) == Editing /\ Set([p EXCEPT !.screen = to])

\* A field the service has no number for is only drawn.
Place(f, how) == /\ next + Cardinality(tasks) <= MaxId
            /\ Send([Blank EXCEPT !.kind = "add", !.id = Temp, !.what = how, !.field = [f EXCEPT !.id = Temp]])
            /\ p' = Put(p, [f EXCEPT !.id = Temp]) /\ Keep
drop(pos) == Editing /\ Place([id |-> 0, who |-> p.active, pos |-> pos, req |-> TRUE, meta |-> FALSE], "pos")
duplicateField(f) == Editing /\ f.id = p.sel /\ (Copies \/ (f.req /\ ~f.meta)) /\ Place(f, "copy")

Patch(f, what, to) == /\ p' = Put(p, [f EXCEPT ![what] = to]) /\ Keep
                      /\ IF f.id > 0 THEN Send([Blank EXCEPT !.kind = "patch", !.id = f.id, !.what = what, !.to = to])
                         ELSE UNCHANGED tasks
setFieldRequired(f) == Editing /\ f.id = p.sel /\ Patch(f, "req", ~f.req)
setFieldMeta(f) == Editing /\ f.id = p.sel /\ ~f.meta /\ Patch(f, "meta", TRUE)
reassignField(f, w) == Editing /\ f.id = p.sel /\ w # f.who /\ Patch(f, "who", w)
startMove(f) == Editing /\ p.drag = 0 /\ Set([p EXCEPT !.drag = f.id])
\* The field of the press is the one moved, if it is still there.
onFieldUp(pos) == /\ p.screen = "fields" /\ p.drag # 0 /\ Keep
                  /\ LET q == [p EXCEPT !.drag = 0]
                     IN  IF \A f \in p.fields : f.id # p.drag THEN p' = q
                         ELSE \E f \in p.fields : f.id = p.drag /\ p' = Put(q, [f EXCEPT !.pos = pos])
                  /\ IF p.drag > 0 THEN Send([Blank EXCEPT !.kind = "patch", !.id = p.drag, !.to = pos]) ELSE UNCHANGED tasks
Without(f) == [p EXCEPT !.fields = @ \ {f}, !.sel = 0]
removeUntold(f) == Editing /\ f.id = p.sel /\ Set(Without(f))
removeField(f) == /\ Mounted /\ Waits /\ f.id = p.sel /\ p' = Without(f) /\ Keep
                  /\ IF f.id > 0 THEN Send([Blank EXCEPT !.kind = "remove", !.id = f.id]) ELSE UNCHANGED tasks
\* The arrow keys; a key within the time of another's timer starts it again.
onKey(f, pos) == /\ Mounted /\ (Patient => tasks = {} /\ p.drag = 0 /\ p.screen = "fields") /\ f.id = p.sel /\ pos # f.pos
                 /\ Set([Put(p, [f EXCEPT !.pos = pos]) EXCEPT !.nudge = [id |-> f.id, pos |-> pos]])
NudgeSave == /\ p.nudge # NONE /\ p' = [p EXCEPT !.nudge = NONE] /\ Keep
             /\ IF p.nudge.id > 0 THEN Send([Blank EXCEPT !.kind = "patch", !.id = p.nudge.id, !.to = p.nudge.pos])
                ELSE UNCHANGED tasks

canSend == \A w \in Recipients : \E f \in p.fields : f.who = w
sending == \E t \in tasks : t.kind = "send"
send == /\ Editing /\ p.drag = 0 /\ canSend /\ ~sending /\ Send([Blank EXCEPT !.kind = "send"])
        /\ p' = [p EXCEPT !.error = FALSE] /\ sentAs' = p.fields /\ UNCHANGED service
\* Six seconds after it is shown, the summary goes back to the envelopes.
Return == p.screen = "summary" /\ Set([p EXCEPT !.screen = "left"])
----------------------------------------------------------------------------
(* The service.                                                            *)

Upd(t, u) == tasks' = (tasks \ {t}) \cup {u}
Ok(t) == Upd(t, [t EXCEPT !.at = "ok"])
Draft == status = "draft"
GetEnvelope(t) == t.kind = "get" /\ Upd(t, [t EXCEPT !.at = IF Draft THEN "ok" ELSE "closed", !.view = flds]) /\ UNCHANGED service
\* A new field is required and has no settings.
AddField(t) == /\ t.kind = "add" /\ Draft /\ next' = next + 1 /\ UNCHANGED status
               /\ flds' = flds \cup {[t.field EXCEPT !.id = next, !.req = TRUE, !.meta = FALSE]}
               /\ Upd(t, [t EXCEPT !.at = "ok", !.id = next])
UpdateField(t) == /\ t.kind = "patch" /\ Draft /\ Ok(t) /\ UNCHANGED <<status, next>>
                  /\ \E f \in flds : f.id = t.id /\ flds' = (flds \ {f}) \cup {[f EXCEPT ![t.what] = t.to]}
DeleteField(t) == /\ t.kind = "remove" /\ Draft /\ Ok(t) /\ UNCHANGED <<status, next>>
                  /\ \E f \in flds : f.id = t.id /\ flds' = flds \ {f}
SendEnvelope(t) == /\ t.kind = "send" /\ Draft /\ (\A w \in Recipients : \E f \in flds : f.who = w)
                   /\ status' = "sent" /\ Ok(t) /\ UNCHANGED <<flds, next>>
Refused(t) == ~Draft \/ (t.kind \in {"patch", "remove"} /\ \A f \in flds : f.id # t.id)
              \/ (t.kind = "send" /\ \E w \in Recipients : \A f \in flds : f.who # w)
Fail(t) == t.kind # "get" /\ (Faults \/ Refused(t)) /\ Upd(t, [t EXCEPT !.at = "failed"]) /\ UNCHANGED service
Serve(t) == /\ t.at = "sent" /\ UNCHANGED <<p, sentAs>>
            /\ \/ GetEnvelope(t) \/ AddField(t) \/ UpdateField(t) \/ DeleteField(t) \/ SendEnvelope(t) \/ Fail(t)
----------------------------------------------------------------------------
(* The answers.                                                            *)

Drop(t) == tasks' = tasks \ {t}
reload(t) == Upd(t, [Blank EXCEPT !.n = t.n])
SetEnv(t) == t.kind = "get" /\ Drop(t) /\ p' = IF t.at = "ok" THEN [p EXCEPT !.fields = t.view] ELSE [p EXCEPT !.screen = "closed"]
\* A copy keeps what the page has made of it meanwhile, a placed field does
\* not: its number comes with the field as it was placed.
Added(t) == /\ t.kind = "add" /\ Drop(t)
            /\ LET temps == {f \in p.fields : f.id = t.field.id}
                   told == {[f EXCEPT !.id = t.id] : f \in IF t.what = "copy" \/ temps = {} THEN temps ELSE {t.field}}
               IN  p' = IF t.at = "ok" THEN [p EXCEPT !.fields = (@ \ temps) \cup told, !.sel = t.id]
                        ELSE [p EXCEPT !.fields = @ \ temps, !.error = @ \/ t.what # "copy"]
Patched(t) == t.kind \in {"patch", "remove"} /\ UNCHANGED p /\ IF t.at = "failed" THEN reload(t) ELSE Drop(t)
Sent(t) == t.kind = "send" /\ Drop(t) /\ p' = IF t.at = "ok" THEN [p EXCEPT !.screen = "summary"] ELSE [p EXCEPT !.error = TRUE]
Answer(t) == /\ t.at # "sent" /\ Keep
             /\ IF Mounted THEN SetEnv(t) \/ Added(t) \/ Patched(t) \/ Sent(t) ELSE Drop(t) /\ UNCHANGED p
Next == \/ \E w \in Recipients : Choose(w)
        \/ \E f \in p.fields : \/ Select(f) \/ duplicateField(f) \/ setFieldRequired(f) \/ setFieldMeta(f)
                               \/ startMove(f) \/ removeField(f)
                               \/ \E w \in Recipients : reassignField(f, w)
                               \/ \E pos \in Positions : onKey(f, pos)
        \/ \E pos \in Positions : drop(pos) \/ onFieldUp(pos)
        \/ \E to \in {"left", "setup"} : Leave(to)
        \/ NudgeSave \/ send \/ Return
        \/ \E t \in tasks : Serve(t) \/ Answer(t)
Spec == Init /\ [][Next]_vars
----------------------------------------------------------------------------
TypeOK == /\ status \in {"draft", "sent"} /\ next \in 1..MaxId + 1 /\ p.screen \in {"fields", "summary", "closed", "left", "setup"}
          /\ \A f \in p.fields \cup flds : f.who \in Recipients /\ f.pos \in Positions /\ f.id \in Int
          /\ \A f, g \in p.fields : f.id = g.id => f = g

\* When every answer is in, the fields on the page are the service's.
Settled == p.screen = "fields" /\ tasks = {} /\ p.nudge = NONE /\ Draft => p.fields = flds

\* What is sent is what the page showed when Send was pressed.
SentAsShown == status = "sent" => flds = sentAs

\* Every signer of a sent envelope has a field.
EverySigner == status = "sent" => \A w \in Recipients : \E f \in flds : f.who = w

\* The summary of a sent envelope stays until it returns to the envelopes.
SummaryStays == p.screen = "summary" => p'.screen \in {"summary", "left"}
=============================================================================
