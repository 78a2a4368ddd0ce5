----------------------------- MODULE SignSetup -----------------------------
(***************************************************************************)
(* The first step of the envelope wizard (SignEditor.tsx, SetupStep) and   *)
(* the recipients dialog of the second (RecipientsModal): the document,    *)
(* the recipients, which both save by comparing the rows with the          *)
(* recipients they know of, the subject, and the draft that is discarded   *)
(* when the wizard is closed without a document.                           *)
(***************************************************************************)
EXTENDS Naturals, FiniteSets

CONSTANTS Persons, Docs,
          Patient, \* the user waits for the answers
          Faults,  \* requests fail; blank drafts are swept
          Dialog,  \* the user goes on to the second step and its dialog
          MaxTasks, MaxId, NONE

SetupAssumption == MaxTasks \in Nat /\ MaxId \in Nat

VARIABLES env, doc, subj, \* the service: "draft" or "gone"; the document; the subject saved
          recs, next,     \* the recipients, [id, who], and the next number
          p, tasks,
          discarded,      \* history: the documents the draft had when it was discarded
          typed           \* history: the subject the user typed last

vars == <<env, doc, subj, recs, next, p, tasks, discarded, typed>>
service == <<env, doc, subj, recs, next, discarded>>
\* "auto" is the subject made of the title; "please" one that begins like it.
Subjects == {"auto", "own", "please"}
View == [doc |-> doc, subj |-> subj, recs |-> recs]
Who(rs) == {r.who : r \in rs}
Numbers == 1..MaxTasks
Blank == [kind |-> "get", n |-> 1, doc |-> NONE, subj |-> "auto", dels |-> {}, adds |-> {}, patch |-> FALSE, at |-> "sent", view |-> NONE]
Request(r) == [r EXCEPT !.n = CHOOSE n \in Numbers : \A t \in tasks : t.n # n]
Send(r) == Cardinality(tasks) < MaxTasks /\ tasks' = tasks \cup {Request(r)}
Init == /\ env = "draft" /\ doc = NONE /\ subj = "auto" /\ recs = {} /\ next = 1 /\ tasks = {Blank} /\ discarded = {} /\ typed = NONE
        /\ p = [step |-> "setup", view |-> NONE, rows |-> {}, touched |-> FALSE, subject |-> "auto", edited |-> FALSE,
                attaching |-> FALSE, error |-> FALSE, modal |-> FALSE, mrows |-> {}, saving |-> FALSE]
----------------------------------------------------------------------------
(* The setup step.                                                         *)

\* What the step starts from each time it is shown.
SetupStep(page) ==
  LET edited == page.view.subj = "own"
  IN  [page EXCEPT !.rows = Who(page.view.recs), !.touched = FALSE, !.edited = edited,
                   !.subject = IF edited THEN "own" ELSE "auto"]
Waits == Patient => tasks = {}
OnSetup == p.step = "setup" /\ p.view # NONE /\ Waits
Set(page) == p' = page /\ UNCHANGED <<service, tasks>>
Keep == UNCHANGED <<service, typed>>
ToggleRow(w) == /\ OnSetup /\ UNCHANGED typed
                /\ Set([p EXCEPT !.rows = IF w \in @ THEN @ \ {w} ELSE @ \cup {w}, !.touched = TRUE])
TypeSubject(s) == OnSetup /\ s # "auto" /\ Set([p EXCEPT !.subject = s, !.edited = TRUE]) /\ typed' = s
\* A file may be dropped on the window whether another is on its way or not.
attachDoc(d) == OnSetup /\ Send([Blank EXCEPT !.kind = "attach", !.doc = d]) /\ p' = [p EXCEPT !.attaching = TRUE, !.error = FALSE] /\ Keep
removeDoc == OnSetup /\ p.view.doc # NONE /\ Send([Blank EXCEPT !.kind = "detach"]) /\ p' = [p EXCEPT !.error = FALSE] /\ Keep
\* Recipients that are not among the rows go, rows that are not among the
\* recipients come; both as the page knew them when the button was pressed.
Saving(kind, rows, patch) ==
  [Blank EXCEPT !.kind = kind, !.patch = patch, !.subj = p.subject,
                !.dels = {r.id : r \in {q \in p.view.recs : q.who \notin rows}}, !.adds = rows \ Who(p.view.recs)]
saveAndNext == /\ OnSetup /\ p.rows # {} /\ p.view.doc # NONE /\ Send(Saving("save", p.rows, TRUE))
               /\ p' = [p EXCEPT !.error = FALSE] /\ Keep
closeSetup == /\ OnSetup /\ Keep
              /\ IF p.view.doc = NONE THEN Send([Blank EXCEPT !.kind = "discard"]) /\ UNCHANGED p
                 ELSE p' = [p EXCEPT !.step = "left"] /\ UNCHANGED tasks
(* The second step, as far as its recipients go.                           *)
OnFields == Dialog /\ p.step = "fields" /\ Waits
Back == OnFields /\ ~p.modal /\ Set([SetupStep(p) EXCEPT !.step = "setup"]) /\ UNCHANGED typed
OpenModal == OnFields /\ ~p.modal /\ Set([p EXCEPT !.modal = TRUE, !.mrows = Who(p.view.recs), !.saving = FALSE]) /\ UNCHANGED typed
EditModal(w) == OnFields /\ p.modal /\ Set([p EXCEPT !.mrows = IF w \in @ THEN @ \ {w} ELSE @ \cup {w}]) /\ UNCHANGED typed
CloseModal == OnFields /\ p.modal /\ Set([p EXCEPT !.modal = FALSE]) /\ UNCHANGED typed
save == /\ OnFields /\ p.modal /\ ~p.saving /\ p.mrows # {}
        /\ Send(Saving("recipients", p.mrows, FALSE)) /\ p' = [p EXCEPT !.saving = TRUE] /\ Keep
----------------------------------------------------------------------------
(* The service, one call at a time; a save is a call for each difference.  *)

Upd(t, u) == tasks' = (tasks \ {t}) \cup {u}
Done(t) == ~t.patch /\ t.dels = {} /\ t.adds = {}
Draft == env = "draft"
GetEnvelope(t) == t.kind = "get" /\ Draft /\ Upd(t, [t EXCEPT !.at = "ok", !.view = View]) /\ UNCHANGED service
Attach(t) == /\ t.kind \in {"attach", "detach"} /\ Draft /\ doc' = t.doc /\ Upd(t, [t EXCEPT !.at = "ok"])
             /\ UNCHANGED <<env, subj, recs, next, discarded>>
UpdateEnvelope(t) == /\ t.patch /\ Draft /\ subj' = t.subj /\ Upd(t, [t EXCEPT !.patch = FALSE, !.at = IF Done([t EXCEPT !.patch = FALSE]) THEN "ok" ELSE "sent"])
                     /\ UNCHANGED <<env, doc, recs, next, discarded>>
DeleteRecipient(t) ==
  /\ ~t.patch /\ Draft
  /\ \E i \in t.dels, r \in recs : /\ r.id = i /\ recs' = recs \ {r}
                                   /\ LET u == [t EXCEPT !.dels = @ \ {i}] IN Upd(t, [u EXCEPT !.at = IF Done(u) THEN "ok" ELSE "sent"])
  /\ UNCHANGED <<env, doc, subj, next, discarded>>
AddRecipient(t) ==
  /\ ~t.patch /\ t.dels = {} /\ Draft /\ next <= MaxId /\ next' = next + 1
  /\ \E w \in t.adds : /\ recs' = recs \cup {[id |-> next, who |-> w]}
                       /\ LET u == [t EXCEPT !.adds = @ \ {w}] IN Upd(t, [u EXCEPT !.at = IF Done(u) THEN "ok" ELSE "sent"])
  /\ UNCHANGED <<env, doc, subj, discarded>>
Nothing(t) == t.kind = "recipients" /\ Done(t) /\ Upd(t, [t EXCEPT !.at = "ok"]) /\ UNCHANGED service
Discard(t) == /\ t.kind = "discard" /\ Draft /\ env' = "gone" /\ discarded' = discarded \cup {doc}
              /\ Upd(t, [t EXCEPT !.at = "ok"]) /\ UNCHANGED <<doc, subj, recs, next>>
Missing(t) == \E i \in t.dels : \A r \in recs : r.id # i
Fail(t) == (Faults \/ ~Draft \/ (~t.patch /\ Missing(t))) /\ Upd(t, [t EXCEPT !.at = "failed"]) /\ UNCHANGED service
Serve(t) == /\ t.at = "sent" /\ UNCHANGED <<p, typed>>
            /\ \/ GetEnvelope(t) \/ Attach(t) \/ UpdateEnvelope(t) \/ DeleteRecipient(t)
               \/ AddRecipient(t) \/ Nothing(t) \/ Discard(t) \/ Fail(t)
\* Drafts without a document are swept when they are an hour old.
Sweep == /\ Faults /\ Draft /\ doc = NONE /\ env' = "gone" /\ discarded' = discarded \cup {doc}
         /\ UNCHANGED <<doc, subj, recs, next, p, tasks, typed>>
----------------------------------------------------------------------------
(* The answers.                                                            *)

reload(t) == Upd(t, [Blank EXCEPT !.n = t.n])
Drop(t) == tasks' = tasks \ {t}
SetEnv(t) == /\ t.kind = "get" /\ Drop(t)
             /\ p' = IF t.at = "failed" THEN [p EXCEPT !.error = TRUE]
                     ELSE IF p.view = NONE THEN SetupStep([p EXCEPT !.view = t.view])
                     ELSE [p EXCEPT !.view = t.view, !.subject = IF p.edited THEN @ ELSE "auto"]
Attached(t) == /\ t.kind \in {"attach", "detach"}
               /\ IF t.at = "ok" THEN reload(t) ELSE Drop(t)
               /\ p' = [p EXCEPT !.attaching = IF t.kind = "attach" THEN FALSE ELSE @, !.error = @ \/ t.at = "failed"]
Saved(t) == /\ t.kind = "save"
            /\ IF t.at = "ok" THEN reload(t) /\ p' = [p EXCEPT !.step = "fields"] ELSE Drop(t) /\ p' = [p EXCEPT !.error = TRUE]
ModalSaved(t) == /\ t.kind = "recipients"
                 /\ IF t.at = "ok" THEN reload(t) /\ p' = [p EXCEPT !.modal = FALSE] ELSE Drop(t) /\ p' = [p EXCEPT !.saving = FALSE]
Discarded(t) == t.kind = "discard" /\ Drop(t) /\ p' = [p EXCEPT !.step = "left"]
Answer(t) == /\ t.at # "sent" /\ Keep
             /\ IF p.step = "left" THEN Drop(t) /\ UNCHANGED p
                ELSE SetEnv(t) \/ Attached(t) \/ Saved(t) \/ ModalSaved(t) \/ Discarded(t)
Next == \/ \E w \in Persons : ToggleRow(w) \/ EditModal(w)
        \/ \E s \in Subjects : TypeSubject(s)
        \/ \E d \in Docs : attachDoc(d)
        \/ removeDoc \/ saveAndNext \/ closeSetup \/ Back \/ OpenModal \/ CloseModal \/ save \/ Sweep
        \/ \E t \in tasks : Serve(t) \/ Answer(t)
Spec == Init /\ [][Next]_vars
----------------------------------------------------------------------------
TypeOK == /\ env \in {"draft", "gone"} /\ doc \in Docs \cup {NONE} /\ subj \in Subjects /\ Who(recs) \subseteq Persons
          /\ p.step \in {"setup", "fields", "left"} /\ p.rows \subseteq Persons /\ next \in 1..MaxId + 1

\* No person is twice among the recipients.
NoTwins == \A r, q \in recs : r.who = q.who => r = q

\* A draft is only discarded without a document.
DiscardsBlank == discarded \subseteq {NONE}

\* The setup step shows the saved recipients until they are edited.
RowsFit == OnSetup /\ tasks = {} /\ ~p.touched => p.rows = Who(recs)

\* The page shows the document that is attached.
DocFits == p.view # NONE /\ p.step # "left" /\ tasks = {} /\ ~p.error /\ Draft => p.view.doc = doc

\* A subject the user typed is left alone.
\* (Not kept by the code: see the README.)
SubjectKept == p.step = "setup" /\ typed # NONE => p.subject = typed
=============================================================================
