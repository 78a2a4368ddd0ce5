---------------------------- MODULE SignCeremony ----------------------------
(***************************************************************************)
(* The page of a signing link (SignCeremony.tsx) with the ceremony         *)
(* handlers behind it: one signer of an envelope that has one other, the   *)
(* fields, the adopted signature, the attachments, Finish and Decline.     *)
(* The link may be opened again while requests of the earlier page are     *)
(* still on their way; the page forgets them, the service does not.        *)
(***************************************************************************)
EXTENDS Naturals, FiniteSets

CONSTANTS Kind,     \* field |-> "sig", "text", "number", "formula", "radio", "approve", "attachment", "decline"
          Required, \* the fields that are required
          Files,    \* files that may be attached
          Preview,  \* the sender's dry run instead of a link
          Patient,  \* the signer waits for an answer before the next click
          Faults,   \* requests fail and answers are lost
          Others,   \* the other signer and the sender act
          MaxTasks, MaxVisits, NONE

Fields == DOMAIN Kind
Of(k) == {f \in Fields : Kind[f] = k}
CeremonyAssumption == Required \subseteq Fields /\ Fields # {}

VARIABLES env, me, other, \* the envelope, this signer, whether the other has signed
          rec,            \* the record: field |-> value, the ink for a signature
          p,              \* the page
          tasks, visit,
          shownAt         \* history: what the page showed, each time Finish was pressed

vars == <<env, me, other, rec, p, tasks, visit, shownAt>>
service == <<env, me, other, rec>>
Empty == [f \in Fields |-> ""]
Page == [view |-> NONE, error |-> FALSE, sig |-> "", modal |-> "no", canvas |-> FALSE, hasInk |-> FALSE,
         pending |-> NONE, applied |-> {}, values |-> Empty, consent |-> FALSE, finishing |-> FALSE,
         done |-> FALSE, declineOpen |-> FALSE, declining |-> FALSE, declinedHere |-> FALSE, uploading |-> NONE]
Numbers == 1..MaxTasks
Request(kind, of, file, sent) ==
  [kind |-> kind, n |-> CHOOSE n \in Numbers : \A t \in tasks : t.n # n, visit |-> visit,
   of |-> of, file |-> file, sent |-> sent, at |-> "sent", answer |-> NONE]
LoadOf(v) == [kind |-> "load", n |-> 1, visit |-> v, of |-> NONE, file |-> "", sent |-> Empty, at |-> "sent", answer |-> NONE]
Init == /\ env = "sent" /\ me = "viewed" /\ other \in BOOLEAN /\ rec = Empty /\ p = Page
        /\ visit = 1 /\ tasks = {LoadOf(1)} /\ shownAt = {}
----------------------------------------------------------------------------
(* What the page computes from its state.                                  *)

\* A quotient of the number above it: nothing when that is missing or zero.
Formula(values) == IF \E f \in Of("number") : values[f] = "1" THEN "1" ELSE ""
fieldIncomplete(f) ==
  /\ f \in Required
  /\ CASE Kind[f] = "sig" -> f \notin p.applied
       [] Kind[f] = "radio" -> \A o \in Of("radio") : p.values[o] # "true"
       [] Kind[f] \in {"text", "number", "approve"} -> p.values[f] = ""
       [] OTHER -> FALSE
Attached(f) == IF p.values[f] # "" THEN p.values[f] ELSE p.view.files[f]
attachmentIncomplete(f) == f \in Required /\ Kind[f] = "attachment" /\ Attached(f) = ""
missing == {f \in Fields : fieldIncomplete(f) \/ attachmentIncomplete(f)}
signable == p.view # NONE /\ p.view.env = "sent" /\ p.view.me # "signed" /\ ~p.done
\* The form is shown; another screen takes its place once there is an outcome.
Form == signable /\ ~p.declinedHere
canFinishUnsigned == Form /\ p.consent /\ missing = {}
canFinish == Form /\ p.consent /\ missing = {} /\ Of("sig") \subseteq p.applied
Shown == [f \in Fields |-> CASE Kind[f] = "sig" -> IF f \in p.applied THEN p.sig ELSE ""
                             [] Kind[f] = "formula" -> Formula(p.values)
                             [] Kind[f] = "attachment" -> Attached(f)
                             [] OTHER -> p.values[f]]
Payload == [f \in Fields |-> CASE Kind[f] = "sig" -> p.sig
                               [] Kind[f] = "formula" -> Formula(p.values)
                               [] OTHER -> p.values[f]]
----------------------------------------------------------------------------
(* The signer.  The two dialogs cover the page.                            *)

Waits == Patient => tasks = {}
May == Form /\ Waits /\ p.modal = "no" /\ ~p.declineOpen
Stay == UNCHANGED <<service, visit, shownAt>>
Set(page) == p' = page /\ UNCHANGED tasks /\ Stay
Send(kind, of, file, page) ==
  /\ Cardinality(tasks) < MaxTasks /\ tasks' = tasks \cup {Request(kind, of, file, Payload)}
  /\ p' = page /\ UNCHANGED <<service, visit>>
ClickSig(f) ==
  /\ May /\ Kind[f] = "sig"
  /\ Set(IF p.sig = "" THEN [p EXCEPT !.pending = f, !.modal = "type"]
         ELSE [p EXCEPT !.applied = IF f \in @ THEN @ \ {f} ELSE @ \cup {f}])
Write(f, v) == May /\ Kind[f] \in {"text", "number"} /\ (v = "-" => Kind[f] = "number") /\ Set([p EXCEPT !.values[f] = v])
Approve(f) == May /\ Kind[f] = "approve" /\ Set([p EXCEPT !.values[f] = IF @ = "" THEN "approved" ELSE ""])
Choose(f) == /\ May /\ Kind[f] = "radio"
             /\ Set([p EXCEPT !.values = [o \in Fields |-> IF o = f THEN "true" ELSE IF Kind[o] = "radio" THEN "" ELSE @[o]]])
Consent == May /\ Set([p EXCEPT !.consent = ~@])
\* The file input stays open while another file is on its way.
uploadAttachment(f, file) ==
  /\ May /\ Kind[f] = "attachment"
  /\ IF Preview THEN Set([p EXCEPT !.values[f] = file])
     ELSE Send("attach", f, file, [p EXCEPT !.uploading = f, !.error = FALSE]) /\ UNCHANGED shownAt
OpenDecline == May /\ Of("decline") # {} /\ Set([p EXCEPT !.declineOpen = TRUE])
CancelDecline == Form /\ p.declineOpen /\ Waits /\ Set([p EXCEPT !.declineOpen = FALSE])
decline == /\ Form /\ p.declineOpen /\ ~p.declining /\ Waits
           /\ IF Preview THEN Set([p EXCEPT !.declinedHere = TRUE, !.declineOpen = FALSE])
              ELSE Send("decline", NONE, "", [p EXCEPT !.declining = TRUE, !.error = FALSE]) /\ UNCHANGED shownAt
finish == /\ May /\ canFinish /\ ~p.finishing
          /\ IF Preview THEN Set([p EXCEPT !.done = TRUE])
             ELSE /\ Send("finish", NONE, "", [p EXCEPT !.finishing = TRUE, !.error = FALSE])
                  /\ shownAt' = shownAt \cup {Shown}

\* The signature dialog.  Each tab draws its own content; the canvas of a
\* tab that was left is gone, what is known of its ink is not.
InModal == Form /\ p.modal # "no"
Tab(t) == InModal /\ p.modal # t /\ Set([p EXCEPT !.modal = t, !.canvas = FALSE])
Stroke == InModal /\ p.modal = "draw" /\ Set([p EXCEPT !.canvas = TRUE, !.hasInk = TRUE])
Clear == InModal /\ p.modal = "draw" /\ Set([p EXCEPT !.canvas = FALSE, !.hasInk = FALSE])
Closed == [p EXCEPT !.modal = "no", !.canvas = FALSE, !.hasInk = FALSE]
adopt == /\ InModal /\ (p.modal = "draw" => p.hasInk)
         /\ Set([Closed EXCEPT !.sig = IF p.modal = "type" THEN "typed" ELSE IF p.canvas THEN "drawn" ELSE "blank",
                               !.applied = @ \cup ({p.pending} \ {NONE}), !.pending = NONE])
CloseModal == InModal /\ Set(Closed)

\* The link is opened again: a new page, and the answers to the old one are not heard.
Open == /\ Waits /\ visit < MaxVisits /\ Cardinality(tasks) < MaxTasks /\ visit' = visit + 1 /\ p' = Page
        /\ tasks' = tasks \cup {[LoadOf(visit + 1) EXCEPT !.n = CHOOSE n \in Numbers : \A t \in tasks : t.n # n]}
        /\ UNCHANGED <<service, shownAt>>
----------------------------------------------------------------------------
(* The service.  A handler reads, decides, and then writes.                *)

Signable == env = "sent" /\ me # "signed"
MayDecline == env = "sent" /\ me # "signed"
\* The checks of CompleteCeremony on what was sent and on what was uploaded.
Accepts(t) ==
  /\ \A f \in Of("number") : t.sent[f] # "-"
  /\ \A f \in Required : CASE Kind[f] = "radio" -> \E o \in Of("radio") : t.sent[o] = "true"
                           [] Kind[f] = "attachment" -> rec[f] # ""
                           [] Kind[f] \in {"sig", "decline"} -> TRUE
                           [] OTHER -> t.sent[f] # ""
  /\ Of("sig") # {} => \A f \in Of("sig") : t.sent[f] # ""
Passes(t) == CASE t.kind = "load" -> TRUE
               [] t.kind = "decline" -> MayDecline
               [] t.kind = "attach" -> Signable
               [] t.kind = "finish" -> Signable /\ Accepts(t)
Becomes(t, u) == tasks' = (tasks \ {t}) \cup {u}
Check(t) == /\ t.at = "sent"
            /\ \E at \in {"checked", "refused"} :
                 /\ at = "checked" => Passes(t)
                 /\ at = "refused" => Faults \/ ~Passes(t)
                 /\ Becomes(t, [t EXCEPT !.at = at])
            /\ UNCHANGED <<service, p, visit, shownAt>>
\* The values are stored before the signer is marked.
Store(t) == /\ t.kind = "finish" /\ t.at = "checked" /\ Becomes(t, [t EXCEPT !.at = "stored"])
            /\ rec' = [f \in Fields |-> IF Kind[f] \in {"attachment", "decline"} THEN rec[f] ELSE t.sent[f]]
            /\ UNCHANGED <<env, me, other, p, visit, shownAt>>
SeenBy(e, m) == [env |-> e, me |-> m, files |-> rec]
Replies(t, view) == \E at \in {"ok"} \cup (IF Faults THEN {"refused"} ELSE {}) : Becomes(t, [t EXCEPT !.at = at, !.answer = view])
Act(t) ==
  /\ \/ /\ t.kind = "load" /\ t.at = "checked" /\ Replies(t, IF Preview THEN SeenBy("sent", "viewed") ELSE SeenBy(env, me))
        /\ UNCHANGED service
     \/ /\ t.kind = "attach" /\ t.at = "checked" /\ rec' = [rec EXCEPT ![t.of] = t.file]
        /\ Replies(t, NONE) /\ UNCHANGED <<env, me, other>>
     \/ /\ t.kind = "decline" /\ t.at = "checked" /\ me' = "declined"
        /\ env' = (IF env = "sent" THEN "declined" ELSE env) /\ Replies(t, NONE) /\ UNCHANGED <<other, rec>>
     \/ /\ t.kind = "finish" /\ t.at = "stored" /\ me' = "signed"
        /\ env' = (IF env = "sent" /\ other THEN "completed" ELSE env)
        /\ Replies(t, SeenBy(env', me')) /\ UNCHANGED <<other, rec>>
  /\ UNCHANGED <<p, visit, shownAt>>
OtherSigns == /\ Others /\ env = "sent" /\ ~other /\ other' = TRUE /\ env' = (IF me = "signed" THEN "completed" ELSE env)
              /\ UNCHANGED <<me, rec, p, tasks, visit, shownAt>>
Close == /\ Others /\ env = "sent" /\ env' \in {"declined", "voided"} /\ UNCHANGED <<me, other, rec, p, tasks, visit, shownAt>>
----------------------------------------------------------------------------
(* The answers.                                                            *)

Hear(t) == /\ t.at \in {"ok", "refused"} /\ tasks' = tasks \ {t} /\ Stay
Good(t) == t.at = "ok"
Loaded(t) == /\ t.kind = "load" /\ Hear(t)
             /\ p' = IF Good(t) THEN [p EXCEPT !.view = t.answer, !.done = (t.answer.me = "signed")] ELSE [p EXCEPT !.error = TRUE]
Attaching(t) == /\ t.kind = "attach" /\ Hear(t)
                /\ p' = IF Good(t) THEN [p EXCEPT !.values[t.of] = t.file, !.uploading = NONE]
                        ELSE [p EXCEPT !.error = TRUE, !.uploading = NONE]
Declined(t) == /\ t.kind = "decline" /\ Hear(t)
               /\ p' = IF Good(t) THEN [p EXCEPT !.declinedHere = TRUE, !.declineOpen = FALSE, !.declining = FALSE]
                       ELSE [p EXCEPT !.error = TRUE, !.declining = FALSE]
Finished(t) == /\ t.kind = "finish" /\ Hear(t)
               /\ p' = IF Good(t) THEN [p EXCEPT !.view = t.answer, !.done = TRUE, !.finishing = FALSE]
                       ELSE [p EXCEPT !.error = TRUE, !.finishing = FALSE]
Answer(t) == IF t.visit = visit THEN Loaded(t) \/ Attaching(t) \/ Declined(t) \/ Finished(t) ELSE Hear(t) /\ UNCHANGED p

Next == \/ \E f \in Fields : ClickSig(f) \/ Approve(f) \/ Choose(f)
        \/ \E f \in Fields, v \in {"", "1", "-"} : Write(f, v)
        \/ \E f \in Fields, file \in Files : uploadAttachment(f, file)
        \/ Consent \/ OpenDecline \/ CancelDecline \/ decline \/ finish \/ Open
        \/ (\E t \in {"type", "draw"} : Tab(t)) \/ Stroke \/ Clear \/ adopt \/ CloseModal
        \/ OtherSigns \/ Close
        \/ \E t \in tasks : Check(t) \/ Store(t) \/ Act(t) \/ Answer(t)
Spec == Init /\ [][Next]_vars
----------------------------------------------------------------------------
TypeOK == /\ env \in {"sent", "completed", "declined", "voided"} /\ me \in {"viewed", "signed", "declined"}
          /\ p.applied \subseteq Of("sig") /\ p.sig \in {"", "typed", "drawn", "blank"} /\ DOMAIN rec = Fields
          /\ p.pending \in Of("sig") \cup {NONE} /\ p.uploading \in Of("attachment") \cup {NONE}

\* What is on record for a signer who has signed is what the page showed when
\* Finish was pressed, ink included (CompleteCeremony stamps every signature
\* field, whether the page applied it or not).
SignedAsShown == me = "signed" => rec \in shownAt

\* "The decline has been recorded.  No signature was applied."  (Kept only
\* while the signer waits for each answer: see the README.)
DeclinedTrue == p.declinedHere => me = "declined" /\ \A f \in Of("sig") : rec[f] = ""
\* The last screen tells what the service holds, "Your signature has been
\* recorded" too.
OutcomeTrue == DeclinedTrue /\ (p.done => me = "signed")

\* The dry run of the sender writes nothing.
PreviewKeeps == UNCHANGED service

\* Once a signer has signed, nothing changes what is on record.
\* (Not kept by the code: see the README.)
RecordFixed == [][me = "signed" => rec' = rec]_vars

\* Nobody else acting and nothing failing, "Ready to finish" is followed by no refusal.
\* (Not kept by the code: see the README.)
ReadyAccepted == \A t \in tasks : t.kind = "finish" => t.at # "refused"

\* A signature that is adopted has ink.
\* (Not kept by the code: see the README.)
InkReal == p.sig # "blank"

\* The attachment the page names is the one on record.
\* (Not kept by the code: see the README.)
AttachedAsShown == Form /\ tasks = {} => \A f \in Of("attachment") : Attached(f) = rec[f]
=============================================================================
