------------------------------ MODULE Signing ------------------------------
(***************************************************************************)
(* One Trilli Sign envelope (system/sign): the sender's draft edits, Send, *)
(* Resend and DeleteEnvelope; the recipients' ceremony (view, attach,      *)
(* complete, decline); Execute, which stamps, seals and files the signed   *)
(* document.                                                               *)
(*                                                                         *)
(* No handler opens a transaction: each reads the status first and then    *)
(* issues its statements one by one, so a handler is a worker that takes   *)
(* one statement or one blob-store call per step and may be dropped at any.*)
(***************************************************************************)
EXTENDS Integers, FiniteSets

CONSTANTS
  Workers,    \* concurrent request handlers
  Signers,    \* the people a sender may add; one token each
  MaxDocs,    \* bound: document snapshots ever taken
  MaxFaults,  \* bound: handlers dropped, statements failed
  NONE

ASSUME NoneAssumption == NONE \notin Workers \cup Signers
ASSUME BoundsAssumption == MaxDocs \in Nat \ {0} /\ MaxFaults \in Nat

VARIABLES
  env,       \* sign_envelopes.status, or "deleted"
  doc,       \* the snapshot blob_path names; 0 when it is NULL
  snaps,     \* snapshots present in the blob store
  docs,      \* snapshots ever taken
  rec,       \* signer -> sign_recipients.status, "absent" without a row
  hasField,  \* signers with at least one sign_fields row
  linked,    \* signers who have been mailed their ceremony link
  answers,   \* signer -> the request whose values the signer's fields hold
  executed,  \* what executed_blob shows: a document and its answers, or NONE
  sealed,    \* sealed_blob is set
  filed,     \* deposited copies in Files, numbered
  deposit,   \* deposited_file_id, 0 when NULL
  pc, req,   \* worker -> the next call of its handler, and what it has read
  faults,    \* counter for MaxFaults
  raced,     \* history: a statement landed on a status its handler had not read,
             \* or one token served two requests at once
  seen,      \* history: the documents shown to those who signed
  stamps     \* history: how often Execute stored a document

vars == <<env, doc, snaps, docs, rec, hasField, linked, answers, executed, sealed, filed,
          deposit, pc, req, faults, raced, seen, stamps>>

rowVars == <<env, doc, rec, hasField, answers, executed, sealed, deposit>>
docVars == <<doc, snaps, docs>>
execVars == <<executed, sealed, filed, deposit, stamps>>
histVars == <<raced, seen>>

----------------------------------------------------------------------------
Closed == {"completed", "declined", "voided"}
Present == {s \in Signers : rec[s] # "absent"}
Exists == env # "deleted"

Ink == [Signers -> Workers \cup {NONE}]
Stamped == [doc : 1..MaxDocs, ink : Ink]

EditKinds == {"addRecipient", "deleteRecipient", "addField", "moveField", "deleteField"}
CeremonyPc == {"view", "answer", "markSigned", "attachFile", "decline", "closeDeclined"}
Pc == {"idle", "snapshot", "attach", "detach", "dropOld", "sendRecipients", "sendFields",
       "sendMark", "sendNotify", "sendMail", "deleteDraft", "unfile", "deleteClosed", "void",
       "count", "complete", "execute", "stamp", "storeExecuted", "seal", "deposit",
       "recordDeposit"} \cup EditKinds \cup CeremonyPc

\* signer and other: the recipients of the request; doc and old: snapshots;
\* who: recipients read by Send; ink: values read by Execute; file: a deposit.
Request == [signer : Signers \cup {NONE}, other : Signers \cup {NONE}, doc : 0..MaxDocs,
            old : 0..MaxDocs, who : SUBSET Signers, ink : Ink, file : Nat]
NoRequest == [signer |-> NONE, other |-> NONE, doc |-> 0, old |-> 0, who |-> {},
              ink |-> [s \in Signers |-> NONE], file |-> 0]

\* Fields belong to recipients: sign_fields.recipient_id cascades.
TypeOK ==
  /\ env \in {"draft", "sent", "deleted"} \cup Closed
  /\ doc \in 0..MaxDocs /\ snaps \subseteq 1..MaxDocs /\ docs \in 0..MaxDocs
  /\ rec \in [Signers -> {"absent", "pending", "notified", "viewed", "signed", "declined"}]
  /\ hasField \subseteq Present /\ linked \subseteq Signers
  /\ answers \in Ink
  /\ executed \in Stamped \cup {NONE} /\ sealed \in BOOLEAN
  /\ filed \subseteq Nat /\ deposit \in Nat
  /\ pc \in [Workers -> Pc] /\ req \in [Workers -> Request]
  /\ faults \in Nat /\ raced \in BOOLEAN /\ seen \subseteq 0..MaxDocs /\ stamps \in Nat

\* CreateEnvelope starts from a snapshot, CreateBlankEnvelope without one.
Init ==
  /\ env = "draft"
  /\ \/ doc = 0 /\ snaps = {} /\ docs = 0
     \/ doc = 1 /\ snaps = {1} /\ docs = 1
  /\ rec = [s \in Signers |-> "absent"]
  /\ hasField = {} /\ linked = {}
  /\ answers = [s \in Signers |-> NONE]
  /\ executed = NONE /\ sealed = FALSE /\ filed = {} /\ deposit = 0
  /\ pc = [w \in Workers |-> "idle"]
  /\ req = [w \in Workers |-> NoRequest]
  /\ faults = 0 /\ raced = FALSE /\ seen = {} /\ stamps = 0

----------------------------------------------------------------------------
(* Helpers *)

Fault == faults < MaxFaults /\ faults' = faults + 1
Goto(w, label) == pc' = [pc EXCEPT ![w] = label]
Finish(w) == /\ pc' = [pc EXCEPT ![w] = "idle"]
             /\ req' = [req EXCEPT ![w] = NoRequest]
Start(w, label, r) == /\ pc[w] = "idle"
                      /\ pc' = [pc EXCEPT ![w] = label]
                      /\ req' = [req EXCEPT ![w] = r]

\* A statement of a handler that read status st lands.
Lands(st) == raced' = (raced \/ env # st)

\* requireDraft scans a NULL blob_path into a string, so it also wants a document.
Draft == env = "draft" /\ doc # 0

Serving(s) == \E w \in Workers : pc[w] \in CeremonyPc /\ req[w].signer = s
Token(s) == raced' = (raced \/ Serving(s))

----------------------------------------------------------------------------
(* The sender edits the draft *)

BeginEdit(w, kind, s) ==
  /\ Draft
  /\ Start(w, kind, [NoRequest EXCEPT !.signer = s])
  /\ UNCHANGED <<rowVars, snaps, docs, linked, filed, faults, histVars, stamps>>

BeginMove(w, s, t) ==
  /\ Draft /\ s # t
  /\ Start(w, "moveField", [NoRequest EXCEPT !.signer = s, !.other = t])
  /\ UNCHANGED <<rowVars, snaps, docs, linked, filed, faults, histVars, stamps>>

AddRecipient(w) ==
  LET s == req[w].signer IN
  /\ pc[w] = "addRecipient" /\ Exists /\ rec[s] = "absent"
  /\ rec' = [rec EXCEPT ![s] = "pending"]
  /\ UNCHANGED <<hasField, linked, answers>>

\* Mutant of DeleteRecipient: the recipient's fields stay behind.
DeleteRecipientOnly(w) ==
  LET s == req[w].signer IN
  /\ pc[w] = "deleteRecipient" /\ s \in Present
  /\ rec' = [rec EXCEPT ![s] = "absent"]
  /\ linked' = linked \ {s}
  /\ UNCHANGED <<hasField, answers>>

DeleteRecipient(w) ==
  LET s == req[w].signer IN
  /\ pc[w] = "deleteRecipient" /\ s \in Present
  /\ rec' = [rec EXCEPT ![s] = "absent"]
  /\ hasField' = hasField \ {s}
  /\ linked' = linked \ {s}    \* with the row goes its token
  /\ answers' = [answers EXCEPT ![s] = NONE]

AddField(w) ==
  LET s == req[w].signer IN
  /\ pc[w] = "addField" /\ s \in Present
  /\ hasField' = hasField \cup {s}
  /\ UNCHANGED <<rec, linked, answers>>

\* UpdateField reassigns a field; it may not have been the recipient's last.
MoveField(w) ==
  LET s == req[w].signer
      t == req[w].other
  IN
  /\ pc[w] = "moveField" /\ s \in hasField /\ t \in Present
  /\ hasField' \in {hasField \cup {t}, (hasField \ {s}) \cup {t}}
  /\ UNCHANGED <<rec, linked, answers>>

DeleteField(w) ==
  LET s == req[w].signer IN
  /\ pc[w] = "deleteField" /\ s \in hasField
  /\ hasField' \in {hasField, hasField \ {s}}
  /\ UNCHANGED <<rec, linked, answers>>

\* The statement of an edit lands, whatever the status has become; or it finds
\* nothing to change.
Edit(w) ==
  /\ pc[w] \in EditKinds
  /\ \/ AddRecipient(w) \/ DeleteRecipient(w) \/ AddField(w) \/ MoveField(w) \/ DeleteField(w)
     \/ UNCHANGED <<rec, hasField, linked, answers>>
  /\ IF UNCHANGED <<rec, hasField>> THEN UNCHANGED raced ELSE Lands("draft")
  /\ Finish(w)
  /\ UNCHANGED <<env, docVars, execVars, faults, seen>>

BeginAttach(w) ==
  /\ env = "draft"
  /\ Start(w, "snapshot", [NoRequest EXCEPT !.old = doc])
  /\ UNCHANGED <<rowVars, snaps, docs, linked, filed, faults, histVars, stamps>>

\* The source is read, converted and stored before the row is touched.
Snapshot(w) ==
  /\ pc[w] = "snapshot"
  /\ docs < MaxDocs
  /\ docs' = docs + 1
  /\ snaps' = snaps \cup {docs + 1}
  /\ req' = [req EXCEPT ![w].doc = docs + 1]
  /\ Goto(w, "attach")
  /\ UNCHANGED <<rowVars, linked, filed, faults, histVars, stamps>>

\* Mutant of Attach: a failed update deletes the snapshot that is still in use.
AttachDroppingOld(w) ==
  /\ pc[w] = "attach"
  /\ \/ /\ Exists
        /\ doc' = req[w].doc
        /\ Lands("draft")
        /\ Goto(w, "dropOld")
        /\ UNCHANGED <<snaps, req, faults>>
     \/ /\ Fault
        /\ snaps' = snaps \ {req[w].old}
        /\ Finish(w)
        /\ UNCHANGED <<doc, raced>>
  /\ UNCHANGED <<env, docs, rec, hasField, linked, answers, execVars, seen>>

\* The update asks for the envelope, not for a draft.
Attach(w) ==
  /\ pc[w] = "attach"
  /\ \/ /\ Exists
        /\ doc' = req[w].doc
        /\ Lands("draft")
        /\ Goto(w, "dropOld")
        /\ UNCHANGED <<snaps, req, faults>>
     \/ /\ IF Exists THEN Fault ELSE UNCHANGED faults
        /\ snaps' = snaps \ {req[w].doc}
        /\ Finish(w)
        /\ UNCHANGED <<doc, raced>>
  /\ UNCHANGED <<env, docs, rec, hasField, linked, answers, execVars, seen>>

BeginDetach(w) ==
  /\ env = "draft"
  /\ Start(w, "detach", [NoRequest EXCEPT !.old = doc])
  /\ UNCHANGED <<rowVars, snaps, docs, linked, filed, faults, histVars, stamps>>

Detach(w) ==
  /\ pc[w] = "detach"
  /\ \/ /\ Exists
        /\ doc' = 0
        /\ Lands("draft")
        /\ Goto(w, "dropOld")
        /\ UNCHANGED req
     \/ /\ ~Exists
        /\ Finish(w)
        /\ UNCHANGED <<doc, raced>>
  /\ UNCHANGED <<env, snaps, docs, rec, hasField, linked, answers, execVars, faults,
                 seen>>

\* The snapshot read at the start goes; the deletion's error is ignored.
DropOld(w) ==
  /\ pc[w] = "dropOld"
  /\ \/ snaps' = snaps \ {req[w].old} /\ UNCHANGED faults
     \/ Fault /\ UNCHANGED snaps
  /\ Finish(w)
  /\ UNCHANGED <<rowVars, docs, linked, filed, histVars, stamps>>

----------------------------------------------------------------------------
(* Send and Resend *)

BeginSend(w) ==
  /\ Draft
  /\ Start(w, "sendRecipients", NoRequest)
  /\ UNCHANGED <<rowVars, snaps, docs, linked, filed, faults, histVars, stamps>>

SendRecipients(w) ==
  /\ pc[w] = "sendRecipients"
  /\ \/ Present # {} /\ Goto(w, "sendFields") /\ req' = [req EXCEPT ![w].who = Present]
     \/ Present = {} /\ Finish(w)
  /\ UNCHANGED <<rowVars, snaps, docs, linked, filed, faults, histVars, stamps>>

SendFields(w) ==
  /\ pc[w] = "sendFields"
  /\ \/ req[w].who \subseteq hasField /\ Goto(w, "sendMark") /\ UNCHANGED req
     \/ ~(req[w].who \subseteq hasField) /\ Finish(w)
  /\ UNCHANGED <<rowVars, snaps, docs, linked, filed, faults, histVars, stamps>>

\* WHERE status = 'draft'; no row changed is no error.
SendMark(w) ==
  /\ pc[w] = "sendMark"
  /\ env' = IF env = "draft" THEN "sent" ELSE env
  /\ Goto(w, "sendNotify")
  /\ UNCHANGED <<docVars, rec, hasField, linked, answers, execVars, req, faults, histVars>>

SendNotify(w) ==
  /\ pc[w] = "sendNotify"
  /\ rec' = [s \in Signers |-> IF rec[s] = "pending" THEN "notified" ELSE rec[s]]
  /\ Goto(w, "sendMail")
  /\ UNCHANGED <<env, docVars, hasField, linked, answers, execVars, req, faults, histVars>>

\* Every row is mailed, best effort.
SendMail(w) ==
  /\ pc[w] = "sendMail"
  /\ \/ linked' = linked \cup Present /\ UNCHANGED faults
     \/ Fault /\ linked' \in SUBSET (linked \cup Present) /\ linked \subseteq linked'
  /\ Finish(w)
  /\ UNCHANGED <<rowVars, snaps, docs, filed, histVars, stamps>>

Resend ==
  /\ env = "sent"
  /\ linked' = linked \cup {s \in Present : rec[s] \notin {"signed", "declined"}}
  /\ UNCHANGED <<rowVars, snaps, docs, filed, pc, req, faults, histVars, stamps>>

----------------------------------------------------------------------------
(* The ceremony: whoever holds a link may open it any number of times *)

BeginView(w, s) ==
  /\ s \in linked /\ env = "sent" /\ rec[s] \in {"pending", "notified"}
  /\ Start(w, "view", [NoRequest EXCEPT !.signer = s])
  /\ UNCHANGED <<rowVars, snaps, docs, linked, filed, faults, histVars, stamps>>

\* The update repeats the condition it was issued under.
View(w) ==
  LET s == req[w].signer IN
  /\ pc[w] = "view"
  /\ rec' = IF rec[s] \in {"pending", "notified"} THEN [rec EXCEPT ![s] = "viewed"] ELSE rec
  /\ Finish(w)
  /\ UNCHANGED <<env, docVars, hasField, linked, answers, execVars, faults, histVars>>

\* Mutant of BeginSign: a recipient who has signed may sign again.
BeginSignAgain(w, s) ==
  /\ s \in linked \cap Present /\ env = "sent"
  /\ Start(w, "answer", [NoRequest EXCEPT !.signer = s, !.doc = doc])
  /\ Token(s)
  /\ UNCHANGED <<rowVars, snaps, docs, linked, filed, faults, seen, stamps>>

Signable(s) == s \in linked \cap Present /\ env = "sent" /\ rec[s] # "signed"

BeginSign(w, s) ==
  /\ Signable(s)
  /\ Start(w, "answer", [NoRequest EXCEPT !.signer = s, !.doc = doc])
  /\ Token(s)
  /\ UNCHANGED <<rowVars, snaps, docs, linked, filed, faults, seen, stamps>>

BeginAttachFile(w, s) ==
  /\ Signable(s) /\ s \in hasField
  /\ Start(w, "attachFile", [NoRequest EXCEPT !.signer = s])
  /\ Token(s)
  /\ UNCHANGED <<rowVars, snaps, docs, linked, filed, faults, seen, stamps>>

BeginDecline(w, s) ==
  /\ Signable(s)
  /\ Start(w, "decline", [NoRequest EXCEPT !.signer = s])
  /\ Token(s)
  /\ UNCHANGED <<rowVars, snaps, docs, linked, filed, faults, seen, stamps>>

\* The recipient's values and signature image; rows that are gone stay gone.
Write(w) ==
  answers' = IF req[w].signer \in Present THEN [answers EXCEPT ![req[w].signer] = w] ELSE answers

AttachFile(w) ==
  /\ pc[w] = "attachFile"
  /\ Write(w)
  /\ Finish(w)
  /\ UNCHANGED <<env, docVars, rec, hasField, linked, execVars, faults, histVars>>

Answer(w) ==
  /\ pc[w] = "answer"
  /\ Write(w)
  /\ Goto(w, "markSigned")
  /\ UNCHANGED <<env, docVars, rec, hasField, linked, execVars, req, faults, histVars>>

\* WHERE id = ..., whatever the recipient's or the envelope's status is by now.
Mark(s, status) == rec' = IF s \in Present THEN [rec EXCEPT ![s] = status] ELSE rec

MarkSigned(w) ==
  LET s == req[w].signer IN
  /\ pc[w] = "markSigned"
  /\ Mark(s, "signed")
  /\ seen' = seen \cup {req[w].doc}
  /\ Goto(w, "count")
  /\ UNCHANGED <<env, docVars, hasField, linked, answers, execVars, req, faults, raced>>

\* Mutants of Count: recipients who only viewed are not counted; the count is
\* taken before this recipient is marked.
CountForgettingViewed(w) ==
  /\ pc[w] = "count"
  /\ \/ (\A s \in Present : rec[s] \in {"signed", "viewed"}) /\ Goto(w, "complete") /\ UNCHANGED req
     \/ (\E s \in Present : rec[s] \notin {"signed", "viewed"}) /\ Finish(w)
  /\ UNCHANGED <<rowVars, snaps, docs, linked, filed, faults, histVars, stamps>>
CountBeforeMarking(w) ==
  /\ pc[w] = "count"
  /\ \/ (\A s \in Present : rec[s] = "signed" /\ s # req[w].signer) /\ Goto(w, "complete")
        /\ UNCHANGED req
     \/ (\E s \in Present : rec[s] # "signed" \/ s = req[w].signer) /\ Finish(w)
  /\ UNCHANGED <<rowVars, snaps, docs, linked, filed, faults, histVars, stamps>>

Count(w) ==
  /\ pc[w] = "count"
  /\ \/ (\A s \in Present : rec[s] = "signed") /\ Goto(w, "complete") /\ UNCHANGED req
     \/ (\E s \in Present : rec[s] # "signed") /\ Finish(w)
  /\ UNCHANGED <<rowVars, snaps, docs, linked, filed, faults, histVars, stamps>>

\* Mutant of Complete: the update does not ask for 'sent'.
CompleteAnyway(w) ==
  /\ pc[w] = "complete"
  /\ env' = IF Exists THEN "completed" ELSE env
  /\ Goto(w, "execute")
  /\ UNCHANGED <<docVars, rec, hasField, linked, answers, execVars, req, faults, histVars>>

\* WHERE status = 'sent'; Execute follows even when no row changed.
Complete(w) ==
  /\ pc[w] = "complete"
  /\ env' = IF env = "sent" THEN "completed" ELSE env
  /\ Goto(w, "execute")
  /\ UNCHANGED <<docVars, rec, hasField, linked, answers, execVars, req, faults, histVars>>

Decline(w) ==
  /\ pc[w] = "decline"
  /\ Mark(req[w].signer, "declined")
  /\ Goto(w, "closeDeclined")
  /\ UNCHANGED <<env, docVars, hasField, linked, answers, execVars, req, faults, histVars>>

CloseDeclined(w) ==
  /\ pc[w] = "closeDeclined"
  /\ env' = IF env = "sent" THEN "declined" ELSE env
  /\ Finish(w)
  /\ UNCHANGED <<docVars, rec, hasField, linked, answers, execVars, faults, histVars>>

----------------------------------------------------------------------------
(* Execute *)

ReadExecuted(w) ==
  /\ pc[w] = "execute"
  /\ \/ /\ Exists /\ executed = NONE
        /\ req' = [req EXCEPT ![w].doc = doc]
        /\ Goto(w, "stamp")
     \/ /\ ~Exists \/ executed # NONE
        /\ Finish(w)
  /\ UNCHANGED <<rowVars, snaps, docs, linked, filed, faults, histVars, stamps>>

Stamp(w) ==
  /\ pc[w] = "stamp"
  /\ \/ /\ req[w].doc \in snaps
        /\ req' = [req EXCEPT ![w].ink = answers]
        /\ Goto(w, "storeExecuted")
     \/ /\ req[w].doc \notin snaps
        /\ Finish(w)
  /\ UNCHANGED <<rowVars, snaps, docs, linked, filed, faults, histVars, stamps>>

StoreExecuted(w) ==
  /\ pc[w] = "storeExecuted"
  /\ executed' = IF Exists THEN [doc |-> req[w].doc, ink |-> req[w].ink] ELSE executed
  /\ stamps' = stamps + 1
  /\ Goto(w, "seal")
  /\ UNCHANGED <<env, docVars, rec, hasField, linked, answers, sealed, filed, deposit, req,
                 faults, histVars>>

\* A seal that fails is only recorded in the trail; a deposit wants the envelope.
Seal(w) ==
  /\ pc[w] = "seal"
  /\ \/ /\ Exists
        /\ sealed' = TRUE
        /\ Goto(w, "deposit")
        /\ UNCHANGED <<req, faults>>
     \/ /\ IF Exists THEN Fault ELSE UNCHANGED faults
        /\ Finish(w)
        /\ UNCHANGED sealed
  /\ UNCHANGED <<env, docVars, rec, hasField, linked, answers, executed, filed, deposit,
                 stamps, histVars>>

\* files.Upload of the sealed copy as a protected file.
Deposit(w) ==
  /\ pc[w] = "deposit"
  /\ \/ \E f \in 1..(Cardinality(filed) + 1) :
          /\ f \notin filed /\ \A g \in 1..(f - 1) : g \in filed
          /\ filed' = filed \cup {f}
          /\ req' = [req EXCEPT ![w].file = f]
          /\ Goto(w, "recordDeposit")
          /\ UNCHANGED faults
     \/ Fault /\ Finish(w) /\ UNCHANGED filed
  /\ UNCHANGED <<rowVars, snaps, docs, linked, histVars, stamps>>

RecordDeposit(w) ==
  /\ pc[w] = "recordDeposit"
  /\ deposit' = IF Exists THEN req[w].file ELSE deposit
  /\ Finish(w)
  /\ UNCHANGED <<env, docVars, rec, hasField, linked, answers, executed, sealed, filed, stamps,
                 faults, histVars>>

----------------------------------------------------------------------------
(* DeleteEnvelope *)

BeginDelete(w) ==
  /\ Exists
  /\ Start(w, IF env = "draft" THEN "deleteDraft" ELSE IF env = "sent" THEN "void" ELSE "unfile",
           [NoRequest EXCEPT !.old = doc])
  /\ UNCHANGED <<rowVars, snaps, docs, linked, filed, faults, histVars, stamps>>

\* The row and, by cascade, its recipients and fields.
DeleteRow ==
  /\ env' = "deleted" /\ doc' = 0
  /\ rec' = [s \in Signers |-> "absent"] /\ hasField' = {} /\ linked' = {}
  /\ answers' = [s \in Signers |-> NONE]
  /\ executed' = NONE /\ sealed' = FALSE /\ deposit' = 0
  /\ raced' = FALSE /\ seen' = {}    \* the history ends with it

DeleteDraft(w) ==
  /\ pc[w] = "deleteDraft"
  /\ DeleteRow
  /\ Goto(w, "dropOld")
  /\ UNCHANGED <<snaps, docs, filed, stamps, req, faults>>

\* RemoveSystemFile of the recorded deposit; its error is only logged.
Unfile(w) ==
  /\ pc[w] = "unfile"
  /\ \/ filed' = filed \ {deposit} /\ UNCHANGED faults
     \/ Fault /\ UNCHANGED filed
  /\ Goto(w, "deleteClosed")
  /\ UNCHANGED <<rowVars, snaps, docs, linked, stamps, req, histVars>>

DeleteClosed(w) ==
  /\ pc[w] = "deleteClosed"
  /\ DeleteRow
  /\ Goto(w, "dropOld")
  /\ UNCHANGED <<snaps, docs, filed, stamps, req, faults>>

\* The update names the envelope only.
Void(w) ==
  /\ pc[w] = "void"
  /\ env' = IF Exists THEN "voided" ELSE env
  /\ Lands("sent")
  /\ Finish(w)
  /\ UNCHANGED <<docVars, rec, hasField, linked, answers, execVars, faults, seen>>

\* The client goes away or the node dies between two statements.
DropRequest(w) ==
  /\ pc[w] # "idle"
  /\ Fault
  /\ Finish(w)
  /\ UNCHANGED <<rowVars, snaps, docs, linked, filed, histVars, stamps>>

----------------------------------------------------------------------------
Execute(w) ==
  ReadExecuted(w) \/ Stamp(w) \/ StoreExecuted(w) \/ Seal(w) \/ Deposit(w) \/ RecordDeposit(w)

Continue(w) ==
  \/ Edit(w) \/ Snapshot(w) \/ Attach(w) \/ Detach(w) \/ DropOld(w)
  \/ SendRecipients(w) \/ SendFields(w) \/ SendMark(w) \/ SendNotify(w) \/ SendMail(w)
  \/ View(w) \/ AttachFile(w) \/ Answer(w) \/ MarkSigned(w) \/ Count(w) \/ Complete(w)
  \/ Decline(w) \/ CloseDeclined(w)
  \/ Execute(w)
  \/ DeleteDraft(w) \/ Unfile(w) \/ DeleteClosed(w) \/ Void(w)

Next ==
  \/ \E w \in Workers :
       \/ \E kind \in EditKinds \ {"moveField"}, s \in Signers : BeginEdit(w, kind, s)
       \/ \E s, t \in Signers : BeginMove(w, s, t)
       \/ BeginAttach(w) \/ BeginDetach(w) \/ BeginSend(w) \/ BeginDelete(w)
       \/ \E s \in Signers :
            BeginView(w, s) \/ BeginSign(w, s) \/ BeginAttachFile(w, s) \/ BeginDecline(w, s)
       \/ Continue(w)
       \/ DropRequest(w)
  \/ Resend

Spec == Init /\ [][Next]_vars

----------------------------------------------------------------------------
(* Properties *)

\* An envelope that is completed, declined or voided never becomes a draft or
\* open again, and completed and declined never replace each other: each closing
\* update repeats the status it may start from.
ClosedForGood ==
  [][(env \in Closed) => (env' \in {env, "voided", "deleted"})]_vars

\* A completed envelope was signed by every recipient it has, unless an edit
\* landed after Send or one token served two requests at once.
Unanimous ==
  env = "completed" /\ ~raced => \A s \in Present : rec[s] = "signed"

\* The executed document shows the pages every signer saw and the values every
\* signer gave, under the same two provisos.
SealedAsSigned ==
  executed # NONE /\ ~raced =>
    seen = {executed.doc} /\ executed.ink = answers

\* The document an envelope names is never deleted from the store, however
\* replacements, removals and failures of the attach path cross.
DocumentKept == doc # 0 => doc \in snaps

\* Once the last recipient has signed somebody is about to close the envelope:
\* every signer counts after marking, so of two concurrent last signers one sees
\* both.  A dropped request or a race may leave it open.
LastSignerCloses ==
  env = "sent" /\ Present # {} /\ (\A s \in Present : rec[s] = "signed") /\ ~raced =>
    faults > 0 \/ \E w \in Workers : pc[w] \in {"count", "complete"}

\* What the comment on Execute says: it runs once.
ExecutesOnce == stamps <= 1
=============================================================================
