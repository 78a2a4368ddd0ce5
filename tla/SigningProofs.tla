--------------------------- MODULE SigningProofs ---------------------------
(***************************************************************************)
(* For every set of handlers and signers: a Trilli Sign envelope keeps its *)
(* types, closes for good, keeps the document it names, is completed only  *)
(* with every signature, is closed by its last signer, and is executed as  *)
(* it was signed.  The sections at the end are about the sender's pages,   *)
(* for every set of recipients, persons and envelopes: the wizard's two    *)
(* steps (SignSetup, SignFields) and the list of envelopes (SignHome).     *)
(***************************************************************************)
EXTENDS Signing, FiniteSetTheorems, TLAPS

\* TypeOK by the part of the state an action touches.  Beside the types: the
\* handlers that need a signer, a second signer or a snapshot have one.
RowType ==
  /\ env \in {"draft", "sent", "deleted"} \cup Closed
  /\ rec \in [Signers -> {"absent", "pending", "notified", "viewed", "signed", "declined"}]
  /\ hasField \subseteq Present /\ linked \subseteq Signers
  /\ answers \in Ink
DocType == doc \in 0..MaxDocs /\ snaps \subseteq 1..MaxDocs /\ docs \in 0..MaxDocs
ExecType ==
  /\ executed \in Stamped \cup {NONE} /\ sealed \in BOOLEAN
  /\ filed \subseteq Nat /\ deposit \in Nat /\ stamps \in Nat
HistType == faults \in Nat /\ raced \in BOOLEAN /\ seen \subseteq 0..MaxDocs
WorkType ==
  /\ pc \in [Workers -> Pc] /\ req \in [Workers -> Request]
  /\ \A w \in Workers :
       /\ pc[w] \in EditKinds \cup CeremonyPc => req[w].signer \in Signers
       /\ pc[w] = "moveField" => req[w].other \in Signers
       /\ pc[w] \in {"attach", "storeExecuted"} => req[w].doc \in 1..MaxDocs

TypeInv == RowType /\ DocType /\ ExecType /\ HistType /\ WorkType

----------------------------------------------------------------------------
(* The helpers *)

LEMMA NoRequestType ==
  /\ NoRequest \in Request
  /\ \A s \in Signers : [NoRequest EXCEPT !.signer = s] \in Request
  /\ \A s, t \in Signers : [NoRequest EXCEPT !.signer = s, !.other = t] \in Request
  /\ \A d \in 0..MaxDocs : [NoRequest EXCEPT !.old = d] \in Request
  /\ \A s \in Signers, d \in 0..MaxDocs : [NoRequest EXCEPT !.signer = s, !.doc = d] \in Request
<1>1. [s \in Signers |-> NONE] \in Ink
  BY DEF Ink
<1>2. 0 \in 0..MaxDocs
  BY BoundsAssumption
<1>3. NoRequest \in Request
  BY <1>1, <1>2 DEF NoRequest, Request
<1>4. QED
  BY <1>3 DEF Request

LEMMA FinishType ==
  ASSUME WorkType, NEW w \in Workers, Finish(w)
  PROVE  WorkType'
  BY NoRequestType DEF WorkType, Finish, Pc, EditKinds, CeremonyPc

\* A handler goes on with its request to a call that wants no more of it.
LEMMA GotoType ==
  ASSUME WorkType, NEW w \in Workers, NEW label \in Pc, Goto(w, label),
         req' \in [Workers -> Request],
         \A v \in Workers : v # w => req'[v] = req[v],
         label \in EditKinds \cup CeremonyPc => req'[w].signer \in Signers,
         label # "moveField",
         label \in {"attach", "storeExecuted"} => req'[w].doc \in 1..MaxDocs
  PROVE  WorkType'
  BY DEF WorkType, Goto

LEMMA StartType ==
  ASSUME WorkType, NEW w \in Workers, NEW label \in Pc, NEW r \in Request,
         Start(w, label, r),
         label \in EditKinds \cup CeremonyPc => r.signer \in Signers,
         label = "moveField" => r.other \in Signers,
         label \notin {"attach", "storeExecuted"}
  PROVE  WorkType'
  BY DEF WorkType, Start

LEMMA FaultType ==
  ASSUME HistType, Fault \/ UNCHANGED faults
  PROVE  faults' \in Nat
  BY DEF HistType, Fault

LEMMA LandsType ==
  ASSUME HistType, NEW st, Lands(st)
  PROVE  raced' \in BOOLEAN
  BY DEF HistType, Lands

----------------------------------------------------------------------------
LEMMA InitType == Init => TypeInv
<1> SUFFICES ASSUME Init
             PROVE  TypeInv
    OBVIOUS
<1>1. RowType
  BY DEF Init, RowType, Ink, Present
<1>2. DocType
  <2>1. 1 \in 1..MaxDocs /\ 0 \in 0..MaxDocs /\ 1 \in 0..MaxDocs
    BY BoundsAssumption
  <2>2. QED
    BY <2>1 DEF Init, DocType
<1>3. ExecType
  BY DEF Init, ExecType
<1>4. HistType
  BY DEF Init, HistType
<1>5. WorkType
  BY NoRequestType DEF Init, WorkType, Pc, EditKinds, CeremonyPc
<1>6. QED
  BY <1>1, <1>2, <1>3, <1>4, <1>5 DEF TypeInv

\* A handler is admitted.
LEMMA BeginType ==
  ASSUME TypeInv, NEW w \in Workers,
         \/ \E kind \in EditKinds \ {"moveField"}, s \in Signers : BeginEdit(w, kind, s)
         \/ \E s, t \in Signers : BeginMove(w, s, t)
         \/ BeginAttach(w) \/ BeginDetach(w) \/ BeginSend(w) \/ BeginDelete(w)
         \/ \E s \in Signers :
              BeginView(w, s) \/ BeginSign(w, s) \/ BeginAttachFile(w, s) \/ BeginDecline(w, s)
  PROVE  TypeInv'
<1>1. WorkType'
  <2>1. ASSUME NEW kind \in EditKinds \ {"moveField"}, NEW s \in Signers, BeginEdit(w, kind, s)
        PROVE  WorkType'
    <3>1. [NoRequest EXCEPT !.signer = s] \in Request /\ [NoRequest EXCEPT !.signer = s].signer = s
      BY NoRequestType DEF NoRequest
    <3>2. kind \in Pc /\ kind \notin {"attach", "storeExecuted"}
      BY DEF Pc, EditKinds
    <3>3. Start(w, kind, [NoRequest EXCEPT !.signer = s])
      BY <2>1 DEF BeginEdit
    <3>4. QED
      BY <3>1, <3>2, <3>3, StartType DEF TypeInv
  <2>2. ASSUME NEW s \in Signers, NEW t \in Signers, BeginMove(w, s, t)
        PROVE  WorkType'
    <3>1. LET r == [NoRequest EXCEPT !.signer = s, !.other = t] IN r.signer = s /\ r.other = t
      BY DEF NoRequest
    <3>2. [NoRequest EXCEPT !.signer = s, !.other = t] \in Request
      BY NoRequestType
    <3>3. /\ "moveField" \in Pc
          /\ Start(w, "moveField", [NoRequest EXCEPT !.signer = s, !.other = t])
      BY <2>2 DEF BeginMove, Pc, EditKinds
    <3>4. QED
      BY <3>1, <3>2, <3>3, StartType DEF TypeInv
  <2>3. CASE BeginAttach(w) \/ BeginDetach(w) \/ BeginDelete(w)
    <3>1. [NoRequest EXCEPT !.old = doc] \in Request
      BY NoRequestType DEF TypeInv, DocType
    <3>2. PICK label \in {"snapshot", "detach", "deleteDraft", "void", "unfile"} :
            Start(w, label, [NoRequest EXCEPT !.old = doc])
      BY <2>3 DEF BeginAttach, BeginDetach, BeginDelete
    <3>3. label \in Pc /\ label \notin EditKinds \cup CeremonyPc
      BY DEF Pc, EditKinds, CeremonyPc
    <3>4. label \notin {"moveField", "attach", "storeExecuted"}
      OBVIOUS
    <3>5. QED
      BY <3>1, <3>2, <3>3, <3>4, StartType DEF TypeInv
  <2>4. CASE BeginSend(w)
    BY <2>4, NoRequestType, StartType DEF BeginSend, TypeInv, Pc, EditKinds, CeremonyPc
  <2>5. ASSUME NEW s \in Signers,
               BeginView(w, s) \/ BeginAttachFile(w, s) \/ BeginDecline(w, s)
        PROVE  WorkType'
    <3>1. [NoRequest EXCEPT !.signer = s] \in Request /\ [NoRequest EXCEPT !.signer = s].signer = s
      BY NoRequestType DEF NoRequest
    <3>2. PICK label \in {"view", "attachFile", "decline"} :
            Start(w, label, [NoRequest EXCEPT !.signer = s])
      BY <2>5 DEF BeginView, BeginAttachFile, BeginDecline
    <3>3. label \in Pc /\ label \notin {"moveField", "attach", "storeExecuted"}
      BY DEF Pc, CeremonyPc
    <3>4. QED
      BY <3>1, <3>2, <3>3, StartType DEF TypeInv
  <2>6. ASSUME NEW s \in Signers, BeginSign(w, s)
        PROVE  WorkType'
    <3>1. [NoRequest EXCEPT !.signer = s, !.doc = doc].signer = s
      BY DEF NoRequest
    <3>2. [NoRequest EXCEPT !.signer = s, !.doc = doc] \in Request
      BY NoRequestType DEF TypeInv, DocType
    <3>3. "answer" \in Pc /\ Start(w, "answer", [NoRequest EXCEPT !.signer = s, !.doc = doc])
      BY <2>6 DEF BeginSign, Pc, CeremonyPc
    <3>4. QED
      BY <3>1, <3>2, <3>3, StartType DEF TypeInv
  <2>7. QED
    BY <2>1, <2>2, <2>3, <2>4, <2>5, <2>6
<1>2. UNCHANGED <<rowVars, snaps, docs, linked, filed, faults, seen, stamps>>
  BY DEF BeginEdit, BeginMove, BeginAttach, BeginDetach, BeginSend, BeginDelete, BeginView,
         BeginSign, BeginAttachFile, BeginDecline, histVars
<1>3. raced' \in BOOLEAN
  BY DEF BeginEdit, BeginMove, BeginAttach, BeginDetach, BeginSend, BeginDelete, BeginView,
         BeginSign, BeginAttachFile, BeginDecline, histVars, Token, Serving, TypeInv, HistType
<1>4. QED
  BY <1>1, <1>2, <1>3
  DEF TypeInv, RowType, DocType, ExecType, HistType, rowVars, Present

\* A handler that goes on reading: nothing but its own place changes.
LEMMA ReadType ==
  ASSUME TypeInv, NEW w \in Workers,
         SendRecipients(w) \/ SendFields(w) \/ Count(w) \/ ReadExecuted(w) \/ Stamp(w)
  PROVE  TypeInv'
<1>1. WorkType'
  <2>1. CASE SendRecipients(w)
    <3>1. \A r \in Request : [r EXCEPT !.who = Present] \in Request
      BY DEF Request, Present
    <3>2. CASE Finish(w)
      BY <3>2, FinishType DEF TypeInv
    <3>3. CASE Goto(w, "sendFields") /\ req' = [req EXCEPT ![w].who = Present]
      BY <3>1, <3>3, GotoType DEF TypeInv, WorkType, Pc, EditKinds, CeremonyPc
    <3>4. QED
      BY <2>1, <3>2, <3>3 DEF SendRecipients
  <2>2. CASE SendFields(w)
    BY <2>2, FinishType, GotoType DEF SendFields, TypeInv, WorkType, Pc, EditKinds, CeremonyPc
  <2>3. CASE Count(w)
    BY <2>3, FinishType, GotoType DEF Count, TypeInv, WorkType, Pc, EditKinds, CeremonyPc
  <2>4. CASE ReadExecuted(w)
    <3>1. \A r \in Request : [r EXCEPT !.doc = doc] \in Request
      BY DEF Request, TypeInv, DocType
    <3>2. CASE Finish(w)
      BY <3>2, FinishType DEF TypeInv
    <3>3. CASE Goto(w, "stamp") /\ req' = [req EXCEPT ![w].doc = doc]
      BY <3>1, <3>3, GotoType DEF TypeInv, WorkType, Pc, EditKinds, CeremonyPc
    <3>4. QED
      BY <2>4, <3>2, <3>3 DEF ReadExecuted
  <2>5. CASE Stamp(w)
    <3>1. \A r \in Request : [r EXCEPT !.ink = answers] \in Request
      BY DEF Request, TypeInv, RowType
    <3>2. CASE Finish(w)
      BY <3>2, FinishType DEF TypeInv
    <3>3. CASE /\ req[w].doc \in snaps /\ Goto(w, "storeExecuted")
               /\ req' = [req EXCEPT ![w].ink = answers]
      BY <3>1, <3>3, GotoType DEF TypeInv, WorkType, DocType, Pc, EditKinds, CeremonyPc
    <3>4. QED
      BY <2>5, <3>2, <3>3 DEF Stamp
  <2>6. QED
    BY <2>1, <2>2, <2>3, <2>4, <2>5
<1>2. UNCHANGED <<rowVars, snaps, docs, linked, filed, faults, histVars, stamps>>
  BY DEF SendRecipients, SendFields, Count, ReadExecuted, Stamp
<1>3. QED
  BY <1>1, <1>2
  DEF TypeInv, RowType, DocType, ExecType, HistType, rowVars, histVars, Present

\* The sender's statements.
LEMMA SenderType ==
  ASSUME TypeInv, NEW w \in Workers,
         \/ Edit(w) \/ Snapshot(w) \/ Attach(w) \/ Detach(w) \/ DropOld(w)
         \/ SendMark(w) \/ SendNotify(w) \/ SendMail(w)
         \/ DeleteDraft(w) \/ Unfile(w) \/ DeleteClosed(w) \/ Void(w)
  PROVE  TypeInv'
<1> USE DEF TypeInv
<1>1. CASE Edit(w)
  <2>1. WorkType'
    BY <1>1, FinishType DEF Edit
  <2>2. req[w].signer \in Signers /\ (pc[w] = "moveField" => req[w].other \in Signers)
    BY <1>1 DEF Edit, WorkType
  <2>3. RowType'
    <3>1. CASE AddRecipient(w)
      BY <1>1, <2>2, <3>1 DEF Edit, AddRecipient, RowType, Present
    <3>2. CASE DeleteRecipient(w)
      <4>1. answers' \in Ink
        BY <2>2, <3>2 DEF DeleteRecipient, RowType, Ink
      <4>2. QED
        BY <1>1, <2>2, <3>2, <4>1 DEF Edit, DeleteRecipient, RowType, Present
    <3>3. CASE AddField(w) \/ MoveField(w) \/ DeleteField(w)
      BY <1>1, <2>2, <3>3 DEF Edit, AddField, MoveField, DeleteField, RowType, Present
    <3>4. CASE UNCHANGED <<rec, hasField, linked, answers>>
      BY <1>1, <3>4 DEF Edit, RowType, Present
    <3>5. QED
      BY <1>1, <3>1, <3>2, <3>3, <3>4 DEF Edit
  <2>4. HistType'
    BY <1>1 DEF Edit, Lands, HistType
  <2>5. QED
    BY <1>1, <2>1, <2>3, <2>4 DEF Edit, DocType, ExecType, docVars, execVars
<1>2. CASE Snapshot(w)
  <2>1. docs + 1 \in 1..MaxDocs
    BY <1>2, BoundsAssumption DEF Snapshot, DocType
  <2>2. \A r \in Request : [r EXCEPT !.doc = docs + 1] \in Request
    BY <2>1 DEF Request
  <2>3. WorkType'
    <3>1. /\ req' \in [Workers -> Request] /\ req'[w].doc = docs + 1
          /\ \A v \in Workers : v # w => req'[v] = req[v]
      BY <1>2, <2>2 DEF Snapshot, WorkType, Request
    <3>2. "attach" \in Pc /\ "attach" \notin EditKinds \cup CeremonyPc /\ Goto(w, "attach")
      BY <1>2 DEF Snapshot, Pc, EditKinds, CeremonyPc
    <3>3. QED
      BY <2>1, <3>1, <3>2, GotoType
  <2>4. DocType'
    BY <1>2, <2>1 DEF Snapshot, DocType, rowVars
  <2>5. QED
    BY <1>2, <2>3, <2>4
    DEF Snapshot, RowType, ExecType, HistType, rowVars, histVars, Present
<1>3. CASE Attach(w)
  <2>1. WorkType'
    BY <1>3, FinishType, GotoType DEF Attach, WorkType, Pc, EditKinds, CeremonyPc
  <2>2. DocType'
    BY <1>3 DEF Attach, DocType, WorkType
  <2>3. HistType'
    <3>1. raced' \in BOOLEAN
      BY <1>3, LandsType DEF Attach, HistType
    <3>2. QED
      BY <1>3, <3>1 DEF Attach, HistType, Fault
  <2>4. QED
    BY <1>3, <2>1, <2>2, <2>3 DEF Attach, RowType, ExecType, execVars, Present
<1>4. CASE Detach(w)
  <2>1. WorkType'
    BY <1>4, FinishType, GotoType DEF Detach, WorkType, Pc, EditKinds, CeremonyPc
  <2>2. DocType' /\ HistType'
    <3>1. raced' \in BOOLEAN
      BY <1>4, LandsType DEF Detach, HistType
    <3>2. QED
      BY <1>4, <3>1, BoundsAssumption DEF Detach, DocType, HistType
  <2>3. QED
    BY <1>4, <2>1, <2>2 DEF Detach, RowType, ExecType, execVars, Present
<1>5. CASE DropOld(w)
  <2>1. WorkType' /\ DocType' /\ HistType'
    BY <1>5, FinishType, FaultType DEF DropOld, DocType, HistType, rowVars, histVars
  <2>2. QED
    BY <1>5, <2>1 DEF DropOld, RowType, ExecType, rowVars, Present
<1>6. CASE SendMark(w)
  <2>1. WorkType'
    BY <1>6, GotoType DEF SendMark, WorkType, Pc, EditKinds, CeremonyPc
  <2>2. QED
    BY <1>6, <2>1
    DEF SendMark, RowType, DocType, ExecType, HistType, docVars, execVars, histVars, Present
<1>7. CASE SendNotify(w)
  <2>1. WorkType'
    BY <1>7, GotoType DEF SendNotify, WorkType, Pc, EditKinds, CeremonyPc
  <2>2. RowType'
    BY <1>7 DEF SendNotify, RowType, Present
  <2>3. QED
    BY <1>7, <2>1, <2>2
    DEF SendNotify, DocType, ExecType, HistType, docVars, execVars, histVars
<1>8. CASE SendMail(w)
  <2>1. WorkType' /\ HistType'
    BY <1>8, FinishType, FaultType DEF SendMail, HistType, histVars
  <2>2. linked' \subseteq Signers
    BY <1>8 DEF SendMail, RowType, Present
  <2>3. QED
    BY <1>8, <2>1, <2>2 DEF SendMail, RowType, DocType, ExecType, rowVars, Present
<1>9. CASE DeleteDraft(w) \/ DeleteClosed(w)
  <2>1. WorkType'
    BY <1>9, GotoType DEF DeleteDraft, DeleteClosed, WorkType, Pc, EditKinds, CeremonyPc
  <2>2. DeleteRow /\ UNCHANGED <<snaps, docs, filed, stamps, faults>>
    BY <1>9 DEF DeleteDraft, DeleteClosed
  <2>3. RowType'
    BY <2>2 DEF DeleteRow, RowType, Ink, Present
  <2>4. DocType'
    BY <2>2, BoundsAssumption DEF DeleteRow, DocType
  <2>5. ExecType' /\ HistType'
    BY <2>2 DEF DeleteRow, ExecType, HistType
  <2>6. QED
    BY <2>1, <2>3, <2>4, <2>5
<1>10. CASE Unfile(w)
  <2>1. WorkType'
    BY <1>10, GotoType DEF Unfile, WorkType, Pc, EditKinds, CeremonyPc
  <2>2. ExecType' /\ HistType'
    BY <1>10, FaultType DEF Unfile, ExecType, HistType, rowVars, histVars
  <2>3. QED
    BY <1>10, <2>1, <2>2 DEF Unfile, RowType, DocType, rowVars, Present
<1>11. CASE Void(w)
  <2>1. WorkType' /\ HistType'
    BY <1>11, FinishType DEF Void, HistType, Lands
  <2>2. QED
    BY <1>11, <2>1 DEF Void, RowType, DocType, ExecType, docVars, execVars, Closed, Present
<1>12. QED
  BY <1>1, <1>2, <1>3, <1>4, <1>5, <1>6, <1>7, <1>8, <1>9, <1>10, <1>11

\* The recipient's statements and Execute's.
LEMMA CeremonyType ==
  ASSUME TypeInv, NEW w \in Workers,
         \/ View(w) \/ AttachFile(w) \/ Answer(w) \/ MarkSigned(w) \/ Complete(w)
         \/ Decline(w) \/ CloseDeclined(w)
         \/ StoreExecuted(w) \/ Seal(w) \/ Deposit(w) \/ RecordDeposit(w)
  PROVE  TypeInv'
<1> USE DEF TypeInv
<1>1. CASE View(w) \/ CloseDeclined(w)
  <2>1. WorkType'
    BY <1>1, FinishType DEF View, CloseDeclined
  <2>2. RowType'
    BY <1>1 DEF View, CloseDeclined, RowType, WorkType, CeremonyPc, Closed, Present
  <2>3. QED
    BY <1>1, <2>1, <2>2
    DEF View, CloseDeclined, DocType, ExecType, HistType, docVars, execVars, histVars
<1>2. CASE AttachFile(w) \/ Answer(w)
  <2>1. WorkType'
    BY <1>2, FinishType, GotoType
    DEF AttachFile, Answer, WorkType, Pc, EditKinds, CeremonyPc
  <2>2. answers' \in Ink
    BY <1>2 DEF AttachFile, Answer, Write, RowType, Ink
  <2>3. QED
    BY <1>2, <2>1, <2>2
    DEF AttachFile, Answer, RowType, DocType, ExecType, HistType, docVars, execVars, histVars,
        Present
<1>3. CASE MarkSigned(w) \/ Decline(w)
  <2>1. WorkType'
    BY <1>3, GotoType DEF MarkSigned, Decline, WorkType, Pc, EditKinds, CeremonyPc
  <2>2. RowType'
    BY <1>3 DEF MarkSigned, Decline, Mark, RowType, Present
  <2>3. HistType'
    BY <1>3 DEF MarkSigned, Decline, HistType, histVars, WorkType, Request
  <2>4. QED
    BY <1>3, <2>1, <2>2, <2>3 DEF MarkSigned, Decline, DocType, ExecType, docVars, execVars
<1>4. CASE Complete(w)
  <2>1. WorkType'
    BY <1>4, GotoType DEF Complete, WorkType, Pc, EditKinds, CeremonyPc
  <2>2. QED
    BY <1>4, <2>1
    DEF Complete, RowType, DocType, ExecType, HistType, docVars, execVars, histVars, Closed,
        Present
<1>5. CASE StoreExecuted(w)
  <2>1. WorkType'
    BY <1>5, GotoType DEF StoreExecuted, WorkType, Pc, EditKinds, CeremonyPc
  <2>2. ExecType'
    <3>1. [doc |-> req[w].doc, ink |-> req[w].ink] \in Stamped
      BY <1>5 DEF StoreExecuted, WorkType, Request, Stamped
    <3>2. QED
      BY <1>5, <3>1 DEF StoreExecuted, ExecType
  <2>3. QED
    BY <1>5, <2>1, <2>2
    DEF StoreExecuted, RowType, DocType, HistType, docVars, histVars, Present
<1>6. CASE Seal(w)
  <2>1. WorkType' /\ HistType'
    BY <1>6, FinishType, GotoType, FaultType
    DEF Seal, WorkType, HistType, histVars, Pc, EditKinds, CeremonyPc
  <2>2. QED
    BY <1>6, <2>1 DEF Seal, RowType, DocType, ExecType, docVars, Present
<1>7. CASE Deposit(w)
  <2>1. HistType'
    BY <1>7, FaultType DEF Deposit, HistType, histVars
  <2>2. WorkType' /\ filed' \subseteq Nat
    <3>1. ASSUME NEW f \in 1..(Cardinality(filed) + 1),
                 filed' = filed \cup {f}, req' = [req EXCEPT ![w].file = f],
                 Goto(w, "recordDeposit")
          PROVE  WorkType' /\ filed' \subseteq Nat
      <4>1. f \in Nat
        OBVIOUS
      <4>2. \A r \in Request : [r EXCEPT !.file = f] \in Request
        BY <4>1 DEF Request
      <4>3. /\ req' \in [Workers -> Request]
            /\ \A v \in Workers : v # w => req'[v] = req[v]
        BY <3>1, <4>2 DEF WorkType
      <4>4. "recordDeposit" \in Pc /\ "recordDeposit" \notin EditKinds \cup CeremonyPc
        BY DEF Pc, EditKinds, CeremonyPc
      <4>5. QED
        BY <3>1, <4>1, <4>3, <4>4, GotoType DEF ExecType
    <3>2. CASE Finish(w) /\ UNCHANGED filed
      BY <3>2, FinishType DEF ExecType
    <3>3. QED
      BY <1>7, <3>1, <3>2 DEF Deposit
  <2>3. QED
    BY <1>7, <2>1, <2>2 DEF Deposit, RowType, DocType, ExecType, rowVars, Present
<1>8. CASE RecordDeposit(w)
  <2>1. WorkType' /\ deposit' \in Nat
    BY <1>8, FinishType DEF RecordDeposit, WorkType, Request, ExecType
  <2>2. QED
    BY <1>8, <2>1
    DEF RecordDeposit, RowType, DocType, ExecType, HistType, docVars, histVars, Present
<1>9. QED
  BY <1>1, <1>2, <1>3, <1>4, <1>5, <1>6, <1>7, <1>8

LEMMA StepType == TypeInv /\ [Next]_vars => TypeInv'
<1> SUFFICES ASSUME TypeInv, [Next]_vars
             PROVE  TypeInv'
    OBVIOUS
<1>1. ASSUME NEW w \in Workers, DropRequest(w)
      PROVE  TypeInv'
  BY <1>1, FinishType, FaultType
  DEF DropRequest, TypeInv, RowType, DocType, ExecType, HistType, rowVars, histVars, Present
<1>2. CASE Resend
  <2>1. linked' \subseteq Signers
    BY <1>2 DEF Resend, TypeInv, RowType, Present
  <2>2. QED
    BY <1>2, <2>1
    DEF Resend, TypeInv, RowType, DocType, ExecType, HistType, WorkType, rowVars, histVars,
        Present
<1>3. CASE UNCHANGED vars
  BY <1>3 DEF vars, TypeInv, RowType, DocType, ExecType, HistType, WorkType, Present
<1>4. QED
  BY <1>1, <1>2, <1>3, BeginType, ReadType, SenderType, CeremonyType
  DEF Next, Continue, Execute

LEMMA TypeInvImplies == TypeInv => TypeOK
  BY DEF TypeInv, TypeOK, RowType, DocType, ExecType, HistType, WorkType

LEMMA TypeInvariance == Spec => []TypeInv
  BY InitType, StepType, PTL DEF Spec

\* Every state of an envelope and of its handlers has its type: in particular a
\* field always belongs to a recipient row that is there.
THEOREM SigningTypeCorrect == Spec => []TypeOK
  BY TypeInvariance, TypeInvImplies, PTL

----------------------------------------------------------------------------
(* Every closing update repeats the status it starts from. *)

LEMMA StepCloses ==
  ASSUME TypeInv, [Next]_vars, env \in Closed
  PROVE  env' \in {env, "voided", "deleted"}
<1> USE DEF rowVars, Closed
<1>1. ASSUME NEW w \in Workers,
             \/ \E kind \in EditKinds \ {"moveField"}, s \in Signers : BeginEdit(w, kind, s)
             \/ \E s, t \in Signers : BeginMove(w, s, t)
             \/ BeginAttach(w) \/ BeginDetach(w) \/ BeginSend(w) \/ BeginDelete(w)
             \/ \E s \in Signers :
                  BeginView(w, s) \/ BeginSign(w, s) \/ BeginAttachFile(w, s) \/ BeginDecline(w, s)
      PROVE  UNCHANGED env
  BY <1>1 DEF BeginEdit, BeginMove, BeginAttach, BeginDetach, BeginSend, BeginDelete,
              BeginView, BeginSign, BeginAttachFile, BeginDecline
<1>2. ASSUME NEW w \in Workers,
             \/ Edit(w) \/ Snapshot(w) \/ Attach(w) \/ Detach(w) \/ DropOld(w)
             \/ SendRecipients(w) \/ SendFields(w) \/ SendNotify(w) \/ SendMail(w)
             \/ View(w) \/ AttachFile(w) \/ Answer(w) \/ MarkSigned(w) \/ Count(w)
             \/ Decline(w) \/ Execute(w) \/ Unfile(w) \/ DropRequest(w)
      PROVE  UNCHANGED env
  BY <1>2 DEF Edit, Snapshot, Attach, Detach, DropOld, SendRecipients, SendFields, SendNotify,
              SendMail, View, AttachFile, Answer, MarkSigned, Count, Decline, Execute,
              ReadExecuted, Stamp, StoreExecuted, Seal, Deposit, RecordDeposit, Unfile,
              DropRequest
<1>3. ASSUME NEW w \in Workers, SendMark(w) \/ Complete(w) \/ CloseDeclined(w)
      PROVE  UNCHANGED env
  BY <1>3 DEF SendMark, Complete, CloseDeclined
<1>4. ASSUME NEW w \in Workers, DeleteDraft(w) \/ DeleteClosed(w) \/ Void(w)
      PROVE  env' \in {"deleted", "voided"}
  BY <1>4 DEF DeleteDraft, DeleteClosed, DeleteRow, Void, Exists
<1>5. CASE Resend
  BY <1>5 DEF Resend
<1>6. CASE UNCHANGED vars
  BY <1>6 DEF vars
<1>7. QED
  BY <1>1, <1>2, <1>3, <1>4, <1>5, <1>6 DEF Next, Continue

\* An envelope that is completed, declined or voided never opens again; Send,
\* Complete and Decline find their own status or change nothing.
THEOREM SigningClosedForGood == Spec => ClosedForGood
<1>1. TypeInv /\ [Next]_vars => [(env \in Closed) => (env' \in {env, "voided", "deleted"})]_vars
  BY StepCloses
<1>2. QED
  BY <1>1, TypeInvariance, PTL DEF Spec, ClosedForGood

----------------------------------------------------------------------------
(* A snapshot is installed once: whoever is to install it shares it with    *)
(* nobody, and whoever is to delete one does not hold the installed one.    *)

Installing == {w \in Workers : pc[w] = "attach"}

SnapInv ==
  /\ DocumentKept
  /\ snaps \subseteq 1..docs /\ doc <= docs
  /\ \A w \in Workers : req[w].old <= docs
  /\ \A w \in Installing :
       /\ req[w].doc \in snaps /\ req[w].doc # doc
       /\ \A v \in Workers : req[v].old # req[w].doc
       /\ \A v \in Installing : v # w => req[v].doc # req[w].doc
  /\ \A w \in Workers : pc[w] = "dropOld" /\ doc # 0 => req[w].old # doc

LEMMA InitSnap == Init => SnapInv
  BY BoundsAssumption DEF Init, SnapInv, DocumentKept, Installing, NoRequest

\* A step that leaves the snapshots alone, takes no handler to install or delete
\* one, and keeps every handler's old snapshot, forgets it or reads it anew.
LEMMA QuietSnap ==
  ASSUME TypeInv, SnapInv, NEW w \in Workers, UNCHANGED <<doc, snaps, docs>>,
         req' \in [Workers -> Request], pc' \in [Workers -> Pc],
         \A v \in Workers : v # w => pc'[v] = pc[v] /\ req'[v] = req[v],
         pc'[w] \notin {"attach", "dropOld"},
         req'[w].old \in {0, doc, req[w].old}
  PROVE  SnapInv'
<1>1. doc \in 0..MaxDocs /\ docs \in 0..MaxDocs
  BY DEF TypeInv, DocType
<1>2. \A v \in Installing : req[v].doc # 0
  BY DEF TypeInv, WorkType, Installing, EditKinds, CeremonyPc
<1>3. QED
  BY <1>1, <1>2 DEF SnapInv, DocumentKept, Installing

LEMMA StepSnap == TypeInv /\ TypeInv' /\ SnapInv /\ [Next]_vars => SnapInv'
<1> SUFFICES ASSUME TypeInv, TypeInv', SnapInv, [Next]_vars
             PROVE  SnapInv'
    OBVIOUS
<1>t. /\ pc \in [Workers -> Pc] /\ req \in [Workers -> Request]
      /\ pc' \in [Workers -> Pc] /\ req' \in [Workers -> Request]
      /\ doc \in 0..MaxDocs /\ docs \in 0..MaxDocs
      /\ \A v \in Workers : req[v].old \in Nat /\ req[v].doc \in Nat
  <2>1. /\ pc \in [Workers -> Pc] /\ req \in [Workers -> Request]
        /\ pc' \in [Workers -> Pc] /\ req' \in [Workers -> Request]
        /\ doc \in 0..MaxDocs /\ docs \in 0..MaxDocs
    BY DEF TypeInv, WorkType, DocType
  <2>2. QED
    BY <2>1 DEF Request
<1>s. ASSUME NEW w \in Workers, NEW label, NEW r, Start(w, label, r), r.old \in {0, doc},
             label \notin {"attach", "dropOld"}, UNCHANGED <<doc, snaps, docs>>
      PROVE  SnapInv'
  BY <1>t, <1>s, QuietSnap DEF Start
<1>f. ASSUME NEW w \in Workers, Finish(w), UNCHANGED <<doc, snaps, docs>>
      PROVE  SnapInv'
  <2>1. req'[w].old = 0
    BY <1>t, <1>f DEF Finish, NoRequest
  <2>2. QED
    BY <1>t, <1>f, <2>1, QuietSnap DEF Finish
<1>g. ASSUME NEW w \in Workers, NEW label, Goto(w, label), UNCHANGED <<doc, snaps, docs>>,
             label \notin {"attach", "dropOld"},
             \A v \in Workers : v # w => req'[v] = req[v], req'[w].old = req[w].old
      PROVE  SnapInv'
  BY <1>t, <1>g, QuietSnap DEF Goto
<1>n. \A v \in Installing : req[v].doc # 0
  BY DEF TypeInv, WorkType, Installing, EditKinds, CeremonyPc
<1>d. ASSUME NEW w \in Workers, NEW d, Finish(w), snaps' = snaps \ {d}, UNCHANGED <<doc, docs>>,
             doc # 0 => d # doc, \A v \in Installing : v # w => req[v].doc # d
      PROVE  SnapInv'
  <2>1. req'[w].old = 0 /\ pc'[w] = "idle"
    BY <1>t, <1>d DEF Finish, NoRequest
  <2>2. \A v \in Workers : v # w => pc'[v] = pc[v] /\ req'[v] = req[v]
    BY <1>t, <1>d DEF Finish
  <2>3. DocumentKept' /\ (snaps \subseteq 1..docs)' /\ (doc <= docs)'
    BY <1>d DEF SnapInv, DocumentKept
  <2>4. \A v \in Workers : req'[v].old <= docs'
    BY <1>t, <1>d, <2>1, <2>2 DEF SnapInv
  <2>5. ASSUME NEW v \in Installing'
        PROVE  v # w /\ v \in Installing /\ req'[v] = req[v]
    BY <2>1, <2>2, <2>5 DEF Installing
  <2>6. ASSUME NEW v \in Installing'
        PROVE  /\ req'[v].doc \in snaps' /\ req'[v].doc # doc'
               /\ \A u \in Workers : req'[u].old # req'[v].doc
               /\ \A u \in Installing' : u # v => req'[u].doc # req'[v].doc
    BY <1>d, <1>n, <2>1, <2>2, <2>5, <2>6 DEF SnapInv
  <2>7. \A v \in Workers : pc'[v] = "dropOld" /\ doc' # 0 => req'[v].old # doc'
    BY <1>d, <2>1, <2>2 DEF SnapInv
  <2>8. QED
    BY <2>3, <2>4, <2>6, <2>7 DEF SnapInv
<1>1. ASSUME NEW w \in Workers, NEW kind \in EditKinds \ {"moveField"}, NEW s \in Signers,
             BeginEdit(w, kind, s)
      PROVE  SnapInv'
  BY <1>1, <1>s DEF BeginEdit, rowVars, NoRequest, EditKinds
<1>2. ASSUME NEW w \in Workers, NEW s \in Signers, NEW t \in Signers, BeginMove(w, s, t)
      PROVE  SnapInv'
  <2>1. [NoRequest EXCEPT !.signer = s, !.other = t].old = 0
    BY DEF NoRequest
  <2>2. PICK r : r.old = 0 /\ Start(w, "moveField", r)
    BY <1>2, <2>1 DEF BeginMove
  <2>3. UNCHANGED <<doc, snaps, docs>>
    BY <1>2 DEF BeginMove, rowVars
  <2>4. QED
    BY <2>2, <2>3, <1>s
<1>3. ASSUME NEW w \in Workers,
             BeginAttach(w) \/ BeginDetach(w) \/ BeginSend(w) \/ BeginDelete(w)
      PROVE  SnapInv'
  BY <1>3, <1>s DEF BeginAttach, BeginDetach, BeginSend, BeginDelete, rowVars, NoRequest
<1>4. ASSUME NEW w \in Workers, NEW s \in Signers,
             BeginView(w, s) \/ BeginSign(w, s) \/ BeginAttachFile(w, s) \/ BeginDecline(w, s)
      PROVE  SnapInv'
  <2>1. CASE BeginSign(w, s)
    <3>1. [NoRequest EXCEPT !.signer = s, !.doc = doc].old = 0
      BY DEF NoRequest
    <3>2. PICK r : r.old = 0 /\ Start(w, "answer", r)
      BY <2>1, <3>1 DEF BeginSign
    <3>3. UNCHANGED <<doc, snaps, docs>>
      BY <2>1 DEF BeginSign, rowVars
    <3>4. QED
      BY <3>2, <3>3, <1>s
  <2>2. QED
    BY <1>4, <2>1, <1>s DEF BeginView, BeginAttachFile, BeginDecline, rowVars, NoRequest
<1>5. ASSUME NEW w \in Workers,
             \/ Edit(w) \/ SendMail(w) \/ View(w) \/ AttachFile(w) \/ CloseDeclined(w)
             \/ RecordDeposit(w) \/ Void(w) \/ DropRequest(w)
      PROVE  SnapInv'
  BY <1>5, <1>f DEF Edit, SendMail, View, AttachFile, CloseDeclined, RecordDeposit, Void,
                    DropRequest, docVars, rowVars
<1>6. ASSUME NEW w \in Workers,
             \/ SendMark(w) \/ SendNotify(w) \/ Answer(w) \/ MarkSigned(w) \/ Complete(w)
             \/ Decline(w) \/ StoreExecuted(w) \/ Unfile(w)
      PROVE  SnapInv'
  BY <1>6, <1>g DEF SendMark, SendNotify, Answer, MarkSigned, Complete, Decline,
                    StoreExecuted, Unfile, docVars, rowVars
<1>7. ASSUME NEW w \in Workers, SendRecipients(w) \/ SendFields(w) \/ Count(w)
      PROVE  SnapInv'
  BY <1>t, <1>7, <1>f, <1>g DEF SendRecipients, SendFields, Count, rowVars, Request
<1>8. ASSUME NEW w \in Workers, ReadExecuted(w) \/ Stamp(w) \/ Seal(w) \/ Deposit(w)
      PROVE  SnapInv'
  BY <1>t, <1>8, <1>f, <1>g DEF ReadExecuted, Stamp, Seal, Deposit, rowVars, docVars, Request
<1>9. ASSUME NEW w \in Workers, Snapshot(w)
      PROVE  SnapInv'
  <2>1. /\ UNCHANGED doc /\ docs' = docs + 1 /\ snaps' = snaps \cup {docs + 1}
        /\ pc' = [pc EXCEPT ![w] = "attach"]
        /\ req'[w].doc = docs + 1 /\ \A v \in Workers : req'[v].old = req[v].old
        /\ \A v \in Workers : v # w => req'[v] = req[v]
    BY <1>t, <1>9 DEF Snapshot, Goto, rowVars, Request
  <2>2. QED
    BY <1>t, <2>1 DEF SnapInv, DocumentKept, Installing
<1>10. ASSUME NEW w \in Workers, Attach(w)
       PROVE  SnapInv'
  <2>1. CASE doc' = req[w].doc /\ Goto(w, "dropOld") /\ UNCHANGED <<snaps, docs, req>>
    BY <1>t, <1>10, <2>1 DEF Attach, SnapInv, DocumentKept, Installing, Goto
  <2>2. CASE snaps' = snaps \ {req[w].doc} /\ Finish(w) /\ UNCHANGED <<doc, docs>>
    <3>1. w \in Installing
      BY <1>10 DEF Attach, Installing
    <3>2. QED
      BY <2>2, <3>1, <1>d DEF SnapInv
  <2>3. QED
    BY <1>10, <2>1, <2>2 DEF Attach
<1>11. ASSUME NEW w \in Workers, Detach(w) \/ DeleteDraft(w) \/ DeleteClosed(w)
       PROVE  SnapInv'
  <2>1. CASE doc' = 0 /\ Goto(w, "dropOld") /\ UNCHANGED <<snaps, docs, req>>
    BY <1>t, <1>n, <2>1 DEF SnapInv, DocumentKept, Installing, Goto
  <2>2. QED
    BY <1>11, <1>f, <2>1 DEF Detach, DeleteDraft, DeleteClosed, DeleteRow
<1>12. ASSUME NEW w \in Workers, DropOld(w)
       PROVE  SnapInv'
  <2>1. CASE snaps' = snaps \ {req[w].old}
    <3>1. Finish(w) /\ UNCHANGED <<doc, docs>> /\ pc[w] = "dropOld"
      BY <1>12 DEF DropOld, rowVars
    <3>2. /\ doc # 0 => req[w].old # doc
          /\ \A v \in Installing : req[v].doc # req[w].old
      BY <3>1 DEF SnapInv
    <3>3. QED
      BY <2>1, <3>1, <3>2, <1>d
  <2>2. QED
    BY <1>12, <1>f, <2>1 DEF DropOld, rowVars
<1>13. CASE Resend \/ UNCHANGED vars
  BY <1>13 DEF Resend, vars, rowVars, SnapInv, DocumentKept, Installing
<1>14. QED
  BY <1>1, <1>2, <1>3, <1>4, <1>5, <1>6, <1>7, <1>8, <1>9, <1>10, <1>11, <1>12, <1>13
  DEF Next, Continue, Execute

\* However replacements, removals, deletions and failures of the attach path
\* cross, the document an envelope names is in the store: AttachDocument deletes
\* only the snapshot it read before its own went in, and each goes in once.
THEOREM SigningDocumentKept == Spec => []DocumentKept
<1>1. SnapInv => DocumentKept
  BY DEF SnapInv
<1>2. QED
  BY <1>1, InitSnap, StepSnap, TypeInvariance, PTL DEF Spec

----------------------------------------------------------------------------
(* The count of signatures: what has to hold besides Unanimous and          *)
(* LastSignerCloses for either to be kept.                                  *)

Answering == {"answer", "markSigned", "attachFile", "decline", "closeDeclined"}
Sent == CeremonyPc \cup {"count", "complete", "sendNotify"}

\* Nobody has signed a draft, and no ceremony call runs on one.
DraftInv ==
  /\ env = "draft" => \A s \in Signers : rec[s] \in {"absent", "pending"}
  /\ \A w \in Workers : pc[w] \in Sent => env # "draft"
  /\ env = "deleted" => \A s \in Signers : rec[s] = "absent"

\* Without a race a token serves one answer at a time, and nobody declines what
\* they have signed.
TokenInv ==
  Exists /\ ~raced =>
    /\ \A w, v \in Workers :
         w # v /\ pc[w] \in Answering /\ pc[v] \in Answering => req[w].signer # req[v].signer
    /\ \A w \in Workers : pc[w] = "decline" => rec[req[w].signer] # "signed"

\* A handler that found every signature still finds it.
CountInv ==
  ~raced /\ (env = "completed" \/ \E w \in Workers : pc[w] = "complete") =>
    \A s \in Present : rec[s] = "signed"

SignInv == DraftInv /\ TokenInv /\ CountInv /\ LastSignerCloses

LEMMA InitSign == Init => SignInv
  BY DEF Init, SignInv, DraftInv, TokenInv, CountInv, LastSignerCloses, Answering, Sent,
         CeremonyPc, Exists, Present

\* A step of handler w that leaves both statuses alone, may discover a race, and
\* neither takes up an answer or the closing of the envelope nor drops the
\* latter without a fault.
LEMMA QuietSign ==
  ASSUME TypeInv, SignInv, NEW w \in Workers, UNCHANGED <<env, rec>>, raced => raced',
         faults' = faults \/ faults' > 0,
         \A v \in Workers : v # w => pc'[v] = pc[v] /\ req'[v] = req[v],
         pc'[w] \notin Answering \cup {"count", "complete"},
         pc'[w] \in Sent => env # "draft",
         pc[w] \in {"count", "complete"} => faults' > 0
  PROVE  SignInv'
<1>1. DraftInv'
  BY DEF SignInv, DraftInv
<1>2. TokenInv'
  BY DEF SignInv, TokenInv, Exists, Answering
<1>3. CountInv'
  BY DEF SignInv, CountInv, Present
<1>4. LastSignerCloses'
  BY DEF SignInv, LastSignerCloses, Present
<1>5. QED
  BY <1>1, <1>2, <1>3, <1>4 DEF SignInv

\* The same for a step that begins or goes on with an answer.
LEMMA AnswerSign ==
  ASSUME TypeInv, SignInv, NEW w \in Workers, UNCHANGED <<env, rec, faults>>, raced => raced',
         env # "draft",
         \A v \in Workers : v # w => pc'[v] = pc[v] /\ req'[v] = req[v],
         pc'[w] \in Answering, pc[w] \notin {"count", "complete"},
         \/ pc[w] \in Answering /\ req'[w].signer = req[w].signer /\ pc'[w] # "decline"
         \/ /\ ~raced' => ~Serving(req'[w].signer)
            /\ rec[req'[w].signer] # "signed"
  PROVE  SignInv'
<1>1. DraftInv'
  BY DEF SignInv, DraftInv
<1>2. TokenInv'
  BY DEF SignInv, TokenInv, Exists, Answering, Serving, CeremonyPc
<1>3. CountInv'
  BY DEF SignInv, CountInv, Present, Answering
<1>4. LastSignerCloses'
  BY DEF SignInv, LastSignerCloses, Present
<1>5. QED
  BY <1>1, <1>2, <1>3, <1>4 DEF SignInv

\* The step that leaves a deleted envelope.
LEMMA DeleteSign ==
  ASSUME TypeInv, SignInv, DeleteRow
  PROVE  SignInv'
  BY DEF SignInv, DraftInv, TokenInv, CountInv, LastSignerCloses, DeleteRow, Exists, Present

LEMMA StepSign == TypeInv /\ TypeInv' /\ SignInv /\ [Next]_vars => SignInv'
<1> SUFFICES ASSUME TypeInv, TypeInv', SignInv, [Next]_vars
             PROVE  SignInv'
    OBVIOUS
<1>t. /\ pc \in [Workers -> Pc] /\ req \in [Workers -> Request]
      /\ rec \in [Signers -> {"absent", "pending", "notified", "viewed", "signed", "declined"}]
      /\ faults \in Nat
      /\ \A w \in Workers : pc[w] \in EditKinds \cup CeremonyPc => req[w].signer \in Signers
  BY DEF TypeInv, WorkType, RowType, HistType
<1>s. ASSUME NEW w \in Workers, NEW label, NEW r, Start(w, label, r),
             label \notin Answering \cup {"count", "complete"},
             label \in Sent => env # "draft", UNCHANGED <<env, rec, raced, faults>>
      PROVE  SignInv'
  BY <1>t, <1>s, QuietSign DEF Start
<1>f. ASSUME NEW w \in Workers, Finish(w), UNCHANGED <<env, rec>>, raced => raced',
             faults' = faults \/ faults' > 0,
             pc[w] \in {"count", "complete"} => faults' > 0
      PROVE  SignInv'
  <2>1. pc'[w] = "idle" /\ \A v \in Workers : v # w => pc'[v] = pc[v] /\ req'[v] = req[v]
    BY <1>t, <1>f DEF Finish
  <2>2. "idle" \notin Answering \cup {"count", "complete"} \cup Sent
    BY DEF Answering, Sent, CeremonyPc
  <2>3. QED
    BY <1>f, <2>1, <2>2, QuietSign
<1>g. ASSUME NEW w \in Workers, NEW label, Goto(w, label), UNCHANGED <<env, rec>>,
             raced => raced', faults' = faults \/ faults' > 0,
             \A v \in Workers : v # w => req'[v] = req[v],
             label \notin Answering \cup {"count", "complete"} \cup Sent,
             pc[w] \notin {"count", "complete"}
      PROVE  SignInv'
  BY <1>t, <1>g, QuietSign DEF Goto
<1>1. ASSUME NEW w \in Workers, NEW kind \in EditKinds \ {"moveField"}, NEW s \in Signers,
             BeginEdit(w, kind, s)
      PROVE  SignInv'
  BY <1>1, <1>s DEF BeginEdit, rowVars, histVars, EditKinds, Answering, Sent, CeremonyPc
<1>2. ASSUME NEW w \in Workers, NEW s \in Signers, NEW t \in Signers, BeginMove(w, s, t)
      PROVE  SignInv'
  <2>1. PICK r : Start(w, "moveField", r)
    BY <1>2 DEF BeginMove
  <2>2. UNCHANGED <<env, rec, raced, faults>>
    BY <1>2 DEF BeginMove, rowVars, histVars
  <2>3. "moveField" \notin Answering \cup {"count", "complete"} \cup Sent
    BY DEF Answering, Sent, CeremonyPc
  <2>4. QED
    BY <2>1, <2>2, <2>3, <1>s
<1>3. ASSUME NEW w \in Workers,
             BeginAttach(w) \/ BeginDetach(w) \/ BeginSend(w) \/ BeginDelete(w)
      PROVE  SignInv'
  <2>0. PICK label \in {"snapshot", "detach", "sendRecipients", "deleteDraft", "void", "unfile"} :
          \E r : Start(w, label, r)
    BY <1>3 DEF BeginAttach, BeginDetach, BeginSend, BeginDelete
  <2>1. PICK r : Start(w, label, r)
    BY <2>0
  <2>2. UNCHANGED <<env, rec, raced, faults>>
    BY <1>3 DEF BeginAttach, BeginDetach, BeginSend, BeginDelete, rowVars, histVars
  <2>3. label \notin Answering \cup {"count", "complete"} \cup Sent
    BY DEF Answering, Sent, CeremonyPc
  <2>4. QED
    BY <2>1, <2>2, <2>3, <1>s
<1>4. ASSUME NEW w \in Workers, NEW s \in Signers, BeginView(w, s)
      PROVE  SignInv'
  BY <1>4, <1>s DEF BeginView, rowVars, histVars, Answering
<1>5. ASSUME NEW w \in Workers, NEW s \in Signers,
             BeginSign(w, s) \/ BeginAttachFile(w, s) \/ BeginDecline(w, s)
      PROVE  SignInv'
  <2>0. PICK label \in {"answer", "attachFile", "decline"} :
          \E r : Start(w, label, r) /\ r.signer = s
    <3>1. /\ [NoRequest EXCEPT !.signer = s].signer = s
          /\ [NoRequest EXCEPT !.signer = s, !.doc = doc].signer = s
      BY DEF NoRequest
    <3>2. QED
      BY <1>5, <3>1 DEF BeginSign, BeginAttachFile, BeginDecline
  <2>1. PICK r : Start(w, label, r) /\ r.signer = s
    BY <2>0
  <2>2. /\ env = "sent" /\ rec[s] # "signed"
        /\ UNCHANGED <<env, rec, faults>> /\ Token(s)
    BY <1>5 DEF BeginSign, BeginAttachFile, BeginDecline, Signable, rowVars
  <2>3. /\ pc[w] = "idle" /\ pc'[w] = label /\ req'[w].signer = s
        /\ \A v \in Workers : v # w => pc'[v] = pc[v] /\ req'[v] = req[v]
    BY <1>t, <2>1 DEF Start
  <2>4. (raced => raced') /\ (~raced' => ~Serving(s))
    BY <2>2 DEF Token
  <2>5. QED
    BY <2>1, <2>2, <2>3, <2>4, AnswerSign DEF Answering
<1>6. ASSUME NEW w \in Workers, Edit(w)
      PROVE  SignInv'
  <2>1. CASE UNCHANGED rec
    <3>1. (raced => raced') /\ pc[w] \notin {"count", "complete"}
      BY <1>6 DEF Edit, Lands, EditKinds
    <3>2. Finish(w) /\ UNCHANGED <<env, faults>>
      BY <1>6 DEF Edit
    <3>3. QED
      BY <2>1, <3>1, <3>2, <1>f
  <2>2. CASE rec' # rec
    <3>1. Lands("draft")
      BY <1>6, <2>2 DEF Edit
    <3>2. /\ UNCHANGED <<env, faults>> /\ pc'[w] = "idle"
          /\ \A v \in Workers : v # w => pc'[v] = pc[v] /\ req'[v] = req[v]
      BY <1>t, <1>6 DEF Edit, Finish
    <3>3. /\ Exists
          /\ \A s \in Signers : rec'[s] \in {rec[s], "pending", "absent"}
      BY <1>t, <1>6, <2>2
      DEF Edit, AddRecipient, DeleteRecipient, AddField, MoveField, DeleteField, SignInv,
          DraftInv, Exists, Present
    <3>4. DraftInv'
      BY <3>2, <3>3 DEF SignInv, DraftInv, Exists, Sent, CeremonyPc
    <3>5. env = "draft" => \A v \in Workers : pc[v] \notin Sent
      BY DEF SignInv, DraftInv
    <3>6. env # "draft" => raced'
      BY <3>1 DEF Lands
    <3>7. TokenInv'
      BY <3>2, <3>5, <3>6 DEF TokenInv, Exists, Answering, Sent, CeremonyPc
    <3>8. CountInv' /\ LastSignerCloses'
      BY <3>2, <3>5, <3>6 DEF CountInv, LastSignerCloses, Sent
    <3>9. QED
      BY <3>4, <3>7, <3>8 DEF SignInv
  <2>3. QED
    BY <2>1, <2>2
<1>7. ASSUME NEW w \in Workers, Attach(w) \/ Detach(w)
      PROVE  SignInv'
  <2>1. /\ UNCHANGED <<env, rec>> /\ (raced => raced')
        /\ (faults' = faults \/ faults' > 0) /\ pc[w] \notin {"count", "complete"}
    <3>1. raced => raced'
      BY <1>7 DEF Attach, Detach, Lands
    <3>2. /\ UNCHANGED <<env, rec>> /\ (faults' = faults \/ faults' > 0)
          /\ pc[w] \in {"attach", "detach"}
      BY <1>t, <1>7 DEF Attach, Detach, Fault
    <3>3. QED
      BY <3>1, <3>2
  <2>2. Finish(w) \/ (Goto(w, "dropOld") /\ UNCHANGED req)
    BY <1>7 DEF Attach, Detach
  <2>3. "dropOld" \notin Answering \cup {"count", "complete"} \cup Sent
    BY DEF Answering, Sent, CeremonyPc
  <2>4. QED
    BY <2>1, <2>2, <2>3, <1>f, <1>g
<1>8. ASSUME NEW w \in Workers, Snapshot(w)
      PROVE  SignInv'
  <2>1. "attach" \notin Answering \cup {"count", "complete"} \cup Sent
    BY DEF Answering, Sent, CeremonyPc
  <2>2. QED
    BY <1>t, <1>8, <2>1, <1>g DEF Snapshot, rowVars, histVars
<1>9. ASSUME NEW w \in Workers,
             \/ DropOld(w) \/ SendMail(w) \/ AttachFile(w) \/ RecordDeposit(w) \/ DropRequest(w)
      PROVE  SignInv'
  <2>1. Finish(w) /\ UNCHANGED <<env, rec, raced>> /\ (faults' = faults \/ faults' > 0)
    BY <1>t, <1>9 DEF DropOld, SendMail, AttachFile, RecordDeposit, DropRequest, Fault,
                      rowVars, histVars
  <2>2. pc[w] \in {"count", "complete"} => faults' > 0
    BY <1>t, <1>9 DEF DropOld, SendMail, AttachFile, RecordDeposit, DropRequest, Fault
  <2>3. QED
    BY <2>1, <2>2, <1>f
<1>10. ASSUME NEW w \in Workers, SendRecipients(w) \/ SendFields(w) \/ ReadExecuted(w) \/ Stamp(w)
       PROVE  SignInv'
  <2>1. /\ UNCHANGED <<env, rec, raced, faults>>
        /\ pc[w] \notin {"count", "complete"}
        /\ \A v \in Workers : v # w => req'[v] = req[v]
    BY <1>t, <1>10 DEF SendRecipients, SendFields, ReadExecuted, Stamp, Finish, rowVars, histVars
  <2>2. Finish(w) \/ \E label \in {"sendFields", "sendMark", "stamp", "storeExecuted"} :
                       Goto(w, label)
    BY <1>10 DEF SendRecipients, SendFields, ReadExecuted, Stamp
  <2>3. \A label \in {"sendFields", "sendMark", "stamp", "storeExecuted"} :
          label \notin Answering \cup {"count", "complete"} \cup Sent
    BY DEF Answering, Sent, CeremonyPc
  <2>4. QED
    BY <2>1, <2>2, <2>3, <1>f, <1>g
<1>11. ASSUME NEW w \in Workers, StoreExecuted(w) \/ Seal(w) \/ Deposit(w) \/ Unfile(w)
       PROVE  SignInv'
  <2>1. /\ UNCHANGED <<env, rec, raced>> /\ (faults' = faults \/ faults' > 0)
        /\ pc[w] \notin {"count", "complete"}
        /\ \A v \in Workers : v # w => req'[v] = req[v]
    BY <1>t, <1>11 DEF StoreExecuted, Seal, Deposit, Unfile, Finish, Fault, rowVars, histVars
  <2>2. Finish(w) \/ \E label \in {"seal", "deposit", "recordDeposit", "deleteClosed"} :
                       Goto(w, label)
    BY <1>11 DEF StoreExecuted, Seal, Deposit, Unfile
  <2>3. \A label \in {"seal", "deposit", "recordDeposit", "deleteClosed"} :
          label \notin Answering \cup {"count", "complete"} \cup Sent
    BY DEF Answering, Sent, CeremonyPc
  <2>4. QED
    BY <2>1, <2>2, <2>3, <1>f, <1>g
<1>12. ASSUME NEW w \in Workers, DeleteDraft(w) \/ DeleteClosed(w)
       PROVE  SignInv'
  BY <1>12, DeleteSign DEF DeleteDraft, DeleteClosed
<1>13. ASSUME NEW w \in Workers, SendMark(w)
       PROVE  SignInv'
  <2>1. /\ UNCHANGED <<rec, raced, faults, req>> /\ pc'[w] = "sendNotify" /\ pc[w] = "sendMark"
        /\ \A v \in Workers : v # w => pc'[v] = pc[v]
        /\ env' = IF env = "draft" THEN "sent" ELSE env
    BY <1>t, <1>13 DEF SendMark, Goto, histVars
  <2>2. DraftInv'
    BY <2>1 DEF SignInv, DraftInv
  <2>3. CASE env = "draft"
    <3>1. /\ \A v \in Workers : pc[v] \notin Sent
          /\ \A s \in Signers : rec[s] \in {"absent", "pending"}
      BY <2>3 DEF SignInv, DraftInv
    <3>2. TokenInv' /\ CountInv'
      BY <2>1, <2>3, <3>1 DEF TokenInv, CountInv, Answering, Sent, CeremonyPc
    <3>3. LastSignerCloses'
      BY <2>1, <3>1 DEF LastSignerCloses, Present
    <3>4. QED
      BY <2>2, <3>2, <3>3 DEF SignInv
  <2>4. CASE env # "draft"
    <3>1. TokenInv' /\ CountInv' /\ LastSignerCloses'
      BY <2>1, <2>4
      DEF SignInv, TokenInv, CountInv, LastSignerCloses, Exists, Present, Answering
    <3>2. QED
      BY <2>2, <3>1 DEF SignInv
  <2>5. QED
    BY <2>3, <2>4
\* Two updates that sign nobody and unsign nobody.
<1>14. ASSUME NEW w \in Workers, SendNotify(w) \/ View(w)
       PROVE  SignInv'
  <2>1. /\ UNCHANGED <<env, raced, faults>> /\ pc'[w] \in {"sendMail", "idle"}
        /\ pc[w] \in Sent \ (Answering \cup {"count", "complete"})
        /\ \A v \in Workers : v # w => pc'[v] = pc[v] /\ req'[v] = req[v]
    BY <1>t, <1>14 DEF SendNotify, View, Goto, Finish, histVars, Sent, CeremonyPc, Answering
  <2>2. \A s \in Signers : /\ rec'[s] = "signed" <=> rec[s] = "signed"
                           /\ rec'[s] = "absent" <=> rec[s] = "absent"
    BY <1>t, <1>14 DEF SendNotify, View
  <2>3. DraftInv'
    BY <2>1, <2>2 DEF SignInv, DraftInv, Sent, CeremonyPc
  <2>4. TokenInv'
    BY <1>t, <2>1, <2>2 DEF SignInv, TokenInv, Exists, Answering, CeremonyPc
  <2>5. CountInv' /\ LastSignerCloses'
    BY <2>1, <2>2 DEF SignInv, CountInv, LastSignerCloses, Present
  <2>6. QED
    BY <2>3, <2>4, <2>5 DEF SignInv
<1>15. ASSUME NEW w \in Workers, Answer(w)
       PROVE  SignInv'
  <2>1. /\ UNCHANGED <<env, rec, faults, raced, req>> /\ pc'[w] = "markSigned" /\ pc[w] = "answer"
        /\ \A v \in Workers : v # w => pc'[v] = pc[v]
    BY <1>t, <1>15 DEF Answer, Goto, histVars
  <2>2. env # "draft"
    BY <2>1 DEF SignInv, DraftInv, Sent, CeremonyPc
  <2>3. QED
    BY <2>1, <2>2, AnswerSign DEF Answering
<1>16. ASSUME NEW w \in Workers, MarkSigned(w)
       PROVE  SignInv'
  <2>1. /\ UNCHANGED <<env, faults, raced, req>> /\ pc'[w] = "count" /\ pc[w] = "markSigned"
        /\ \A v \in Workers : v # w => pc'[v] = pc[v]
        /\ Mark(req[w].signer, "signed")
    BY <1>t, <1>16 DEF MarkSigned, Goto
  <2>2. env # "draft" /\ req[w].signer \in Signers
    BY <1>t, <2>1 DEF SignInv, DraftInv, Sent, CeremonyPc
  <2>3. \A s \in Signers :
          /\ rec'[s] = rec[s] \/ (s = req[w].signer /\ rec'[s] = "signed")
          /\ rec'[s] = "absent" <=> rec[s] = "absent"
    BY <1>t, <2>1, <2>2 DEF Mark, Present
  <2>4. DraftInv'
    BY <2>1, <2>2, <2>3 DEF SignInv, DraftInv
  <2>5. TokenInv'
    <3>1. SUFFICES ASSUME Exists, ~raced
                   PROVE  TokenInv'
      BY <2>1 DEF TokenInv, Exists
    <3>2. \A v \in Workers : pc[v] = "decline" => req[v].signer # req[w].signer
      BY <2>1, <3>1 DEF SignInv, TokenInv, Answering
    <3>3. QED
      BY <1>t, <2>1, <2>3, <3>1, <3>2 DEF SignInv, TokenInv, Exists, Answering, CeremonyPc
  <2>6. CountInv'
    BY <2>1, <2>3 DEF SignInv, CountInv, Present
  <2>7. LastSignerCloses'
    BY <2>1 DEF LastSignerCloses
  <2>8. QED
    BY <2>4, <2>5, <2>6, <2>7 DEF SignInv
<1>17. ASSUME NEW w \in Workers, Count(w)
       PROVE  SignInv'
  <2>1. /\ UNCHANGED <<env, rec, faults, raced>> /\ pc[w] = "count"
        /\ \A v \in Workers : v # w => pc'[v] = pc[v] /\ req'[v] = req[v]
        /\ \/ pc'[w] = "complete" /\ \A s \in Present : rec[s] = "signed"
           \/ pc'[w] = "idle" /\ \E s \in Present : rec[s] # "signed"
    BY <1>t, <1>17 DEF Count, Goto, Finish, rowVars, histVars
  <2>2. DraftInv'
    BY <2>1 DEF SignInv, DraftInv, Sent, CeremonyPc
  <2>3. TokenInv'
    BY <2>1 DEF SignInv, TokenInv, Exists, Answering
  <2>4. CountInv' /\ LastSignerCloses'
    BY <2>1 DEF SignInv, CountInv, LastSignerCloses, Present
  <2>5. QED
    BY <2>2, <2>3, <2>4 DEF SignInv
<1>18. ASSUME NEW w \in Workers, Complete(w)
       PROVE  SignInv'
  <2>1. /\ UNCHANGED <<rec, faults, raced, req>> /\ pc[w] = "complete" /\ pc'[w] = "execute"
        /\ \A v \in Workers : v # w => pc'[v] = pc[v]
        /\ env' = IF env = "sent" THEN "completed" ELSE env
    BY <1>t, <1>18 DEF Complete, Goto, histVars
  <2>2. DraftInv'
    BY <2>1 DEF SignInv, DraftInv, Sent, CeremonyPc
  <2>3. TokenInv'
    BY <2>1 DEF SignInv, TokenInv, Exists, Answering
  <2>4. CountInv' /\ LastSignerCloses'
    BY <2>1 DEF SignInv, CountInv, LastSignerCloses, Present
  <2>5. QED
    BY <2>2, <2>3, <2>4 DEF SignInv
<1>19. ASSUME NEW w \in Workers, Decline(w)
       PROVE  SignInv'
  <2>1. /\ UNCHANGED <<env, faults, raced, req>>
        /\ pc'[w] = "closeDeclined" /\ pc[w] = "decline"
        /\ \A v \in Workers : v # w => pc'[v] = pc[v]
        /\ Mark(req[w].signer, "declined")
    BY <1>t, <1>19 DEF Decline, Goto, histVars
  <2>2. env # "draft" /\ req[w].signer \in Signers
    BY <1>t, <2>1 DEF SignInv, DraftInv, Sent, CeremonyPc
  <2>3. \A s \in Signers :
          /\ rec'[s] = rec[s] \/ (s = req[w].signer /\ rec'[s] = "declined")
          /\ rec'[s] = "absent" <=> rec[s] = "absent"
    BY <1>t, <2>1, <2>2 DEF Mark, Present
  <2>4. DraftInv'
    BY <2>1, <2>2, <2>3 DEF SignInv, DraftInv, Sent, CeremonyPc
  <2>5. TokenInv'
    BY <1>t, <2>1, <2>3 DEF SignInv, TokenInv, Exists, Answering, CeremonyPc
  <2>6. ~raced => \A s \in Signers : rec[s] = "signed" => rec'[s] = "signed"
    <3>1. CASE Exists
      BY <2>1, <2>3, <3>1 DEF SignInv, TokenInv
    <3>2. CASE ~Exists
      BY <3>2 DEF SignInv, DraftInv, Exists
    <3>3. QED
      BY <3>1, <3>2
  <2>7. CountInv'
    BY <2>1, <2>3, <2>6 DEF SignInv, CountInv, Present
  <2>8. LastSignerCloses'
    <3>1. \A s \in Signers : rec'[s] = "signed" => rec[s] = "signed"
      BY <2>3
    <3>2. QED
      BY <2>1, <2>3, <3>1 DEF SignInv, LastSignerCloses, Present
  <2>9. QED
    BY <2>4, <2>5, <2>7, <2>8 DEF SignInv
<1>20. ASSUME NEW w \in Workers, CloseDeclined(w) \/ Void(w)
       PROVE  SignInv'
  <2>1. /\ UNCHANGED <<rec, faults>> /\ (raced => raced')
        /\ pc[w] \in {"closeDeclined", "void"} /\ pc'[w] = "idle"
        /\ \A v \in Workers : v # w => pc'[v] = pc[v] /\ req'[v] = req[v]
        /\ env' = env \/ (env' \in {"declined", "voided"} /\ Exists)
    <3>1. CASE CloseDeclined(w)
      BY <1>t, <3>1 DEF CloseDeclined, Finish, histVars, Exists
    <3>2. CASE Void(w)
      BY <1>t, <3>2 DEF Void, Finish, Lands, Exists
    <3>3. QED
      BY <1>20, <3>1, <3>2
  <2>2. DraftInv'
    BY <2>1 DEF SignInv, DraftInv, Sent, CeremonyPc, Exists
  <2>3. TokenInv'
    BY <2>1 DEF SignInv, TokenInv, Exists, Answering
  <2>4. CountInv' /\ LastSignerCloses'
    BY <2>1 DEF SignInv, CountInv, LastSignerCloses, Present
  <2>5. QED
    BY <2>2, <2>3, <2>4 DEF SignInv
<1>21. CASE Resend \/ UNCHANGED vars
  <2>1. UNCHANGED <<env, rec, raced, faults, pc, req>>
    BY <1>21 DEF Resend, vars, rowVars, histVars
  <2>2. QED
    BY <2>1 DEF SignInv, DraftInv, TokenInv, CountInv, LastSignerCloses, Exists, Present
<1>22. QED
  BY <1>1, <1>2, <1>3, <1>4, <1>5, <1>6, <1>7, <1>8, <1>9, <1>10, <1>11, <1>12, <1>13, <1>14,
     <1>15, <1>16, <1>17, <1>18, <1>19, <1>20, <1>21
  DEF Next, Continue, Execute

LEMMA SignInvariance == Spec => []SignInv
  BY InitSign, StepSign, TypeInvariance, PTL DEF Spec

\* A completed envelope carries the signature of every recipient it has, for any
\* number of signers and handlers, unless an edit landed after Send or one token
\* served two requests at once.
THEOREM SigningUnanimous == Spec => []Unanimous
<1>1. SignInv => Unanimous
  BY DEF SignInv, CountInv, Unanimous
<1>2. QED
  BY <1>1, SignInvariance, PTL

\* Of any number of signers who finish at the same time one sees that all have
\* signed, and is on the way to closing the envelope.
THEOREM SigningLastSignerCloses == Spec => []LastSignerCloses
<1>1. SignInv => LastSignerCloses
  BY DEF SignInv
<1>2. QED
  BY <1>1, SignInvariance, PTL

----------------------------------------------------------------------------
(* What the executed document shows: the snapshot everybody saw, and the    *)
(* answers everybody gave.                                                  *)

ExecPc == {"execute", "stamp", "storeExecuted"}
AllSigned == \A s \in Present : rec[s] = "signed"

\* Nothing is seen or executed of a draft, and a deleted envelope shows nothing.
FreshInv ==
  /\ env = "draft" => seen = {} /\ executed = NONE /\ \A w \in Workers : pc[w] \notin ExecPc
  /\ ~Exists => executed = NONE

\* What a handler of the ceremony or of Execute has read still stands.
Reading(w) ==
  /\ pc[w] \in {"answer", "markSigned"} => req[w].doc = doc
  /\ pc[w] \in {"answer", "attachFile", "markSigned"} => rec[req[w].signer] # "signed"
  /\ pc[w] \in {"count", "complete"} \cup ExecPc => doc \in seen
  /\ pc[w] \in ExecPc => AllSigned
  /\ pc[w] \in {"stamp", "storeExecuted"} => req[w].doc = doc
  /\ pc[w] = "storeExecuted" => req[w].ink = answers

ShownInv ==
  executed # NONE => AllSigned /\ executed.doc = doc /\ seen = {doc} /\ executed.ink = answers

SealInv ==
  /\ FreshInv
  /\ Exists /\ ~raced => seen \subseteq {doc} /\ (\A w \in Workers : Reading(w)) /\ ShownInv

Reads == {"answer", "attachFile", "markSigned", "count", "complete"} \cup ExecPc

LEMMA InitSeal == Init => SealInv
  BY DEF Init, SealInv, FreshInv, ShownInv, Reading, ExecPc, Exists

\* A step of handler w that changes nothing an executed document depends on.
LEMMA QuietSeal ==
  ASSUME SealInv, NEW w \in Workers, UNCHANGED <<env, doc, rec, answers, executed, seen>>,
         raced => raced',
         \A v \in Workers : v # w => pc'[v] = pc[v] /\ req'[v] = req[v],
         pc'[w] \in ExecPc => env # "draft",
         Exists /\ ~raced' => pc'[w] \notin Reads \/ Reading(w)'
  PROVE  SealInv'
<1>1. FreshInv'
  BY DEF SealInv, FreshInv, Exists
<1>2. SUFFICES ASSUME Exists, ~raced'
               PROVE  (seen \subseteq {doc})' /\ (\A v \in Workers : Reading(v)') /\ ShownInv'
  BY <1>1 DEF SealInv, Exists
<1>3. (seen \subseteq {doc})' /\ ShownInv'
  BY <1>2 DEF SealInv, ShownInv, AllSigned, Present
<1>4. ASSUME NEW v \in Workers, v # w
      PROVE  Reading(v)'
  BY <1>2, <1>4 DEF SealInv, Reading, AllSigned, Present
<1>5. pc'[w] \notin Reads => Reading(w)'
  BY DEF Reads, Reading, ExecPc
<1>6. QED
  BY <1>2, <1>3, <1>4, <1>5

\* A step after which the envelope is raced: only FreshInv has to be kept.
LEMMA RacedSeal ==
  ASSUME SealInv, raced', UNCHANGED <<executed, seen>>,
         env' = "draft" => env = "draft" /\ \A w \in Workers : pc'[w] \in ExecPc => pc[w] \in ExecPc,
         Exists' <=> Exists
  PROVE  SealInv'
  BY DEF SealInv, FreshInv

\* The edits of a draft: nobody has seen it, and no handler reads it to be signed.
LEMMA DraftSeal ==
  ASSUME SealInv, SignInv, env = "draft", env' = "draft" \/ env' = "sent",
         UNCHANGED <<executed, seen>>,
         NEW w \in Workers, pc'[w] \notin Reads,
         \A v \in Workers : v # w => pc'[v] = pc[v]
  PROVE  SealInv'
<1>1. seen = {} /\ executed = NONE /\ \A v \in Workers : pc'[v] \notin Reads
  BY DEF SealInv, FreshInv, SignInv, DraftInv, Sent, CeremonyPc, Reads
<1>2. \A v \in Workers : Reading(v)'
  BY <1>1 DEF Reading, Reads, ExecPc
<1>3. QED
  BY <1>1, <1>2 DEF SealInv, FreshInv, ShownInv, Reads

LEMMA StepSeal == TypeInv /\ TypeInv' /\ SignInv /\ SealInv /\ [Next]_vars => SealInv'
<1> SUFFICES ASSUME TypeInv, TypeInv', SignInv, SealInv, [Next]_vars
             PROVE  SealInv'
    OBVIOUS
<1>t. /\ pc \in [Workers -> Pc] /\ req \in [Workers -> Request]
      /\ rec \in [Signers -> {"absent", "pending", "notified", "viewed", "signed", "declined"}]
      /\ answers \in Ink /\ raced \in BOOLEAN
      /\ \A w \in Workers : pc[w] \in EditKinds \cup CeremonyPc => req[w].signer \in Signers
  BY DEF TypeInv, WorkType, RowType, HistType
<1>d. env = "draft" => \A v \in Workers : pc[v] \notin Reads
  BY DEF SealInv, FreshInv, SignInv, DraftInv, Sent, CeremonyPc, Reads
<1>r. ASSUME Exists, ~raced
      PROVE  seen \subseteq {doc} /\ (\A v \in Workers : Reading(v)) /\ ShownInv
  BY <1>r DEF SealInv
<1>s. ASSUME NEW w \in Workers, NEW label, NEW r, Start(w, label, r), label \notin Reads,
             UNCHANGED rowVars, UNCHANGED seen, raced => raced'
      PROVE  SealInv'
  BY <1>t, <1>s, QuietSeal DEF Start, rowVars, Reads
<1>f. ASSUME NEW w \in Workers, Finish(w), UNCHANGED <<env, doc, rec, answers, executed, seen>>,
             raced => raced'
      PROVE  SealInv'
  <2>1. pc'[w] = "idle" /\ \A v \in Workers : v # w => pc'[v] = pc[v] /\ req'[v] = req[v]
    BY <1>t, <1>f DEF Finish
  <2>2. "idle" \notin Reads
    BY DEF Reads, ExecPc
  <2>3. QED
    BY <1>f, <2>1, <2>2, QuietSeal DEF Reads
<1>g. ASSUME NEW w \in Workers, NEW label, Goto(w, label), label \notin Reads,
             UNCHANGED <<env, doc, rec, answers, executed, seen>>, raced => raced',
             \A v \in Workers : v # w => req'[v] = req[v]
      PROVE  SealInv'
  BY <1>t, <1>g, QuietSeal DEF Goto, Reads
<1>1. ASSUME NEW w \in Workers, NEW kind \in EditKinds \ {"moveField"}, NEW s \in Signers,
             BeginEdit(w, kind, s)
      PROVE  SealInv'
  BY <1>1, <1>s DEF BeginEdit, histVars, EditKinds, Reads, ExecPc
<1>2. ASSUME NEW w \in Workers, NEW s \in Signers, NEW t \in Signers, BeginMove(w, s, t)
      PROVE  SealInv'
  <2>1. PICK r : Start(w, "moveField", r)
    BY <1>2 DEF BeginMove
  <2>2. UNCHANGED rowVars /\ UNCHANGED seen /\ UNCHANGED raced
    BY <1>2 DEF BeginMove, histVars
  <2>3. "moveField" \notin Reads
    BY DEF Reads, ExecPc
  <2>4. QED
    BY <2>1, <2>2, <2>3, <1>s
<1>3. ASSUME NEW w \in Workers,
             \/ BeginAttach(w) \/ BeginDetach(w) \/ BeginSend(w) \/ BeginDelete(w)
             \/ \E s \in Signers : BeginView(w, s) \/ BeginDecline(w, s)
      PROVE  SealInv'
  <2>0. PICK label \in {"snapshot", "detach", "sendRecipients", "deleteDraft", "void", "unfile",
                        "view", "decline"} :
          \E r : Start(w, label, r)
    BY <1>3 DEF BeginAttach, BeginDetach, BeginSend, BeginDelete, BeginView, BeginDecline
  <2>1. PICK r : Start(w, label, r)
    BY <2>0
  <2>2. UNCHANGED rowVars /\ UNCHANGED seen /\ (raced => raced')
    <3>1. CASE BeginAttach(w) \/ BeginDetach(w) \/ BeginSend(w) \/ BeginDelete(w)
      BY <3>1 DEF BeginAttach, BeginDetach, BeginSend, BeginDelete, histVars
    <3>2. ASSUME NEW s \in Signers, BeginView(w, s)
          PROVE  UNCHANGED rowVars /\ UNCHANGED seen /\ (raced => raced')
      BY <3>2 DEF BeginView, histVars
    <3>3. ASSUME NEW s \in Signers, BeginDecline(w, s)
          PROVE  UNCHANGED rowVars /\ UNCHANGED seen /\ (raced => raced')
      BY <3>3 DEF BeginDecline, Token
    <3>4. QED
      BY <1>3, <3>1, <3>2, <3>3
  <2>3. label \notin Reads
    BY DEF Reads, ExecPc
  <2>4. QED
    BY <2>1, <2>2, <2>3, <1>s
<1>5. ASSUME NEW w \in Workers, NEW s \in Signers, BeginSign(w, s) \/ BeginAttachFile(w, s)
      PROVE  SealInv'
  <2>1. /\ pc'[w] \in {"answer", "attachFile"} /\ req'[w].signer = s
        /\ pc'[w] = "answer" => req'[w].doc = doc
        /\ \A v \in Workers : v # w => pc'[v] = pc[v] /\ req'[v] = req[v]
    <3>1. /\ [NoRequest EXCEPT !.signer = s].signer = s
          /\ [NoRequest EXCEPT !.signer = s, !.doc = doc].signer = s
          /\ [NoRequest EXCEPT !.signer = s, !.doc = doc].doc = doc
      BY DEF NoRequest
    <3>2. CASE BeginSign(w, s)
      BY <1>t, <3>1, <3>2 DEF BeginSign, Start
    <3>3. CASE BeginAttachFile(w, s)
      BY <1>t, <3>1, <3>3 DEF BeginAttachFile, Start
    <3>4. QED
      BY <1>5, <3>2, <3>3
  <2>2. UNCHANGED rowVars /\ UNCHANGED seen /\ (raced => raced') /\ rec[s] # "signed"
    BY <1>5 DEF BeginSign, BeginAttachFile, Token, Signable
  <2>3. Reading(w)'
    BY <2>1, <2>2 DEF Reading, ExecPc, rowVars
  <2>4. QED
    BY <2>1, <2>2, <2>3, QuietSeal DEF rowVars, ExecPc
<1>6. ASSUME NEW w \in Workers, Edit(w)
      PROVE  SealInv'
  <2>0. /\ Finish(w) /\ UNCHANGED <<env, doc, executed, seen>> /\ pc'[w] = "idle"
        /\ \A v \in Workers : v # w => pc'[v] = pc[v]
    BY <1>t, <1>6 DEF Edit, Finish, docVars, execVars
  <2>1. CASE UNCHANGED rec
    <3>1. raced => raced'
      BY <1>6 DEF Edit, Lands
    <3>2. UNCHANGED answers
      <4>1. pc[w] \in EditKinds /\ req[w].signer \in Signers
        BY <1>t, <1>6 DEF Edit
      <4>2. ~AddRecipient(w) /\ ~DeleteRecipient(w)
        BY <1>t, <2>1, <4>1 DEF AddRecipient, DeleteRecipient, Present
      <4>3. QED
        BY <1>6, <4>2 DEF Edit, AddField, MoveField, DeleteField
    <3>3. QED
      BY <2>0, <2>1, <3>1, <3>2, <1>f
  <2>2. CASE rec' # rec
    <3>1. Lands("draft")
      BY <1>6, <2>2 DEF Edit
    <3>2. "idle" \notin Reads
      BY DEF Reads, ExecPc
    <3>3. CASE env = "draft"
      BY <2>0, <3>2, <3>3, DraftSeal
    <3>4. CASE env # "draft"
      BY <2>0, <3>1, <3>4, RacedSeal DEF Lands, Exists
    <3>5. QED
      BY <3>3, <3>4
  <2>3. QED
    BY <2>1, <2>2
<1>7. ASSUME NEW w \in Workers, Attach(w) \/ Detach(w)
      PROVE  SealInv'
  <2>1. /\ UNCHANGED <<env, rec, answers, executed, seen>> /\ (raced => raced')
    <3>1. UNCHANGED <<env, rec, answers, executed, seen>>
      BY <1>7 DEF Attach, Detach, execVars
    <3>2. raced => raced'
      BY <1>7 DEF Attach, Detach, Lands
    <3>3. QED
      BY <3>1, <3>2
  <2>2. \/ UNCHANGED doc /\ Finish(w)
        \/ Lands("draft") /\ Goto(w, "dropOld") /\ UNCHANGED req
    BY <1>7 DEF Attach, Detach
  <2>3. CASE UNCHANGED doc /\ Finish(w)
    BY <2>1, <2>3, <1>f
  <2>4. CASE Lands("draft") /\ Goto(w, "dropOld") /\ UNCHANGED req
    <3>1. pc'[w] = "dropOld" /\ "dropOld" \notin Reads /\ \A v \in Workers : v # w => pc'[v] = pc[v]
      BY <1>t, <2>4 DEF Goto, Reads, ExecPc
    <3>2. CASE env = "draft"
      BY <2>1, <3>1, <3>2, DraftSeal
    <3>3. CASE env # "draft"
      BY <2>1, <2>4, <3>3, RacedSeal DEF Lands, Exists
    <3>4. QED
      BY <3>2, <3>3
  <2>5. QED
    BY <2>2, <2>3, <2>4
<1>8. ASSUME NEW w \in Workers, \/ Snapshot(w) \/ SendRecipients(w) \/ SendFields(w) \/ Seal(w)
                                \/ Deposit(w) \/ Unfile(w) \/ DropOld(w) \/ SendMail(w)
                                \/ RecordDeposit(w) \/ DropRequest(w)
      PROVE  SealInv'
  <2>1. /\ UNCHANGED <<env, doc, rec, answers, executed, seen, raced>>
        /\ Finish(w) \/ \A v \in Workers : v # w => req'[v] = req[v]
    BY <1>t, <1>8 DEF Snapshot, SendRecipients, SendFields, Seal, Deposit, Unfile, DropOld, SendMail,
                      RecordDeposit, DropRequest, rowVars, histVars, docVars
  <2>2. PICK label \in {"attach", "sendFields", "sendMark", "deposit", "recordDeposit", "deleteClosed"} :
          Finish(w) \/ Goto(w, label)
    BY <1>8 DEF Snapshot, SendRecipients, SendFields, Seal, Deposit, Unfile, DropOld, SendMail,
                RecordDeposit, DropRequest
  <2>3. label \notin Reads
    BY DEF Reads, ExecPc
  <2>4. QED
    BY <2>1, <2>2, <2>3, <1>f, <1>g
<1>9. ASSUME NEW w \in Workers, SendMark(w)
      PROVE  SealInv'
  <2>1. /\ UNCHANGED <<doc, rec, answers, executed, seen, raced, req>> /\ Goto(w, "sendNotify")
        /\ pc'[w] = "sendNotify" /\ "sendNotify" \notin Reads
        /\ \A v \in Workers : v # w => pc'[v] = pc[v]
        /\ env' = IF env = "draft" THEN "sent" ELSE env
    BY <1>t, <1>9 DEF SendMark, Goto, histVars, docVars, execVars, Reads, ExecPc
  <2>2. CASE env = "draft"
    BY <2>1, <2>2, DraftSeal
  <2>3. CASE env # "draft"
    BY <2>1, <2>3, <1>g
  <2>4. QED
    BY <2>2, <2>3
\* Two updates that sign nobody and unsign nobody.
<1>10. ASSUME NEW w \in Workers, SendNotify(w) \/ View(w)
       PROVE  SealInv'
  <2>1. /\ UNCHANGED <<env, doc, answers, executed, seen, raced>> /\ pc'[w] \in {"sendMail", "idle"}
        /\ \A v \in Workers : v # w => pc'[v] = pc[v] /\ req'[v] = req[v]
    BY <1>t, <1>10 DEF SendNotify, View, Goto, Finish, histVars, docVars, execVars
  <2>2. \A s \in Signers : /\ rec'[s] = "signed" <=> rec[s] = "signed"
                           /\ rec'[s] = "absent" <=> rec[s] = "absent"
    BY <1>t, <1>10 DEF SendNotify, View
  <2>3. AllSigned' <=> AllSigned
    BY <2>2 DEF AllSigned, Present
  <2>4. FreshInv'
    BY <2>1 DEF SealInv, FreshInv, Exists, ExecPc
  <2>5. SUFFICES ASSUME Exists, ~raced
                 PROVE  (seen \subseteq {doc})' /\ (\A v \in Workers : Reading(v)') /\ ShownInv'
    BY <2>1, <2>4 DEF SealInv, Exists
  <2>6. (seen \subseteq {doc})' /\ ShownInv'
    BY <1>r, <2>1, <2>3, <2>5 DEF ShownInv
  <2>7. Reading(w)'
    BY <2>1 DEF Reading, ExecPc
  <2>8. ASSUME NEW v \in Workers, v # w
        PROVE  Reading(v)'
    <3>1. Reading(v) /\ pc'[v] = pc[v] /\ req'[v] = req[v]
      BY <1>r, <2>1, <2>5, <2>8
    <3>2. pc[v] \in {"answer", "attachFile", "markSigned"} => rec'[req[v].signer] # "signed"
      BY <1>t, <2>2, <3>1 DEF Reading, CeremonyPc
    <3>3. QED
      BY <2>1, <2>3, <3>1, <3>2 DEF Reading
  <2>9. QED
    BY <2>6, <2>7, <2>8
<1>11. ASSUME NEW w \in Workers, AttachFile(w) \/ Answer(w)
       PROVE  SealInv'
  <2>1. /\ UNCHANGED <<env, doc, rec, executed, seen, raced>> /\ Write(w)
        /\ pc[w] \in {"attachFile", "answer"} /\ req[w].signer \in Signers
        /\ \A v \in Workers : v # w => pc'[v] = pc[v] /\ req'[v] = req[v]
    BY <1>t, <1>11 DEF AttachFile, Answer, Goto, Finish, histVars, docVars, execVars, CeremonyPc
  <2>2. \/ pc'[w] = "idle"
        \/ pc[w] = "answer" /\ pc'[w] = "markSigned" /\ req'[w] = req[w]
    BY <1>t, <1>11 DEF AttachFile, Answer, Goto, Finish
  <2>3. FreshInv'
    BY <2>1, <2>2 DEF SealInv, FreshInv, Exists, ExecPc
  <2>4. SUFFICES ASSUME Exists, ~raced
                 PROVE  (seen \subseteq {doc})' /\ (\A v \in Workers : Reading(v)') /\ ShownInv'
    BY <2>1, <2>3 DEF SealInv, Exists
  <2>5. AllSigned => UNCHANGED answers
    BY <1>r, <2>1, <2>4 DEF Reading, AllSigned, Write
  <2>6. AllSigned' <=> AllSigned
    BY <2>1 DEF AllSigned, Present
  <2>7. (seen \subseteq {doc})' /\ ShownInv'
    BY <1>r, <2>1, <2>4, <2>5, <2>6 DEF ShownInv
  <2>8. Reading(w)'
    BY <1>r, <2>1, <2>2, <2>4 DEF Reading, ExecPc
  <2>9. ASSUME NEW v \in Workers, v # w
        PROVE  Reading(v)'
    <3>1. Reading(v) /\ pc'[v] = pc[v] /\ req'[v] = req[v]
      BY <1>r, <2>1, <2>4, <2>9
    <3>2. pc[v] = "storeExecuted" => UNCHANGED answers
      BY <2>5, <3>1 DEF Reading, ExecPc
    <3>3. QED
      BY <2>1, <2>6, <3>1, <3>2 DEF Reading
  <2>10. QED
    BY <2>7, <2>8, <2>9
<1>12. ASSUME NEW w \in Workers, MarkSigned(w)
       PROVE  SealInv'
  <2>1. /\ UNCHANGED <<env, doc, answers, executed, raced, req>>
        /\ pc'[w] = "count" /\ pc[w] = "markSigned" /\ seen' = seen \cup {req[w].doc}
        /\ \A v \in Workers : v # w => pc'[v] = pc[v]
        /\ Mark(req[w].signer, "signed")
    BY <1>t, <1>12 DEF MarkSigned, Goto, docVars, execVars
  <2>2. env # "draft" /\ req[w].signer \in Signers
    BY <1>t, <2>1 DEF SignInv, DraftInv, Sent, CeremonyPc
  <2>3. \A s \in Signers :
          /\ rec'[s] = rec[s] \/ (s = req[w].signer /\ rec'[s] = "signed")
          /\ rec'[s] = "absent" <=> rec[s] = "absent"
    BY <1>t, <2>1, <2>2 DEF Mark, Present
  <2>4. FreshInv'
    BY <2>1, <2>2 DEF SealInv, FreshInv, Exists, ExecPc
  <2>5. SUFFICES ASSUME Exists, ~raced
                 PROVE  (seen \subseteq {doc})' /\ (\A v \in Workers : Reading(v)') /\ ShownInv'
    BY <2>1, <2>4 DEF SealInv, Exists
  <2>6. req[w].doc = doc
    BY <1>r, <2>1, <2>5 DEF Reading
  <2>7. AllSigned => AllSigned'
    BY <2>3 DEF AllSigned, Present
  <2>8. (seen \subseteq {doc})' /\ ShownInv'
    BY <1>r, <2>1, <2>5, <2>6, <2>7 DEF ShownInv
  <2>9. Reading(w)'
    BY <2>1, <2>6 DEF Reading, ExecPc
  <2>10. ASSUME NEW v \in Workers, v # w
         PROVE  Reading(v)'
    <3>1. Reading(v) /\ pc'[v] = pc[v] /\ req'[v] = req[v]
      BY <1>r, <2>1, <2>5, <2>10
    <3>2. pc[v] \in {"answer", "attachFile", "markSigned"} => rec'[req[v].signer] # "signed"
      <4>1. pc[v] \in {"answer", "attachFile", "markSigned"} => req[v].signer # req[w].signer
        BY <2>1, <2>5, <2>10 DEF SignInv, TokenInv, Answering
      <4>2. QED
        BY <1>t, <2>3, <3>1, <4>1 DEF Reading, CeremonyPc
    <3>3. QED
      BY <2>1, <2>7, <3>1, <3>2 DEF Reading
  <2>11. QED
    BY <2>8, <2>9, <2>10
<1>13. ASSUME NEW w \in Workers, Count(w)
       PROVE  SealInv'
  <2>1. /\ UNCHANGED <<env, doc, rec, answers, executed, seen, raced>> /\ pc[w] = "count"
        /\ \A v \in Workers : v # w => pc'[v] = pc[v] /\ req'[v] = req[v]
        /\ pc'[w] \in {"complete", "idle"}
    BY <1>t, <1>13 DEF Count, Goto, Finish, rowVars, histVars
  <2>2. Exists /\ ~raced => Reading(w)'
    BY <1>r, <2>1 DEF Reading, ExecPc
  <2>3. QED
    BY <2>1, <2>2, QuietSeal DEF ExecPc
<1>14. ASSUME NEW w \in Workers, Complete(w)
       PROVE  SealInv'
  <2>1. /\ UNCHANGED <<doc, rec, answers, executed, seen, raced, req>>
        /\ pc[w] = "complete" /\ pc'[w] = "execute"
        /\ \A v \in Workers : v # w => pc'[v] = pc[v]
        /\ env' = IF env = "sent" THEN "completed" ELSE env
    BY <1>t, <1>14 DEF Complete, Goto, histVars, docVars, execVars
  <2>2. env # "draft"
    BY <2>1 DEF SignInv, DraftInv, Sent
  <2>3. FreshInv'
    BY <2>1, <2>2 DEF SealInv, FreshInv, Exists
  <2>4. SUFFICES ASSUME Exists, ~raced
                 PROVE  (seen \subseteq {doc})' /\ (\A v \in Workers : Reading(v)') /\ ShownInv'
    BY <2>1, <2>3 DEF SealInv, Exists
  <2>5. (AllSigned' <=> AllSigned) /\ AllSigned
    BY <2>1, <2>4 DEF AllSigned, Present, SignInv, CountInv
  <2>6. (seen \subseteq {doc})' /\ ShownInv'
    BY <1>r, <2>1, <2>4, <2>5 DEF ShownInv
  <2>7. Reading(w)'
    BY <1>r, <2>1, <2>4, <2>5 DEF Reading, ExecPc
  <2>8. ASSUME NEW v \in Workers, v # w
        PROVE  Reading(v)'
    BY <1>r, <2>1, <2>4, <2>5, <2>8 DEF Reading
  <2>9. QED
    BY <2>6, <2>7, <2>8
<1>15. ASSUME NEW w \in Workers, Decline(w)
       PROVE  SealInv'
  <2>1. /\ UNCHANGED <<env, doc, answers, executed, seen, raced, req>>
        /\ pc'[w] = "closeDeclined" /\ pc[w] = "decline"
        /\ \A v \in Workers : v # w => pc'[v] = pc[v]
        /\ Mark(req[w].signer, "declined")
    BY <1>t, <1>15 DEF Decline, Goto, histVars, docVars, execVars
  <2>2. env # "draft" /\ req[w].signer \in Signers
    BY <1>t, <2>1 DEF SignInv, DraftInv, Sent, CeremonyPc
  <2>3. \A s \in Signers :
          /\ rec'[s] = rec[s] \/ (s = req[w].signer /\ rec'[s] = "declined")
          /\ rec'[s] = "absent" <=> rec[s] = "absent"
    BY <1>t, <2>1, <2>2 DEF Mark, Present
  <2>4. FreshInv'
    BY <2>1, <2>2 DEF SealInv, FreshInv, Exists, ExecPc
  <2>5. SUFFICES ASSUME Exists, ~raced
                 PROVE  (seen \subseteq {doc})' /\ (\A v \in Workers : Reading(v)') /\ ShownInv'
    BY <2>1, <2>4 DEF SealInv, Exists
  <2>6. AllSigned => AllSigned'
    <3>1. rec[req[w].signer] # "signed"
      BY <2>1, <2>5 DEF SignInv, TokenInv
    <3>2. QED
      BY <2>2, <2>3, <3>1 DEF AllSigned, Present
  <2>7. (seen \subseteq {doc})' /\ ShownInv'
    BY <1>r, <2>1, <2>5, <2>6 DEF ShownInv
  <2>8. Reading(w)'
    BY <2>1 DEF Reading, ExecPc
  <2>9. ASSUME NEW v \in Workers, v # w
        PROVE  Reading(v)'
    <3>1. Reading(v) /\ pc'[v] = pc[v] /\ req'[v] = req[v]
      BY <1>r, <2>1, <2>5, <2>9
    <3>2. pc[v] \in {"answer", "attachFile", "markSigned"} => rec'[req[v].signer] # "signed"
      BY <1>t, <2>3, <3>1 DEF Reading, CeremonyPc
    <3>3. QED
      BY <2>1, <2>6, <3>1, <3>2 DEF Reading
  <2>10. QED
    BY <2>7, <2>8, <2>9
<1>16. ASSUME NEW w \in Workers, CloseDeclined(w) \/ Void(w)
       PROVE  SealInv'
  <2>1. /\ UNCHANGED <<doc, rec, answers, executed, seen>> /\ (raced => raced') /\ Finish(w)
        /\ env' # env => env' \in {"declined", "voided"} /\ Exists
        /\ pc'[w] = "idle" /\ \A v \in Workers : v # w => pc'[v] = pc[v] /\ req'[v] = req[v]
    <3>1. CASE CloseDeclined(w)
      BY <1>t, <3>1 DEF CloseDeclined, Finish, histVars, docVars, execVars, Exists
    <3>2. CASE Void(w)
      BY <1>t, <3>2 DEF Void, Finish, Lands, Exists, docVars, execVars
    <3>3. QED
      BY <1>16, <3>1, <3>2
  <2>2. CASE env' = env
    BY <2>1, <2>2, <1>f
  <2>3. CASE env' # env
    <3>1. Exists /\ Exists' /\ FreshInv'
      BY <2>1, <2>3 DEF SealInv, FreshInv, Exists
    <3>2. AllSigned' <=> AllSigned
      BY <2>1 DEF AllSigned, Present
    <3>3. ASSUME ~raced'
          PROVE  (seen \subseteq {doc})' /\ (\A v \in Workers : Reading(v)') /\ ShownInv'
      <4>1. (seen \subseteq {doc})' /\ ShownInv'
        BY <1>r, <2>1, <3>1, <3>2, <3>3 DEF ShownInv
      <4>2. Reading(w)'
        BY <2>1 DEF Reading, ExecPc
      <4>3. ASSUME NEW v \in Workers, v # w
            PROVE  Reading(v)'
        BY <1>r, <2>1, <3>1, <3>2, <3>3, <4>3 DEF Reading
      <4>4. QED
        BY <4>1, <4>2, <4>3
    <3>4. QED
      BY <3>1, <3>3 DEF SealInv
  <2>4. QED
    BY <2>2, <2>3
<1>17. ASSUME NEW w \in Workers, ReadExecuted(w) \/ Stamp(w)
       PROVE  SealInv'
  <2>1. /\ UNCHANGED <<env, doc, rec, answers, executed, seen, raced>> /\ pc[w] \in ExecPc
        /\ \A v \in Workers : v # w => pc'[v] = pc[v] /\ req'[v] = req[v]
    BY <1>t, <1>17 DEF ReadExecuted, Stamp, Goto, Finish, rowVars, histVars, ExecPc
  <2>2. CASE Finish(w)
    BY <2>1, <2>2, <1>f
  <2>3. CASE ~Finish(w)
    <3>1. \/ pc'[w] = "stamp" /\ req'[w].doc = doc
          \/ /\ pc[w] = "stamp" /\ pc'[w] = "storeExecuted"
             /\ req'[w].doc = req[w].doc /\ req'[w].ink = answers
      <4>1. \A r \in Request : \A d, i : /\ [r EXCEPT !.doc = d].doc = d
                                     /\ [r EXCEPT !.ink = i].ink = i
                                     /\ [r EXCEPT !.ink = i].doc = r.doc
        BY DEF Request
      <4>2. CASE ReadExecuted(w)
        <5>1. pc'[w] = "stamp" /\ req'[w] = [req[w] EXCEPT !.doc = doc]
          BY <1>t, <2>3, <4>2 DEF ReadExecuted, Goto
        <5>2. QED
          BY <1>t, <4>1, <5>1
      <4>3. CASE Stamp(w)
        <5>1. /\ pc[w] = "stamp" /\ pc'[w] = "storeExecuted"
              /\ req'[w] = [req[w] EXCEPT !.ink = answers]
          BY <1>t, <2>3, <4>3 DEF Stamp, Goto
        <5>2. QED
          BY <1>t, <4>1, <5>1
      <4>4. QED
        BY <1>17, <4>2, <4>3
    <3>2. env # "draft"
      BY <2>1 DEF SealInv, FreshInv
    <3>3. Exists /\ ~raced => Reading(w)'
      <4>1. SUFFICES ASSUME Exists, ~raced
                     PROVE  Reading(w)'
        OBVIOUS
      <4>2. Reading(w) /\ (AllSigned' <=> AllSigned)
        BY <1>r, <2>1, <4>1 DEF AllSigned, Present
      <4>3. QED
        BY <2>1, <3>1, <4>2 DEF Reading, ExecPc
    <3>4. QED
      BY <2>1, <3>2, <3>3, QuietSeal
  <2>4. QED
    BY <2>2, <2>3
<1>18. ASSUME NEW w \in Workers, StoreExecuted(w)
       PROVE  SealInv'
  <2>1. /\ UNCHANGED <<env, doc, rec, answers, seen, raced, req>>
        /\ pc[w] = "storeExecuted" /\ pc'[w] = "seal"
        /\ \A v \in Workers : v # w => pc'[v] = pc[v]
        /\ executed' = IF Exists THEN [doc |-> req[w].doc, ink |-> req[w].ink] ELSE executed
    BY <1>t, <1>18 DEF StoreExecuted, Goto, docVars, histVars
  <2>2. env # "draft"
    BY <2>1 DEF SealInv, FreshInv, ExecPc
  <2>3. FreshInv'
    BY <2>1, <2>2 DEF SealInv, FreshInv, Exists
  <2>4. SUFFICES ASSUME Exists, ~raced
                 PROVE  (seen \subseteq {doc})' /\ (\A v \in Workers : Reading(v)') /\ ShownInv'
    BY <2>1, <2>3 DEF SealInv, Exists
  <2>5. /\ seen = {doc} /\ AllSigned /\ req[w].doc = doc /\ req[w].ink = answers
    BY <1>r, <2>1, <2>4 DEF Reading, ExecPc
  <2>6. AllSigned' <=> AllSigned
    BY <2>1 DEF AllSigned, Present
  <2>7. (seen \subseteq {doc})' /\ ShownInv'
    BY <2>1, <2>4, <2>5, <2>6 DEF ShownInv
  <2>8. Reading(w)'
    BY <2>1 DEF Reading, ExecPc
  <2>9. ASSUME NEW v \in Workers, v # w
        PROVE  Reading(v)'
    BY <1>r, <2>1, <2>4, <2>6, <2>9 DEF Reading
  <2>10. QED
    BY <2>7, <2>8, <2>9
<1>19. ASSUME NEW w \in Workers, DeleteDraft(w) \/ DeleteClosed(w)
       PROVE  SealInv'
  BY <1>19 DEF DeleteDraft, DeleteClosed, DeleteRow, SealInv, FreshInv, Exists
<1>20. CASE Resend \/ UNCHANGED vars
  <2>1. UNCHANGED <<env, doc, rec, answers, executed, seen, raced, pc, req>>
    BY <1>20 DEF Resend, vars, rowVars, histVars
  <2>2. QED
    BY <2>1 DEF SealInv, FreshInv, Reading, ShownInv, AllSigned, Exists, Present
<1>21. QED
  BY <1>1, <1>2, <1>3, <1>5, <1>6, <1>7, <1>8, <1>9, <1>10, <1>11, <1>12, <1>13, <1>14,
     <1>15, <1>16, <1>17, <1>18, <1>19, <1>20
  DEF Next, Continue, Execute

\* The executed document shows the pages every signer saw and the values every
\* signer gave, for any number of signers and handlers, unless an edit landed
\* after Send or one token served two requests at once.
THEOREM SigningSealedAsSigned == Spec => []SealedAsSigned
<1>1. SealInv => SealedAsSigned
  BY DEF SealInv, FreshInv, ShownInv, SealedAsSigned
<1>2. QED
  BY <1>1, InitSeal, StepSeal, SignInvariance, TypeInvariance, PTL DEF Spec
----------------------------------------------------------------------------
(* The fields of an envelope.                                              *)

CONSTANTS Recipients, Positions, Patient, Copies, Faults, MaxTasks, MaxId
VARIABLES status, flds, next, p, tasks, sentAs
Fields == INSTANCE SignFields

\* The user waits for the answers, and copies no field whose settings changed.
Composed == Patient /\ ~Copies /\ Fields!FieldsAssumption /\ \A i, x : NONE # [id |-> i, pos |-> x]

FieldKeys == {"id", "who", "pos", "req", "meta"}
BoardKeys == {"screen", "fields", "active", "sel", "drag", "nudge", "error"}
PatchKeys == {"kind", "n", "id", "field", "what", "to", "at", "view"}
Settings == {"who", "pos", "req", "meta"}
Changed(F, i, what, to) == {IF f.id = i THEN [f EXCEPT ![what] = to] ELSE f : f \in F}
\* What a request makes of the fields of the service is what the page shows;
\* for one that has failed the page is loaded again.
Pending(t, shown, F, said) ==
  /\ t.kind \in {"get", "add", "patch", "remove", "send"} /\ t.at \in {"sent", "ok", "failed"}
  /\ t.kind = "get" => t.at = "sent" \/ (t.at = "ok" /\ t.view = F)
  /\ t.kind = "add" => /\ DOMAIN t.field = FieldKeys /\ t.field.id < 0 /\ t.field.id \in Int /\ t.field.req = TRUE /\ t.field.meta = FALSE
                       /\ t.at # "ok" => shown = F \cup {t.field}
                       /\ t.at = "ok" => \E g \in F : g = [t.field EXCEPT !.id = t.id] /\ shown = (F \ {g}) \cup {t.field}
  /\ t.kind = "patch" => /\ t.what \in Settings /\ (t.what \in {"req", "meta"} => t.to \in BOOLEAN)
                         /\ (t.at = "ok" => shown = F)
                         /\ (t.at = "sent" => shown = Changed(F, t.id, t.what, t.to))
  /\ t.kind = "remove" => (t.at = "ok" => shown = F) /\ (t.at = "sent" => shown = {f \in F : f.id # t.id})
  /\ t.kind = "send" => shown = F /\ F = said
Numbered == /\ next \in Nat /\ next > 0 /\ \A f \in flds : DOMAIN f = FieldKeys /\ f.id \in Nat /\ 0 < f.id /\ f.id < next
                              /\ f.req \in BOOLEAN /\ f.meta \in BOOLEAN
            /\ \A f, g \in flds : f.id = g.id => f = g
Resting == p.nudge = NONE /\ p.drag = 0
Nudged == /\ p.drag = 0 /\ p.nudge.id = p.sel /\ p.nudge.id \in Nat /\ p.nudge.id > 0
          /\ p.fields = Changed(flds, p.nudge.id, "pos", p.nudge.pos)
FieldsInv ==
  /\ Numbered /\ DOMAIN p = BoardKeys /\ p.screen \in {"fields", "summary", "left", "setup"} /\ status \in {"draft", "sent"}
  /\ \A t, u \in tasks : t = u
  /\ \A t \in tasks : DOMAIN t = PatchKeys /\ p.screen = "fields" /\ Resting /\ Pending(t, p.fields, flds, sentAs)
  /\ p.screen = "fields" /\ tasks = {} => /\ status = "draft"
                                          /\ p.nudge = NONE => p.fields = flds
                                          /\ p.nudge # NONE => Nudged
  /\ p.screen # "fields" => Resting /\ tasks = {}
  /\ status = "sent" => flds = sentAs /\ \A t \in tasks : t.kind = "send" /\ t.at = "ok"

LEMMA FieldsInit == ASSUME Composed, Fields!Init PROVE FieldsInv
BY DEF Fields!Init, FieldsInv, Numbered, BoardKeys, Resting, Composed

Still == tasks = {} /\ Resting /\ p.screen = "fields" /\ status = "draft" /\ p.fields = flds
LEMMA FieldsStill == ASSUME Composed, FieldsInv, Fields!Editing PROVE Still
BY DEF Composed, FieldsInv, Fields!Editing, Fields!Waits, Resting, Still

LEMMA RequestOf ==
  ASSUME NEW r, DOMAIN r = PatchKeys
  PROVE  /\ DOMAIN Fields!Request(r) = PatchKeys /\ Fields!Request(r).kind = r.kind /\ Fields!Request(r).id = r.id
         /\ Fields!Request(r).field = r.field /\ Fields!Request(r).what = r.what /\ Fields!Request(r).to = r.to
         /\ Fields!Request(r).at = r.at
BY DEF Fields!Request, PatchKeys

LEMMA SentOf ==
  ASSUME tasks = {}, NEW r, DOMAIN r = PatchKeys, Fields!Send(r)
  PROVE  \E u : /\ tasks' = {u} /\ DOMAIN u = PatchKeys /\ u.kind = r.kind /\ u.id = r.id /\ u.field = r.field
                /\ u.what = r.what /\ u.to = r.to /\ u.at = r.at
<1>1. PICK u : u = Fields!Request(r)
  OBVIOUS
<1>2. tasks' = {u}
  BY <1>1 DEF Fields!Send
<1>3. QED
  BY <1>1, <1>2, RequestOf

\* What changing one field makes of the fields.
LEMMA ChangedIs ==
  ASSUME Numbered, NEW f \in flds, NEW what \in Settings, NEW to
  PROVE  /\ Changed(flds, f.id, what, to) = {g \in flds : g.id # f.id} \cup {[f EXCEPT ![what] = to]}
         /\ Changed(flds, f.id, what, to) = (flds \ {f}) \cup {[f EXCEPT ![what] = to]}
         /\ [f EXCEPT ![what] = to].id = f.id /\ DOMAIN [f EXCEPT ![what] = to] = FieldKeys
<1>1. \A g \in flds : g.id = f.id <=> g = f
  BY DEF Numbered
<1>2. DOMAIN f = FieldKeys /\ what # "id"
  BY DEF Numbered, Settings
<1>3. [f EXCEPT ![what] = to].id = f.id /\ DOMAIN [f EXCEPT ![what] = to] = FieldKeys
  BY <1>2 DEF FieldKeys
<1>4. \A g \in flds : (IF g.id = f.id THEN [g EXCEPT ![what] = to] ELSE g) = IF g = f THEN [f EXCEPT ![what] = to] ELSE g
  BY <1>1
<1>5. Changed(flds, f.id, what, to) = (flds \ {f}) \cup {[f EXCEPT ![what] = to]}
  BY <1>4 DEF Changed
<1>6. {g \in flds : g.id # f.id} = flds \ {f}
  BY <1>1
<1>7. QED
  BY <1>3, <1>5, <1>6

LEMMA NumberedKept == ASSUME Numbered, UNCHANGED <<flds, next>> PROVE Numbered'
BY DEF Numbered

LEMMA PutIs == \A page, f : DOMAIN page = BoardKeys =>
                  /\ DOMAIN Fields!Put(page, f) = BoardKeys
                  /\ Fields!Put(page, f).fields = {g \in page.fields : g.id # f.id} \cup {f}
                  /\ Fields!Put(page, f).screen = page.screen /\ Fields!Put(page, f).nudge = page.nudge
                  /\ Fields!Put(page, f).drag = page.drag /\ Fields!Put(page, f).sel = page.sel
BY DEF Fields!Put, BoardKeys

\* A request is sent, and the page shows what comes of it.
LEMMA FieldsSent ==
  ASSUME Composed, FieldsInv, UNCHANGED <<flds, next, status>>, status = "draft", DOMAIN p' = BoardKeys, p'.screen = "fields", Resting',
         NEW u, tasks' = {u}, DOMAIN u = PatchKeys, Pending(u, p'.fields, flds, sentAs')
  PROVE  FieldsInv'
<1>1. Numbered'
  BY NumberedKept DEF FieldsInv
<1>2. QED
  BY <1>1 DEF FieldsInv

\* The page changes while nothing is asked.
LEMMA FieldsQuiet ==
  ASSUME Composed, FieldsInv, UNCHANGED <<flds, next, status, sentAs>>, tasks' = {}, DOMAIN p' = BoardKeys,
         p'.screen \in {"fields", "summary", "left", "setup"},
         p'.screen # "fields" => Resting',
         p'.screen = "fields" => /\ status = "draft"
                                 /\ p'.nudge = NONE => p'.fields = flds
                                 /\ p'.nudge # NONE => Nudged'
  PROVE  FieldsInv'
<1>1. Numbered'
  BY NumberedKept DEF FieldsInv
<1>2. QED
  BY <1>1 DEF FieldsInv

LEMMA FieldsLook ==
  ASSUME Composed, FieldsInv, (\E w \in Recipients : Fields!Choose(w)) \/ (\E f \in p.fields : Fields!Select(f) \/ Fields!startMove(f))
                              \/ (\E to \in {"left", "setup"} : Fields!Leave(to))
  PROVE  FieldsInv'
<1>1. Still
  BY FieldsStill DEF Fields!Choose, Fields!Select, Fields!startMove, Fields!Leave
<1>2. \E w, i, to, d : /\ p' = [p EXCEPT !.active = w] \/ p' = [p EXCEPT !.sel = i] \/ p' = [p EXCEPT !.drag = d]
                             \/ (p' = [p EXCEPT !.screen = to] /\ to \in {"left", "setup"})
                       /\ UNCHANGED <<tasks, status, flds, next, sentAs>>
  BY DEF Fields!Choose, Fields!Select, Fields!startMove, Fields!Leave, Fields!Set, Fields!Keep, Fields!service
<1>3. DOMAIN p = BoardKeys
  BY DEF FieldsInv
<1>4. /\ DOMAIN p' = BoardKeys /\ p'.nudge = p.nudge /\ p'.fields = p.fields
      /\ (p'.screen = p.screen \/ (p'.screen \in {"left", "setup"} /\ p'.drag = p.drag))
  BY <1>2, <1>3 DEF BoardKeys
<1>5. QED
  BY <1>1, <1>2, <1>4, FieldsQuiet DEF Still, Resting

LEMMA FieldsReturn == ASSUME Composed, FieldsInv, Fields!Return PROVE FieldsInv'
<1>1. p.screen = "summary" /\ p' = [p EXCEPT !.screen = "left"] /\ UNCHANGED <<tasks, status, flds, next, sentAs>>
  BY DEF Fields!Return, Fields!Set, Fields!Keep, Fields!service
<1>2. DOMAIN p = BoardKeys /\ Resting /\ tasks = {}
  BY <1>1 DEF FieldsInv
<1>3. DOMAIN p' = BoardKeys /\ p'.nudge = p.nudge /\ p'.drag = p.drag /\ p'.screen = "left"
  BY <1>1, <1>2 DEF BoardKeys
<1>4. QED
  BY <1>1, <1>2, <1>3, FieldsQuiet DEF Resting

LEMMA FieldsPlace ==
  ASSUME Composed, FieldsInv, Still, NEW f, DOMAIN f = FieldKeys, f.req = TRUE, f.meta = FALSE, NEW how, Fields!Place(f, how)
  PROVE  FieldsInv'
<1>1. PICK i : i = Fields!Temp
  OBVIOUS
<1>2. PICK g : g = [f EXCEPT !.id = i]
  OBVIOUS
<1>3. PICK r : r = [Fields!Blank EXCEPT !.kind = "add", !.id = i, !.what = how, !.field = g]
  OBVIOUS
<1>4. Fields!Send(r) /\ p' = Fields!Put(p, g) /\ UNCHANGED <<status, flds, next, sentAs>>
  BY <1>1, <1>2, <1>3 DEF Fields!Place, Fields!Keep, Fields!service
<1>5. MaxTasks > 0 /\ MaxTasks \in Nat /\ MaxId \in Nat
  <2>1. Fields!Cardinality({}) = Cardinality({})
    BY DEF Fields!Cardinality, Cardinality
  <2>2. Fields!Cardinality(tasks) < MaxTasks /\ MaxTasks \in Nat /\ MaxId \in Nat
    BY <1>4 DEF Fields!Send, Composed, Fields!FieldsAssumption
  <2>3. QED
    BY <2>1, <2>2, FS_EmptySet DEF Still
<1>6. \A h \in p.fields : h.id \in Nat /\ h.id > 0
  BY DEF Still, FieldsInv, Numbered
<1>7. i < 0 /\ i \in Int
  <2>1. 0 - 1 \in {0 - k : k \in 1..MaxId + MaxTasks}
    BY <1>5
  <2>2. \A h \in p.fields : h.id # 0 - 1
    BY <1>6
  <2>3. i \in {0 - k : k \in 1..MaxId + MaxTasks}
    BY <1>1, <2>1, <2>2 DEF Fields!Temp
  <2>4. QED
    BY <1>5, <2>3
<1>8. DOMAIN g = FieldKeys /\ g.id = i /\ g.req = TRUE /\ g.meta = FALSE
  BY <1>2 DEF FieldKeys
<1>9. DOMAIN r = PatchKeys /\ r.kind = "add" /\ r.field = g /\ r.at = "sent"
  BY <1>3 DEF Fields!Blank, PatchKeys
<1>10. PICK u : tasks' = {u} /\ DOMAIN u = PatchKeys /\ u.kind = "add" /\ u.field = g /\ u.at = "sent"
  BY <1>4, <1>9, SentOf DEF Still
<1>11. DOMAIN p = BoardKeys
  BY DEF FieldsInv
<1>12. /\ DOMAIN p' = BoardKeys /\ p'.screen = p.screen /\ p'.nudge = p.nudge /\ p'.drag = p.drag
       /\ p'.fields = {h \in p.fields : h.id # g.id} \cup {g}
  BY <1>4, <1>11, PutIs
<1>13. p'.fields = flds \cup {g}
  BY <1>6, <1>7, <1>8, <1>12 DEF Still
<1>14. Pending(u, p'.fields, flds, sentAs')
  BY <1>7, <1>8, <1>10, <1>13 DEF Pending
<1>15. QED
  BY <1>4, <1>10, <1>12, <1>14, FieldsSent DEF Still, Resting

LEMMA FieldsAdd ==
  ASSUME Composed, FieldsInv, (\E pos \in Positions : Fields!drop(pos)) \/ (\E f \in p.fields : Fields!duplicateField(f)) PROVE FieldsInv'
<1>1. CASE \E pos \in Positions : Fields!drop(pos)
  <2>1. PICK pos \in Positions : Fields!drop(pos)
    BY <1>1
  <2>2. PICK f : f = [id |-> 0, who |-> p.active, pos |-> pos, req |-> TRUE, meta |-> FALSE]
    OBVIOUS
  <2>3. Still /\ Fields!Place(f, "pos")
    BY <2>1, <2>2, FieldsStill DEF Fields!drop
  <2>4. DOMAIN f = FieldKeys /\ f.req = TRUE /\ f.meta = FALSE
    BY <2>2 DEF FieldKeys
  <2>5. QED
    BY <2>3, <2>4, FieldsPlace
<1>2. CASE \E f \in p.fields : Fields!duplicateField(f)
  <2>1. PICK f \in p.fields : Fields!duplicateField(f)
    BY <1>2
  <2>2. Still /\ Fields!Place(f, "copy") /\ f.req /\ ~f.meta
    BY <2>1, FieldsStill DEF Fields!duplicateField, Composed
  <2>3. DOMAIN f = FieldKeys /\ f.req \in BOOLEAN /\ f.meta \in BOOLEAN
    BY <2>2 DEF Still, FieldsInv, Numbered
  <2>4. QED
    BY <2>2, <2>3, FieldsPlace
<1>3. QED
  BY <1>1, <1>2

\* A request to change one setting, of a page that shows it.
LEMMA PatchSent ==
  ASSUME Composed, FieldsInv, tasks = {}, status = "draft", UNCHANGED <<flds, next, status, sentAs>>,
         DOMAIN p' = BoardKeys, p'.screen = "fields", Resting',
         NEW i, NEW what \in Settings, NEW to, what \in {"req", "meta"} => to \in BOOLEAN,
         NEW r, Fields!Send(r), DOMAIN r = PatchKeys, r.kind = "patch", r.id = i, r.what = what, r.to = to, r.at = "sent",
         p'.fields = Changed(flds, i, what, to)
  PROVE  FieldsInv'
<1>1. PICK u : tasks' = {u} /\ DOMAIN u = PatchKeys /\ u.kind = "patch" /\ u.id = i /\ u.what = what /\ u.to = to /\ u.at = "sent"
  BY SentOf
<1>2. Pending(u, p'.fields, flds, sentAs')
  BY <1>1 DEF Pending
<1>3. QED
  BY <1>1, <1>2, FieldsSent

LEMMA FieldsPatch ==
  ASSUME Composed, FieldsInv, NEW f \in p.fields,
         Fields!setFieldRequired(f) \/ Fields!setFieldMeta(f) \/ (\E w \in Recipients : Fields!reassignField(f, w))
  PROVE  FieldsInv'
<1>1. PICK what, to : what \in Settings /\ Fields!Patch(f, what, to) /\ (what \in {"req", "meta"} => to \in BOOLEAN)
  <2>1. CASE Fields!setFieldRequired(f)
    <3>1. PICK to \in BOOLEAN : to = ~f.req
      OBVIOUS
    <3>2. Fields!Patch(f, "req", to)
      BY <2>1, <3>1 DEF Fields!setFieldRequired
    <3>3. QED
      BY <3>2 DEF Settings
  <2>2. CASE Fields!setFieldMeta(f)
    <3>1. Fields!Patch(f, "meta", TRUE) /\ TRUE \in BOOLEAN
      BY <2>2 DEF Fields!setFieldMeta
    <3>2. QED
      BY <3>1 DEF Settings
  <2>3. CASE \E w \in Recipients : Fields!reassignField(f, w)
    BY <2>3 DEF Fields!reassignField, Settings
  <2>4. QED
    BY <2>1, <2>2, <2>3
<1>2. Still /\ f \in flds
  BY FieldsStill DEF Fields!setFieldRequired, Fields!setFieldMeta, Fields!reassignField, Still
<1>3. Numbered /\ DOMAIN p = BoardKeys /\ f.id \in Nat /\ f.id > 0
  BY <1>2 DEF FieldsInv, Numbered
<1>4. PICK g : g = [f EXCEPT ![what] = to]
  OBVIOUS
<1>5. g.id = f.id /\ Changed(flds, f.id, what, to) = {h \in flds : h.id # f.id} \cup {g}
  BY <1>1, <1>2, <1>3, <1>4, ChangedIs
<1>6. PICK r : r = [Fields!Blank EXCEPT !.kind = "patch", !.id = f.id, !.what = what, !.to = to]
  OBVIOUS
<1>7. p' = Fields!Put(p, g) /\ UNCHANGED <<status, flds, next, sentAs>> /\ Fields!Send(r)
  BY <1>1, <1>3, <1>4, <1>6 DEF Fields!Patch, Fields!Keep, Fields!service
<1>8. DOMAIN r = PatchKeys /\ r.kind = "patch" /\ r.id = f.id /\ r.what = what /\ r.to = to /\ r.at = "sent"
  BY <1>6 DEF Fields!Blank, PatchKeys
<1>9. /\ DOMAIN p' = BoardKeys /\ p'.screen = p.screen /\ p'.nudge = p.nudge /\ p'.drag = p.drag
      /\ p'.fields = Changed(flds, f.id, what, to)
  BY <1>2, <1>3, <1>5, <1>7, PutIs DEF Still
<1>10. QED
  BY <1>1, <1>2, <1>7, <1>8, <1>9, PatchSent DEF Still, Resting

LEMMA FieldsMoved == ASSUME Composed, FieldsInv, NEW pos \in Positions, Fields!onFieldUp(pos) PROVE FieldsInv'
<1>1. p.screen = "fields" /\ p.drag # 0 /\ UNCHANGED <<status, flds, next, sentAs>>
  BY DEF Fields!onFieldUp, Fields!Keep, Fields!service
<1>2. tasks = {} /\ p.nudge = NONE /\ p.fields = flds /\ status = "draft" /\ DOMAIN p = BoardKeys /\ Numbered
  BY <1>1 DEF FieldsInv, Resting, Nudged
<1>3. PICK d, q : d = p.drag /\ q = [p EXCEPT !.drag = 0]
  OBVIOUS
<1>4. DOMAIN q = BoardKeys /\ q.screen = p.screen /\ q.nudge = p.nudge /\ q.drag = 0 /\ q.fields = flds
  BY <1>2, <1>3 DEF BoardKeys
<1>5. /\ DOMAIN p' = BoardKeys /\ p'.screen = "fields" /\ p'.nudge = NONE /\ p'.drag = 0
      /\ p'.fields = Changed(flds, d, "pos", pos)
      /\ (\A f \in flds : f.id # d) \/ d > 0
  <2>1. CASE \A f \in flds : f.id # d
    <3>1. p' = q
      BY <1>2, <1>3, <2>1 DEF Fields!onFieldUp
    <3>2. Changed(flds, d, "pos", pos) = flds
      BY <2>1 DEF Changed
    <3>3. QED
      BY <1>1, <1>2, <1>4, <2>1, <3>1, <3>2
  <2>2. CASE ~\A f \in flds : f.id # d
    <3>1. PICK f \in flds : f.id = d /\ p' = Fields!Put(q, [f EXCEPT !.pos = pos])
      BY <1>2, <1>3, <2>2 DEF Fields!onFieldUp
    <3>2. PICK g : g = [f EXCEPT !.pos = pos]
      OBVIOUS
    <3>3. g.id = d /\ Changed(flds, d, "pos", pos) = {h \in flds : h.id # d} \cup {g}
      BY <1>2, <3>1, <3>2, ChangedIs DEF Settings
    <3>4. p' = Fields!Put(q, g) /\ d > 0
      BY <1>2, <3>1, <3>2 DEF Numbered
    <3>5. /\ DOMAIN p' = BoardKeys /\ p'.fields = {h \in q.fields : h.id # g.id} \cup {g}
          /\ p'.screen = q.screen /\ p'.nudge = q.nudge /\ p'.drag = q.drag
      BY <1>4, <3>4, PutIs
    <3>6. QED
      BY <1>1, <1>2, <1>4, <3>3, <3>4, <3>5
  <2>3. QED
    BY <2>1, <2>2
<1>6. CASE d > 0
  <2>1. PICK r : r = [Fields!Blank EXCEPT !.kind = "patch", !.id = d, !.to = pos]
    OBVIOUS
  <2>2. Fields!Send(r)
    BY <1>3, <1>6, <2>1 DEF Fields!onFieldUp
  <2>3. DOMAIN r = PatchKeys /\ r.kind = "patch" /\ r.id = d /\ r.what = "pos" /\ r.to = pos /\ r.at = "sent"
    BY <2>1 DEF Fields!Blank, PatchKeys
  <2>4. QED
    BY <1>1, <1>2, <1>5, <2>2, <2>3, PatchSent DEF Settings, Resting
<1>7. CASE ~(d > 0)
  <2>1. tasks' = tasks /\ \A f \in flds : f.id # d
    BY <1>3, <1>5, <1>7 DEF Fields!onFieldUp
  <2>2. p'.fields = flds
    BY <1>5, <2>1 DEF Changed
  <2>3. QED
    BY <1>1, <1>2, <1>5, <2>1, <2>2, FieldsQuiet
<1>8. QED
  BY <1>6, <1>7

LEMMA FieldsNudged == ASSUME Composed, FieldsInv, Fields!NudgeSave PROVE FieldsInv'
<1>1. p.nudge # NONE /\ p' = [p EXCEPT !.nudge = NONE] /\ UNCHANGED <<status, flds, next, sentAs>>
  BY DEF Fields!NudgeSave, Fields!Keep, Fields!service
<1>2. tasks = {} /\ p.screen = "fields" /\ status = "draft" /\ Nudged /\ DOMAIN p = BoardKeys
  BY <1>1 DEF FieldsInv, Resting
<1>3. PICK i, to : i = p.nudge.id /\ to = p.nudge.pos
  OBVIOUS
<1>4. i > 0 /\ p.drag = 0 /\ p.fields = Changed(flds, i, "pos", to)
  BY <1>2, <1>3 DEF Nudged
<1>5. /\ DOMAIN p' = BoardKeys /\ p'.screen = "fields" /\ p'.nudge = NONE /\ p'.drag = 0
      /\ p'.fields = Changed(flds, i, "pos", to)
  BY <1>1, <1>2, <1>4 DEF BoardKeys
<1>6. PICK r : r = [Fields!Blank EXCEPT !.kind = "patch", !.id = i, !.to = to]
  OBVIOUS
<1>7. Fields!Send(r)
  BY <1>3, <1>4, <1>6 DEF Fields!NudgeSave
<1>8. DOMAIN r = PatchKeys /\ r.kind = "patch" /\ r.id = i /\ r.what = "pos" /\ r.to = to /\ r.at = "sent"
  BY <1>6 DEF Fields!Blank, PatchKeys
<1>9. QED
  BY <1>1, <1>2, <1>5, <1>7, <1>8, PatchSent DEF Settings, Resting

LEMMA FieldsKeyed == ASSUME Composed, FieldsInv, NEW f \in p.fields, NEW pos \in Positions, Fields!onKey(f, pos) PROVE FieldsInv'
<1>1. tasks = {} /\ p.drag = 0 /\ p.screen = "fields" /\ status = "draft" /\ f.id = p.sel /\ DOMAIN p = BoardKeys /\ Numbered
  BY DEF Fields!onKey, Composed, FieldsInv
<1>2. PICK g, q : g = [f EXCEPT !.pos = pos] /\ q = Fields!Put(p, g)
  OBVIOUS
<1>3. p' = [q EXCEPT !.nudge = [id |-> f.id, pos |-> pos]] /\ UNCHANGED <<tasks, status, flds, next, sentAs>>
  BY <1>2 DEF Fields!onKey, Fields!Set, Fields!Keep, Fields!service
<1>4. PICK h, at : /\ h \in flds /\ h.id = f.id /\ (f = h \/ f = [h EXCEPT !.pos = at])
                   /\ p.fields = flds \/ p.fields = Changed(flds, h.id, "pos", at)
  <2>1. CASE p.nudge = NONE
    BY <1>1, <2>1 DEF FieldsInv
  <2>2. CASE p.nudge # NONE
    <3>1. Nudged
      BY <1>1, <2>2 DEF FieldsInv
    <3>2. PICK at : at = p.nudge.pos
      OBVIOUS
    <3>3. p.fields = Changed(flds, f.id, "pos", at)
      BY <1>1, <3>1, <3>2 DEF Nudged
    <3>4. PICK h \in flds : f = IF h.id = f.id THEN [h EXCEPT !["pos"] = at] ELSE h
      BY <3>3 DEF Changed
    <3>5. [h EXCEPT !["pos"] = at].id = h.id
      BY <1>1, ChangedIs DEF Settings
    <3>6. QED
      BY <3>3, <3>4, <3>5
  <2>3. QED
    BY <2>1, <2>2
<1>5. PICK to, from : to = [h EXCEPT !.pos = pos] /\ from = [h EXCEPT !.pos = at]
  OBVIOUS
<1>51. to.id = h.id /\ Changed(flds, h.id, "pos", pos) = {k \in flds : k.id # h.id} \cup {to}
  BY <1>1, <1>4, <1>5, ChangedIs DEF Settings
<1>52. from.id = h.id /\ Changed(flds, h.id, "pos", at) = {k \in flds : k.id # h.id} \cup {from}
  BY <1>1, <1>4, <1>5, ChangedIs DEF Settings
<1>6. g = to
  <2>1. DOMAIN h = FieldKeys
    BY <1>1, <1>4 DEF Numbered
  <2>2. [[h EXCEPT !.pos = at] EXCEPT !.pos = pos] = [h EXCEPT !.pos = pos]
    BY <2>1 DEF FieldKeys
  <2>3. QED
    BY <1>2, <1>4, <1>5, <2>2
<1>7. {k \in p.fields : k.id # f.id} = {k \in flds : k.id # h.id}
  BY <1>4, <1>52
<1>8. g.id = f.id /\ Changed(flds, f.id, "pos", pos) = {k \in p.fields : k.id # f.id} \cup {g}
  BY <1>4, <1>51, <1>6, <1>7
<1>9. /\ DOMAIN q = BoardKeys /\ q.fields = Changed(flds, f.id, "pos", pos) /\ q.screen = "fields" /\ q.drag = 0 /\ q.sel = f.id
  <2>1. /\ DOMAIN q = BoardKeys /\ q.fields = {k \in p.fields : k.id # g.id} \cup {g}
        /\ q.screen = p.screen /\ q.drag = p.drag /\ q.sel = p.sel
    BY <1>1, <1>2, PutIs
  <2>2. QED
    BY <1>1, <1>8, <2>1
<1>10. PICK n : n = [id |-> f.id, pos |-> pos]
  OBVIOUS
<1>11. /\ DOMAIN p' = BoardKeys /\ p'.fields = Changed(flds, f.id, "pos", pos) /\ p'.screen = "fields" /\ p'.drag = 0 /\ p'.sel = f.id
       /\ p'.nudge = n
  BY <1>3, <1>9, <1>10 DEF BoardKeys
<1>12. f.id \in Nat /\ f.id > 0 /\ n.id = f.id /\ n.pos = pos /\ n # NONE
  BY <1>1, <1>4, <1>10 DEF Numbered, Composed
<1>13. Nudged'
  BY <1>3, <1>11, <1>12 DEF Nudged, Changed
<1>14. QED
  BY <1>1, <1>3, <1>11, <1>12, <1>13, FieldsQuiet

LEMMA FieldsRemove == ASSUME Composed, FieldsInv, NEW f \in p.fields, Fields!removeField(f) PROVE FieldsInv'
<1>1. Still /\ Numbered /\ DOMAIN p = BoardKeys
  BY DEF Fields!removeField, Fields!Waits, Composed, FieldsInv, Still, Resting
<1>2. f \in flds /\ f.id > 0
  BY <1>1 DEF Still, Numbered
<1>3. PICK r : r = [Fields!Blank EXCEPT !.kind = "remove", !.id = f.id]
  OBVIOUS
<1>4. Fields!Send(r) /\ p' = Fields!Without(f) /\ UNCHANGED <<status, flds, next, sentAs>>
  BY <1>2, <1>3 DEF Fields!removeField, Fields!Keep, Fields!service
<1>5. DOMAIN r = PatchKeys /\ r.kind = "remove" /\ r.id = f.id /\ r.at = "sent"
  BY <1>3 DEF Fields!Blank, PatchKeys
<1>6. PICK u : tasks' = {u} /\ DOMAIN u = PatchKeys /\ u.kind = "remove" /\ u.id = f.id /\ u.at = "sent"
  <2>1. PICK u : tasks' = {u} /\ DOMAIN u = PatchKeys /\ u.kind = r.kind /\ u.id = r.id /\ u.at = r.at
    BY <1>1, <1>4, <1>5, SentOf DEF Still
  <2>2. QED
    BY <1>5, <2>1
<1>7. /\ DOMAIN p' = BoardKeys /\ p'.fields = flds \ {f} /\ p'.screen = p.screen /\ p'.nudge = p.nudge /\ p'.drag = p.drag
  BY <1>1, <1>4 DEF Fields!Without, BoardKeys, Still
<1>8. flds \ {f} = {g \in flds : g.id # f.id}
  BY <1>1, <1>2 DEF Numbered
<1>9. Pending(u, p'.fields, flds, sentAs')
  BY <1>6, <1>7, <1>8 DEF Pending
<1>10. QED
  BY <1>1, <1>4, <1>6, <1>7, <1>9, FieldsSent DEF Still, Resting

LEMMA FieldsSending == ASSUME Composed, FieldsInv, Fields!send PROVE FieldsInv'
<1>1. Still /\ DOMAIN p = BoardKeys
  BY FieldsStill DEF Fields!send, FieldsInv
<1>2. PICK r : r = [Fields!Blank EXCEPT !.kind = "send"]
  OBVIOUS
<1>3. Fields!Send(r) /\ p' = [p EXCEPT !.error = FALSE] /\ sentAs' = p.fields /\ UNCHANGED <<status, flds, next>>
  BY <1>2 DEF Fields!send, Fields!service
<1>4. DOMAIN r = PatchKeys /\ r.kind = "send" /\ r.at = "sent"
  BY <1>2 DEF Fields!Blank, PatchKeys
<1>5. PICK u : tasks' = {u} /\ DOMAIN u = PatchKeys /\ u.kind = "send" /\ u.at = "sent"
  <2>1. PICK u : tasks' = {u} /\ DOMAIN u = PatchKeys /\ u.kind = r.kind /\ u.at = r.at
    BY <1>1, <1>3, <1>4, SentOf DEF Still
  <2>2. QED
    BY <1>4, <2>1
<1>6. /\ DOMAIN p' = BoardKeys /\ p'.fields = p.fields /\ p'.screen = p.screen /\ p'.nudge = p.nudge /\ p'.drag = p.drag
  BY <1>1, <1>3 DEF BoardKeys
<1>7. Pending(u, p'.fields, flds, sentAs')
  BY <1>1, <1>3, <1>5, <1>6 DEF Pending, Still
<1>8. QED
  BY <1>1, <1>3, <1>5, <1>6, <1>7, FieldsSent DEF Still, Resting

\* A request that is the only one is served, or asks for the envelope again.
LEMMA FieldsServed ==
  ASSUME Composed, FieldsInv, NEW t \in tasks, NEW u, Fields!Upd(t, u), UNCHANGED <<p, sentAs>>, DOMAIN u = PatchKeys,
         Numbered', status' \in {"draft", "sent"}, Pending(u, p.fields, flds', sentAs),
         status' = "sent" => flds' = sentAs /\ u.kind = "send" /\ u.at = "ok"
  PROVE  FieldsInv'
<1>1. tasks = {t} /\ p.screen = "fields" /\ Resting /\ DOMAIN p = BoardKeys
  BY DEF FieldsInv
<1>2. tasks' = {u}
  BY <1>1 DEF Fields!Upd
<1>3. Pending(u, p'.fields, flds', sentAs') /\ Resting'
  BY <1>1 DEF Resting
<1>4. QED
  BY <1>1, <1>2, <1>3 DEF FieldsInv

LEMMA FieldsTask ==
  ASSUME FieldsInv, NEW t \in tasks
  PROVE  /\ DOMAIN t = PatchKeys /\ p.screen = "fields" /\ Resting /\ Pending(t, p.fields, flds, sentAs) /\ Numbered /\ tasks = {t}
         /\ t.kind # "send" \/ t.at # "ok" => status = "draft"
BY DEF FieldsInv

LEMMA FieldsGet == ASSUME Composed, FieldsInv, NEW t \in tasks, t.at = "sent", UNCHANGED <<p, sentAs>>, Fields!GetEnvelope(t) PROVE FieldsInv'
<1>1. DOMAIN t = PatchKeys /\ status = "draft" /\ Numbered /\ t.kind = "get"
  BY FieldsTask DEF Fields!GetEnvelope
<1>2. PICK u : u = [t EXCEPT !.at = "ok", !.view = flds]
  OBVIOUS
<1>3. Fields!Upd(t, u) /\ UNCHANGED <<status, flds, next>>
  BY <1>1, <1>2 DEF Fields!GetEnvelope, Fields!Draft, Fields!service
<1>4. DOMAIN u = PatchKeys /\ u.kind = "get" /\ u.at = "ok" /\ u.view = flds
  BY <1>1, <1>2 DEF PatchKeys
<1>5. Pending(u, p.fields, flds', sentAs) /\ Numbered'
  BY <1>1, <1>3, <1>4, NumberedKept DEF Pending
<1>6. QED
  BY <1>1, <1>3, <1>4, <1>5, FieldsServed

LEMMA FieldsFail == ASSUME Composed, FieldsInv, NEW t \in tasks, t.at = "sent", UNCHANGED <<p, sentAs>>, Fields!Fail(t) PROVE FieldsInv'
<1>1. DOMAIN t = PatchKeys /\ status = "draft" /\ Numbered /\ t.kind # "get" /\ Pending(t, p.fields, flds, sentAs)
  BY FieldsTask DEF Fields!Fail
<1>2. PICK u : u = [t EXCEPT !.at = "failed"]
  OBVIOUS
<1>3. Fields!Upd(t, u) /\ UNCHANGED <<status, flds, next>>
  BY <1>1, <1>2 DEF Fields!Fail, Fields!service
<1>4. /\ DOMAIN u = PatchKeys /\ u.kind = t.kind /\ u.at = "failed" /\ u.view = t.view /\ u.field = t.field /\ u.what = t.what /\ u.to = t.to
      /\ u.id = t.id
  BY <1>1, <1>2 DEF PatchKeys
<1>5. Pending(u, p.fields, flds', sentAs) /\ Numbered'
  BY <1>1, <1>3, <1>4, NumberedKept DEF Pending
<1>6. QED
  BY <1>1, <1>3, <1>4, <1>5, FieldsServed

LEMMA FieldsAddField == ASSUME Composed, FieldsInv, NEW t \in tasks, t.at = "sent", UNCHANGED <<p, sentAs>>, Fields!AddField(t) PROVE FieldsInv'
<1>1. DOMAIN t = PatchKeys /\ status = "draft" /\ Numbered /\ t.kind = "add" /\ Pending(t, p.fields, flds, sentAs)
  BY FieldsTask DEF Fields!AddField
<1>2. PICK u : u = [t EXCEPT !.at = "ok", !.id = next]
  OBVIOUS
<1>3. PICK g : g = [t.field EXCEPT !.id = next]
  OBVIOUS
<1>4. Fields!Upd(t, u) /\ next' = next + 1 /\ status' = status /\ flds' = flds \cup {[t.field EXCEPT !.id = next, !.req = TRUE, !.meta = FALSE]}
  BY <1>2 DEF Fields!AddField
<1>5. /\ DOMAIN t.field = FieldKeys /\ t.field.id < 0 /\ t.field.id \in Int /\ t.field.req = TRUE /\ t.field.meta = FALSE
      /\ p.fields = flds \cup {t.field}
  BY <1>1 DEF Pending
<1>6. g = [t.field EXCEPT !.id = next, !.req = TRUE, !.meta = FALSE]
  BY <1>3, <1>5 DEF FieldKeys
<1>7. DOMAIN g = FieldKeys /\ g.id = next /\ g.req = TRUE /\ g.meta = FALSE
  BY <1>3, <1>5 DEF FieldKeys
<1>8. DOMAIN u = PatchKeys /\ u.kind = "add" /\ u.at = "ok" /\ u.id = next /\ u.field = t.field
  BY <1>1, <1>2 DEF PatchKeys
<1>9. flds' = flds \cup {g} /\ g \notin flds /\ next \in Nat /\ next > 0
  <2>1. next \in Nat /\ next > 0 /\ \A f \in flds : f.id \in Nat /\ f.id < next
    BY <1>1 DEF Numbered
  <2>2. g \notin flds
    BY <1>7, <2>1
  <2>3. QED
    BY <1>4, <1>6, <2>1, <2>2
<1>10. Numbered'
  <2>1. PICK n \in Nat : n = next + 1
    BY <1>9
  <2>2. next' = n /\ n > next
    BY <1>4, <1>9, <2>1
  <2>3. \A f \in flds : DOMAIN f = FieldKeys /\ f.id \in Nat /\ 0 < f.id /\ f.id < next /\ f.req \in BOOLEAN /\ f.meta \in BOOLEAN
    BY <1>1 DEF Numbered
  <2>4. \A f \in flds' : DOMAIN f = FieldKeys /\ f.id \in Nat /\ 0 < f.id /\ f.id < n /\ f.req \in BOOLEAN /\ f.meta \in BOOLEAN
    <3>1. \A f \in flds : f.id < n
      BY <1>9, <2>1, <2>3
    <3>2. next < n
      BY <1>9, <2>1
    <3>3. QED
      BY <1>7, <1>9, <2>3, <3>1, <3>2
  <2>5. \A f, h \in flds' : f.id = h.id => f = h
    BY <1>1, <1>7, <1>9, <2>3 DEF Numbered
  <2>6. QED
    BY <1>9, <2>2, <2>4, <2>5 DEF Numbered
<1>11. p.fields = (flds' \ {g}) \cup {u.field} /\ g \in flds' /\ g = [u.field EXCEPT !.id = u.id]
  BY <1>3, <1>5, <1>8, <1>9
<1>12. Pending(u, p.fields, flds', sentAs)
  BY <1>5, <1>8, <1>11 DEF Pending
<1>13. QED
  BY <1>1, <1>4, <1>8, <1>10, <1>12, FieldsServed

LEMMA FieldsUpdate == ASSUME Composed, FieldsInv, NEW t \in tasks, t.at = "sent", UNCHANGED <<p, sentAs>>, Fields!UpdateField(t) PROVE FieldsInv'
<1>1. DOMAIN t = PatchKeys /\ status = "draft" /\ Numbered /\ t.kind = "patch" /\ Pending(t, p.fields, flds, sentAs)
  BY FieldsTask DEF Fields!UpdateField
<1>2. PICK u : u = [t EXCEPT !.at = "ok"]
  OBVIOUS
<1>3. Fields!Upd(t, u) /\ UNCHANGED <<status, next>>
  BY <1>2 DEF Fields!UpdateField, Fields!Ok
<1>4. DOMAIN u = PatchKeys /\ u.kind = "patch" /\ u.at = "ok" /\ u.what = t.what /\ u.to = t.to
  BY <1>1, <1>2 DEF PatchKeys
<1>5. t.what \in Settings /\ (t.what \in {"req", "meta"} => t.to \in BOOLEAN) /\ p.fields = Changed(flds, t.id, t.what, t.to)
  BY <1>1 DEF Pending
<1>6. PICK f \in flds : f.id = t.id /\ flds' = (flds \ {f}) \cup {[f EXCEPT ![t.what] = t.to]}
  BY DEF Fields!UpdateField
<1>7. PICK what, to, g : what = t.what /\ to = t.to /\ g = [f EXCEPT ![what] = to]
  OBVIOUS
<1>8. Changed(flds, f.id, what, to) = (flds \ {f}) \cup {g} /\ g.id = f.id /\ DOMAIN g = FieldKeys
  BY <1>1, <1>5, <1>7, ChangedIs
<1>9. flds' = (flds \ {f}) \cup {g} /\ p.fields = flds'
  BY <1>5, <1>6, <1>7, <1>8
<1>10. g.req \in BOOLEAN /\ g.meta \in BOOLEAN
  <2>1. DOMAIN f = FieldKeys /\ f.req \in BOOLEAN /\ f.meta \in BOOLEAN
    BY <1>1 DEF Numbered
  <2>2. what \in Settings /\ (what \in {"req", "meta"} => to \in BOOLEAN)
    BY <1>5, <1>7
  <2>3. QED
    BY <1>7, <2>1, <2>2 DEF Settings, FieldKeys
<1>11. Numbered'
  BY <1>1, <1>3, <1>8, <1>9, <1>10 DEF Numbered
<1>12. Pending(u, p.fields, flds', sentAs)
  BY <1>4, <1>5, <1>9 DEF Pending
<1>13. QED
  BY <1>1, <1>3, <1>4, <1>11, <1>12, FieldsServed

LEMMA FieldsDelete == ASSUME Composed, FieldsInv, NEW t \in tasks, t.at = "sent", UNCHANGED <<p, sentAs>>, Fields!DeleteField(t) PROVE FieldsInv'
<1>1. DOMAIN t = PatchKeys /\ status = "draft" /\ Numbered /\ t.kind = "remove" /\ Pending(t, p.fields, flds, sentAs)
  BY FieldsTask DEF Fields!DeleteField
<1>2. PICK u : u = [t EXCEPT !.at = "ok"]
  OBVIOUS
<1>3. Fields!Upd(t, u) /\ UNCHANGED <<status, next>>
  BY <1>2 DEF Fields!DeleteField, Fields!Ok
<1>4. DOMAIN u = PatchKeys /\ u.kind = "remove" /\ u.at = "ok"
  BY <1>1, <1>2 DEF PatchKeys
<1>5. p.fields = {f \in flds : f.id # t.id}
  BY <1>1 DEF Pending
<1>6. PICK f \in flds : f.id = t.id /\ flds' = flds \ {f}
  BY DEF Fields!DeleteField
<1>7. p.fields = flds' /\ Numbered'
  BY <1>1, <1>3, <1>5, <1>6 DEF Numbered
<1>8. Pending(u, p.fields, flds', sentAs)
  BY <1>4, <1>7 DEF Pending
<1>9. QED
  BY <1>1, <1>3, <1>4, <1>7, <1>8, FieldsServed

LEMMA FieldsSend == ASSUME Composed, FieldsInv, NEW t \in tasks, t.at = "sent", UNCHANGED <<p, sentAs>>, Fields!SendEnvelope(t) PROVE FieldsInv'
<1>1. DOMAIN t = PatchKeys /\ status = "draft" /\ Numbered /\ t.kind = "send" /\ Pending(t, p.fields, flds, sentAs)
  BY FieldsTask DEF Fields!SendEnvelope
<1>2. PICK u : u = [t EXCEPT !.at = "ok"]
  OBVIOUS
<1>3. Fields!Upd(t, u) /\ UNCHANGED <<flds, next>> /\ status' = "sent"
  BY <1>2 DEF Fields!SendEnvelope, Fields!Ok
<1>4. DOMAIN u = PatchKeys /\ u.kind = "send" /\ u.at = "ok"
  BY <1>1, <1>2 DEF PatchKeys
<1>5. Pending(u, p.fields, flds', sentAs) /\ flds' = sentAs
  BY <1>1, <1>3, <1>4 DEF Pending
<1>6. Numbered'
  BY <1>1, <1>3, NumberedKept
<1>7. QED
  BY <1>3, <1>4, <1>5, <1>6, FieldsServed

LEMMA FieldsServe == ASSUME Composed, FieldsInv, NEW t \in tasks, Fields!Serve(t) PROVE FieldsInv'
BY FieldsGet, FieldsFail, FieldsAddField, FieldsUpdate, FieldsDelete, FieldsSend DEF Fields!Serve

\* The answer to the only request is heard.
LEMMA FieldsHeard ==
  ASSUME Composed, FieldsInv, NEW t \in tasks, Fields!Drop(t), UNCHANGED <<flds, next, status, sentAs>>, DOMAIN p' = BoardKeys,
         p'.nudge = p.nudge, p'.drag = p.drag, p'.screen \in {"fields", "summary"},
         p'.screen = "fields" => status = "draft" /\ p'.fields = flds
  PROVE  FieldsInv'
<1>1. tasks' = {} /\ Resting
  BY FieldsTask DEF Fields!Drop
<1>2. QED
  BY <1>1, FieldsQuiet DEF Resting

LEMMA FieldsAnswer == ASSUME Composed, FieldsInv, NEW t \in tasks, Fields!Answer(t) PROVE FieldsInv'
<1>1. /\ DOMAIN t = PatchKeys /\ p.screen = "fields" /\ Numbered /\ Pending(t, p.fields, flds, sentAs) /\ DOMAIN p = BoardKeys
      /\ t.kind # "send" \/ t.at # "ok" => status = "draft"
  BY FieldsTask DEF FieldsInv
<1>2. t.at # "sent" /\ UNCHANGED <<flds, next, status, sentAs>> /\ (Fields!SetEnv(t) \/ Fields!Added(t) \/ Fields!Patched(t) \/ Fields!Sent(t))
  BY <1>1 DEF Fields!Answer, Fields!Keep, Fields!service, Fields!Mounted
<1>3. CASE Fields!SetEnv(t)
  <2>1. t.kind = "get" /\ t.at = "ok" /\ t.view = flds
    BY <1>1, <1>2, <1>3 DEF Fields!SetEnv, Pending
  <2>2. p' = [p EXCEPT !.fields = t.view] /\ Fields!Drop(t)
    BY <1>3, <2>1 DEF Fields!SetEnv
  <2>3. DOMAIN p' = BoardKeys /\ p'.nudge = p.nudge /\ p'.drag = p.drag /\ p'.screen = p.screen /\ p'.fields = flds
    BY <1>1, <2>1, <2>2 DEF BoardKeys
  <2>4. QED
    BY <1>1, <1>2, <2>1, <2>2, <2>3, FieldsHeard
<1>4. CASE Fields!Added(t)
  <2>1. PICK temps : temps = {f \in p.fields : f.id = t.field.id}
    OBVIOUS
  <2>2. t.kind = "add" /\ Fields!Drop(t) /\ t.field.id < 0 /\ t.field.id \in Int /\ DOMAIN t.field = FieldKeys
    BY <1>1, <1>4 DEF Fields!Added, Pending
  <2>3. \A f \in flds : f.id > 0 /\ f.id \in Nat /\ f.id # t.field.id
    BY <1>1, <2>2 DEF Numbered
  <2>4. CASE t.at = "ok"
    <3>1. PICK g \in flds : g = [t.field EXCEPT !.id = t.id] /\ p.fields = (flds \ {g}) \cup {t.field}
      BY <1>1, <2>2, <2>4 DEF Pending
    <3>2. temps = {t.field}
      BY <2>1, <2>3, <3>1
    <3>3. {[f EXCEPT !.id = t.id] : f \in IF t.what = "copy" \/ temps = {} THEN temps ELSE {t.field}} = {g}
      BY <3>1, <3>2
    <3>4. p' = [p EXCEPT !.fields = (@ \ temps) \cup {g}, !.sel = t.id]
      BY <1>4, <2>1, <2>4, <3>3 DEF Fields!Added
    <3>5. (p.fields \ temps) \cup {g} = flds
      BY <2>3, <3>1, <3>2
    <3>6. DOMAIN p' = BoardKeys /\ p'.nudge = p.nudge /\ p'.drag = p.drag /\ p'.screen = p.screen /\ p'.fields = flds
      BY <1>1, <3>4, <3>5 DEF BoardKeys
    <3>7. QED
      BY <1>1, <1>2, <2>2, <3>6, FieldsHeard
  <2>5. CASE t.at # "ok"
    <3>1. p.fields = flds \cup {t.field}
      BY <1>1, <2>2, <2>5 DEF Pending
    <3>2. p' = [p EXCEPT !.fields = @ \ temps, !.error = @ \/ t.what # "copy"]
      BY <1>4, <2>1, <2>5 DEF Fields!Added
    <3>3. p.fields \ temps = flds
      BY <2>1, <2>3, <3>1
    <3>4. DOMAIN p' = BoardKeys /\ p'.nudge = p.nudge /\ p'.drag = p.drag /\ p'.screen = p.screen /\ p'.fields = flds
      BY <1>1, <3>2, <3>3 DEF BoardKeys
    <3>5. QED
      BY <1>1, <1>2, <2>2, <3>4, FieldsHeard
  <2>6. QED
    BY <2>4, <2>5
<1>5. CASE Fields!Patched(t)
  <2>1. t.kind \in {"patch", "remove"} /\ p' = p /\ status = "draft"
    BY <1>1, <1>5 DEF Fields!Patched
  <2>2. CASE t.at = "failed"
    <3>1. PICK u : u = [Fields!Blank EXCEPT !.n = t.n]
      OBVIOUS
    <3>2. Fields!Upd(t, u)
      BY <1>5, <2>2, <3>1 DEF Fields!Patched, Fields!reload
    <3>3. DOMAIN u = PatchKeys /\ u.kind = "get" /\ u.at = "sent"
      BY <3>1 DEF Fields!Blank, PatchKeys
    <3>4. Pending(u, p.fields, flds', sentAs) /\ Numbered'
      BY <1>1, <1>2, <3>3, NumberedKept DEF Pending
    <3>5. QED
      BY <1>2, <2>1, <3>2, <3>3, <3>4, FieldsServed
  <2>3. CASE t.at # "failed"
    <3>1. Fields!Drop(t)
      BY <1>5, <2>3 DEF Fields!Patched
    <3>2. p.fields = flds
      BY <1>1, <1>2, <2>1, <2>3 DEF Pending
    <3>3. QED
      BY <1>1, <1>2, <2>1, <3>1, <3>2, FieldsHeard
  <2>4. QED
    BY <2>2, <2>3
<1>6. CASE Fields!Sent(t)
  <2>1. t.kind = "send" /\ Fields!Drop(t) /\ p.fields = flds
    BY <1>1, <1>6 DEF Fields!Sent, Pending
  <2>2. CASE t.at = "ok"
    <3>1. p' = [p EXCEPT !.screen = "summary"]
      BY <1>6, <2>2 DEF Fields!Sent
    <3>2. DOMAIN p' = BoardKeys /\ p'.nudge = p.nudge /\ p'.drag = p.drag /\ p'.screen = "summary"
      BY <1>1, <3>1 DEF BoardKeys
    <3>3. QED
      BY <1>2, <2>1, <3>2, FieldsHeard
  <2>3. CASE t.at # "ok"
    <3>1. p' = [p EXCEPT !.error = TRUE]
      BY <1>6, <2>3 DEF Fields!Sent
    <3>2. DOMAIN p' = BoardKeys /\ p'.nudge = p.nudge /\ p'.drag = p.drag /\ p'.screen = p.screen /\ p'.fields = p.fields
      BY <1>1, <3>1 DEF BoardKeys
    <3>3. QED
      BY <1>1, <1>2, <2>1, <2>3, <3>2, FieldsHeard
  <2>4. QED
    BY <2>2, <2>3
<1>7. QED
  BY <1>2, <1>3, <1>4, <1>5, <1>6

LEMMA FieldsStep == ASSUME Composed, FieldsInv, [Fields!Next]_Fields!vars PROVE FieldsInv'
<1>1. CASE UNCHANGED Fields!vars
  <2>1. UNCHANGED <<status, flds, next, p, tasks, sentAs>>
    BY <1>1 DEF Fields!vars
  <2>2. Numbered' <=> Numbered
    BY <2>1 DEF Numbered
  <2>3. (Resting' <=> Resting) /\ (Nudged' <=> Nudged)
    BY <2>1 DEF Resting, Nudged, Changed
  <2>4. QED
    BY <2>1, <2>2, <2>3 DEF FieldsInv
<1>2. CASE Fields!Next
  BY <1>2, FieldsLook, FieldsReturn, FieldsAdd, FieldsPatch, FieldsMoved, FieldsNudged, FieldsKeyed, FieldsRemove, FieldsSending, FieldsServe,
     FieldsAnswer DEF Fields!Next
<1>3. QED
  BY <1>1, <1>2

\* When no answer is awaited and no nudge is to be saved, the page of a
\* draft shows the fields the service keeps, wherever the work went.
THEOREM FieldsSettled == ASSUME Composed PROVE Fields!Spec => []Fields!Settled
<1>1. ASSUME FieldsInv PROVE Fields!Settled
  BY <1>1 DEF FieldsInv, Fields!Settled
<1>2. QED
  BY <1>1, FieldsInit, FieldsStep, PTL DEF Fields!Spec

\* What an envelope is sent with is what the page showed at Send.
THEOREM FieldsSentAsShown == ASSUME Composed PROVE Fields!Spec => []Fields!SentAsShown
<1>1. ASSUME FieldsInv PROVE Fields!SentAsShown
  BY <1>1 DEF FieldsInv, Fields!SentAsShown
<1>2. QED
  BY <1>1, FieldsInit, FieldsStep, PTL DEF Fields!Spec

\* The summary of a sent envelope is left for the list only.
LEMMA FieldsSummary == ASSUME Composed, FieldsInv, [Fields!Next]_Fields!vars, p.screen = "summary" PROVE p'.screen \in {"summary", "left"}
<1>1. tasks = {} /\ Resting /\ p.nudge = NONE /\ DOMAIN p = BoardKeys
  BY DEF FieldsInv, Resting
<1>2. ~Fields!Editing /\ ~Fields!Waits
  BY DEF Fields!Editing, Fields!Waits, Composed
<1>3. p' = p \/ Fields!Return
  BY <1>1, <1>2 DEF Fields!Next, Fields!vars, Fields!Choose, Fields!Select, Fields!Leave, Fields!duplicateField, Fields!setFieldRequired,
     Fields!setFieldMeta, Fields!startMove, Fields!removeField, Fields!reassignField, Fields!onKey, Fields!drop, Fields!onFieldUp,
     Fields!NudgeSave, Fields!send, Composed
<1>4. Fields!Return => p'.screen = "left"
  BY <1>1 DEF Fields!Return, Fields!Set, BoardKeys
<1>5. QED
  BY <1>3, <1>4

THEOREM FieldsSummaryStays == ASSUME Composed PROVE Fields!Spec => [][Fields!SummaryStays]_Fields!vars
<1>1. ASSUME FieldsInv, [Fields!Next]_Fields!vars PROVE [Fields!SummaryStays]_Fields!vars
  BY <1>1, FieldsSummary DEF Fields!SummaryStays
<1>2. QED
  BY <1>1, FieldsInit, FieldsStep, PTL DEF Fields!Spec

\* A sent envelope has a field for every signer, whatever the page does:
\* the service looks once more, and nothing changes the fields afterwards.
THEOREM FieldsEverySigner == Fields!Spec => []Fields!EverySigner
<1>1. Fields!Init => Fields!EverySigner
  BY DEF Fields!Init, Fields!EverySigner
<1>2. ASSUME Fields!EverySigner, [Fields!Next]_Fields!vars PROVE Fields!EverySigner'
  <2>1. CASE UNCHANGED <<status, flds>>
    BY <1>2, <2>1 DEF Fields!EverySigner
  <2>2. CASE \E t \in tasks : Fields!AddField(t) \/ Fields!UpdateField(t) \/ Fields!DeleteField(t)
    BY <2>2 DEF Fields!AddField, Fields!UpdateField, Fields!DeleteField, Fields!Draft, Fields!EverySigner
  <2>3. CASE \E t \in tasks : Fields!SendEnvelope(t)
    BY <2>3 DEF Fields!SendEnvelope, Fields!EverySigner
  <2>4. QED
    <3>1. CASE \E t \in tasks : Fields!Serve(t)
      BY <2>1, <2>2, <2>3, <3>1 DEF Fields!Serve, Fields!GetEnvelope, Fields!Fail, Fields!service
    <3>2. CASE UNCHANGED Fields!vars \/ (\E t \in tasks : Fields!Answer(t))
      BY <2>1, <3>2 DEF Fields!vars, Fields!Answer, Fields!Keep, Fields!service
    <3>3. CASE ~(\E t \in tasks : Fields!Serve(t) \/ Fields!Answer(t)) /\ Fields!Next
      <4>1. UNCHANGED <<status, flds>>
        BY <3>3 DEF Fields!Next, Fields!Choose, Fields!Select, Fields!Leave, Fields!duplicateField, Fields!setFieldRequired, Fields!Place,
          Fields!setFieldMeta, Fields!startMove, Fields!removeField, Fields!reassignField, Fields!onKey, Fields!drop, Fields!onFieldUp,
          Fields!NudgeSave, Fields!send, Fields!Return, Fields!Patch, Fields!Set, Fields!Keep, Fields!service
      <4>2. QED
        BY <2>1, <4>1
    <3>4. QED
      BY <1>2, <3>1, <3>2, <3>3
<1>3. QED
  BY <1>1, <1>2, PTL DEF Fields!Spec

----------------------------------------------------------------------------
(* The first step of an envelope.                                          *)

CONSTANTS Persons, Docs, Dialog
VARIABLES subj, recs, discarded, typed
Setup == INSTANCE SignSetup

\* The user waits for the answers, and no request fails.
Answered == Patient /\ ~Faults

WizardKeys == {"step", "view", "rows", "touched", "subject", "edited", "attaching", "error", "modal", "mrows", "saving"}
DraftKeys == {"kind", "n", "doc", "subj", "dels", "adds", "patch", "at", "view"}
DraftKinds == {"get", "attach", "detach", "save", "recipients", "discard"}
OnlyOne == /\ DOMAIN p = WizardKeys /\ p.step \in {"setup", "fields", "left"}
           /\ (\A t, u \in tasks : t = u) /\ \A t \in tasks : DOMAIN t = DraftKeys /\ t.kind \in DraftKinds
Plain(t) == ~t.patch /\ t.dels = {} /\ t.adds = {}
NewTask(t, r) == /\ DOMAIN t = DraftKeys /\ t.kind = r.kind /\ t.doc = r.doc /\ t.subj = r.subj /\ t.dels = r.dels
                 /\ t.adds = r.adds /\ t.patch = r.patch /\ t.at = r.at /\ t.view = r.view

LEMMA SetupSent == ASSUME tasks = {}, NEW r, DOMAIN r = DraftKeys, Setup!Send(r) PROVE \E u : tasks' = {u} /\ NewTask(u, r)
<1>1. PICK u : u = Setup!Request(r)
  OBVIOUS
<1>2. tasks' = {u}
  BY <1>1 DEF Setup!Send
<1>3. NewTask(u, r)
  BY <1>1 DEF Setup!Request, NewTask, DraftKeys
<1>4. QED
  BY <1>2, <1>3

LEMMA BlankIs == /\ DOMAIN Setup!Blank = DraftKeys /\ Setup!Blank.kind = "get" /\ Setup!Blank.at = "sent" /\ Plain(Setup!Blank)
BY DEF Setup!Blank, DraftKeys, Plain
LEMMA StepIs ==
  ASSUME NEW page, DOMAIN page = WizardKeys
  PROVE  /\ DOMAIN Setup!SetupStep(page) = WizardKeys /\ Setup!SetupStep(page).step = page.step /\ Setup!SetupStep(page).view = page.view
         /\ Setup!SetupStep(page).error = page.error
         /\ Setup!SetupStep(page).rows = Setup!Who(page.view.recs) /\ Setup!SetupStep(page).modal = page.modal
BY DEF Setup!SetupStep, WizardKeys
LEMMA SetupOne ==
  ASSUME OnlyOne, NEW t \in tasks, NEW u
  PROVE  tasks = {t} /\ (Setup!Upd(t, u) => tasks' = {u}) /\ (Setup!Drop(t) => tasks' = {})
BY DEF OnlyOne, Setup!Upd, Setup!Drop

DocDue(t, page, d) ==
  /\ t.at \in {"sent", "ok", "failed"}
  /\ t.kind = "get" => Plain(t) /\ (t.at = "ok" => t.view.doc = d)
  /\ t.kind = "recipients" /\ ~page.error /\ page.view # NONE => page.view.doc = d
DocInv == /\ OnlyOne /\ \A t \in tasks : DocDue(t, p, doc)
          /\ tasks = {} /\ p.step # "left" /\ ~p.error /\ p.view # NONE => p.view.doc = doc

LEMMA DocInit == Setup!Init => DocInv
<1>1. ASSUME Setup!Init PROVE DOMAIN Setup!Blank = DraftKeys /\ DocDue(Setup!Blank, p, doc) /\ tasks = {Setup!Blank} /\ Setup!Blank.kind = "get"
  BY <1>1, BlankIs DEF Setup!Init, DocDue
<1>2. ASSUME Setup!Init PROVE DOMAIN p = WizardKeys /\ p.step = "setup"
  BY <1>2 DEF Setup!Init, WizardKeys
<1>3. QED
  BY <1>1, <1>2 DEF DocInv, OnlyOne, DraftKinds

\* What the service makes of a request.
LEMMA SetupServed ==
  ASSUME OnlyOne, NEW t \in tasks, t.kind = "get" => Plain(t), Setup!Serve(t)
  PROVE  \E u : /\ tasks' = {u} /\ DOMAIN u = DraftKeys /\ u.kind = t.kind /\ u.at \in {"sent", "ok", "failed"} /\ (Plain(t) => Plain(u))
                /\ doc' = doc \/ t.kind \in {"attach", "detach"}
                /\ t.kind = "get" /\ u.at = "ok" => u.view = Setup!View /\ doc' = doc
<1>0. DOMAIN t = DraftKeys /\ t.at = "sent" /\ UNCHANGED <<p, typed>>
  BY DEF OnlyOne, Setup!Serve
<1>1. CASE Setup!GetEnvelope(t)
  <2>1. PICK u : u = [t EXCEPT !.at = "ok", !.view = Setup!View]
    OBVIOUS
  <2>2. Setup!Upd(t, u) /\ UNCHANGED doc /\ t.kind = "get"
    BY <1>1, <2>1 DEF Setup!GetEnvelope, Setup!service
  <2>3. DOMAIN u = DraftKeys /\ u.kind = t.kind /\ u.at = "ok" /\ u.view = Setup!View /\ (Plain(t) => Plain(u))
    BY <1>0, <2>1 DEF DraftKeys, Plain
  <2>4. QED
    BY <2>2, <2>3, SetupOne
<1>2. CASE Setup!Attach(t) \/ Setup!Nothing(t) \/ Setup!Discard(t)
  <2>1. PICK u : u = [t EXCEPT !.at = "ok"]
    OBVIOUS
  <2>2. Setup!Upd(t, u) /\ t.kind # "get" /\ (doc' = doc \/ t.kind \in {"attach", "detach"})
    BY <1>2, <2>1 DEF Setup!Attach, Setup!Nothing, Setup!Discard, Setup!service
  <2>3. DOMAIN u = DraftKeys /\ u.kind = t.kind /\ u.at = "ok" /\ (Plain(t) => Plain(u))
    BY <1>0, <2>1 DEF DraftKeys, Plain
  <2>4. QED
    BY <2>2, <2>3, SetupOne
<1>3. CASE Setup!Fail(t)
  <2>1. PICK u : u = [t EXCEPT !.at = "failed"]
    OBVIOUS
  <2>2. Setup!Upd(t, u) /\ UNCHANGED doc
    BY <1>3, <2>1 DEF Setup!Fail, Setup!service
  <2>3. DOMAIN u = DraftKeys /\ u.kind = t.kind /\ u.at = "failed" /\ (Plain(t) => Plain(u))
    BY <1>0, <2>1 DEF DraftKeys, Plain
  <2>4. QED
    BY <2>2, <2>3, SetupOne
<1>4. CASE Setup!UpdateEnvelope(t) \/ Setup!DeleteRecipient(t) \/ Setup!AddRecipient(t)
  <2>1. UNCHANGED doc /\ ~Plain(t)
    BY <1>4 DEF Setup!UpdateEnvelope, Setup!DeleteRecipient, Setup!AddRecipient, Plain
  <2>2. PICK u : /\ Setup!Upd(t, u) /\ DOMAIN u = DraftKeys /\ u.kind = t.kind /\ u.at \in {"sent", "ok"}
    <3>1. CASE Setup!UpdateEnvelope(t)
      <4>1. PICK at : at = IF Setup!Done([t EXCEPT !.patch = FALSE]) THEN "ok" ELSE "sent"
        OBVIOUS
      <4>2. PICK u : u = [t EXCEPT !.patch = FALSE, !.at = at]
        OBVIOUS
      <4>3. Setup!Upd(t, u)
        BY <3>1, <4>1, <4>2 DEF Setup!UpdateEnvelope
      <4>4. DOMAIN u = DraftKeys /\ u.kind = t.kind /\ u.at \in {"sent", "ok"}
        BY <1>0, <4>1, <4>2 DEF DraftKeys
      <4>5. QED
        BY <4>3, <4>4
    <3>2. CASE Setup!DeleteRecipient(t)
      <4>1. PICK i \in t.dels : LET u == [t EXCEPT !.dels = @ \ {i}] IN Setup!Upd(t, [u EXCEPT !.at = IF Setup!Done(u) THEN "ok" ELSE "sent"])
        BY <3>2 DEF Setup!DeleteRecipient
      <4>2. PICK v : v = [t EXCEPT !.dels = @ \ {i}]
        OBVIOUS
      <4>3. PICK u : u = [v EXCEPT !.at = IF Setup!Done(v) THEN "ok" ELSE "sent"]
        OBVIOUS
      <4>4. Setup!Upd(t, u)
        BY <4>1, <4>2, <4>3
      <4>5. DOMAIN u = DraftKeys /\ u.kind = t.kind /\ u.at \in {"sent", "ok"}
        BY <1>0, <4>2, <4>3 DEF DraftKeys
      <4>6. QED
        BY <4>4, <4>5
    <3>3. CASE Setup!AddRecipient(t)
      <4>1. PICK w \in t.adds : LET u == [t EXCEPT !.adds = @ \ {w}] IN Setup!Upd(t, [u EXCEPT !.at = IF Setup!Done(u) THEN "ok" ELSE "sent"])
        BY <3>3 DEF Setup!AddRecipient
      <4>2. PICK v : v = [t EXCEPT !.adds = @ \ {w}]
        OBVIOUS
      <4>3. PICK u : u = [v EXCEPT !.at = IF Setup!Done(v) THEN "ok" ELSE "sent"]
        OBVIOUS
      <4>4. Setup!Upd(t, u)
        BY <4>1, <4>2, <4>3
      <4>5. DOMAIN u = DraftKeys /\ u.kind = t.kind /\ u.at \in {"sent", "ok"}
        BY <1>0, <4>2, <4>3 DEF DraftKeys
      <4>6. QED
        BY <4>4, <4>5
    <3>4. QED
      BY <1>4, <3>1, <3>2, <3>3
  <2>3. QED
    BY <2>1, <2>2, SetupOne
<1>5. QED
  BY <1>1, <1>2, <1>3, <1>4 DEF Setup!Serve

LEMMA DocServe == ASSUME DocInv, NEW t \in tasks, Setup!Serve(t) PROVE DocInv'
<1>1. OnlyOne /\ DocDue(t, p, doc) /\ t.kind \in DraftKinds
  BY DEF DocInv, OnlyOne
<1>2. PICK u : /\ tasks' = {u} /\ DOMAIN u = DraftKeys /\ u.kind = t.kind /\ u.at \in {"sent", "ok", "failed"} /\ (Plain(t) => Plain(u))
               /\ doc' = doc \/ t.kind \in {"attach", "detach"}
               /\ t.kind = "get" /\ u.at = "ok" => u.view = Setup!View /\ doc' = doc
  BY <1>1, SetupServed DEF DocDue
<1>3. Setup!View.doc = doc /\ p' = p
  BY DEF Setup!View, Setup!Serve
<1>4. DocDue(u, p, doc')
  BY <1>1, <1>2, <1>3 DEF DocDue
<1>5. OnlyOne'
  BY <1>1, <1>2, <1>3 DEF OnlyOne
<1>6. QED
  BY <1>2, <1>3, <1>4, <1>5 DEF DocInv

\* The user, who waits for the answers.
Edits == \/ (\E w \in Persons : Setup!ToggleRow(w) \/ Setup!EditModal(w)) \/ (\E s \in Setup!Subjects : Setup!TypeSubject(s))
         \/ Setup!Back \/ Setup!OpenModal \/ Setup!CloseModal
LEMMA SetupUser ==
  ASSUME Patient, OnlyOne, Edits
  PROVE  /\ tasks = {} /\ tasks' = {} /\ UNCHANGED <<env, doc, subj, recs, next, discarded>> /\ p.step \in {"setup", "fields"}
         /\ DOMAIN p' = WizardKeys /\ p'.step \in {"setup", "fields"} /\ p'.view = p.view /\ p'.error = p.error
         /\ \/ p'.step = p.step /\ p'.rows = p.rows /\ p'.touched = p.touched
            \/ p'.step = p.step /\ p'.touched = TRUE
            \/ p.step = "fields" /\ p'.rows = Setup!Who(p.view.recs)
<1>1. DOMAIN p = WizardKeys
  BY DEF OnlyOne
<1>2. tasks = {} /\ UNCHANGED <<env, doc, subj, recs, next, discarded, tasks>> /\ p.step \in {"setup", "fields"}
  BY DEF Edits, Setup!ToggleRow, Setup!EditModal, Setup!TypeSubject, Setup!Back, Setup!OpenModal, Setup!CloseModal, Setup!OnSetup, Setup!OnFields,
     Setup!Waits, Setup!Set, Setup!service
<1>3. CASE Setup!Back
  <2>1. PICK q : q = Setup!SetupStep(p)
    OBVIOUS
  <2>2. p' = [q EXCEPT !.step = "setup"] /\ p.step = "fields"
    BY <1>3, <2>1 DEF Setup!Back, Setup!Set, Setup!OnFields
  <2>3. DOMAIN q = WizardKeys /\ q.view = p.view /\ q.error = p.error /\ q.rows = Setup!Who(p.view.recs)
    BY <1>1, <2>1, StepIs
  <2>4. QED
    BY <1>2, <2>2, <2>3 DEF WizardKeys
<1>4. CASE \E w \in Persons : Setup!ToggleRow(w)
  <2>1. PICK x : p' = [p EXCEPT !.rows = x, !.touched = TRUE]
    BY <1>4 DEF Setup!ToggleRow, Setup!Set
  <2>2. QED
    BY <1>1, <1>2, <2>1 DEF WizardKeys
<1>5. CASE (\E w \in Persons : Setup!EditModal(w)) \/ Setup!CloseModal \/ Setup!OpenModal \/ \E s \in Setup!Subjects : Setup!TypeSubject(s)
  <2>1. PICK x, y, z : p' = [p EXCEPT !.mrows = x] \/ p' = [p EXCEPT !.modal = y] \/ p' = [p EXCEPT !.modal = TRUE, !.mrows = x, !.saving = FALSE]
                       \/ p' = [p EXCEPT !.subject = z, !.edited = TRUE]
    BY <1>5 DEF Setup!EditModal, Setup!CloseModal, Setup!OpenModal, Setup!TypeSubject, Setup!Set
  <2>2. QED
    BY <1>1, <1>2, <2>1 DEF WizardKeys
<1>6. QED
  BY <1>3, <1>4, <1>5 DEF Edits

\* The requests of the user, who waits for the answers.
Asks == (\E d \in Docs : Setup!attachDoc(d)) \/ Setup!removeDoc \/ Setup!saveAndNext \/ Setup!closeSetup \/ Setup!save
LEMMA SetupAsks ==
  ASSUME Patient, OnlyOne, Asks
  PROVE  /\ tasks = {} /\ UNCHANGED <<env, doc, subj, recs, next, discarded>> /\ DOMAIN p' = WizardKeys /\ p'.view = p.view
         /\ p'.rows = p.rows /\ p'.touched = p.touched /\ p.step \in {"setup", "fields"} /\ (p.step = "setup" => p.view # NONE)
         /\ \/ tasks' = {} /\ p'.step = "left"
            \/ \E u : /\ tasks' = {u} /\ DOMAIN u = DraftKeys /\ u.at = "sent" /\ p'.step = p.step
                      /\ \/ u.kind \in {"attach", "detach"} /\ p.step = "setup" /\ Plain(u)
                         \/ u.kind = "discard" /\ p.step = "setup" /\ Plain(u) /\ p.view.doc = NONE
                         \/ \E rows : /\ u.dels = {q.id : q \in {w \in p.view.recs : w.who \notin rows}} /\ u.adds = rows \ Setup!Who(p.view.recs)
                                      /\ \/ u.kind = "save" /\ p.step = "setup"
                                         \/ u.kind = "recipients" /\ p.step = "fields" /\ p'.error = p.error
<1>1. DOMAIN p = WizardKeys
  BY DEF OnlyOne
<1>2. tasks = {} /\ UNCHANGED <<env, doc, subj, recs, next, discarded>>
  BY DEF Asks, Setup!attachDoc, Setup!removeDoc, Setup!saveAndNext, Setup!closeSetup, Setup!save, Setup!OnSetup, Setup!OnFields, Setup!Waits,
     Setup!Keep, Setup!service
<1>3. CASE \E d \in Docs : Setup!attachDoc(d)
  <2>1. PICK d \in Docs : Setup!attachDoc(d)
    BY <1>3
  <2>2. PICK r : r = [Setup!Blank EXCEPT !.kind = "attach", !.doc = d]
    OBVIOUS
  <2>3. Setup!Send(r) /\ p.step = "setup" /\ p.view # NONE /\ p' = [p EXCEPT !.attaching = TRUE, !.error = FALSE]
    BY <2>1, <2>2 DEF Setup!attachDoc, Setup!OnSetup
  <2>4. DOMAIN r = DraftKeys /\ r.kind = "attach" /\ r.at = "sent" /\ Plain(r)
    BY <2>2 DEF Setup!Blank, DraftKeys, Plain
  <2>5. PICK u : tasks' = {u} /\ NewTask(u, r)
    BY <1>2, <2>3, <2>4, SetupSent
  <2>6. DOMAIN u = DraftKeys /\ u.kind = "attach" /\ u.at = "sent" /\ Plain(u)
    BY <2>4, <2>5 DEF NewTask, Plain
  <2>7. DOMAIN p' = WizardKeys /\ p'.view = p.view /\ p'.rows = p.rows /\ p'.touched = p.touched /\ p'.step = p.step
    BY <1>1, <2>3 DEF WizardKeys
  <2>8. QED
    BY <1>2, <2>3, <2>5, <2>6, <2>7
<1>4. CASE Setup!removeDoc
  <2>1. PICK r : r = [Setup!Blank EXCEPT !.kind = "detach"]
    OBVIOUS
  <2>2. Setup!Send(r) /\ p.step = "setup" /\ p.view # NONE /\ p' = [p EXCEPT !.error = FALSE]
    BY <1>4, <2>1 DEF Setup!removeDoc, Setup!OnSetup
  <2>3. DOMAIN r = DraftKeys /\ r.kind = "detach" /\ r.at = "sent" /\ Plain(r)
    BY <2>1 DEF Setup!Blank, DraftKeys, Plain
  <2>4. PICK u : tasks' = {u} /\ NewTask(u, r)
    BY <1>2, <2>2, <2>3, SetupSent
  <2>5. DOMAIN u = DraftKeys /\ u.kind = "detach" /\ u.at = "sent" /\ Plain(u)
    BY <2>3, <2>4 DEF NewTask, Plain
  <2>6. DOMAIN p' = WizardKeys /\ p'.view = p.view /\ p'.rows = p.rows /\ p'.touched = p.touched /\ p'.step = p.step
    BY <1>1, <2>2 DEF WizardKeys
  <2>7. QED
    BY <1>2, <2>2, <2>4, <2>5, <2>6
<1>5. CASE Setup!saveAndNext
  <2>1. PICK r, rows : r = Setup!Saving("save", rows, TRUE) /\ rows = p.rows
    OBVIOUS
  <2>2. Setup!Send(r) /\ p.step = "setup" /\ p.view # NONE /\ p' = [p EXCEPT !.error = FALSE]
    BY <1>5, <2>1 DEF Setup!saveAndNext, Setup!OnSetup
  <2>3. /\ DOMAIN r = DraftKeys /\ r.kind = "save" /\ r.at = "sent"
        /\ r.dels = {q.id : q \in {w \in p.view.recs : w.who \notin rows}} /\ r.adds = rows \ Setup!Who(p.view.recs)
    BY <2>1 DEF Setup!Saving, Setup!Blank, DraftKeys
  <2>4. PICK u : tasks' = {u} /\ NewTask(u, r)
    BY <1>2, <2>2, <2>3, SetupSent
  <2>5. /\ DOMAIN u = DraftKeys /\ u.kind = "save" /\ u.at = "sent"
        /\ u.dels = {q.id : q \in {w \in p.view.recs : w.who \notin rows}} /\ u.adds = rows \ Setup!Who(p.view.recs)
    BY <2>3, <2>4 DEF NewTask
  <2>6. DOMAIN p' = WizardKeys /\ p'.view = p.view /\ p'.rows = p.rows /\ p'.touched = p.touched /\ p'.step = p.step
    BY <1>1, <2>2 DEF WizardKeys
  <2>7. QED
    BY <1>2, <2>2, <2>4, <2>5, <2>6
<1>6. CASE Setup!save
  <2>1. PICK r, rows : r = Setup!Saving("recipients", rows, FALSE) /\ rows = p.mrows
    OBVIOUS
  <2>2. Setup!Send(r) /\ p.step = "fields" /\ p' = [p EXCEPT !.saving = TRUE]
    BY <1>6, <2>1 DEF Setup!save, Setup!OnFields
  <2>3. /\ DOMAIN r = DraftKeys /\ r.kind = "recipients" /\ r.at = "sent"
        /\ r.dels = {q.id : q \in {w \in p.view.recs : w.who \notin rows}} /\ r.adds = rows \ Setup!Who(p.view.recs)
    BY <2>1 DEF Setup!Saving, Setup!Blank, DraftKeys
  <2>4. PICK u : tasks' = {u} /\ NewTask(u, r)
    BY <1>2, <2>2, <2>3, SetupSent
  <2>5. /\ DOMAIN u = DraftKeys /\ u.kind = "recipients" /\ u.at = "sent"
        /\ u.dels = {q.id : q \in {w \in p.view.recs : w.who \notin rows}} /\ u.adds = rows \ Setup!Who(p.view.recs)
    BY <2>3, <2>4 DEF NewTask
  <2>6. /\ DOMAIN p' = WizardKeys /\ p'.view = p.view /\ p'.rows = p.rows /\ p'.touched = p.touched /\ p'.step = p.step
        /\ p'.error = p.error
    BY <1>1, <2>2 DEF WizardKeys
  <2>7. QED
    BY <1>2, <2>2, <2>4, <2>5, <2>6
<1>7. CASE Setup!closeSetup
  <2>1. p.step = "setup" /\ p.view # NONE
    BY <1>7 DEF Setup!closeSetup, Setup!OnSetup
  <2>2. CASE p.view.doc = NONE
    <3>1. PICK r : r = [Setup!Blank EXCEPT !.kind = "discard"]
      OBVIOUS
    <3>2. Setup!Send(r) /\ p' = p
      BY <1>7, <2>2, <3>1 DEF Setup!closeSetup
    <3>3. DOMAIN r = DraftKeys /\ r.kind = "discard" /\ r.at = "sent" /\ Plain(r)
      BY <3>1 DEF Setup!Blank, DraftKeys, Plain
    <3>4. PICK u : tasks' = {u} /\ NewTask(u, r)
      BY <1>2, <3>2, <3>3, SetupSent
    <3>5. DOMAIN u = DraftKeys /\ u.kind = "discard" /\ u.at = "sent" /\ Plain(u)
      BY <3>3, <3>4 DEF NewTask, Plain
    <3>6. QED
      BY <1>1, <1>2, <2>1, <2>2, <3>2, <3>4, <3>5
  <2>3. CASE p.view.doc # NONE
    <3>1. p' = [p EXCEPT !.step = "left"] /\ tasks' = tasks
      BY <1>7, <2>3 DEF Setup!closeSetup
    <3>2. DOMAIN p' = WizardKeys /\ p'.view = p.view /\ p'.rows = p.rows /\ p'.touched = p.touched /\ p'.step = "left"
      BY <1>1, <3>1 DEF WizardKeys
    <3>3. QED
      BY <1>2, <2>1, <3>1, <3>2
  <2>4. QED
    BY <2>2, <2>3
<1>8. QED
  BY <1>3, <1>4, <1>5, <1>6, <1>7 DEF Asks

\* An answer is heard, or the envelope is asked for again.
LEMMA SetupAnswer ==
  ASSUME OnlyOne, NEW t \in tasks, Setup!Answer(t)
  PROVE  /\ UNCHANGED <<env, doc, subj, recs, next, discarded>> /\ DOMAIN p' = WizardKeys /\ t.at # "sent" /\ p'.step \in {"setup", "fields", "left"}
         /\ \/ p.step = "left" /\ tasks' = {} /\ p' = p
            \/ /\ t.kind = "get" /\ t.at = "failed" /\ tasks' = {} /\ p'.error = TRUE
            \/ /\ t.kind = "get" /\ t.at # "failed" /\ tasks' = {} /\ p'.view = t.view /\ p'.step = p.step
               /\ \/ p.view = NONE /\ p'.rows = Setup!Who(t.view.recs)
                  \/ p.view # NONE /\ p'.rows = p.rows /\ p'.touched = p.touched
            \/ /\ t.at # "ok" /\ tasks' = {} /\ p'.step = p.step /\ p'.view = p.view
               /\ \/ t.kind \in {"attach", "detach", "save"} /\ (t.at = "failed" => p'.error = TRUE)
                  \/ t.kind = "recipients" /\ p'.error = p.error
            \/ t.kind = "discard" /\ tasks' = {} /\ p'.step = "left"
            \/ /\ t.kind \in {"attach", "detach", "save", "recipients"} /\ t.at = "ok"
               /\ (\E u : tasks' = {u} /\ DOMAIN u = DraftKeys /\ u.kind = "get" /\ u.at = "sent" /\ Plain(u))
               /\ p'.view = p.view /\ p'.rows = p.rows /\ p'.touched = p.touched
               /\ p'.step = IF t.kind = "save" THEN "fields" ELSE p.step
<1>1. DOMAIN p = WizardKeys /\ t.at # "sent" /\ UNCHANGED <<env, doc, subj, recs, next, discarded>> /\ p.step \in {"setup", "fields", "left"}
  BY DEF OnlyOne, Setup!Answer, Setup!Keep, Setup!service
<1>2. Setup!reload(t) => \E u : tasks' = {u} /\ DOMAIN u = DraftKeys /\ u.kind = "get" /\ u.at = "sent" /\ Plain(u)
  <2>1. PICK u : u = [Setup!Blank EXCEPT !.n = t.n]
    OBVIOUS
  <2>2. DOMAIN u = DraftKeys /\ u.kind = "get" /\ u.at = "sent" /\ Plain(u)
    BY <2>1 DEF Setup!Blank, DraftKeys, Plain
  <2>3. Setup!reload(t) => tasks' = {u}
    BY <2>1, SetupOne DEF Setup!reload
  <2>4. QED
    BY <2>2, <2>3
<1>3. Setup!Drop(t) => tasks' = {}
  BY SetupOne
<1>4. CASE p.step = "left"
  BY <1>1, <1>3, <1>4 DEF Setup!Answer
<1>5. CASE Setup!SetEnv(t)
  <2>1. t.kind = "get" /\ tasks' = {}
    BY <1>3, <1>5 DEF Setup!SetEnv
  <2>2. CASE t.at = "failed"
    <3>1. p' = [p EXCEPT !.error = TRUE]
      BY <1>5, <2>2 DEF Setup!SetEnv
    <3>2. DOMAIN p' = WizardKeys /\ p'.error = TRUE /\ p'.step = p.step
      BY <1>1, <3>1 DEF WizardKeys
    <3>3. QED
      BY <1>1, <2>1, <2>2, <3>2
  <2>3. CASE t.at # "failed" /\ p.view = NONE
    <3>1. PICK q : q = [p EXCEPT !.view = t.view]
      OBVIOUS
    <3>2. p' = Setup!SetupStep(q)
      BY <1>5, <2>3, <3>1 DEF Setup!SetEnv
    <3>3. DOMAIN q = WizardKeys /\ q.view = t.view /\ q.step = p.step
      BY <1>1, <3>1 DEF WizardKeys
    <3>4. DOMAIN p' = WizardKeys /\ p'.step = q.step /\ p'.view = q.view /\ p'.rows = Setup!Who(q.view.recs)
      BY <3>2, <3>3, StepIs
    <3>5. p'.step = p.step /\ p'.view = t.view /\ p'.rows = Setup!Who(t.view.recs)
      BY <3>3, <3>4
    <3>6. QED
      BY <1>1, <2>1, <2>3, <3>4, <3>5
  <2>4. CASE t.at # "failed" /\ p.view # NONE
    <3>1. PICK s : p' = [p EXCEPT !.view = t.view, !.subject = s]
      BY <1>5, <2>4 DEF Setup!SetEnv
    <3>2. DOMAIN p' = WizardKeys /\ p'.view = t.view /\ p'.step = p.step /\ p'.rows = p.rows /\ p'.touched = p.touched
      BY <1>1, <3>1 DEF WizardKeys
    <3>3. QED
      BY <1>1, <2>1, <2>4, <3>2
  <2>5. QED
    BY <2>2, <2>3, <2>4
<1>6. CASE Setup!Attached(t)
  <2>1. PICK a, e : p' = [p EXCEPT !.attaching = a, !.error = e] /\ e = (p.error \/ t.at = "failed")
    BY <1>6 DEF Setup!Attached
  <2>2. DOMAIN p' = WizardKeys /\ p'.error = e /\ p'.step = p.step /\ p'.view = p.view /\ p'.rows = p.rows /\ p'.touched = p.touched
    BY <1>1, <2>1 DEF WizardKeys
  <2>3. t.kind \in {"attach", "detach"} /\ IF t.at = "ok" THEN Setup!reload(t) ELSE Setup!Drop(t)
    BY <1>6 DEF Setup!Attached
  <2>4. t.at = "failed" => p'.error = TRUE
    BY <2>1, <2>2
  <2>5. QED
    BY <1>1, <1>2, <1>3, <2>2, <2>3, <2>4
<1>7. CASE Setup!Saved(t)
  <2>1. t.kind = "save"
    BY <1>7 DEF Setup!Saved
  <2>2. CASE t.at = "ok"
    <3>1. Setup!reload(t) /\ p' = [p EXCEPT !.step = "fields"]
      BY <1>7, <2>2 DEF Setup!Saved
    <3>2. DOMAIN p' = WizardKeys /\ p'.step = "fields" /\ p'.view = p.view /\ p'.rows = p.rows /\ p'.touched = p.touched
      BY <1>1, <3>1 DEF WizardKeys
    <3>3. QED
      BY <1>1, <1>2, <2>1, <2>2, <3>1, <3>2
  <2>3. CASE t.at # "ok"
    <3>1. Setup!Drop(t) /\ p' = [p EXCEPT !.error = TRUE]
      BY <1>7, <2>3 DEF Setup!Saved
    <3>2. DOMAIN p' = WizardKeys /\ p'.step = p.step /\ p'.view = p.view /\ p'.error = TRUE
      BY <1>1, <3>1 DEF WizardKeys
    <3>3. QED
      BY <1>1, <1>3, <2>1, <2>3, <3>1, <3>2
  <2>4. QED
    BY <2>2, <2>3
<1>8. CASE Setup!ModalSaved(t)
  <2>1. t.kind = "recipients"
    BY <1>8 DEF Setup!ModalSaved
  <2>2. CASE t.at = "ok"
    <3>1. Setup!reload(t) /\ p' = [p EXCEPT !.modal = FALSE]
      BY <1>8, <2>2 DEF Setup!ModalSaved
    <3>2. DOMAIN p' = WizardKeys /\ p'.step = p.step /\ p'.view = p.view /\ p'.rows = p.rows /\ p'.touched = p.touched
      BY <1>1, <3>1 DEF WizardKeys
    <3>3. QED
      BY <1>1, <1>2, <2>1, <2>2, <3>1, <3>2
  <2>3. CASE t.at # "ok"
    <3>1. Setup!Drop(t) /\ p' = [p EXCEPT !.saving = FALSE]
      BY <1>8, <2>3 DEF Setup!ModalSaved
    <3>2. DOMAIN p' = WizardKeys /\ p'.step = p.step /\ p'.view = p.view /\ p'.error = p.error
      BY <1>1, <3>1 DEF WizardKeys
    <3>3. QED
      BY <1>1, <1>3, <2>1, <2>3, <3>1, <3>2
  <2>4. QED
    BY <2>2, <2>3
<1>9. CASE Setup!Discarded(t)
  <2>1. t.kind = "discard" /\ tasks' = {} /\ p' = [p EXCEPT !.step = "left"]
    BY <1>3, <1>9 DEF Setup!Discarded
  <2>2. DOMAIN p' = WizardKeys /\ p'.step = "left"
    BY <1>1, <2>1 DEF WizardKeys
  <2>3. QED
    BY <1>1, <2>1, <2>2
<1>10. QED
  BY <1>4, <1>5, <1>6, <1>7, <1>8, <1>9 DEF Setup!Answer

LEMMA DocStep == ASSUME Patient, DocInv, [Setup!Next]_Setup!vars PROVE DocInv'
<1>0. OnlyOne
  BY DEF DocInv
<1>1. CASE UNCHANGED Setup!vars \/ Setup!Sweep
  <2>1. UNCHANGED <<doc, p, tasks>>
    BY <1>1 DEF Setup!vars, Setup!Sweep
  <2>2. QED
    BY <2>1 DEF DocInv, OnlyOne, DocDue
<1>2. CASE Edits
  <2>1. OnlyOne'
    BY <1>0, <1>2, SetupUser DEF OnlyOne
  <2>2. QED
    BY <1>0, <1>2, <2>1, SetupUser DEF DocInv
<1>3. CASE Asks
  <2>1. OnlyOne'
    BY <1>0, <1>3, SetupAsks DEF OnlyOne, DraftKinds
  <2>2. tasks = {} /\ doc' = doc /\ p'.view = p.view
    BY <1>0, <1>3, SetupAsks
  <2>3. CASE tasks' = {} /\ p'.step = "left"
    BY <2>1, <2>3 DEF DocInv
  <2>4. CASE \E u : /\ tasks' = {u} /\ u.at = "sent"
                    /\ u.kind # "get" /\ (u.kind = "recipients" => p.step = "fields" /\ p'.error = p.error)
    <3>1. PICK u : /\ tasks' = {u} /\ u.at = "sent" /\ u.kind # "get" /\ (u.kind = "recipients" => p.step = "fields" /\ p'.error = p.error)
      BY <2>4
    <3>2. DocDue(u, p', doc')
      BY <2>2, <3>1 DEF DocDue, DocInv
    <3>3. QED
      BY <2>1, <3>1, <3>2 DEF DocInv
  <2>5. QED
    BY <1>0, <1>3, <2>3, <2>4, SetupAsks
<1>4. CASE \E t \in tasks : Setup!Serve(t)
  BY <1>4, DocServe
<1>5. CASE \E t \in tasks : Setup!Answer(t)
  <2>1. PICK t \in tasks : Setup!Answer(t)
    BY <1>5
  <2>2. DocDue(t, p, doc) /\ doc' = doc /\ DOMAIN p' = WizardKeys /\ p'.step \in {"setup", "fields", "left"} /\ t.at \in {"ok", "failed"}
    BY <1>0, <2>1, SetupAnswer DEF DocInv, DocDue
  <2>3. CASE tasks' = {}
    <3>1. OnlyOne'
      BY <2>2, <2>3 DEF OnlyOne
    <3>2. p'.step # "left" /\ ~p'.error /\ p'.view # NONE => p'.view.doc = doc
      BY <1>0, <2>1, <2>2, <2>3, SetupAnswer DEF DocDue
    <3>3. QED
      BY <2>2, <2>3, <3>1, <3>2 DEF DocInv
  <2>4. CASE \E u : tasks' = {u} /\ DOMAIN u = DraftKeys /\ u.kind = "get" /\ u.at = "sent" /\ Plain(u)
    BY <2>2, <2>4 DEF DocInv, OnlyOne, DraftKinds, DocDue
  <2>5. QED
    BY <1>0, <2>1, <2>3, <2>4, SetupAnswer
<1>6. QED
  BY <1>1, <1>2, <1>3, <1>4, <1>5 DEF Setup!Next, Edits, Asks

\* When the answers are in, the page shows the document that is attached, or
\* that something failed.
THEOREM SetupDocFits == ASSUME Patient PROVE Setup!Spec => []Setup!DocFits
<1>1. ASSUME DocInv PROVE Setup!DocFits
  BY <1>1 DEF DocInv, Setup!DocFits
<1>2. QED
  BY <1>1, DocInit, DocStep, PTL DEF Setup!Spec

RecsFit == /\ next \in Nat /\ (\A r \in recs : r.id \in Nat /\ r.id < next)
           /\ \A r, q \in recs : r.id = q.id \/ r.who = q.who => r = q
\* A request of a step that is shown; what a save has left to do fits the
\* recipients there are.
Due(t, page, e, d, rs) ==
  /\ t.at \in {"sent", "ok"} /\ page.step # "left"
  /\ t.kind \notin {"save", "recipients"} => Plain(t)
  /\ t.kind = "get" /\ t.at = "ok" => t.view.doc = d /\ t.view.recs = rs
  /\ (t.kind = "save" => page.step = "setup") /\ (t.kind = "recipients" => page.step = "fields")
  /\ (\A i \in t.dels : \E r \in rs : r.id = i) /\ (\A w \in t.adds, r \in rs : r.who # w)
  /\ t.kind = "discard" => d = NONE
  /\ e = "draft" \/ (t.kind = "discard" /\ t.at = "ok")
SetupInv ==
  /\ OnlyOne /\ RecsFit /\ discarded \subseteq {NONE}
  /\ \A t \in tasks : Due(t, p, env, doc, recs)
  /\ p.step # "left" /\ tasks = {} => /\ env = "draft"
                                      /\ p.view # NONE \/ p.step = "fields" => p.view.doc = doc /\ p.view.recs = recs
  /\ p.step = "setup" /\ p.view # NONE /\ ~p.touched /\ (\A t \in tasks : t.kind # "save") => p.rows = Setup!Who(recs)

LEMMA SetupInit == Setup!Init => SetupInv
<1>1. SUFFICES ASSUME Setup!Init PROVE SetupInv
  OBVIOUS
<1>2. tasks = {Setup!Blank} /\ env = "draft" /\ recs = {} /\ next = 1 /\ discarded = {} /\ p.step = "setup" /\ p.view = NONE
  BY <1>1 DEF Setup!Init
<1>3. DOMAIN p = WizardKeys
  BY <1>1 DEF Setup!Init, WizardKeys
<1>4. Due(Setup!Blank, p, env, doc, recs)
  BY <1>2, BlankIs DEF Due, Plain
<1>5. OnlyOne
  BY <1>2, <1>3, BlankIs DEF OnlyOne, DraftKinds
<1>6. QED
  BY <1>2, <1>4, <1>5 DEF SetupInv, RecsFit

LEMMA SetupAsked == ASSUME Answered, SetupInv, Asks PROVE SetupInv'
<1>0. Patient /\ OnlyOne
  BY DEF Answered, SetupInv
<1>1. /\ OnlyOne /\ tasks = {} /\ UNCHANGED <<env, doc, subj, recs, next, discarded>> /\ p.step \in {"setup", "fields"}
      /\ (p.step = "setup" => p.view # NONE) /\ p'.view = p.view /\ p'.rows = p.rows /\ p'.touched = p.touched /\ DOMAIN p' = WizardKeys
  BY <1>0, SetupAsks
<1>2. RecsFit' /\ env = "draft" /\ p.view.doc = doc /\ p.view.recs = recs
  BY <1>1 DEF SetupInv, RecsFit
<1>3. CASE tasks' = {} /\ p'.step = "left"
  BY <1>1, <1>2, <1>3 DEF SetupInv, OnlyOne
<1>4. CASE ~(tasks' = {} /\ p'.step = "left")
  <2>1. PICK u : /\ tasks' = {u} /\ DOMAIN u = DraftKeys /\ u.at = "sent" /\ p'.step = p.step
                 /\ \/ u.kind \in {"attach", "detach"} /\ p.step = "setup" /\ Plain(u)
                    \/ u.kind = "discard" /\ p.step = "setup" /\ Plain(u) /\ p.view.doc = NONE
                    \/ \E rows : /\ u.dels = {q.id : q \in {w \in p.view.recs : w.who \notin rows}} /\ u.adds = rows \ Setup!Who(p.view.recs)
                                 /\ \/ u.kind = "save" /\ p.step = "setup"
                                    \/ u.kind = "recipients" /\ p.step = "fields"
    BY <1>0, <1>4, SetupAsks
  <2>2. (\A i \in u.dels : \E r \in recs : r.id = i) /\ (\A w \in u.adds, r \in recs : r.who # w)
    <3>1. CASE Plain(u)
      BY <3>1 DEF Plain
    <3>2. ASSUME NEW rows, u.dels = {q.id : q \in {w \in p.view.recs : w.who \notin rows}}, u.adds = rows \ Setup!Who(p.view.recs)
          PROVE  (\A i \in u.dels : \E r \in recs : r.id = i) /\ (\A w \in u.adds, r \in recs : r.who # w)
      <4>1. \A w \in u.adds : \A r \in recs : r.who # w
        BY <1>2, <3>2 DEF Setup!Who
      <4>2. \A i \in u.dels : \E r \in recs : r.id = i
        BY <1>2, <3>2
      <4>3. QED
        BY <4>1, <4>2
    <3>3. QED
      BY <2>1, <3>1, <3>2
  <2>3. Due(u, p', env, doc, recs)
    BY <1>1, <1>2, <2>1, <2>2 DEF Due
  <2>4. OnlyOne'
    BY <1>1, <2>1 DEF OnlyOne, DraftKinds
  <2>5. p'.view = p.view /\ p'.rows = p.rows /\ p'.touched = p.touched
    BY <1>1
  <2>6. QED
    BY <1>1, <1>2, <2>1, <2>3, <2>4, <2>5 DEF SetupInv
<1>5. QED
  BY <1>3, <1>4

LEMMA SetupEdited == ASSUME Answered, SetupInv, Edits PROVE SetupInv'
<1>1. OnlyOne /\ tasks = {} /\ tasks' = {} /\ UNCHANGED <<env, doc, subj, recs, next, discarded>> /\ p.step \in {"setup", "fields"}
      /\ DOMAIN p' = WizardKeys /\ p'.step \in {"setup", "fields"} /\ p'.view = p.view
  BY SetupUser DEF Answered, SetupInv
<1>2. RecsFit' /\ OnlyOne' /\ env = "draft"
  BY <1>1 DEF SetupInv, RecsFit, OnlyOne
<1>3. p'.view # NONE \/ p'.step = "fields" => p'.view.doc = doc /\ p'.view.recs = recs
  BY <1>1, SetupUser DEF Answered, SetupInv
<1>4. p'.step = "setup" /\ p'.view # NONE /\ ~p'.touched => p'.rows = Setup!Who(recs)
  <2>1. p.view # NONE \/ p.step = "fields" => p.view.recs = recs
    BY <1>1 DEF SetupInv
  <2>2. \/ p'.step = p.step /\ p'.rows = p.rows /\ p'.touched = p.touched
        \/ p'.touched = TRUE
        \/ p.step = "fields" /\ p'.rows = Setup!Who(p.view.recs)
    BY <1>1, SetupUser DEF Answered
  <2>3. p.step = "setup" /\ p.view # NONE /\ ~p.touched => p.rows = Setup!Who(recs)
    BY <1>1 DEF SetupInv
  <2>4. QED
    BY <1>1, <2>1, <2>2, <2>3
<1>5. QED
  BY <1>1, <1>2, <1>3, <1>4 DEF SetupInv, Setup!Who

LEMMA DueServed ==
  ASSUME SetupInv, NEW t \in tasks, NEW u, Setup!Upd(t, u), UNCHANGED p, DOMAIN u = DraftKeys, u.kind = t.kind, RecsFit',
         Due(u, p, env', doc', recs'), discarded' \subseteq {NONE}, recs' = recs \/ t.kind \in {"save", "recipients"}
  PROVE  SetupInv'
<1>1. OnlyOne /\ tasks = {t} /\ tasks' = {u} /\ t.kind \in DraftKinds /\ Due(t, p, env, doc, recs)
  BY SetupOne DEF SetupInv, OnlyOne
<1>2. OnlyOne'
  BY <1>1 DEF OnlyOne
<1>3. Due(u, p', env', doc', recs')
  OBVIOUS
<1>4. p.step = "setup" /\ p.view # NONE /\ ~p.touched /\ t.kind # "save" => p.rows = Setup!Who(recs) /\ recs' = recs
  BY <1>1 DEF SetupInv, Due
<1>5. QED
  BY <1>1, <1>2, <1>3, <1>4 DEF SetupInv, Setup!Who

LEMMA SetupServe == ASSUME Answered, SetupInv, NEW t \in tasks, Setup!Serve(t) PROVE SetupInv'
<1>1. DOMAIN t = DraftKeys /\ t.at = "sent" /\ p' = p /\ Due(t, p, env, doc, recs) /\ RecsFit /\ env = "draft" /\ discarded \subseteq {NONE}
  BY DEF SetupInv, OnlyOne, Setup!Serve, Due
<1>2. UNCHANGED <<recs, next>> => RecsFit'
  BY <1>1 DEF RecsFit
<1>3. CASE Setup!GetEnvelope(t)
  <2>1. PICK u : u = [t EXCEPT !.at = "ok", !.view = Setup!View]
    OBVIOUS
  <2>2. Setup!Upd(t, u) /\ UNCHANGED <<env, doc, subj, recs, next, discarded>> /\ t.kind = "get"
    BY <1>3, <2>1 DEF Setup!GetEnvelope, Setup!service
  <2>3. /\ DOMAIN u = DraftKeys /\ u.kind = t.kind /\ u.at = "ok" /\ u.view = Setup!View /\ u.dels = t.dels /\ u.adds = t.adds
        /\ u.patch = t.patch
    BY <1>1, <2>1 DEF DraftKeys
  <2>4. Setup!View.doc = doc /\ Setup!View.recs = recs
    BY DEF Setup!View
  <2>5. Due(u, p, env, doc, recs)
    BY <1>1, <2>2, <2>3, <2>4 DEF Due, Plain
  <2>6. QED
    BY <1>1, <1>2, <2>2, <2>3, <2>5, DueServed
<1>4. CASE Setup!Attach(t) \/ Setup!Nothing(t) \/ Setup!Discard(t)
  <2>1. PICK u : u = [t EXCEPT !.at = "ok"]
    OBVIOUS
  <2>2. /\ Setup!Upd(t, u) /\ UNCHANGED <<subj, recs, next>>
        /\ \/ UNCHANGED <<env, discarded>> /\ t.kind \in {"attach", "detach", "recipients"}
           \/ doc' = doc /\ discarded' = discarded \cup {doc} /\ t.kind = "discard"
    BY <1>4, <2>1 DEF Setup!Attach, Setup!Nothing, Setup!Discard, Setup!service
  <2>3. DOMAIN u = DraftKeys /\ u.kind = t.kind /\ u.at = "ok" /\ u.dels = t.dels /\ u.adds = t.adds /\ u.patch = t.patch
    BY <1>1, <2>1 DEF DraftKeys
  <2>4. Due(u, p, env', doc', recs)
    BY <1>1, <2>2, <2>3 DEF Due, Plain
  <2>5. discarded' \subseteq {NONE}
    BY <1>1, <2>2 DEF Due
  <2>6. QED
    BY <1>1, <1>2, <2>2, <2>3, <2>4, <2>5, DueServed
<1>5. ~Setup!Fail(t)
  BY <1>1 DEF Setup!Fail, Setup!Draft, Setup!Missing, Due, Answered
<1>6. CASE Setup!UpdateEnvelope(t)
  <2>1. PICK at : at = IF Setup!Done([t EXCEPT !.patch = FALSE]) THEN "ok" ELSE "sent"
    OBVIOUS
  <2>2. PICK u : u = [t EXCEPT !.patch = FALSE, !.at = at]
    OBVIOUS
  <2>3. Setup!Upd(t, u) /\ UNCHANGED <<env, doc, recs, next, discarded>> /\ t.patch
    BY <1>6, <2>1, <2>2 DEF Setup!UpdateEnvelope
  <2>4. DOMAIN u = DraftKeys /\ u.kind = t.kind /\ u.at \in {"sent", "ok"} /\ u.dels = t.dels /\ u.adds = t.adds
    BY <1>1, <2>1, <2>2 DEF DraftKeys
  <2>5. Due(u, p, env, doc, recs)
    BY <1>1, <2>3, <2>4 DEF Due, Plain
  <2>6. QED
    BY <1>1, <1>2, <2>3, <2>4, <2>5, DueServed
<1>7. CASE Setup!DeleteRecipient(t)
  <2>1. PICK i \in t.dels, r \in recs : /\ r.id = i /\ recs' = recs \ {r}
                   /\ LET u == [t EXCEPT !.dels = @ \ {i}] IN Setup!Upd(t, [u EXCEPT !.at = IF Setup!Done(u) THEN "ok" ELSE "sent"])
    BY <1>7 DEF Setup!DeleteRecipient
  <2>2. PICK v : v = [t EXCEPT !.dels = @ \ {i}]
    OBVIOUS
  <2>3. PICK u : u = [v EXCEPT !.at = IF Setup!Done(v) THEN "ok" ELSE "sent"]
    OBVIOUS
  <2>4. Setup!Upd(t, u) /\ UNCHANGED <<env, doc, next, discarded>>
    BY <1>7, <2>1, <2>2, <2>3 DEF Setup!DeleteRecipient
  <2>5. DOMAIN u = DraftKeys /\ u.kind = t.kind /\ u.at \in {"sent", "ok"} /\ u.dels = t.dels \ {i} /\ u.adds = t.adds
    BY <1>1, <2>2, <2>3 DEF DraftKeys
  <2>6. t.kind \in {"save", "recipients"}
    BY <1>1, <2>1 DEF Due, Plain
  <2>7. RecsFit'
    BY <1>1, <2>1, <2>4 DEF RecsFit
  <2>8. (\A j \in u.dels : \E q \in recs' : q.id = j) /\ (\A w \in u.adds, q \in recs' : q.who # w)
    BY <1>1, <2>1, <2>5 DEF Due
  <2>9. Due(u, p, env', doc', recs')
    BY <1>1, <2>4, <2>5, <2>6, <2>8 DEF Due
  <2>10. QED
    BY <1>1, <2>4, <2>5, <2>6, <2>7, <2>9, DueServed
<1>8. CASE Setup!AddRecipient(t)
  <2>1. PICK w, r : /\ w \in t.adds /\ r = [id |-> next, who |-> w] /\ recs' = recs \cup {r}
                   /\ LET u == [t EXCEPT !.adds = @ \ {w}] IN Setup!Upd(t, [u EXCEPT !.at = IF Setup!Done(u) THEN "ok" ELSE "sent"])
    BY <1>8 DEF Setup!AddRecipient
  <2>2. PICK v : v = [t EXCEPT !.adds = @ \ {w}]
    OBVIOUS
  <2>3. PICK u : u = [v EXCEPT !.at = IF Setup!Done(v) THEN "ok" ELSE "sent"]
    OBVIOUS
  <2>4. Setup!Upd(t, u) /\ UNCHANGED <<env, doc, discarded>> /\ next' = next + 1 /\ t.dels = {}
    BY <1>8, <2>1, <2>2, <2>3 DEF Setup!AddRecipient
  <2>5. DOMAIN u = DraftKeys /\ u.kind = t.kind /\ u.at \in {"sent", "ok"} /\ u.dels = t.dels /\ u.adds = t.adds \ {w}
    BY <1>1, <2>2, <2>3 DEF DraftKeys
  <2>6. t.kind \in {"save", "recipients"}
    BY <1>1, <2>1 DEF Due, Plain
  <2>7. RecsFit'
    <3>1. PICK n \in Nat : n = next + 1
      BY <1>1 DEF RecsFit
    <3>2. next \in Nat /\ next' = n /\ next < n /\ \A q \in recs : q.id \in Nat /\ q.id < n /\ q.id # next /\ q.who # w
      BY <1>1, <2>1, <2>4, <3>1 DEF RecsFit, Due
    <3>3. r.id = next /\ r.who = w
      BY <2>1
    <3>4. QED
      BY <1>1, <2>1, <3>2, <3>3 DEF RecsFit
  <2>8. (\A j \in u.dels : \E q \in recs' : q.id = j) /\ (\A x \in u.adds, q \in recs' : q.who # x)
    BY <1>1, <2>1, <2>4, <2>5 DEF Due
  <2>9. Due(u, p, env', doc', recs')
    BY <1>1, <2>4, <2>5, <2>6, <2>8 DEF Due
  <2>10. QED
    BY <1>1, <2>4, <2>5, <2>6, <2>7, <2>9, DueServed
<1>9. QED
  BY <1>3, <1>4, <1>5, <1>6, <1>7, <1>8 DEF Setup!Serve

LEMMA SetupHeard == ASSUME Answered, SetupInv, NEW t \in tasks, Setup!Answer(t) PROVE SetupInv'
<1>1. /\ OnlyOne /\ UNCHANGED <<env, doc, subj, recs, next, discarded>> /\ DOMAIN p' = WizardKeys /\ t.at = "ok" /\ p.step \in {"setup", "fields"}
      /\ p'.step \in {"setup", "fields", "left"} /\ Due(t, p, env, doc, recs) /\ tasks = {t}
  BY SetupAnswer, SetupOne DEF SetupInv, OnlyOne, Due
<1>2. RecsFit'
  BY <1>1 DEF SetupInv, RecsFit
<1>3. CASE t.kind = "get"
  <2>1. /\ tasks' = {} /\ p'.view = t.view /\ p'.step = p.step
        /\ \/ p.view = NONE /\ p'.rows = Setup!Who(t.view.recs)
           \/ p.view # NONE /\ p'.rows = p.rows /\ p'.touched = p.touched
    BY <1>1, <1>3, SetupAnswer
  <2>2. t.view.doc = doc /\ t.view.recs = recs /\ env = "draft"
    BY <1>1, <1>3 DEF Due
  <2>3. p'.step = "setup" /\ p'.view # NONE /\ ~p'.touched => p'.rows = Setup!Who(recs)
    BY <1>1, <1>3, <2>1, <2>2 DEF SetupInv
  <2>4. OnlyOne'
    BY <1>1, <2>1 DEF OnlyOne
  <2>5. QED
    BY <1>1, <1>2, <2>1, <2>2, <2>3, <2>4 DEF SetupInv, Setup!Who
<1>4. CASE t.kind = "discard"
  <2>1. tasks' = {} /\ p'.step = "left"
    BY <1>1, <1>4, SetupAnswer
  <2>2. OnlyOne'
    BY <1>1, <2>1 DEF OnlyOne
  <2>3. QED
    BY <1>1, <1>2, <2>1, <2>2 DEF SetupInv
<1>5. CASE t.kind \in {"attach", "detach", "save", "recipients"}
  <2>1. /\ p'.view = p.view /\ p'.rows = p.rows /\ p'.touched = p.touched
        /\ p'.step = IF t.kind = "save" THEN "fields" ELSE p.step
    BY <1>1, <1>5, SetupAnswer
  <2>2. PICK u : tasks' = {u} /\ DOMAIN u = DraftKeys /\ u.kind = "get" /\ u.at = "sent" /\ Plain(u)
    BY <1>1, <1>5, SetupAnswer
  <2>3. env = "draft" /\ Due(u, p', env, doc, recs)
    BY <1>1, <1>5, <2>1, <2>2 DEF Due, Plain
  <2>4. OnlyOne'
    BY <1>1, <2>1, <2>2 DEF OnlyOne, DraftKinds
  <2>5. p'.step = "setup" /\ p'.view # NONE /\ ~p'.touched => p'.rows = Setup!Who(recs)
    BY <1>1, <1>5, <2>1 DEF SetupInv
  <2>6. QED
    BY <1>1, <1>2, <2>2, <2>3, <2>4, <2>5 DEF SetupInv, Setup!Who
<1>6. QED
  BY <1>1, <1>3, <1>4, <1>5 DEF OnlyOne, DraftKinds

LEMMA SetupAct == ASSUME Answered, SetupInv, [Setup!Next]_Setup!vars PROVE SetupInv'
<1>1. CASE UNCHANGED Setup!vars
  <2>1. UNCHANGED <<env, doc, subj, recs, next, p, tasks, discarded>>
    BY <1>1 DEF Setup!vars
  <2>2. (OnlyOne <=> OnlyOne') /\ (RecsFit <=> RecsFit')
    BY <2>1 DEF OnlyOne, RecsFit
  <2>3. QED
    BY <2>1, <2>2 DEF SetupInv, Setup!Who
<1>2. ~Setup!Sweep
  BY DEF Setup!Sweep, Answered
<1>3. CASE Setup!Next
  BY <1>2, <1>3, SetupAsked, SetupEdited, SetupServe, SetupHeard DEF Setup!Next, Edits, Asks
<1>4. QED
  BY <1>1, <1>3

LEMMA SetupAlways == ASSUME Answered PROVE Setup!Spec => []SetupInv
BY SetupInit, SetupAct, PTL DEF Setup!Spec

\* Both steps save by comparing their rows with the recipients they know of,
\* and no person becomes a recipient twice.
THEOREM SetupNoTwins == ASSUME Answered PROVE Setup!Spec => []Setup!NoTwins
<1>1. ASSUME SetupInv PROVE Setup!NoTwins
  BY <1>1 DEF SetupInv, RecsFit, Setup!NoTwins
<1>2. QED
  BY <1>1, SetupAlways, PTL

\* Until the user changes them, the rows are the recipients that are saved,
\* on the first visit and after the way back.
THEOREM SetupRowsFit == ASSUME Answered PROVE Setup!Spec => []Setup!RowsFit
<1>1. ASSUME SetupInv PROVE Setup!RowsFit
  BY <1>1 DEF SetupInv, Setup!RowsFit, Setup!OnSetup
<1>2. QED
  BY <1>1, SetupAlways, PTL

\* A wizard that is closed without a document discards a draft that has none.
THEOREM SetupDiscardsBlank == ASSUME Answered PROVE Setup!Spec => []Setup!DiscardsBlank
<1>1. ASSUME SetupInv PROVE Setup!DiscardsBlank
  BY <1>1 DEF SetupInv, Setup!DiscardsBlank
<1>2. QED
  BY <1>1, SetupAlways, PTL

----------------------------------------------------------------------------
(* The list of envelopes.                                                  *)

CONSTANTS Envelopes, PageSize, Others
VARIABLES list, query, page, dialog, error, resent, voids
Board == INSTANCE SignHome

\* The user waits for the answers, no request fails, and nobody else acts.
Quiet == Patient /\ ~Faults /\ ~Others

CallKeys == {"kind", "n", "of", "at", "list"}
AskKeys == {"kind", "of", "busy", "failed"}
Stored == [e \in {f \in Envelopes : status[f] # "gone"} |-> status[e]]
\* A call the page waits for; what it removes is what the dialog shows.
Called(t, d, s, vs) ==
  /\ DOMAIN t = CallKeys /\ t.kind \in {"list", "remove", "resend"} /\ t.at \in {"sent", "ok"}
  /\ t.kind = "list" /\ t.at = "ok" => t.list = [e \in {f \in Envelopes : s[f] # "gone"} |-> s[e]]
  /\ t.kind = "remove" => t.of \in Envelopes /\ d.busy
  /\ t.kind = "remove" /\ t.at = "sent" => s[t.of] # "gone" /\ (t.of \in vs => s[t.of] = "sent")
  /\ t.kind # "remove" => d.kind = "no"
  /\ t.kind = "resend" /\ t.at = "sent" => s[t.of] = "sent"
BoardInv ==
  /\ DOMAIN status = Envelopes /\ DOMAIN dialog = AskKeys /\ dialog.busy \in BOOLEAN
  /\ (\A t, u \in tasks : t = u) /\ \A t \in tasks : Called(t, dialog, status, voids)
  /\ dialog.kind # "no" /\ ~dialog.busy => /\ dialog.of \in Envelopes /\ status[dialog.of] # "gone"
                                           /\ dialog.kind = "void" => status[dialog.of] = "sent"
  /\ \A e \in voids : e \in Envelopes /\ status[e] # "gone"
  /\ list # NONE /\ (\A t \in tasks : t.kind = "resend") => list = Stored

LEMMA BoardInit == Board!Init => BoardInv
<1>1. SUFFICES ASSUME Board!Init PROVE BoardInv
  OBVIOUS
<1>2. PICK t : t = [kind |-> "list", n |-> 1, of |-> NONE, at |-> "sent", list |-> NONE]
  OBVIOUS
<1>3. DOMAIN t = CallKeys /\ t.kind = "list" /\ t.at = "sent" /\ tasks = {t}
  BY <1>1, <1>2 DEF Board!Init, CallKeys
<1>4. DOMAIN dialog = AskKeys /\ dialog.kind = "no" /\ dialog.busy = FALSE
  BY <1>1 DEF Board!Init, Board!NoDialog, AskKeys
<1>5. Called(t, dialog, status, voids)
  BY <1>3, <1>4 DEF Called
<1>6. DOMAIN status = Envelopes /\ voids = {} /\ list = NONE
  BY <1>1 DEF Board!Init
<1>7. QED
  BY <1>3, <1>4, <1>5, <1>6 DEF BoardInv

LEMMA BoardAlone ==
  ASSUME BoardInv, NEW t \in tasks
  PROVE  /\ tasks = {t} /\ Called(t, dialog, status, voids) /\ \A u : tasks' = (tasks \ {t}) \cup {u} => tasks' = {u}
         /\ tasks' = tasks \ {t} => tasks' = {}
BY DEF BoardInv

LEMMA RequestIs ==
  ASSUME tasks = {}, NEW kind, NEW of, Board!Send(kind, of)
  PROVE  \E u : tasks' = {u} /\ DOMAIN u = CallKeys /\ u.kind = kind /\ u.of = of /\ u.at = "sent"
<1>1. PICK u : u = Board!Request(kind, of)
  OBVIOUS
<1>2. DOMAIN u = CallKeys /\ u.kind = kind /\ u.of = of /\ u.at = "sent"
  BY <1>1 DEF Board!Request, CallKeys
<1>3. tasks' = {u}
  BY <1>1 DEF Board!Send
<1>4. QED
  BY <1>2, <1>3

\* A row of the table is an envelope of the list, with its status.
LEMMA RowIs ==
  ASSUME BoardInv, tasks = {}, NEW e \in Envelopes, Board!Row(e)
  PROVE  status[e] # "gone" /\ list[e] = status[e]
<1>1. list # NONE /\ e \in DOMAIN list
  BY DEF Board!Row, Board!pageEnvelopes, Board!filtered
<1>2. list = Stored
  BY <1>1 DEF BoardInv
<1>3. QED
  BY <1>1, <1>2 DEF Stored

LEMMA BoardDialog ==
  ASSUME Patient, BoardInv, NEW e \in Envelopes, Board!OpenVoid(e) \/ Board!OpenDelete(e) \/ Board!Cancel
  PROVE  BoardInv'
<1>1. CASE Board!Cancel
  <2>1. PICK d : d = Board!NoDialog
    OBVIOUS
  <2>2. dialog' = d /\ UNCHANGED <<status, list, tasks, voids>> /\ dialog.kind # "no" /\ ~dialog.busy
    BY <1>1, <2>1 DEF Board!Cancel, Board!Page
  <2>3. DOMAIN d = AskKeys /\ d.kind = "no" /\ d.busy = FALSE
    BY <2>1 DEF Board!NoDialog, AskKeys
  <2>4. tasks = {}
    BY <2>2 DEF BoardInv, Called
  <2>5. QED
    BY <2>2, <2>3, <2>4 DEF BoardInv, Stored
<1>2. CASE Board!OpenVoid(e) \/ Board!OpenDelete(e)
  <2>1. PICK kind, d : kind \in {"void", "delete"} /\ d = [Board!NoDialog EXCEPT !.kind = kind, !.of = e] /\ dialog' = d
                       /\ (kind = "void" => list[e] = "sent")
    BY <1>2 DEF Board!OpenVoid, Board!OpenDelete
  <2>2. tasks = {} /\ Board!Row(e) /\ UNCHANGED <<status, list, tasks, voids>>
    BY <1>2 DEF Board!OpenVoid, Board!OpenDelete, Board!May, Board!Page
  <2>3. DOMAIN d = AskKeys /\ d.kind = kind /\ d.of = e /\ d.busy = FALSE
    BY <2>1 DEF Board!NoDialog, AskKeys
  <2>4. status[e] # "gone" /\ list[e] = status[e]
    BY <2>2, RowIs
  <2>5. QED
    BY <2>1, <2>2, <2>3, <2>4 DEF BoardInv, Stored
<1>3. QED
  BY <1>1, <1>2

LEMMA BoardConfirm == ASSUME BoardInv, Board!Confirm PROVE BoardInv'
<1>1. dialog.kind # "no" /\ ~dialog.busy /\ Board!Send("remove", dialog.of) /\ UNCHANGED <<status, list>>
  BY DEF Board!Confirm, Board!Page
<1>2. tasks = {} /\ dialog.of \in Envelopes /\ status[dialog.of] # "gone" /\ (dialog.kind = "void" => status[dialog.of] = "sent")
  BY <1>1 DEF BoardInv, Called
<1>3. PICK of : of = dialog.of
  OBVIOUS
<1>4. PICK d : d = [dialog EXCEPT !.busy = TRUE, !.failed = FALSE]
  OBVIOUS
<1>5. DOMAIN d = AskKeys /\ d.busy = TRUE
  BY <1>4 DEF BoardInv, AskKeys
<1>6. dialog' = d /\ voids' = (IF dialog.kind = "void" THEN voids \cup {of} ELSE voids \ {of})
  BY <1>3, <1>4 DEF Board!Confirm
<1>7. PICK u : tasks' = {u} /\ DOMAIN u = CallKeys /\ u.kind = "remove" /\ u.of = of /\ u.at = "sent"
  BY <1>1, <1>2, <1>3, RequestIs
<1>8. Called(u, d, status, voids')
  BY <1>2, <1>3, <1>5, <1>6, <1>7 DEF Called
<1>9. \A e \in voids' : e \in Envelopes /\ status[e] # "gone"
  BY <1>2, <1>3, <1>6 DEF BoardInv
<1>10. QED
  BY <1>1, <1>5, <1>6, <1>7, <1>8, <1>9 DEF BoardInv, Stored

LEMMA BoardResend == ASSUME Patient, BoardInv, NEW e \in Envelopes, Board!resend(e) PROVE BoardInv'
<1>1. tasks = {} /\ dialog.kind = "no" /\ Board!Row(e) /\ list[e] = "sent" /\ Board!Send("resend", e) /\ UNCHANGED <<status, list, dialog, voids>>
  BY DEF Board!resend, Board!May, Board!Page
<1>2. status[e] = "sent"
  BY <1>1, RowIs
<1>3. PICK u : tasks' = {u} /\ DOMAIN u = CallKeys /\ u.kind = "resend" /\ u.of = e /\ u.at = "sent"
  BY <1>1, RequestIs
<1>4. Called(u, dialog, status, voids)
  BY <1>1, <1>2, <1>3 DEF Called
<1>5. QED
  BY <1>1, <1>3, <1>4 DEF BoardInv, Stored

LEMMA BoardServe == ASSUME Quiet, BoardInv, NEW t \in tasks, Board!Serve(t) PROVE BoardInv'
<1>1. tasks = {t} /\ Called(t, dialog, status, voids) /\ t.at = "sent" /\ UNCHANGED <<list, dialog, voids>> /\ DOMAIN status = Envelopes
  BY BoardAlone DEF Board!Serve, Board!Page, BoardInv
<1>2. ~Board!MayFail(t)
  BY <1>1 DEF Board!MayFail, Quiet, Called
<1>3. CASE Board!List(t)
  <2>1. PICK u : u = [t EXCEPT !.at = "ok", !.list = Board!Listed]
    OBVIOUS
  <2>2. tasks' = {u} /\ status' = status /\ t.kind = "list"
    BY <1>1, <1>3, <2>1 DEF Board!List
  <2>3. DOMAIN u = CallKeys /\ u.kind = "list" /\ u.at = "ok" /\ u.list = Board!Listed
    BY <1>1, <2>1, <2>2 DEF Called, CallKeys
  <2>4. Called(u, dialog, status, voids)
    BY <1>1, <2>2, <2>3 DEF Called, Board!Listed
  <2>5. QED
    BY <1>1, <2>2, <2>3, <2>4 DEF BoardInv
<1>4. CASE Board!DeleteOf(t) \/ Board!Resend(t)
  <2>1. PICK u : u = [t EXCEPT !.at = "ok"]
    OBVIOUS
  <2>2. tasks' = {u} /\ t.kind \in {"remove", "resend"}
    BY <1>1, <1>4, <2>1 DEF Board!DeleteOf, Board!Resend
  <2>3. DOMAIN u = CallKeys /\ u.kind = t.kind /\ u.at = "ok" /\ u.of = t.of
    BY <1>1, <2>1 DEF Called, CallKeys
  <2>4. Called(u, dialog, status', voids)
    BY <1>1, <2>2, <2>3 DEF Called
  <2>5. CASE Board!Resend(t)
    <3>1. status' = status
      BY <2>5 DEF Board!Resend
    <3>2. QED
      BY <1>1, <2>2, <2>3, <2>4, <2>5, <3>1 DEF BoardInv, Stored
  <2>6. CASE Board!DeleteOf(t)
    <3>1. t.kind = "remove" /\ t.of \in Envelopes /\ dialog.busy /\ (t.of \in voids => status[t.of] = "sent")
      BY <1>1, <2>6 DEF Board!DeleteOf, Called
    <3>2. status' = [status EXCEPT ![t.of] = Board!DeleteEnvelope(t.of)] /\ (status[t.of] = "sent" => Board!DeleteEnvelope(t.of) = "voided")
      BY <2>6 DEF Board!DeleteOf, Board!DeleteEnvelope
    <3>3. \A e \in voids : e \in Envelopes /\ status'[e] # "gone"
      BY <1>1, <3>1, <3>2 DEF BoardInv
    <3>4. DOMAIN status' = Envelopes
      BY <1>1, <3>2
    <3>5. QED
      BY <1>1, <2>2, <2>3, <2>4, <3>1, <3>3, <3>4 DEF BoardInv
  <2>7. QED
    BY <1>4, <2>5, <2>6
<1>5. QED
  BY <1>2, <1>3, <1>4 DEF Board!Serve

LEMMA BoardAnswer == ASSUME Quiet, BoardInv, NEW t \in tasks, Board!Answer(t) PROVE BoardInv'
<1>1. tasks = {t} /\ Called(t, dialog, status, voids) /\ t.at = "ok" /\ UNCHANGED <<status, voids>>
  BY BoardAlone DEF Board!Answer, Called
<1>2. CASE Board!Loaded(t)
  <2>1. t.kind = "list" /\ tasks' = {} /\ list' = t.list /\ dialog' = dialog
    BY <1>1, <1>2 DEF Board!Loaded
  <2>2. list' = Stored
    BY <1>1, <2>1 DEF Called, Stored
  <2>3. QED
    BY <1>1, <2>1, <2>2 DEF BoardInv, Stored
<1>3. CASE Board!Removed(t)
  <2>1. PICK u, d : u = [t EXCEPT !.kind = "list", !.of = NONE, !.at = "sent"] /\ d = Board!NoDialog
    OBVIOUS
  <2>2. tasks' = {u} /\ dialog' = d
    BY <1>1, <1>3, <2>1 DEF Board!Removed, Board!reload
  <2>3. DOMAIN u = CallKeys /\ u.kind = "list" /\ u.at = "sent" /\ DOMAIN d = AskKeys /\ d.kind = "no" /\ d.busy = FALSE
    BY <1>1, <2>1 DEF Called, CallKeys, Board!NoDialog, AskKeys
  <2>4. Called(u, d, status, voids)
    BY <2>3 DEF Called
  <2>5. QED
    BY <1>1, <2>2, <2>3, <2>4 DEF BoardInv
<1>4. CASE Board!Resent(t)
  <2>1. t.kind = "resend" /\ tasks' = {} /\ UNCHANGED <<list, dialog>>
    BY <1>1, <1>4 DEF Board!Resent
  <2>2. QED
    BY <1>1, <2>1 DEF BoardInv, Stored
<1>5. QED
  BY <1>2, <1>3, <1>4 DEF Board!Answer

LEMMA BoardStep == ASSUME Quiet, BoardInv, [Board!Next]_Board!vars PROVE BoardInv'
<1>1. CASE UNCHANGED <<status, list, dialog, tasks, voids>>
  BY <1>1 DEF BoardInv, Stored
<1>2. CASE Board!Next
  <2>1. (\E q \in {Board!Statuses, {"draft"}, {"sent"}} : Board!Search(q)) \/ (\E i \in 0..Board!Cardinality(Envelopes) : Board!Jump(i)) \/ Board!Forget
        => UNCHANGED <<status, list, dialog, tasks, voids>>
    BY DEF Board!Search, Board!Jump, Board!Forget, Board!Page
  <2>2. \A e \in Envelopes : ~Board!Progress(e)
    BY DEF Board!Progress, Quiet
  <2>3. CASE Board!Cancel
    <3>1. CASE dialog.of \in Envelopes
      BY <2>3, <3>1, BoardDialog DEF Quiet
    <3>2. CASE dialog.of \notin Envelopes
      BY <2>3, <3>2 DEF BoardInv, Board!Cancel
    <3>3. QED
      BY <3>1, <3>2
  <2>4. QED
    BY <1>1, <1>2, <2>1, <2>2, <2>3, BoardDialog, BoardConfirm, BoardResend, BoardServe, BoardAnswer DEF Board!Next, Quiet
<1>3. QED
  BY <1>1, <1>2 DEF Board!vars

\* An envelope for which only Void was confirmed is never deleted with its
\* signed copy: what the dialog was opened by is still so when the one call
\* for both is served.
THEOREM BoardVoidKeeps == ASSUME Quiet PROVE Board!Spec => []Board!VoidKeeps
<1>1. ASSUME BoardInv PROVE Board!VoidKeeps
  BY <1>1 DEF BoardInv, Board!VoidKeeps
<1>2. QED
  BY <1>1, BoardInit, BoardStep, PTL DEF Board!Spec

\* With nothing on its way the list is what the service holds.
THEOREM BoardListTrue == ASSUME Quiet PROVE Board!Spec => []Board!ListTrue
<1>1. ASSUME BoardInv PROVE Board!ListTrue
  BY <1>1 DEF BoardInv, Board!ListTrue, Stored, Board!Listed
<1>2. QED
  BY <1>1, BoardInit, BoardStep, PTL DEF Board!Spec
=============================================================================
