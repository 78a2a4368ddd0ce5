------------------------------ MODULE SignHome ------------------------------
(***************************************************************************)
(* The envelope dashboard (SignHome.tsx) and what DeleteEnvelope makes of  *)
(* its two dialogs: one call voids or deletes, by the status the service   *)
(* holds, while the dialog was opened by the status the list shows.        *)
(***************************************************************************)
EXTENDS Naturals, FiniteSets

CONSTANTS Envelopes, \* numbers, the latest first in the list
          PageSize,
          Others,    \* signers finish or decline, another page sends a draft
          Patient,   \* the user waits for the answers
          Faults,    \* requests fail
          MaxTasks, NONE

HomeAssumption == Envelopes \subseteq Nat /\ PageSize \in Nat \ {0}

VARIABLES status,  \* the service: envelope |-> status, "gone" once deleted
          list,    \* what the page holds of it, NONE before the first answer
          query,   \* the statuses the search box asks for
          page, dialog, error, resent,
          tasks,
          voids    \* history: the envelopes a Void dialog was confirmed for

vars == <<status, list, query, page, dialog, error, resent, tasks, voids>>
Closed == {"completed", "voided", "declined"}
Statuses == {"draft", "sent"} \cup Closed
NoDialog == [kind |-> "no", of |-> NONE, busy |-> FALSE, failed |-> FALSE]
Numbers == 1..MaxTasks
Request(kind, of) == [kind |-> kind, n |-> CHOOSE n \in Numbers : \A t \in tasks : t.n # n, of |-> of, at |-> "sent", list |-> NONE]
Send(kind, of) == Cardinality(tasks) < MaxTasks /\ tasks' = tasks \cup {Request(kind, of)}
Init == /\ status \in [Envelopes -> {"draft", "sent", "completed"}] /\ list = NONE /\ query = Statuses /\ page = 0
        /\ dialog = NoDialog /\ error = FALSE /\ resent = NONE /\ voids = {}
        /\ tasks = {[kind |-> "list", n |-> 1, of |-> NONE, at |-> "sent", list |-> NONE]}
----------------------------------------------------------------------------
(* What the page shows.                                                    *)

filtered == IF list = NONE THEN {} ELSE {e \in DOMAIN list : list[e] \in query}
Ceil(n) == (n + PageSize - 1) \div PageSize
totalPages == IF filtered = {} THEN 1 ELSE Ceil(Cardinality(filtered))
safePage == IF page < totalPages THEN page ELSE totalPages - 1
\* The place of an envelope is the number of those after it.
pageEnvelopes == {e \in filtered : Cardinality({f \in filtered : f > e}) \div PageSize = safePage}
Row(e) == e \in pageEnvelopes
----------------------------------------------------------------------------
(* The user.                                                               *)

May == dialog.kind = "no" /\ (Patient => tasks = {})
Page == UNCHANGED <<list, query, page>>
Search(q) == May /\ query' = q /\ page' = 0 /\ q # query /\ UNCHANGED <<status, list, dialog, error, resent, tasks, voids>>
Jump(p) == May /\ p < totalPages /\ p # page /\ page' = p /\ UNCHANGED <<status, list, query, dialog, error, resent, tasks, voids>>
OpenVoid(e) == /\ May /\ Row(e) /\ list[e] = "sent" /\ dialog' = [NoDialog EXCEPT !.kind = "void", !.of = e]
               /\ Page /\ UNCHANGED <<status, error, resent, tasks, voids>>
OpenDelete(e) == /\ May /\ Row(e) /\ list[e] # "sent" /\ dialog' = [NoDialog EXCEPT !.kind = "delete", !.of = e]
                 /\ Page /\ UNCHANGED <<status, error, resent, tasks, voids>>
Cancel == /\ dialog.kind # "no" /\ ~dialog.busy /\ dialog' = NoDialog
          /\ Page /\ UNCHANGED <<status, error, resent, tasks, voids>>
Confirm == /\ dialog.kind # "no" /\ ~dialog.busy /\ Send("remove", dialog.of)
           /\ dialog' = [dialog EXCEPT !.busy = TRUE, !.failed = FALSE]
           /\ voids' = (IF dialog.kind = "void" THEN voids \cup {dialog.of} ELSE voids \ {dialog.of})
           /\ Page /\ UNCHANGED <<status, error, resent>>
resend(e) == /\ May /\ Row(e) /\ list[e] = "sent" /\ Send("resend", e) /\ error' = FALSE
             /\ Page /\ UNCHANGED <<status, dialog, resent, voids>>
Forget == resent # NONE /\ resent' = NONE /\ Page /\ UNCHANGED <<status, dialog, error, tasks, voids>>
----------------------------------------------------------------------------
(* The service.                                                            *)

Listed == [e \in {f \in Envelopes : status[f] # "gone"} |-> status[e]]
Fails(t) == /\ tasks' = (tasks \ {t}) \cup {[t EXCEPT !.at = "failed"]} /\ UNCHANGED status
List(t) == /\ t.kind = "list" /\ tasks' = (tasks \ {t}) \cup {[t EXCEPT !.at = "ok", !.list = Listed]} /\ UNCHANGED status
\* DeleteEnvelope: a draft or a closed envelope is deleted, the signed copy
\* with it; a sent one is voided.
DeleteEnvelope(e) == IF status[e] = "sent" THEN "voided" ELSE "gone"
DeleteOf(t) == /\ t.kind = "remove" /\ status[t.of] # "gone" /\ status' = [status EXCEPT ![t.of] = DeleteEnvelope(t.of)]
             /\ tasks' = (tasks \ {t}) \cup {[t EXCEPT !.at = "ok"]}
Resend(t) == t.kind = "resend" /\ status[t.of] = "sent" /\ tasks' = (tasks \ {t}) \cup {[t EXCEPT !.at = "ok"]} /\ UNCHANGED status
MayFail(t) == Faults \/ (t.kind = "remove" /\ status[t.of] = "gone") \/ (t.kind = "resend" /\ status[t.of] # "sent")
Serve(t) == /\ t.at = "sent" /\ (List(t) \/ DeleteOf(t) \/ Resend(t) \/ (MayFail(t) /\ Fails(t)))
            /\ Page /\ UNCHANGED <<dialog, error, resent, voids>>
Progress(e) == /\ Others /\ \/ status[e] = "draft" /\ status' = [status EXCEPT ![e] = "sent"]
                            \/ status[e] = "sent" /\ \E s \in {"completed", "declined"} : status' = [status EXCEPT ![e] = s]
               /\ Page /\ UNCHANGED <<dialog, error, resent, tasks, voids>>
----------------------------------------------------------------------------
(* The answers.                                                            *)

Loaded(t) == /\ t.kind = "list" /\ tasks' = tasks \ {t}
             /\ list' = (IF t.at = "ok" THEN t.list ELSE list) /\ error' = (error \/ t.at = "failed")
             /\ UNCHANGED <<dialog, resent>>
\* The list is read again in the request's place; the dialog does not wait for it.
reload(t) == tasks' = (tasks \ {t}) \cup {[t EXCEPT !.kind = "list", !.of = NONE, !.at = "sent"]}
Removed(t) == /\ t.kind = "remove" /\ UNCHANGED <<list, error, resent>>
              /\ IF t.at = "ok" THEN reload(t) /\ dialog' = NoDialog
                 ELSE tasks' = tasks \ {t} /\ dialog' = [dialog EXCEPT !.busy = FALSE, !.failed = TRUE]
Resent(t) == /\ t.kind = "resend" /\ tasks' = tasks \ {t} /\ UNCHANGED <<list, dialog>>
             /\ resent' = (IF t.at = "ok" THEN t.of ELSE resent) /\ error' = (error \/ t.at = "failed")
Answer(t) == t.at # "sent" /\ (Loaded(t) \/ Removed(t) \/ Resent(t)) /\ UNCHANGED <<status, query, page, voids>>
Next == \/ \E q \in {Statuses, {"draft"}, {"sent"}} : Search(q)
        \/ \E p \in 0..Cardinality(Envelopes) : Jump(p)
        \/ \E e \in Envelopes : OpenVoid(e) \/ OpenDelete(e) \/ resend(e) \/ Progress(e)
        \/ Cancel \/ Confirm \/ Forget \/ \E t \in tasks : Serve(t) \/ Answer(t)
Spec == Init /\ [][Next]_vars
----------------------------------------------------------------------------
TypeOK == /\ status \in [Envelopes -> Statuses \cup {"gone"}] /\ query \subseteq Statuses /\ page \in Nat
          /\ dialog.of \in Envelopes \cup {NONE} /\ (resent = NONE \/ resent \in Envelopes)

\* An envelope for which only Void was confirmed is never deleted.
VoidKeeps == \A e \in voids : status[e] # "gone"

\* With nothing on its way the list is what the service holds.
ListTrue == tasks = {} /\ list # NONE => list = Listed

\* The table is empty only if nothing matches the search.
NoEmptyPage == filtered # {} => pageEnvelopes # {}
=============================================================================
