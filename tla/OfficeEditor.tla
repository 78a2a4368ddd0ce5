---------------------------- MODULE OfficeEditor ----------------------------
(***************************************************************************)
(* The document editor (Editor.tsx, TrilliEditor.tsx and their dialogs),   *)
(* the edit sessions it works on (officeapi, officesessions) and the       *)
(* engine in between, which holds the document, tells the pages whether it *)
(* is modified and uploads it to the session's working copy.  Users who    *)
(* open one file share its session.  A document is the set of the edits it *)
(* holds; edits are numbered as they are typed.                            *)
(***************************************************************************)
EXTENDS Integers, Sequences, FiniteSets

CONSTANTS NONE, Users, MaxDocs, MaxSess, MaxEdits,
          IdleSaves, \* the engine saves by itself
          Prompt,    \* an upload has landed before save() looks for it
          Patient,   \* a user waits for a save to end, cancels no dialog, and
                     \* reloads no page that shows unsaved edits
          Opens,     \* the files that may be opened
          Ends,      \* what else ends a document: a subset of {"logout", "expire", "trash"}
          Faults     \* requests fail

VARIABLES docs, sess, \* the service: the files and the edit sessions, as created
          eng,        \* the engine, one document per session
          page, swept \* the editor's page of each user; what the sweep has listed

vars == <<docs, sess, eng, page, swept>>
OfficeAssumption == MaxDocs \in Nat /\ MaxSess \in Nat /\ MaxEdits \in Nat /\ Ends \subseteq {"logout", "expire", "trash"}
Resume == -1
Blank == 0
Closed == [ses |-> 0, mint |-> NONE, state |-> "loading", last |-> NONE, dirty |-> FALSE, seq |-> -1,
           dialog |-> "none", busy |-> FALSE, after |-> FALSE, run |-> NONE]
\* A user has a file of before, and opens the editor.
Init == /\ docs = <<[live |-> TRUE, text |-> {0}]>> /\ sess = <<>> /\ eng = <<>> /\ swept = {}
        /\ page = [u \in Users |-> [Closed EXCEPT !.mint = Resume]]
----------------------------------------------------------------------------
(* The edit sessions.                                                      *)

Live(s) == s \in DOMAIN sess /\ sess[s].live
Current(s) == Live(s) /\ ~sess[s].old
Active(d) == d \in DOMAIN docs /\ docs[d].live
PutSeq(s) == IF Live(s) THEN sess[s].seq ELSE -1
Others(s, u) == sess[s].tokens \ {u}
\* EndUserApp: a session that others hold a token of is left, not ended.
EndForce(u) == [s \in DOMAIN sess |-> IF sess[s].owner = u THEN [sess[s] EXCEPT !.live = FALSE] ELSE sess[s]]
EndUserApp(u) == [s \in DOMAIN sess |-> IF sess[s].owner # u THEN sess[s]
                                        ELSE IF Others(s, u) # {} THEN [sess[s] EXCEPT !.tokens = @ \ {u}]
                                        ELSE [sess[s] EXCEPT !.live = FALSE]]
Touch(s) == [sess EXCEPT ![s].old = FALSE]
\* FindActiveByFile and GetActiveJoined take the newest; GetActiveUserApp the
\* one touched last, which the engine's requests decide.
Newest(S) == {s \in S : \A r \in S : r <= s}
Editing(d) == Newest({s \in DOMAIN sess : Current(s) /\ sess[s].src = d})
Own(u) == {s \in DOMAIN sess : Current(s) /\ sess[s].owner = u}
Joined(u) == Newest({s \in DOMAIN sess : Current(s) /\ u \in sess[s].tokens})

Shows(u, s, last) == page' = [page EXCEPT ![u] = [@ EXCEPT !.ses = s, !.mint = NONE, !.state = "loading", !.last = last]]
Join(u, s, last) == sess' = [Touch(s) EXCEPT ![s].tokens = @ \cup {u}] /\ Shows(u, s, last) /\ UNCHANGED eng
Create(u, d) ==
  LET text == IF d = Blank THEN {} ELSE docs[d].text
      src == IF d = Blank THEN NONE ELSE d
  IN  /\ Len(sess) < MaxSess /\ Shows(u, Len(sess) + 1, src)
      /\ sess' = Append(EndUserApp(u), [owner |-> u, tokens |-> {u}, src |-> src, work |-> text, seq |-> 0, live |-> TRUE, old |-> FALSE])
      /\ eng' = Append(eng, [doc |-> text, kept |-> text, put |-> NONE, asks |-> {}])
\* CreateSession, or GetActiveSession and then CreateSession.  A file in the
\* trash is refused; otherwise the prior session is ended before the new one is
\* made, which may fail.
Mint(u) ==
  LET d == page[u].mint
      S == IF d = Resume THEN IF Own(u) # {} THEN Own(u) ELSE Joined(u) ELSE IF d = Blank THEN {} ELSE Editing(d)
      may == d > Blank => Active(d)
      Fail == page' = [page EXCEPT ![u].mint = NONE] /\ UNCHANGED eng
  IN  /\ d # NONE /\ UNCHANGED <<docs, swept>>
      /\ \/ may /\ \E s \in S : Join(u, s, IF d = Resume THEN sess[s].src ELSE d)
         \/ may /\ S = {} /\ Create(u, IF d = Resume THEN Blank ELSE d)
         \/ ~may /\ Fail /\ UNCHANGED sess
         \/ may /\ S = {} /\ Faults /\ Fail /\ sess' = EndUserApp(u)
\* A session nobody's engine asked for in hours is listed, then removed.
Expire == "expire" \in Ends /\ UNCHANGED <<docs, eng, page>> /\
  \/ \E s \in DOMAIN sess : /\ Current(s) /\ eng[s].put = NONE /\ sess' = [sess EXCEPT ![s].old = TRUE] /\ UNCHANGED swept
  \/ swept = {} /\ swept' = {s \in DOMAIN sess : Live(s) /\ sess[s].old} /\ swept' # {} /\ UNCHANGED sess
  \/ \E s \in swept : swept' = swept \ {s} /\ sess' = [sess EXCEPT ![s].live = FALSE]
Trash(d) == "trash" \in Ends /\ Active(d) /\ docs' = [docs EXCEPT ![d].live = FALSE] /\ UNCHANGED <<sess, eng, page, swept>>
----------------------------------------------------------------------------
(* The engine.  Its news go to every page on the document: modified latches *)
(* dirty, with the put_seq of the moment; not modified only shows.         *)

Views(s) == {u \in Users : page[u].ses = s}
Modified(s) == eng[s].doc # eng[s].kept
HearModified(p) == [p EXCEPT !.state = "modified", !.dirty = TRUE, !.seq = IF p.dirty THEN p.seq ELSE PutSeq(p.ses)]
HearClean(p) == [p EXCEPT !.state = "saved"]
Tell(s, heard) == [v \in Users |-> IF v \in Views(s) THEN heard[v] ELSE page[v]]
Heard(s) == IF Modified(s) THEN Tell(s, [v \in Users |-> HearClean(page[v])]) ELSE page
Snapshot(s) == [eng[s] EXCEPT !.put = eng[s].doc, !.kept = eng[s].doc]
Fresh == IF eng = <<>> THEN 1 ELSE 1 + Cardinality(UNION {eng[s].doc : s \in DOMAIN eng} \ {0})
Edit(u) ==
  LET s == page[u].ses
  IN  /\ s # 0 /\ page[u].state # "loading" /\ page[u].dialog = "none" /\ Fresh <= MaxEdits /\ (Patient => page[u].run = NONE)
      /\ eng' = [eng EXCEPT ![s].doc = @ \cup {Fresh}]
      /\ page' = IF Modified(s) THEN page ELSE Tell(s, [v \in Users |-> HearModified(page[v])])
      /\ UNCHANGED <<docs, sess, swept>>
IdleSave(s) == /\ IdleSaves /\ eng[s].put = NONE /\ Modified(s) /\ eng' = [eng EXCEPT ![s] = Snapshot(s)]
               /\ page' = Heard(s) /\ UNCHANGED <<docs, sess, swept>>
\* Action_Save: an upload and an answer, or, with nothing to save, neither.
Acked(p) == [p EXCEPT !.state = "saved", !.run = IF @ # NONE /\ @.at = "poll" THEN [@ EXCEPT !.acked = TRUE] ELSE @]
Obey(s, u) == /\ u \in eng[s].asks /\ eng[s].put = NONE /\ UNCHANGED <<docs, sess, swept>>
              /\ \/ /\ eng' = [eng EXCEPT ![s] = [Snapshot(s) EXCEPT !.asks = @ \ {u}]]
                    /\ page' = [Heard(s) EXCEPT ![u] = IF @.ses = s THEN Acked(@) ELSE @]
                 \/ ~Modified(s) /\ eng' = [eng EXCEPT ![s].asks = @ \ {u}]
                    /\ page' \in {page, [page EXCEPT ![u] = IF @.ses = s THEN Acked(@) ELSE @]}
\* WOPIPutFile: refused when the session is gone.
Land(s) == /\ eng[s].put # NONE /\ eng' = [eng EXCEPT ![s].put = NONE] /\ UNCHANGED <<docs, page, swept>>
           /\ sess' = IF Live(s) THEN [sess EXCEPT ![s].work = eng[s].put, ![s].seq = @ + 1, ![s].old = FALSE] ELSE sess
----------------------------------------------------------------------------
(* save() and what is done with it.                                        *)

Set(u, p) == page' = [page EXCEPT ![u] = p]
At(u) == page[u].ses # 0 /\ page[u].dialog = "none" /\ page[u].state # "loading" /\ (Patient => page[u].run = NONE)
\* A page hears whether the document is modified before or after it shows it.
Loaded(u) == /\ page[u].ses # 0 /\ page[u].state = "loading" /\ UNCHANGED <<docs, sess, eng, swept>>
             /\ \/ Modified(page[u].ses) /\ \E s \in {"ready", "modified"} : Set(u, [HearModified(page[u]) EXCEPT !.state = s])
                \/ ~Modified(page[u].ses) /\ Set(u, [page[u] EXCEPT !.state = "ready"])
\* Nothing is dirty: save() is done at once.  Otherwise the engine is asked,
\* and put_seq is compared with what it was.
Begin(u, p, over, chosen) ==
  \E pre \in {PutSeq(p.ses)} \cup (IF Faults THEN {-1} ELSE {}) :
    LET run == [at |-> IF p.dirty THEN "poll" ELSE "sent", ses |-> p.ses, pre |-> pre, seq |-> p.seq, acked |-> FALSE, over |-> over,
                chosen |-> chosen, silent |-> p.dialog = "none", seen |-> eng[p.ses].doc, id |-> NONE]
    IN  /\ p.run = NONE /\ (Prompt => p.dirty \/ eng[p.ses].put = NONE) /\ Set(u, [p EXCEPT !.run = run, !.state = IF p.dirty THEN "saving" ELSE "saved"])
        /\ eng' = IF p.dirty THEN [eng EXCEPT ![p.ses].asks = @ \cup {u}] ELSE eng
        /\ UNCHANGED <<docs, sess, swept>>
\* handleSave: to the file it was saved to, or through the dialog.
Save(u) == At(u) /\ IF page[u].last = NONE THEN Set(u, [page[u] EXCEPT !.dialog = "save"]) /\ UNCHANGED <<docs, sess, eng, swept>>
                    ELSE Begin(u, page[u], page[u].last, FALSE)
SaveAs(u) == At(u) /\ Set(u, [page[u] EXCEPT !.dialog = "save"]) /\ UNCHANGED <<docs, sess, eng, swept>>
\* doSave: under a name of the folder, that file; under a free one, the file
\* it was saved to before.
Choose(u) == /\ page[u].dialog = "save" /\ ~page[u].busy
             /\ \E d \in {NONE} \cup {x \in DOMAIN docs : docs[x].live} :
                  Begin(u, [page[u] EXCEPT !.busy = TRUE], IF d # NONE THEN d ELSE page[u].last, d # NONE)
Idle(u) == LET s == page[u].run.ses IN eng[s].put = NONE /\ u \notin eng[s].asks
Proven(r) == PutSeq(r.ses) > r.pre \/ (r.seq >= 0 /\ PutSeq(r.ses) > r.seq) \/ r.acked
Polling(u) == page[u].run # NONE /\ page[u].run.at = "poll" /\ (Prompt => Idle(u)) /\ UNCHANGED <<docs, sess, eng, swept>>
Confirmed(p) == IF p.ses = p.run.ses THEN [p EXCEPT !.state = "saved", !.dirty = FALSE, !.seq = -1, !.run.at = "sent"]
                ELSE [p EXCEPT !.state = "saved", !.run.at = "sent"]
Poll(u) == Polling(u) /\ Proven(page[u].run) /\ Set(u, Confirmed(page[u]))
\* The deadline: the dialog, when it is there, goes on showing that it saves.
Deadline(u) == Polling(u) /\ (Prompt => ~Proven(page[u].run)) /\ Set(u, [page[u] EXCEPT !.state = "modified", !.run = NONE])
\* The service's SaveAs.  A file in the trash is not written: a new one is,
\* for which the silent save names no workspace there is.
Serve(u) ==
  LET r == page[u].run
      s == r.ses
      Put(d) == sess' = [sess EXCEPT ![s].src = d] /\ Set(u, [page[u] EXCEPT !.run.at = "ok", !.run.id = d])
  IN  /\ r # NONE /\ r.at = "sent" /\ UNCHANGED <<eng, swept>>
      /\ \/ Live(s) /\ r.over # NONE /\ Active(r.over) /\ docs' = [docs EXCEPT ![r.over].text = sess[s].work] /\ Put(r.over)
         \/ Live(s) /\ ~Active(r.over) /\ ~r.silent /\ Len(docs) < MaxDocs
            /\ docs' = Append(docs, [live |-> TRUE, text |-> sess[s].work]) /\ Put(Len(docs) + 1)
         \/ (~Live(s) \/ Faults \/ (~Active(r.over) /\ r.silent)) /\ Set(u, [page[u] EXCEPT !.run.at = "failed"]) /\ UNCHANGED <<docs, sess>>
Started(p, d) == [Closed EXCEPT !.mint = d, !.last = p.last, !.run = p.run]
Answer(u) ==
  LET p == page[u]
      done == [p EXCEPT !.last = p.run.id, !.dialog = IF @ = "save" THEN "none" ELSE @, !.busy = FALSE, !.after = FALSE, !.run = NONE]
  IN  /\ p.run # NONE /\ p.run.at \in {"ok", "failed"} /\ UNCHANGED <<docs, sess, eng, swept>>
      /\ Set(u, IF p.run.at = "failed" THEN [p EXCEPT !.busy = FALSE, !.run = NONE]
                ELSE IF p.after THEN Started(done, Blank) ELSE done)
----------------------------------------------------------------------------
(* Another document.                                                       *)

Start(u, d) == Set(u, Started(page[u], d)) /\ UNCHANGED <<docs, sess, eng, swept>>
hasUnsavedChanges(p) == p.state = "modified" \/ p.last = NONE
handleNew(u) == At(u) /\ IF hasUnsavedChanges(page[u]) THEN Set(u, [page[u] EXCEPT !.dialog = "confirm"]) /\ UNCHANGED <<docs, sess, eng, swept>>
                         ELSE Start(u, Blank)
Discard(u) == page[u].dialog = "confirm" /\ Start(u, Blank)
SaveFirst(u) == page[u].dialog = "confirm" /\ Set(u, [page[u] EXCEPT !.dialog = "save", !.after = TRUE]) /\ UNCHANGED <<docs, sess, eng, swept>>
\* Closing the dialog keeps what was to come after it.
Cancel(u) == /\ page[u].dialog # "none" /\ ~page[u].busy /\ ~Patient
             /\ Set(u, [page[u] EXCEPT !.dialog = "none"]) /\ UNCHANGED <<docs, sess, eng, swept>>
\* The question whether to save is the one of the first rendering, when there
\* was nothing to save: opening a file never asks.
handleOpen(u, d) == At(u) /\ d \in Opens /\ Active(d) /\ Start(u, d)
Refresh(u) == page[u].run = NONE /\ page[u].mint = NONE /\ (Patient => page[u].state # "modified") /\ Set(u, [Closed EXCEPT !.mint = Resume]) /\ UNCHANGED <<docs, sess, eng, swept>>
\* logout: the flush is bounded; then all the user's sessions go.
Logout(u) == /\ "logout" \in Ends /\ page[u].ses # 0 /\ page[u].run = NONE /\ sess' = EndForce(u)
             /\ Set(u, [Closed EXCEPT !.mint = Resume]) /\ UNCHANGED <<docs, eng, swept>>
Next == \/ \E u \in Users : \/ Mint(u) \/ Edit(u) \/ Loaded(u) \/ Save(u) \/ SaveAs(u) \/ Choose(u) \/ Poll(u) \/ Deadline(u)
                            \/ Serve(u) \/ Answer(u) \/ handleNew(u) \/ Discard(u) \/ SaveFirst(u) \/ Cancel(u)
                            \/ Refresh(u) \/ Logout(u) \/ \E d \in Opens : handleOpen(u, d)
        \/ \E s \in DOMAIN eng : IdleSave(s) \/ Land(s) \/ \E u \in Users : Obey(s, u)
        \/ Expire \/ \E d \in DOMAIN docs : Trash(d)
Spec == Init /\ [][Next]_vars
----------------------------------------------------------------------------
TypeOK == /\ Len(sess) = Len(eng) /\ Len(docs) <= MaxDocs
          /\ \A u \in Users : /\ page[u].state \in {"loading", "ready", "modified", "saving", "saved"}
                              /\ page[u].dialog \in {"none", "save", "confirm"} /\ page[u].ses \in 0..Len(sess)

\* A save that is done has put the edits of its click into the file: save()
\* "resolves once the user's edits are durable".
SavedTrue == \A u \in Users : LET r == page[u].run
                                  q == page'[u].run
                              IN  r # NONE /\ q # NONE /\ r.at = "sent" /\ q.at = "ok" => r.seen \subseteq docs'[q.id].text

\* No session ends under the hands of another user: "if other participants
\* still hold tokens on this session, the document must survive".
CoEdited == \A s \in DOMAIN sess : sess[s].live /\ ~sess'[s].live => \A u \in Users : page[u].ses = s => page'[u].ses # s

\* A page leaves a document whose edits are in no file only when the user was
\* asked ("unsaved-changes confirm modal").
AskedFirst == \A u \in Users : LET s == page[u].ses
                               IN  s # 0 /\ page'[u].ses = 0 /\ page'[u].mint # Resume /\ page[u].dialog # "confirm"
                                     => \E d \in DOMAIN docs : eng[s].doc \subseteq docs[d].text

\* A file is written over by a document that goes on from it, unless the user
\* chose it by its name.
NothingLost == \A d \in DOMAIN docs : docs[d].text \subseteq docs'[d].text
                                        \/ \E u \in Users : page[u].run # NONE /\ page[u].run.at = "sent" /\ page[u].run.over = d /\ page[u].run.chosen

\* A save that has failed can be tried again: a dialog that shows it is saving
\* has a save under way.
\* (Not kept by the code: see the README.)
Retriable == \A u \in Users : page[u].busy => page[u].run # NONE

\* A session in use is not swept: touched on every engine access "so an active
\* edit session never expires out from under the user".
\* (Not kept by the code: see the README.)
Renewed == \A s \in swept : sess[s].live /\ ~sess'[s].live => sess[s].old
=============================================================================
