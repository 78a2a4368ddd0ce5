---------------------------- MODULE UploadClient ----------------------------
(***************************************************************************)
(* The web client's uploads (lib/api.ts): a batch is uploaded one file at  *)
(* a time, a small file in one request, a large one in chunks that are     *)
(* retried, under a session whose token is kept in localStorage so that a  *)
(* later upload of the same file goes on with it.  The service's side is   *)
(* the module Uploads; here it is one step a request.                      *)
(***************************************************************************)
EXTENDS Naturals, Sequences, FiniteSets

CONSTANTS Pages,     \* tabs of one browser
          Places,    \* where files go: [ws, folder]
          Batches,   \* the batches chosen: sequences of "small" and "large"
          Chunks,    \* the number of chunks of the large file
          MaxRetries,
          Chunked,   \* the service has the resumable uploads
          Faults,    \* requests that fail: a subset of {"ask", "chunk", "other", "lost"}
          Full,      \* the quota may be used up
          MaxStarts, NONE

UploadAssumption == Chunks \in Nat \ {0} /\ MaxRetries \in Nat /\ MaxStarts \in Nat

VARIABLES sessions, stored, full, \* the service: the sessions, the files, whether the quota is used up
          saved,                  \* localStorage: a token (0 is none) for every key
          up,                     \* the upload of each page
          starts                  \* history: the uploads begun

vars == <<sessions, stored, full, saved, up, starts>>
service == <<sessions, stored, full>>
\* The folder of a place, and not its workspace, is in the key.
resumeKey(place) == place.folder
Keys == {resumeKey(q) : q \in Places}
Tokens == 1..MaxStarts
Session == [tok : Tokens, place : Places, got : SUBSET (1..Chunks), dropped : BOOLEAN]
Live(tok) == {s \in sessions : s.tok = tok}
Idle == [at |-> "idle", place |-> NONE, left |-> <<>>, n |-> 0, tok |-> 0, done |-> {}, idx |-> 0, try |-> 0, ok |-> 0, told |-> "none"]
Init == /\ sessions = {} /\ stored = {} /\ full = FALSE /\ saved = [k \in Keys |-> 0] /\ starts = 0
        /\ up = [t \in Pages |-> Idle]
----------------------------------------------------------------------------
Go(t, u) == up' = [up EXCEPT ![t] = u]
Fails(t, how) == how \in Faults /\ up' = [up EXCEPT ![t].at = "over", ![t].told = "failed"]
\* The file is uploaded; the next of the batch is begun.
NextFile(u, key) ==
  LET rest == Tail(u.left)
  IN  [u EXCEPT !.left = rest, !.ok = @ + 1, !.tok = 0, !.done = {}, !.idx = 0, !.try = 0,
                !.at = IF rest = <<>> THEN "over" ELSE IF rest[1] = "small" THEN "post" ELSE IF key = 0 THEN "init" ELSE "ask",
                !.told = IF rest = <<>> THEN "ok" ELSE @]
Begin(u, key) == NextFile([u EXCEPT !.left = <<"none">> \o @, !.ok = 0], key)
uploadFiles(t, place, batch) ==
  /\ up[t].at = "idle" /\ starts < MaxStarts /\ starts' = starts + 1
  /\ Go(t, [Begin([Idle EXCEPT !.place = place, !.left = batch, !.n = starts + 1], saved[resumeKey(place)]) EXCEPT !.ok = 0])
  /\ UNCHANGED <<service, saved>>
\* The batch is answered to the page, which shows it as done.
Told(t) == up[t].at = "over" /\ Go(t, [Idle EXCEPT !.told = up[t].told]) /\ UNCHANGED <<service, saved, starts>>
Rejected(t) == up' = [up EXCEPT ![t].at = "over", ![t].told = "failed"]

File(u, kind, whole) == [n |-> u.n, kind |-> kind, place |-> u.place, whole |-> whole]
\* A small file, or a large one where there are no resumable uploads. The
\* answer may be lost.
uploadOneFile(t) ==
  /\ up[t].at = "post" /\ UNCHANGED <<saved, starts, full, sessions>>
  /\ \/ /\ ~full /\ stored' = stored \cup {File(up[t], up[t].left[1], TRUE)}
        /\ Go(t, NextFile(up[t], saved[resumeKey(up[t].place)])) \/ Fails(t, "lost")
     \/ (Fails(t, "other") \/ (full /\ Rejected(t))) /\ UNCHANGED stored

\* The session of the saved token is asked for; whatever fails means none.
Ask(t) ==
  LET u == up[t]
      tok == saved[resumeKey(u.place)]
  IN  /\ u.at = "ask" /\ UNCHANGED <<service, saved, starts>>
      /\ \/ /\ Live(tok) = {} \/ "ask" \in Faults
            /\ Go(t, [u EXCEPT !.at = "init"])
         \/ \E s \in Live(tok) : Go(t, [u EXCEPT !.at = "send", !.tok = tok, !.done = s.got])
Fresh == {k \in Tokens : Live(k) = {} /\ (\A j \in Keys : saved[j] # k) /\ (\A t \in Pages : up[t].tok # k)}
InitUpload(t) ==
  LET u == up[t]
      tok == CHOOSE k \in Fresh : \A j \in Fresh : k <= j
  IN  /\ u.at = "init" /\ UNCHANGED <<stored, full, starts>>
      /\ \/ /\ Chunked /\ ~full /\ Fresh # {}
            /\ sessions' = sessions \cup {[tok |-> tok, place |-> u.place, got |-> {}, dropped |-> FALSE]}
            /\ saved' = [saved EXCEPT ![resumeKey(u.place)] = tok]
            /\ Go(t, [u EXCEPT !.at = "send", !.tok = tok, !.done = {}])
         \/ ~Chunked /\ Go(t, [u EXCEPT !.at = "post"]) /\ UNCHANGED <<sessions, saved>>
         \/ Chunked /\ (Fails(t, "other") \/ (full /\ Rejected(t))) /\ UNCHANGED <<sessions, saved>>

\* The chunks in their order, those the service had left out.
uploadResumable(t) ==
  LET u == up[t]
      missing == {i \in 1..Chunks : i > u.idx /\ i \notin u.done}
  IN  /\ u.at = "send" /\ UNCHANGED <<service, saved, starts>>
      /\ IF missing = {} THEN Go(t, [u EXCEPT !.at = "complete"])
         ELSE Go(t, [u EXCEPT !.at = "put", !.try = 0, !.idx = CHOOSE i \in missing : \A j \in missing : i <= j])
Landed(s, i) == (sessions \ {s}) \cup {[s EXCEPT !.got = @ \cup {i}]}
Retry(t) == IF up[t].try < MaxRetries THEN Go(t, [up[t] EXCEPT !.try = @ + 1]) ELSE Rejected(t)
putChunkWithRetry(t) ==
  LET u == up[t]
  IN  /\ u.at = "put" /\ UNCHANGED <<stored, full, saved, starts>>
      /\ \/ \E s \in Live(u.tok) : /\ sessions' = Landed(s, u.idx)
                                   /\ Go(t, [u EXCEPT !.at = "send"]) \/ ("lost" \in Faults /\ Retry(t))
         \/ "chunk" \in Faults /\ Retry(t) /\ UNCHANGED sessions
         \/ Live(u.tok) = {} /\ Rejected(t) /\ UNCHANGED sessions

\* A completion the quota refuses has dropped the chunks, not their marks.
Complete(t) ==
  LET u == up[t]
  IN  /\ u.at = "complete" /\ UNCHANGED <<full, starts>>
      /\ \/ \E s \in Live(u.tok) :
              /\ s.got = 1..Chunks /\ ~s.dropped /\ ~full
              /\ stored' = stored \cup {[File(u, "large", s.got = 1..Chunks) EXCEPT !.place = s.place]}
              /\ sessions' = sessions \ {s}
              /\ \/ /\ saved' = [saved EXCEPT ![resumeKey(u.place)] = 0]
                    /\ Go(t, NextFile(u, 0))
                 \/ Fails(t, "lost") /\ UNCHANGED saved
         \/ \E s \in Live(u.tok) : /\ full /\ s.got = 1..Chunks /\ Rejected(t) /\ UNCHANGED <<stored, saved>>
                                   /\ sessions' = (sessions \ {s}) \cup {[s EXCEPT !.dropped = TRUE]}
         \/ /\ Fails(t, "other") \/ (Rejected(t) /\ \A s \in Live(u.tok) : s.dropped \/ s.got # 1..Chunks)
            /\ UNCHANGED <<sessions, stored, saved>>
Step(t) == \/ Told(t) \/ uploadOneFile(t) \/ Ask(t) \/ InitUpload(t) \/ uploadResumable(t)
           \/ putChunkWithRetry(t) \/ Complete(t)
----------------------------------------------------------------------------
\* The page is closed or loaded anew: what it was doing is over.
Reload(t) == up[t].at # "idle" /\ Go(t, Idle) /\ UNCHANGED <<service, saved, starts>>
\* The service: a session is swept a day after it was begun, room is made.
Sweep == /\ \E s \in sessions : sessions' = sessions \ {s}
         /\ UNCHANGED <<stored, full, saved, up, starts>>
Fill == Full /\ full' = ~full /\ UNCHANGED <<sessions, stored, saved, up, starts>>
Next == \/ \E t \in Pages : \/ Step(t) \/ Reload(t)
                            \/ \E q \in Places, b \in Batches : uploadFiles(t, q, b)
        \/ Sweep \/ Fill
\* Every request is answered or fails.
Spec == Init /\ [][Next]_vars /\ \A t \in Pages : WF_vars(Step(t))
----------------------------------------------------------------------------
TypeOK == /\ sessions \subseteq Session /\ \A k \in Keys : saved[k] \in Tokens \cup {0}
          /\ \A f \in stored : f.n \in 1..starts /\ f.place \in Places
          /\ \A t \in Pages : /\ up[t].at \in {"idle", "post", "ask", "init", "send", "put", "complete", "over"}
                              /\ up[t].try \in 0..MaxRetries /\ up[t].done \subseteq 1..Chunks

\* A batch is only told to be uploaded when its files are.
ToldStored == \A t \in Pages : up[t].at = "over" /\ up[t].told = "ok" =>
                Cardinality({f \in stored : f.n = up[t].n /\ f.whole}) = up[t].ok

\* What is uploaded is where it was dropped.
Dropped == \A t \in Pages, f \in stored : up[t].at # "idle" /\ f.n = up[t].n => f.place = up[t].place

\* An upload that is begun while its session is live goes on with it.
GoesOn == \A t \in Pages : up[t].at = "ask" /\ up'[t].at = "init" => Live(saved[resumeKey(up[t].place)]) = {}

\* The token that is kept stands for a session that can be completed.
\* (Not kept by the code: see the README.)
TokenGood == \A k \in Keys, s \in sessions : s.tok = saved[k] => ~s.dropped

=============================================================================
