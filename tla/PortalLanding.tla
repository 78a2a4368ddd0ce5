--------------------------- MODULE PortalLanding ---------------------------
(***************************************************************************)
(* The page behind a drop portal (PortalLanding.tsx) and the upload        *)
(* handler of the sharing service: files are sent one after another, and   *)
(* the password, if there is one, is tried with the first.                 *)
(***************************************************************************)
EXTENDS Naturals, Sequences, FiniteSets

CONSTANTS Files,     \* what the visitor has to send
          Protected, \* the portal has a password
          Faults,    \* the network may fail, before the service or after it
          Patient,   \* the visitor waits while files are on their way
          MaxDone    \* bound on the list

VARIABLES open,     \* the service: the portal is on
          stored,   \* the service: how often each file has been taken
          pw, wrong, \* the password typed, and the message about it
          unlocked, uploading,
          done,     \* the list of files and what became of them
          loops     \* the uploads under way: files still to send, and how the
                    \* first of them was answered
vars == <<open, stored, pw, wrong, unlocked, uploading, done, loops>>
Passwords == {"", "right", "bad"}
Init == /\ open = TRUE /\ stored = [f \in Files |-> 0] /\ pw = "" /\ wrong = FALSE /\ unlocked = FALSE
        /\ uploading = FALSE /\ done = <<>> /\ loops = <<>>

needsUnlock == Protected /\ ~unlocked
\* The password box is on the page until there is a list.
Gate == needsUnlock /\ done = <<>>
Type(p) == Gate /\ (Patient => loops = <<>>) /\ pw' = p /\ UNCHANGED <<open, stored, wrong, unlocked, uploading, done, loops>>
\* The drop zone takes files at any time; each drop runs its own loop.
handleFiles(fs) == /\ Len(loops) < 2 /\ (Patient => loops = <<>>) /\ Len(done) + Len(fs) <= MaxDone
                   /\ loops' = Append(loops, [rest |-> fs, pw |-> pw, said |-> "no", unlocked |-> unlocked])
                   /\ uploading' = TRUE /\ wrong' = FALSE /\ UNCHANGED <<open, stored, pw, unlocked, done>>
Revoke == Faults /\ open /\ open' = FALSE /\ UNCHANGED <<stored, pw, wrong, unlocked, uploading, done, loops>>

\* PortalUpload: the portal, then the password, then the file.
AuthorizedPortal(l) == Protected => l.pw = "right"
Reply(l) == {"network" : x \in IF Faults THEN {1} ELSE {}}
            \cup IF ~open THEN {"refused"} ELSE IF ~AuthorizedPortal(l) THEN {"password"}
                 ELSE {"ok"} \cup {"refused" : x \in IF Faults THEN {1} ELSE {}}
uploadOne(k) == /\ loops[k].said = "no"
                /\ \E said \in Reply(loops[k]) :
                     /\ loops' = [loops EXCEPT ![k].said = said]
                     \* An answer may be lost after the file was taken.
                     /\ \E taken \in IF said = "network" /\ open /\ AuthorizedPortal(loops[k]) THEN {0, 1} ELSE {IF said = "ok" THEN 1 ELSE 0} :
                          stored' = [stored EXCEPT ![Head(loops[k].rest)] = @ + taken]
                /\ UNCHANGED <<open, pw, wrong, unlocked, uploading, done>>
\* The loop's next turn.  It knows "unlocked" as it was when it began.
Drop(k) == loops' = [i \in 1..(Len(loops) - 1) |-> loops[IF i < k THEN i ELSE i + 1]]
Turn(l) == [l EXCEPT !.rest = Tail(l.rest), !.said = "no"]
Uploading(l) == Tail(l.rest) # <<>> /\ uploading
Good(l) == l.said = "ok"
Result(k) ==
  LET l == loops[k] IN
  /\ l.said # "no" /\ UNCHANGED <<open, stored, pw>>
  /\ IF l.said = "password" /\ ~l.unlocked
     THEN wrong' = TRUE /\ uploading' = FALSE /\ Drop(k) /\ UNCHANGED <<unlocked, done>>
     ELSE /\ unlocked' = TRUE /\ done' = <<[file |-> Head(l.rest), ok |-> Good(l)]>> \o done
          /\ uploading' = Uploading(l) /\ UNCHANGED wrong
          /\ IF Tail(l.rest) = <<>> THEN Drop(k) ELSE loops' = [loops EXCEPT ![k] = Turn(l)]

Batches == {<<f>> : f \in Files} \cup {<<f, g>> : f, g \in Files}
Loops == DOMAIN loops
Next == \/ \E p \in Passwords : Type(p)
        \/ \E fs \in Batches : handleFiles(fs)
        \/ Revoke
        \/ \E k \in Loops : uploadOne(k) \/ Result(k)
Spec == Init /\ [][Next]_vars
----------------------------------------------------------------------------
TypeOK == /\ \A f \in Files : stored[f] \in 0..(MaxDone + 4) /\ pw \in Passwords
          /\ {open, wrong, unlocked, uploading} \subseteq BOOLEAN /\ Len(done) <= MaxDone + 4

\* What the list says was sent is in the folder, as often as it says so.
SentIsStored == \A f \in Files : Cardinality({i \in DOMAIN done : done[i] = [file |-> f, ok |-> TRUE]}) <= stored[f]

\* While files are on their way the drop zone says so.
UploadingTrue == loops # <<>> => uploading

\* The password can be typed until it was right: "verify password by
\* attempting the first upload; a 401 surfaces as a password error".
GateStays == Protected /\ loops = <<>> /\ pw # "right" => Gate
=============================================================================
