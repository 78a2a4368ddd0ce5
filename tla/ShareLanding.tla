---------------------------- MODULE ShareLanding ----------------------------
(***************************************************************************)
(* The page behind a share link (ShareLanding.tsx) and the public handlers *)
(* of the sharing service: the password gate, and the folders of a shared  *)
(* folder, opened one in the other, with the path above the listing.       *)
(***************************************************************************)
EXTENDS Naturals, Sequences, FiniteSets

CONSTANTS Root,     \* the shared folder
          Inside,   \* folder |-> the folders in it; a folder is in one other
          Protected, \* the link has a password
          Faults,   \* requests may fail, and the share be revoked
          Patient,  \* the visitor waits for the answer before the next click
          MaxTasks, MaxDepth, NONE

Folders == DOMAIN Inside
LandingAssumption == Root \in Folders /\ \A f \in Folders : Inside[f] \subseteq Folders \ {Root, f}

VARIABLES open,     \* the service: the share is not revoked
          meta,     \* what the page knows of the link: "no", "yes", "failed"
          pw,       \* the password typed
          unlocked, \* the gate is open
          entries,  \* the folder whose content is listed
          crumbs,   \* the path above the listing
          working, failed, \* the spinner, and the message of a failure
          tasks, proven    \* history: the password was right once

vars == <<open, meta, pw, unlocked, entries, crumbs, working, failed, tasks, proven>>
Passwords == {"", "right", "wrong"}
Numbers == 1..MaxTasks
Request(kind, of) == [kind |-> kind, n |-> CHOOSE n \in Numbers : \A t \in tasks : t.n # n, of |-> of, pw |-> pw, said |-> "no"]
Init == /\ open \in BOOLEAN /\ meta = "no" /\ pw = "" /\ unlocked = FALSE /\ entries = NONE /\ crumbs = <<>>
        /\ working = FALSE /\ failed = FALSE /\ proven = FALSE
        /\ tasks = {[kind |-> "meta", n |-> 1, of |-> NONE, pw |-> "", said |-> "no"]}

locked == Protected /\ ~unlocked
May == meta = "yes" /\ Cardinality(tasks) < MaxTasks /\ (Patient => tasks = {})
Send(kind, of) == /\ tasks' = tasks \cup {Request(kind, of)} /\ working' = TRUE /\ failed' = FALSE
                  /\ UNCHANGED <<open, meta, pw, unlocked, entries, proven>>
browse(f) == Send("browse", f)

\* The gate.  Its button waits for the answer; the Enter key does not.
Type(p) == /\ May /\ locked /\ pw' = p
           /\ UNCHANGED <<open, meta, unlocked, entries, crumbs, working, failed, tasks, proven>>
Unlock == May /\ locked /\ browse(Root) /\ UNCHANGED crumbs
\* The listing: its rows, and the path above it.
openInto(f) == /\ May /\ ~locked /\ entries # NONE /\ f \in Inside[entries] /\ Len(crumbs) < MaxDepth
               /\ crumbs' = Append(crumbs, f) /\ browse(f)
downloadFile == May /\ ~locked /\ entries # NONE /\ Send("download", entries) /\ UNCHANGED crumbs
goCrumb(i) == /\ May /\ ~locked /\ i <= Len(crumbs)
              /\ crumbs' = SubSeq(crumbs, 1, i) /\ browse(IF i = 0 THEN Root ELSE crumbs[i])
Revoke == Faults /\ open /\ open' = FALSE /\ UNCHANGED <<meta, pw, unlocked, entries, crumbs, working, failed, tasks, proven>>
----------------------------------------------------------------------------
(* PublicMeta, PublicBrowse and PublicDownload.                            *)

Authorized(t) == Protected => t.pw = "right"
ByToken(t) == open
Serve(t) == /\ t.said = "no"
            /\ \E said \in {"ok", "failed"} :
                 /\ said = "ok" => ByToken(t) /\ (t.kind # "meta" => Authorized(t))
                 /\ said = "failed" => Faults \/ ~ByToken(t) \/ (t.kind # "meta" /\ ~Authorized(t))
                 /\ tasks' = (tasks \ {t}) \cup {[t EXCEPT !.said = said]}
            /\ proven' = (proven \/ t.pw = "right")
            /\ UNCHANGED <<open, meta, pw, unlocked, entries, crumbs, working, failed>>

MetaOf(t) == IF t.said = "ok" THEN "yes" ELSE "failed"
Met(t) == /\ t.kind = "meta" /\ t.said # "no" /\ meta' = MetaOf(t)
          \* A folder without a password is listed at once.
          /\ IF t.said = "ok" /\ ~Protected
             THEN tasks' = {[t EXCEPT !.kind = "browse", !.of = Root, !.said = "no"]} /\ working' = TRUE
             ELSE tasks' = tasks \ {t} /\ UNCHANGED working
          /\ UNCHANGED <<open, pw, unlocked, entries, crumbs, failed, proven>>
\* Either answer ends the spinner; only a good one touches the listing.
Browsed(t) == /\ t.kind # "meta" /\ t.said # "no" /\ tasks' = tasks \ {t} /\ working' = FALSE
              /\ failed' = (t.said = "failed") /\ unlocked' = (unlocked \/ t.said = "ok")
              /\ entries' = (IF t.said = "ok" /\ t.kind = "browse" THEN t.of ELSE entries)
              /\ UNCHANGED <<open, meta, pw, crumbs, proven>>
Answer(t) == Serve(t) \/ Met(t) \/ Browsed(t)
Next == \/ \E p \in Passwords : Type(p)
        \/ \E f \in Folders : openInto(f)
        \/ \E i \in 0..MaxDepth : goCrumb(i)
        \/ Unlock \/ downloadFile \/ Revoke \/ \E t \in tasks : Answer(t)
Spec == Init /\ [][Next]_vars
----------------------------------------------------------------------------
TypeOK == /\ meta \in {"no", "yes", "failed"} /\ pw \in Passwords /\ entries \in Folders \cup {NONE}
          /\ crumbs \in Seq(Folders) /\ {open, unlocked, working, failed, proven} \subseteq BOOLEAN

\* What is listed is the folder the path names.
Rested == tasks = {}
Path == IF crumbs = <<>> THEN Root ELSE crumbs[Len(crumbs)]
EntriesFit == Rested /\ entries # NONE => entries = Path
\* The same, as long as no message says that the folder could not be opened.
EntriesFitOrFailed == Rested /\ entries # NONE /\ ~failed => entries = Path

\* The path is one of folders in folders, from the shared one down.
PathNests == \A i \in 1..Len(crumbs) : crumbs[i] \in Inside[IF i = 1 THEN Root ELSE crumbs[i - 1]]

\* Nothing of a protected folder is shown before the right password was given.
GateHolds == Protected /\ (entries # NONE \/ unlocked) => proven
=============================================================================
