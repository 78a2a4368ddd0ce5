---------------------------- MODULE AccessPicker ----------------------------
(***************************************************************************)
(* The access picker of the web client                                     *)
(* (components/WorkspaceFolderPicker.tsx): a workspace is ticked as a      *)
(* whole, or folders inside it are.  Folders are loaded as the user opens  *)
(* them; a grant covers everything below its folder.                       *)
(***************************************************************************)
EXTENDS Naturals, FiniteSets

CONSTANTS
  Spaces,   \* the workspaces offered
  Nodes,    \* their folders
  Parent    \* the folder or workspace above each folder

PickerAssumption ==
  /\ Spaces \cap Nodes = {}
  /\ Parent \in [Nodes -> Spaces \cup Nodes]

VARIABLES
  whole,    \* value.workspaceIds
  grants,   \* value.folderIds
  loaded,   \* workspaces and folders whose children are in trees
  known,    \* folders whose workspace is in folderWs
  clicked   \* history: the last click, [do, on]

vars == <<whole, grants, loaded, known, clicked>>

\* For each folder, those from the root down to it, and the workspace above.
Paths == LET up[n \in Nodes] == {n} \cup IF Parent[n] \in Nodes THEN up[Parent[n]] ELSE {} IN up
Path(n) == Paths[n]
SpaceOf(n) == CHOOSE w \in Spaces : \E x \in Path(n) : Parent[x] = w
Children(p) == {n \in Nodes : Parent[n] = p}
Below(n) == {x \in Nodes : n \in Path(x)}
Loaded(p) == IF p \in loaded THEN Children(p) ELSE {}

\* The loaded part of the tree below n, n included.
Subtree(n) == {x \in Below(n) : x = n \/ \A y \in Path(x) \ Path(n) : Parent[y] \in loaded}

\* A folder is drawn checked if the workspace, an ancestor or itself is granted.
Checked(n) == SpaceOf(n) \in whole \/ Path(n) \cap grants # {}

\* What the value stands for on the server, where grants cascade.
Covered == {n \in Nodes : Checked(n)}

Shown == {n \in Nodes : \A x \in Path(n) : Parent[x] \in loaded}

TypeOK ==
  /\ whole \subseteq Spaces /\ grants \subseteq known /\ known \subseteq Nodes
  /\ loaded \subseteq Spaces \cup Nodes
  /\ clicked \in [do : {"none", "whole", "tick", "untick", "open"}, on : Spaces \cup Nodes]

\* One member's access: whole workspaces, and folders in others, the topmost of
\* each branch.  Their workspaces are known from the start.
Init ==
  /\ whole \in SUBSET Spaces
  /\ grants \in {G \in SUBSET {n \in Nodes : SpaceOf(n) \notin whole} :
                   \A n \in G : Path(n) \cap G = {n}}
  /\ known = grants
  /\ loaded = {}
  /\ clicked \in [do : {"none"}, on : Spaces]

Remember(p) == known \cup Children(p)

\* Opening a workspace or a folder shown: its children arrive.  A request that
\* fails shows none, as if it had not been opened.
Expand ==
  \E p \in (Spaces \cup Shown) \ loaded :
    /\ loaded' = loaded \cup {p}
    /\ known' = Remember(p)
    /\ clicked' = [do |-> "open", on |-> p]
    /\ UNCHANGED <<whole, grants>>

InsideRoots(w) == Loaded(w)
Inside(w) == {n \in known : SpaceOf(n) = w}

\* Ticking a workspace clears its folder picks.
ToggleWhole ==
  \E w \in Spaces :
    /\ clicked' = [do |-> "whole", on |-> w]
    /\ IF w \in whole THEN whole' = whole \ {w} /\ grants' = grants
       ELSE whole' = whole \cup {w} /\ grants' = grants \ Inside(w)
    /\ UNCHANGED <<loaded, known>>

\* Every root folder granted makes the workspace whole again.
PromoteAny(w, G) == Loaded(w) \cap G # {}
Promote(w, G) == Loaded(w) # {} /\ Loaded(w) \subseteq G

Grant(n) ==
  LET w == SpaceOf(n)
      G == (grants \ Subtree(n)) \cup {n} IN
    /\ clicked' = [do |-> "tick", on |-> n]
    /\ IF Promote(w, G) THEN whole' = whole \cup {w} /\ grants' = G \ Inside(w)
       ELSE whole' = whole /\ grants' = G
    /\ UNCHANGED <<loaded, known>>

\* The nearest granted ancestor of n; none stands for the whole workspace.
Cover(n) == {x \in Path(n) \ {n} : x \in grants /\ \A y \in (Path(n) \ {n}) \cap grants : y \in Path(x)}

\* The siblings of every folder on the way from the cover down to n.
Siblings(n, C) ==
  UNION {Loaded(Parent[x]) \ {x} : x \in Path(n) \ UNION {Path(c) : c \in C}}

Demote(n) ==
  /\ clicked' = [do |-> "untick", on |-> n]
  /\ whole' = IF Cover(n) = {} THEN whole \ {SpaceOf(n)} ELSE whole
  /\ grants' = ((grants \ Cover(n)) \cup Siblings(n, Cover(n))) \ Subtree(n)
  /\ UNCHANGED <<loaded, known>>

ToggleFolder == \E n \in Shown : IF Checked(n) THEN Demote(n) ELSE Grant(n)

Next == Expand \/ ToggleWhole \/ ToggleFolder

Spec == Init /\ [][Next]_vars

-----------------------------------------------------------------------------

\* A workspace is whole or folder-scoped, never both: in every order of clicks
\* the picks of a workspace ticked as a whole, or promoted to it, are dropped.
WholeXorFolders == \A n \in grants : SpaceOf(n) \notin whole

\* Ticking a folder covers it and all below it, and nothing else: promoting the
\* workspace and dropping redundant grants change nothing that is covered.
TickGrants == clicked' # clicked /\ clicked'.do = "tick" =>
     Covered' = Covered \cup Below(clicked'.on)

\* Unticking a folder takes away nothing beside it, on any level: the grant that
\* covered it is replaced by grants to the siblings of each folder on the way.
UntickKeeps == clicked' # clicked /\ clicked'.do = "untick" =>
     Covered \ (Below(clicked'.on) \cup Path(clicked'.on)) \subseteq Covered'

\* Unticking a folder covers nothing that was not covered before: "everything
\* except this".
\* (Not kept by the code: see the README.)
UntickNarrows ==
  [][clicked' # clicked /\ clicked'.do = "untick" => Covered' \subseteq Covered]_vars

=============================================================================
