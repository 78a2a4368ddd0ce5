----------------------------- MODULE MCUploads -----------------------------
(***************************************************************************)
(* Small instances of Uploads.                                            *)
(***************************************************************************)
EXTENDS Uploads, TLC

MCAllocation == [ws \in Workspaces |-> 2]
Symmetry == Permutations(Workers) \cup Permutations(Paths)
=========================
