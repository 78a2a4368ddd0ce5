------------------------------ MODULE MCTrash ------------------------------
(* Small instances of Trash. *)
EXTENDS Trash, TLC

Symmetry == Permutations(Workers) \cup Permutations(Folders)
=============================================================================
