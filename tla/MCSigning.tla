----------------------------- MODULE MCSigning -----------------------------
(* Small instances of Signing. *)
EXTENDS Signing, TLC

Symmetry == Permutations(Workers) \cup Permutations(Signers)
=============================================================================
