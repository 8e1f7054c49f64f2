------------------------------- MODULE MCKeys -------------------------------
(* Instances of Keys for TLC. *)
EXTENDS Keys, TLC

Symmetry == Permutations(Procs)
=============================================================================
