----------------------------- MODULE MCOverlay -----------------------------
(* Instances of Overlay for TLC. *)
EXTENDS Overlay

Symmetry == Permutations(Creates)
=============================================================================
