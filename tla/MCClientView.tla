---------------------------- MODULE MCClientView ----------------------------
(* Instances of ClientView for TLC. *)
EXTENDS ClientView

Symmetry == Permutations(Opens)
=============================================================================
