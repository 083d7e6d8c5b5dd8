------------------------------- MODULE MCEngine -------------------------------
(* Engine on a small instance, for TLC. *)
EXTENDS Engine, TLC

Symmetry == Permutations(Keys)
===============================================================================
