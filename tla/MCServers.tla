------------------------------- MODULE MCServers -------------------------------
(* Servers on a small instance, for TLC. *)
EXTENDS Servers, TLC

Symmetry == Permutations(Requests)
===============================================================================
