---------------------------- MODULE MCMemoryIndex ----------------------------
(* MemoryIndex on a small instance, for TLC. *)
EXTENDS MemoryIndex, TLC

Symmetry == Permutations(Agents) \cup Permutations(Ids) \cup Permutations(Times)
===============================================================================
