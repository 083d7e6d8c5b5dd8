----------------------------- MODULE MCAgentMemory -----------------------------
(* Bounded instances of AgentMemory for TLC. *)
EXTENDS AgentMemory, TLC

\* Tasks are interchangeable; ids are ordered, and so are times.
Symmetry == Permutations(Tasks)
===============================================================================
