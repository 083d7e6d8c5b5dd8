---------------------------- MODULE MCVectorIndex ----------------------------
(* VectorIndex on a small instance, for TLC. *)
EXTENDS VectorIndex, TLC
===============================================================================
