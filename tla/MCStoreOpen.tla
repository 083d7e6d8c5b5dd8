---------------------------- MODULE MCStoreOpen ----------------------------
(* StoreOpen on a small instance, for TLC. *)
EXTENDS StoreOpen, TLC

Symmetry == Permutations(Passphrases) \cup Permutations(Fitting)
=============================================================================
