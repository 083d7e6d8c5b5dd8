------------------------------- MODULE Widths -------------------------------
(***************************************************************************)
(* The width of the length fields that values and keys have in common, and *)
(* what "as u32" makes of a length or a count that such a field does not   *)
(* hold: its low bits, without an error.                                   *)
(***************************************************************************)
EXTENDS Naturals

CONSTANT U32  \* the largest number a field of four bytes holds

AsU32(n) == n % (U32 + 1)
=============================================================================
