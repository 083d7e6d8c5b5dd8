------------------------------ MODULE KeyCases ------------------------------
(***************************************************************************)
(* The case of Algorithms that is about keys, in a module of its own       *)
(* because it needs none of the recursive operators of the others.         *)
(***************************************************************************)
EXTENDS KeySpace

CONSTANT KeySamples  \* a sequence of [names, ids, times]

VARIABLE input       \* the kind of case and its number

(* Whatever an agent, an entity or a term is called, no two things share a *)
(* key, a key gives back what it was made of, and a scan of an agent meets *)
(* that agent's keys in the order the readers rely on (key/mod.rs).        *)
KeysApart ==
    input.kind = "keys" =>
        LET s == KeySamples[input.i] IN Separate(s.names, s.ids, s.times)
=============================================================================
