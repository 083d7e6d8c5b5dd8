----------------------------- MODULE MCKnowledge -----------------------------
(* A bounded instance of Knowledge for TLC. *)
EXTENDS Knowledge

Extraction(facts, entities, relations) == [facts |-> facts, entities |-> entities, relations |-> relations]
Loop == <<"e", "knows", "e">>

\* A graph, a fact, and an answer above the bounds.
Answers == {Extraction(<<>>, <<"e">>, <<Loop>>), Extraction(<<"f">>, <<>>, <<>>), Extraction(<<"f", "f">>, <<>>, <<>>)}

\* A rule is like the fact.
Alike == {<<"f", "f">>, <<"rule", "rule">>, <<"rule", "f">>}
Remembered == {MemoryRecord("episodic", "f", "user", Forever), MemoryRecord("procedural", "rule", "user", Forever)}

\* Rows twice, rows that end, a procedural memory; a dump cut at its start.
Imports(layer) == MemoryLine(2, MemoryRecord(layer, "rule", "user", 1))
Whole == <<Header, Imports("semantic"), EdgeLine(Loop, GraphEdgeMeta(1, 1)), Imports("procedural"),
           EntityLine("e", GraphEntity("e", 1)), EntityLine("e", GraphEntity("other", Forever))>>
Files == {Whole, Tail(Whole)}

\* A fact has no term: its import may fit, that of a rule may not.
Words(text) == IF text = "rule" THEN 1 ELSE 0

Symmetry == Permutations(Callers)
===============================================================================
