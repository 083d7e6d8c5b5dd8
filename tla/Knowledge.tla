------------------------------ MODULE Knowledge -----------------------------
(***************************************************************************)
(* What agents know, and what moves it: the consolidation of episodes into *)
(* facts, entities and relations (cognition/consolidation.rs), the dumps   *)
(* of an agent and their import (memory/porting.rs) and the purge of an    *)
(* agent, over one store that several callers share.                       *)
(*                                                                         *)
(* A call of the store runs under its lock, so it is one step; the writes  *)
(* of one call are several, and an error or a crash may stop it at any of  *)
(* them.  The indexes behind a memory are the subject of MemoryIndex.      *)
(* Importances, last accesses and vectors are left out, and so is the time *)
(* from which a memory is valid: the clock does not go back.               *)
(***************************************************************************)
EXTENDS GraphIndex, SequencesExt

CONSTANTS
    Agents,
    Callers,      \* the tasks that consolidate
    NumIds,       \* bound: the ids of memories in use at a time
    Memories,     \* what users remember
    LongTexts,    \* the texts above MAX_TEXT_LEN
    Similar,      \* pairs of texts of a similarity of 0.95 or more
    Extractions,  \* what an LLM answers: [facts, entities, relations]
    MAX_CONSOLIDATION_FACTS, MAX_CONSOLIDATION_ENTITIES, MAX_CONSOLIDATION_RELATIONS,
    Weights,      \* the weights users give to edges
    NonFinite,    \* a weight that is infinite or not a number
    Dumps,        \* files given to import: sequences of lines
    FORMAT, VERSION,
    Terms(_),     \* how many different terms a text has
    MaxDegree,    \* the most neighbours of a vector
    MAX_BATCH_OPS,
    MaxTime       \* bound: the clock

Layers == {"short_term", "episodic", "procedural", "semantic"}
Ids    == 1 .. NumIds

MemoryRecord(layer, text, source, until) ==
    [layer |-> layer, text |-> text, source |-> source, until |-> until]

ASSUME KnowledgeAssumption ==
    /\ NumIds \in Nat /\ MaxTime \in Nat
    /\ IsFiniteSet(Callers)
    /\ \A lines \in Dumps : IsFiniteSet(DOMAIN lines)
    /\ \A r \in Memories : /\ r = MemoryRecord(r.layer, r.text, "user", r.until)
                           /\ r.layer \in Layers /\ <<r.text, r.text>> \in Similar
    /\ Forever \notin 0 .. MaxTime

VARIABLES
    store,   \* the memories and the graph of each agent
    clock,   \* now_unix()
    calls    \* the consolidations under way

vars == <<store, clock, calls>>

Nothing == [memories |-> <<>>, graph |-> NoGraph]

Entities(s) == DOMAIN s.graph.entities
Edges(s)    == DOMAIN s.graph.edges

record_valid_at(r, now) == visible_at(r.until, now)

AllFinite(s) == \A e \in Edges(s) : s.graph.edges[e].weight # NonFinite

Valid(a) == {i \in DOMAIN store[a].memories : record_valid_at(store[a].memories[i], clock)}

\* A fresh id: ids are interchangeable, the smallest one nobody uses will do.
Used == UNION {DOMAIN store[a].memories : a \in Agents}
Unused == Ids \ Used

With(a, s)        == store' = [store EXCEPT ![a] = s]
PutMemory(a, r)   ==
    /\ Unused # {}
    /\ With(a, [store[a] EXCEPT !.memories = Put(@, Min(Unused), r)])
PutGraph(a, g)    == With(a, [store[a] EXCEPT !.graph = g])

-----------------------------------------------------------------------------
(* Dumps. *)

Header == [type |-> "header", format |-> FORMAT, version |-> VERSION]
Line(type, id, row) == [type |-> type, id |-> id, row |-> row]
MemoryLine(i, r)  == Line("memory", i, r)
EntityLine(n, e)  == Line("entity", n, e)

\* JSON has no number for a weight that is not finite: null is written, and no
\* line with null for a number can be read.
EdgeLine(e, meta) == Line(IF meta.weight = NonFinite THEN "malformed" ELSE "edge", e, meta)

GraphLines(s) ==
    SetToSeq({EntityLine(n, s.graph.entities[n]) : n \in Entities(s)})
    \o SetToSeq({EdgeLine(e, s.graph.edges[e]) : e \in Edges(s)})

\* (Faulty: a memory whose end is set is left out.)
ExportOpen(s) ==
    <<Header>> \o SetToSeq({MemoryLine(i, s.memories[i]) :
                               i \in {i \in DOMAIN s.memories : s.memories[i].until = Forever}})
               \o GraphLines(s)

\* export_jsonl: one read of everything the agent has, valid or not.
Export(s) ==
    <<Header>> \o SetToSeq({MemoryLine(i, s.memories[i]) : i \in DOMAIN s.memories}) \o GraphLines(s)

\* The lines import_jsonl refuses; it reads all of them before it writes.
BadLine(lines, i, trusted) ==
    LET l == lines[i] IN
    \/ l.type = "malformed"
    \/ l.type = "header" /\ (i > 1 \/ l.format # FORMAT \/ l.version # VERSION)
    \/ l.type # "header" /\ i = 1
    \/ l.type = "memory" /\ l.row.layer \notin Layers
    \/ l.type = "memory" /\ l.row.layer = "procedural" /\ ~trusted

Accepted(lines, trusted) ==
    lines # <<>> /\ \A i \in DOMAIN lines : ~BadLine(lines, i, trusted)

\* The lines of a type that are the first of their id, and their rows as far
\* as they are among the lines J.
FirstLines(lines, type) ==
    {j \in DOMAIN lines :
        /\ lines[j].type = type
        /\ \A i \in 1 .. j - 1 : lines[i].type = type => lines[i].id # lines[j].id}

Rows(lines, type, J) ==
    [id \in {lines[j].id : j \in FirstLines(lines, type) \cap J} |->
        lines[CHOOSE j \in FirstLines(lines, type) : lines[j].id = id].row]

\* Rows are written for what the store lacks, the first of each id; whatever
\* the source of a memory was, it is now the import.
ImportMemories(s, lines) ==
    LET rows == Rows(lines, "memory", DOMAIN lines)
        new  == [id \in DOMAIN rows |->
                    MemoryRecord(rows[id].layer, rows[id].text, "import", rows[id].until)]
    IN [s EXCEPT !.memories = Over(@, new)]

\* (Faulty: what is there is written over.)
OverEntities(s, lines, J) == [s EXCEPT !.graph.entities = Over(Rows(lines, "entity", J), @)]

ImportEntities(s, lines, J) == [s EXCEPT !.graph.entities = Over(@, Rows(lines, "entity", J))]
ImportEdges(s, lines, J)    == [s EXCEPT !.graph.edges = Over(@, Rows(lines, "edge", J))]

\* What an import would add to the memories.
NewRows(s, lines) ==
    LET rows == Rows(lines, "memory", DOMAIN lines) IN Restrict(rows, DOMAIN rows \ DOMAIN s.memories)

\* The operations put_many stages for a memory: its record, mapping and vector,
\* the neighbours that are linked to it, its expiry, its postings and terms.
MemoryOps(r, neighbours) ==
    3 + neighbours + (IF r.until = Forever THEN 0 ELSE 1) + (IF Terms(r.text) = 0 THEN 0 ELSE Terms(r.text) + 1)

\* With them go the allocator, the registry, the metadata of the vectors, and
\* the statistics of the texts if any has a term.
BatchOps(rows, neighbours) ==
    MapThenSumSet(LAMBDA i : MemoryOps(rows[i], neighbours), DOMAIN rows)
    + 3 + (IF \E i \in DOMAIN rows : Terms(rows[i].text) # 0 THEN 1 ELSE 0)

\* A batch that is too large is refused.  How many neighbours a new vector has
\* is up to the vector index: with the most the batch fits, or with none.
ImportFits(s, lines) ==
    LET rows == NewRows(s, lines) IN DOMAIN rows = {} \/ BatchOps(rows, MaxDegree) <= MAX_BATCH_OPS
ImportMayFit(s, lines) ==
    ImportFits(s, lines) \/ BatchOps(NewRows(s, lines), 0) <= MAX_BATCH_OPS

\* import_rows: one batch for the memories, then one put each for the entities
\* and the edges.
Completed(s, lines) ==
    ImportEdges(ImportEntities(ImportMemories(s, lines), lines, DOMAIN lines), lines, DOMAIN lines)

\* The ends of an import that nothing stopped: all is done, or the batch was
\* too large.
Imported(s, lines) ==
    (IF ImportMayFit(s, lines) THEN {Completed(s, lines)} ELSE {})
    \cup (IF ImportFits(s, lines) THEN {} ELSE {s})

\* What the store may hold if the import stops: as before, or with the
\* memories and the entities, or the edges too, of the first lines.
ImportStates(s, lines) ==
    LET memories == ImportMemories(s, lines)
        entities == ImportEntities(memories, lines, DOMAIN lines)
        First(k) == {j \in DOMAIN lines : j <= k}
    IN {s} \cup IF ~ImportMayFit(s, lines) THEN {}
                ELSE {ImportEntities(memories, lines, First(k)) : k \in 0 .. Len(lines)}
                     \cup {ImportEdges(entities, lines, First(k)) : k \in 0 .. Len(lines)}

-----------------------------------------------------------------------------
(* The purge of an agent: its memories one by one in the order of their    *)
(* ids, then its graph in one batch.                                       *)
WithoutFirst(s, n) ==
    [s EXCEPT !.memories = Restrict(@, {i \in DOMAIN @ : Cardinality({j \in DOMAIN @ : j < i}) >= n})]

\* (Faulty: the graph goes first.)
PurgeGraphFirst(s) ==
    LET g == [s EXCEPT !.graph = NoGraph]
    IN {s} \cup {WithoutFirst(g, n) : n \in 0 .. Cardinality(DOMAIN s.memories)}

\* What the store may hold if the purge stops; the batch of the graph is
\* refused if it is too large.
PurgeStates(s) ==
    {WithoutFirst(s, n) : n \in 0 .. Cardinality(DOMAIN s.memories)}
    \cup IF Cardinality(Entities(s)) + Cardinality(Edges(s)) <= MAX_BATCH_OPS THEN {Nothing} ELSE {}

-----------------------------------------------------------------------------
(* Calls of one step. *)

Remember(a, r) ==
    /\ PutMemory(a, r)
    /\ UNCHANGED <<clock, calls>>

Invalidate(a, i) ==
    /\ i \in Valid(a)
    /\ With(a, [store[a] EXCEPT !.memories[i].until = clock])
    /\ UNCHANGED <<clock, calls>>

\* Graph::add_entity_with, which alone gives an entity an end.
AddEntity(a, id, until) ==
    /\ PutGraph(a, upsert_entity(store[a].graph, id, GraphEntity(id, until)))
    /\ UNCHANGED <<clock, calls>>

AddEdge(a, edge, weight) ==
    /\ PutGraph(a, graph_upsert_edge(store[a].graph, edge, weight))
    /\ UNCHANGED <<clock, calls>>

\* An import is refused, or stops at one of its writes, or comes to its end.
Import(a, lines, trusted) ==
    /\ Accepted(lines, trusted)
    /\ \E s \in ImportStates(store[a], lines) : With(a, s)
    /\ UNCHANGED <<clock, calls>>

PurgeAgent(a) ==
    /\ \E s \in PurgeStates(store[a]) : With(a, s)
    /\ UNCHANGED <<clock, calls>>

Tick ==
    /\ clock < MaxTime /\ clock' = clock + 1
    /\ UNCHANGED <<store, calls>>

-----------------------------------------------------------------------------
(* Consolidation: the episodes are read, the LLM answers, and the answer   *)
(* is applied, each write a call of its own.                               *)

Idle == [at |-> "idle"]
At(p, place) == calls[p].at = place
Goes(p, c)   == calls' = [calls EXCEPT ![p] = c]

RecentEpisodes(a) == {i \in Valid(a) : store[a].memories[i].layer = "episodic"}

\* validate_extraction_bounds
InBounds(x) ==
    /\ Len(x.facts) <= MAX_CONSOLIDATION_FACTS
    /\ Len(x.entities) <= MAX_CONSOLIDATION_ENTITIES
    /\ Len(x.relations) <= MAX_CONSOLIDATION_RELATIONS
    /\ \A i \in DOMAIN x.facts : x.facts[i] \notin LongTexts
    /\ \A i \in DOMAIN x.entities : x.entities[i] \notin LongTexts
    /\ \A i \in DOMAIN x.relations : \A k \in 1..3 : x.relations[i][k] \notin LongTexts

Apply(a, x) ==
    [at |-> "apply", agent |-> a, facts |-> x.facts, entities |-> x.entities, relations |-> x.relations]

\* What is left of a call; with nothing left it returns.
Onward(c) == IF c.facts = <<>> /\ c.entities = <<>> /\ c.relations = <<>> THEN Idle ELSE [c EXCEPT !.at = "apply"]

\* A write of the call of p: done, or failed, and then it may be in the store.
Written(p, Write, next) ==
    \/ Write /\ Goes(p, next)
    \/ (Write \/ UNCHANGED store) /\ Goes(p, Idle)

\* consolidation_prompt: without an episode there is nothing to ask.
Consolidate(p, a) ==
    /\ At(p, "idle")
    /\ RecentEpisodes(a) # {}
    /\ Goes(p, [at |-> "llm", agent |-> a])
    /\ UNCHANGED <<store, clock>>

\* What the LLM answers is applied if it is JSON within the bounds.
LlmAnswers(p, x) ==
    /\ At(p, "llm")
    /\ Goes(p, IF InBounds(x) THEN Onward(Apply(calls[p].agent, x)) ELSE Idle)
    /\ UNCHANGED <<store, clock>>

LlmFails(p) ==
    /\ At(p, "llm")
    /\ Goes(p, Idle)
    /\ UNCHANGED <<store, clock>>

\* consolidate_apply: a client that extracted by itself.
ConsolidateApply(p, a, x) ==
    /\ At(p, "idle")
    /\ InBounds(x)
    /\ Goes(p, Onward(Apply(a, x)))
    /\ UNCHANGED <<store, clock>>

ApplyEntity(p) ==
    LET c == calls[p] IN
    /\ At(p, "apply") /\ c.entities # <<>>
    /\ Written(p, PutGraph(c.agent, upsert_entity(store[c.agent].graph, Head(c.entities),
                                                  GraphEntity(Head(c.entities), Forever))),
               Onward([c EXCEPT !.entities = Tail(@)]))
    /\ UNCHANGED <<clock>>

ApplyRelation(p) ==
    LET c == calls[p] IN
    /\ At(p, "apply") /\ c.entities = <<>> /\ c.relations # <<>>
    /\ Written(p, PutGraph(c.agent, graph_upsert_edge(store[c.agent].graph, Head(c.relations), 1)),
               Onward([c EXCEPT !.relations = Tail(@)]))
    /\ UNCHANGED <<clock>>

\* (Faulty: the facts are looked for among the episodes.)
ExactEpisodeExists(a, text) ==
    \E i \in Valid(a) : store[a].memories[i].layer = "episodic" /\ store[a].memories[i].text = text

exact_fact_exists(a, text) ==
    \E i \in Valid(a) : store[a].memories[i].layer = "semantic" /\ store[a].memories[i].text = text

CheckExact(p) ==
    LET c == calls[p] IN
    /\ At(p, "apply") /\ c.entities = <<>> /\ c.relations = <<>> /\ c.facts # <<>>
    /\ Goes(p, IF exact_fact_exists(c.agent, Head(c.facts)) THEN Onward([c EXCEPT !.facts = Tail(@)])
               ELSE [c EXCEPT !.at = "near"])
    /\ UNCHANGED <<store, clock>>

\* The nearest fact is looked for in the vector index, which may miss it.
CheckNear(p) ==
    LET c == calls[p]
        Near(i) == LET r == store[c.agent].memories[i]
                    IN r.layer = "semantic" /\ <<r.text, Head(c.facts)>> \in Similar
    IN
    /\ At(p, "near")
    /\ \/ Goes(p, [c EXCEPT !.at = "put"])
       \/ /\ \E i \in Valid(c.agent) : Near(i)
          /\ Goes(p, Onward([c EXCEPT !.facts = Tail(@)]))
    /\ UNCHANGED <<store, clock>>

PutFact(p) ==
    LET c == calls[p] IN
    /\ At(p, "put")
    /\ Written(p, PutMemory(c.agent, MemoryRecord("semantic", Head(c.facts), "consolidation", Forever)),
               Onward([c EXCEPT !.facts = Tail(@)]))
    /\ UNCHANGED <<clock>>

\* The process ends: what it was doing is lost, what it wrote is not.
Crash ==
    /\ calls' = [p \in Callers |-> Idle]
    /\ UNCHANGED <<store, clock>>

-----------------------------------------------------------------------------
Init ==
    /\ store = [a \in Agents |-> Nothing]
    /\ clock = 0
    /\ calls = [p \in Callers |-> Idle]

UserCall(a) ==
    \/ \E r \in Memories : Remember(a, r)
    \/ \E i \in Ids : Invalidate(a, i)
    \/ \E x \in Extractions :
          \/ \E i \in DOMAIN x.entities : AddEntity(a, x.entities[i], clock + 1)
          \/ \E i \in DOMAIN x.relations, w \in Weights : AddEdge(a, x.relations[i], w)
    \/ \E lines \in Dumps, trusted \in BOOLEAN : Import(a, lines, trusted)
    \/ PurgeAgent(a)

Consolidation(p) ==
    \/ \E a \in Agents : Consolidate(p, a)
    \/ \E x \in Extractions : LlmAnswers(p, x)
    \/ LlmFails(p)
    \/ \E a \in Agents, x \in Extractions : ConsolidateApply(p, a, x)
    \/ ApplyEntity(p) \/ ApplyRelation(p)
    \/ CheckExact(p) \/ CheckNear(p) \/ PutFact(p)

Next ==
    \/ \E a \in Agents : UserCall(a)
    \/ \E p \in Callers : Consolidation(p)
    \/ Tick
    \/ Crash

Spec == Init /\ [][Next]_vars

-----------------------------------------------------------------------------
Kept(f, g) == \A k \in DOMAIN f : k \in DOMAIN g /\ g[k] = f[k]
KeptIn(s, t) ==
    Kept(s.memories, t.memories) /\ Kept(s.graph.entities, t.graph.entities) /\ Kept(s.graph.edges, t.graph.edges)

(* However the callers interleave, fail, crash and try again, and whatever *)
(* the vector index misses, a fact is not there more often than there are  *)
(* callers: the check and the write of a fact are two calls                *)
(* (consolidation.rs:234).                                                 *)
FactsBounded ==
    \A a \in Agents :
        LET facts == {i \in Valid(a) : store[a].memories[i].source = "consolidation"}
        IN \A i \in facts :
              Cardinality({j \in facts : store[a].memories[j].text = store[a].memories[i].text}) <= Cardinality(Callers)

(* An import that an error or a crash stopped anywhere has changed nothing *)
(* that was there.  Once it has written anything it can be made again: its *)
(* batch, however large, is done, and it ends as if it had not stopped     *)
(* (native_store/porting.rs).                                              *)
ImportSettles ==
    \A a \in Agents, lines \in {l \in Dumps : Accepted(l, TRUE)} :
        \A s \in ImportStates(store[a], lines) :
            /\ KeptIn(store[a], s)
            /\ s # store[a] => Imported(s, lines) = {Completed(store[a], lines)}

Restored(s) == [s EXCEPT !.memories = [i \in DOMAIN @ |-> [@[i] EXCEPT !.source = "import"]]]

(* The dump of an agent at any moment is accepted just when every weight   *)
(* is a number, without trust only if no memory is procedural too.         *)
(* Imported where nothing is it gives back all the agent had, or nothing:  *)
(* that only if the batch of its memories, counted with all they bring     *)
(* into the indexes, may be too large (memory/porting.rs).                 *)
BackupRestores ==
    \A a \in Agents :
        LET s == store[a]
            lines == Export(s)
        IN /\ Accepted(lines, TRUE) <=> AllFinite(s)
           /\ Accepted(lines, FALSE) <=>
                 AllFinite(s) /\ \A i \in DOMAIN s.memories : s.memories[i].layer # "procedural"
           /\ AllFinite(s) =>
                 /\ Imported(Nothing, lines) \subseteq {Restored(s), Nothing}
                 /\ ImportFits(Nothing, lines) => Imported(Nothing, lines) = {Restored(s)}

(* A step that takes anything of a graph away takes all of it, and leaves  *)
(* no memory of the agent: a purge that stopped before leaves the graph    *)
(* whole, to be purged again (trait_impl.rs:522).                          *)
PurgeOrder ==
    [][\A a \in Agents :
          \/ Entities(store[a]) \subseteq Entities(store'[a]) /\ Edges(store[a]) \subseteq Edges(store'[a])
          \/ store'[a] = Nothing]_vars
=============================================================================
