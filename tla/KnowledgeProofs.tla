--------------------------- MODULE KnowledgeProofs --------------------------
(***************************************************************************)
(* Theorems about Knowledge: facts do not multiply, an import settles, a   *)
(* dump restores, a purge leaves the graph for last.                       *)
(***************************************************************************)
EXTENDS Knowledge, FiniteSetTheorems, WellFoundedInduction, TLAPS

-----------------------------------------------------------------------------
(* The invariant.                                                          *)

\* The store of an agent has its memories and its graph, and nothing else.
Shaped(s) ==
    /\ s = [memories |-> s.memories, graph |-> s.graph]
    /\ s.graph = [entities |-> s.graph.entities, edges |-> s.graph.edges]

\* A memory is a record; what consolidation wrote is a semantic fact, under an
\* id of its own.
RecordOk(i, r) ==
    /\ r = MemoryRecord(r.layer, r.text, r.source, r.until)
    /\ r.source = "consolidation" =>
          i \in Ids /\ r.layer = "semantic" /\ r.until \in Nat \cup {Forever}

RecordsOk(s) == \A i \in DOMAIN s.memories : RecordOk(i, s.memories[i])

\* A call that is under way has an agent, and what is left of its answer.
Full(c) ==
    /\ c.agent \in Agents
    /\ c = [at |-> c.at, agent |-> c.agent, facts |-> c.facts,
            entities |-> c.entities, relations |-> c.relations]

CallOk(c) ==
    \/ c.at = "idle"
    \/ c.at = "llm" /\ c.agent \in Agents
    \/ c.at \in {"apply", "near", "put"} /\ Full(c)

StoreOk(s) == Shaped(s) /\ RecordsOk(s)

KnowledgeTypeOK ==
    /\ store = [a \in Agents |-> store[a]]
    /\ \A a \in Agents : StoreOk(store[a])
    /\ clock \in 0 .. MaxTime
    /\ calls = [p \in Callers |-> calls[p]]
    /\ \A p \in Callers : CallOk(calls[p])

\* The facts of a text that are valid, and the calls that are past the look
\* for that text among them.
Facts(s, t, now) ==
    {i \in DOMAIN s.memories : /\ s.memories[i].source = "consolidation"
                               /\ s.memories[i].text = t
                               /\ record_valid_at(s.memories[i], now)}
Writes(c, a, t) == c.at \in {"near", "put"} /\ c.agent = a /\ Head(c.facts) = t
Writers(a, t)   == {p \in Callers : Writes(calls[p], a, t)}

\* A caller has written a fact of a text, or is about to: not both of one
\* text, unless somebody else was about to when it looked.
CountOk(a, t) ==
    Cardinality(Facts(store[a], t, clock)) + Cardinality(Writers(a, t)) <= Cardinality(Callers)

Counted == \A a \in Agents : \A t : CountOk(a, t)

KnowledgeInv == KnowledgeTypeOK /\ Counted

\* The facts that are valid at now were there before.
Keeps(s, u, now) ==
    \A i \in DOMAIN u.memories :
        u.memories[i].source = "consolidation" /\ record_valid_at(u.memories[i], now) =>
            i \in DOMAIN s.memories /\ s.memories[i] = u.memories[i]

Grows(s, u) == Entities(s) \subseteq Entities(u) /\ Edges(s) \subseteq Edges(u)

\* What every step that writes no fact does to the store of an agent.
Step(s, u, now) == StoreOk(u) /\ Keeps(s, u, now) /\ (Grows(s, u) \/ u = Nothing)

-----------------------------------------------------------------------------
(* Lemmas on the operators.                                                *)

\* A record of a store with other memories, and one with another graph.
LEMMA NewMemories ==
    ASSUME NEW s, NEW m, Shaped(s)
    PROVE  LET u == [s EXCEPT !.memories = m]
           IN Shaped(u) /\ u.memories = m /\ u.graph = s.graph
<1> DEFINE u == [s EXCEPT !.memories = m]
<1>1. u = [memories |-> m, graph |-> s.graph]
  BY DEF Shaped
<1> HIDE DEF u
<1>2. u.memories = m /\ u.graph = s.graph
  BY <1>1
<1>3. Shaped(u)
  BY <1>1, <1>2 DEF Shaped
<1> QED BY <1>2, <1>3 DEF u

\* The same with another graph.
LEMMA NewGraph ==
    ASSUME NEW s, NEW n, NEW d, Shaped(s)
    PROVE  LET u == [s EXCEPT !.graph = [entities |-> n, edges |-> d]]
           IN /\ Shaped(u) /\ u.memories = s.memories
              /\ Entities(u) = DOMAIN n /\ Edges(u) = DOMAIN d
              /\ u.graph = [entities |-> n, edges |-> d]
<1> DEFINE g == [entities |-> n, edges |-> d]
           u == [s EXCEPT !.graph = g]
<1>1. u = [memories |-> s.memories, graph |-> g]
  BY DEF Shaped
<1>2. g.entities = n /\ g.edges = d /\ g = [entities |-> g.entities, edges |-> g.edges]
  OBVIOUS
<1> HIDE DEF u, g
<1>3. u.memories = s.memories /\ u.graph = g
  BY <1>1
<1>4. Shaped(u) /\ Entities(u) = DOMAIN n /\ Edges(u) = DOMAIN d
  BY <1>1, <1>2, <1>3 DEF Shaped, Entities, Edges
<1> QED BY <1>3, <1>4 DEF u, g

\* A store whose graph only grows, and whose memories stay.
LEMMA GraphGrows ==
    ASSUME NEW s, NEW now, NEW n, NEW d, StoreOk(s),
           Entities(s) \subseteq DOMAIN n, Edges(s) \subseteq DOMAIN d
    PROVE  Step(s, [s EXCEPT !.graph = [entities |-> n, edges |-> d]], now)
<1> DEFINE u == [s EXCEPT !.graph = [entities |-> n, edges |-> d]]
<1>1. /\ Shaped(u) /\ u.memories = s.memories
      /\ Entities(u) = DOMAIN n /\ Edges(u) = DOMAIN d
  BY NewGraph DEF StoreOk
<1> HIDE DEF u
<1>2. Step(s, u, now)
  BY <1>1 DEF Step, StoreOk, RecordsOk, Keeps, Grows
<1> QED BY <1>2 DEF u

\* The same of the memories: the facts that are valid were there.
LEMMA MemoriesKept ==
    ASSUME NEW s, NEW now, NEW m, StoreOk(s),
           \A i \in DOMAIN m :
               /\ RecordOk(i, m[i])
               /\ m[i].source = "consolidation" =>
                     \/ i \in DOMAIN s.memories /\ s.memories[i] = m[i]
                     \/ ~record_valid_at(m[i], now)
    PROVE  Step(s, [s EXCEPT !.memories = m], now)
<1> DEFINE u == [s EXCEPT !.memories = m]
<1>1. Shaped(u) /\ u.memories = m /\ u.graph = s.graph
  BY NewMemories DEF StoreOk
<1> HIDE DEF u
<1>2. RecordsOk(u)
  BY <1>1 DEF RecordsOk
<1>3. Keeps(s, u, now)
  BY <1>1 DEF Keeps
<1>4. Grows(s, u)
  BY <1>1 DEF Grows, Entities, Edges
<1>5. Step(s, u, now)
  BY <1>1, <1>2, <1>3, <1>4 DEF Step, StoreOk
<1> QED BY <1>5 DEF u

\* A fresh id is one that nobody uses.
LEMMA FreshId ==
    ASSUME KnowledgeAssumption, Unused # {}, NEW a \in Agents
    PROVE  Min(Unused) \in Ids /\ Min(Unused) \notin DOMAIN store[a].memories
<1>1. Unused \subseteq Nat
  BY DEF Unused, Ids, KnowledgeAssumption
<1>2. PICK x \in Unused : \A y \in Unused : ~(<<y, x>> \in OpToRel(<, Nat))
  BY <1>1, NatLessThanWellFounded, WFMin, Zenon
<1>3. \A y \in Unused : ~(y < x) /\ x \in Nat /\ y \in Nat
  BY <1>1, <1>2 DEF OpToRel
<1>4. \A y \in Unused : x <= y
  BY <1>3
<1>5. Min(Unused) \in Unused
  BY <1>4 DEF Min
<1> QED BY <1>5 DEF Unused, Used

-----------------------------------------------------------------------------
(* What each call does to the store of its agent.                          *)

\* What users remember is no fact of a consolidation.
LEMMA RememberSteps ==
    ASSUME NEW s, NEW now, NEW i, NEW r, StoreOk(s), RecordOk(i, r), r.source # "consolidation"
    PROVE  Step(s, [s EXCEPT !.memories = Put(@, i, r)], now)
<1> DEFINE m == Put(s.memories, i, r)
<1>1. DOMAIN m = DOMAIN s.memories \cup {i} /\ m[i] = r /\ \A j \in DOMAIN s.memories \ {i} : m[j] = s.memories[j]
  BY DEF Put, Over
<1> HIDE DEF m
<1>2. \A j \in DOMAIN m :
         RecordOk(j, m[j]) /\ (m[j].source = "consolidation" => j \in DOMAIN s.memories /\ s.memories[j] = m[j])
  BY <1>1 DEF StoreOk, RecordsOk
<1>3. Step(s, [s EXCEPT !.memories = m], now)
  BY <1>2, MemoriesKept
<1> QED BY <1>3 DEF m

\* A memory that is invalidated is no longer valid.
LEMMA InvalidateSteps ==
    ASSUME NEW s, NEW now \in Nat, NEW i, StoreOk(s), now # Forever
    PROVE  Step(s, [s EXCEPT !.memories[i].until = now], now)
<1> DEFINE m == [s.memories EXCEPT ![i].until = now]
<1>1. ASSUME NEW j \in DOMAIN m
      PROVE  /\ RecordOk(j, m[j])
             /\ m[j].source = "consolidation" =>
                   \/ j \in DOMAIN s.memories /\ s.memories[j] = m[j]
                   \/ ~record_valid_at(m[j], now)
  <2>1. CASE j # i
    BY <2>1 DEF StoreOk, RecordsOk
  <2>2. CASE j = i
    <3> DEFINE r == s.memories[i]
               n == [r EXCEPT !.until = now]
    <3>1. i \in DOMAIN s.memories /\ m[i] = n
      BY <2>2
    <3>2. RecordOk(i, r)
      BY <3>1 DEF StoreOk, RecordsOk
    <3>3. n = MemoryRecord(r.layer, r.text, r.source, now)
      BY <3>2 DEF RecordOk, MemoryRecord
    <3> HIDE DEF r, n
    <3>4. n.layer = r.layer /\ n.text = r.text /\ n.source = r.source /\ n.until = now
      BY <3>3 DEF MemoryRecord
    <3>5. RecordOk(i, n)
      BY <3>2, <3>3, <3>4 DEF RecordOk
    <3>6. ~record_valid_at(n, now)
      BY <3>4 DEF record_valid_at, visible_at
    <3> QED BY <2>2, <3>1, <3>5, <3>6
  <2> QED BY <2>1, <2>2
<1> HIDE DEF m
<1>2. Step(s, [s EXCEPT !.memories = m], now)
  BY <1>1, MemoriesKept
<1> QED BY <1>2 DEF m

\* An entity that is written joins the graph, or replaces what it was.
LEMMA EntitySteps ==
    ASSUME NEW s, NEW now, NEW id, NEW e, StoreOk(s)
    PROVE  Step(s, [s EXCEPT !.graph = upsert_entity(s.graph, id, e)], now)
<1> DEFINE n == Put(s.graph.entities, id, e)
<1>1. Entities(s) \subseteq DOMAIN n
  BY DEF Entities, Put, Over
<1>2. upsert_entity(s.graph, id, e) = [entities |-> n, edges |-> s.graph.edges]
  BY DEF upsert_entity, StoreOk, Shaped
<1> HIDE DEF n
<1>3. Step(s, [s EXCEPT !.graph = [entities |-> n, edges |-> s.graph.edges]], now)
  BY <1>1, GraphGrows DEF Edges
<1> QED BY <1>2, <1>3

\* So does an edge.
LEMMA EdgeSteps ==
    ASSUME NEW s, NEW now, NEW edge, NEW weight, StoreOk(s)
    PROVE  Step(s, [s EXCEPT !.graph = graph_upsert_edge(s.graph, edge, weight)], now)
<1>1. ASSUME NEW meta
      PROVE  Step(s, [s EXCEPT !.graph = upsert_edge(s.graph, edge, meta)], now)
  <2> DEFINE d == Put(s.graph.edges, edge, meta)
  <2>1. Edges(s) \subseteq DOMAIN d
    BY DEF Edges, Put, Over
  <2>2. upsert_edge(s.graph, edge, meta) = [entities |-> s.graph.entities, edges |-> d]
    BY DEF upsert_edge, StoreOk, Shaped
  <2> HIDE DEF d
  <2>3. Step(s, [s EXCEPT !.graph = [entities |-> s.graph.entities, edges |-> d]], now)
    BY <2>1, GraphGrows DEF Entities
  <2> QED BY <2>2, <2>3
<1> QED BY <1>1, Zenon DEF graph_upsert_edge

-----------------------------------------------------------------------------
(* Imports.                                                                *)

\* The rows of some of the lines are among the rows of all of them.
LEMMA RowsPart ==
    ASSUME NEW lines, NEW type, NEW J \in SUBSET DOMAIN lines
    PROVE  /\ DOMAIN Rows(lines, type, J) \subseteq DOMAIN Rows(lines, type, DOMAIN lines)
           /\ \A x \in DOMAIN Rows(lines, type, J) :
                 Rows(lines, type, J)[x] = Rows(lines, type, DOMAIN lines)[x]
  BY DEF Rows

\* Writing part of what is lacking, and then all of it, is writing all of it.
LEMMA OverTwice ==
    ASSUME NEW f, NEW g, NEW h,
           DOMAIN g \subseteq DOMAIN h, \A x \in DOMAIN g : g[x] = h[x]
    PROVE  Over(Over(f, g), h) = Over(f, h)
<1> DEFINE k == Over(f, g)
<1>1. DOMAIN k = DOMAIN f \cup DOMAIN g
  BY DEF Over
<1>2. \A x \in DOMAIN k : k[x] = IF x \in DOMAIN f THEN f[x] ELSE g[x]
  BY DEF Over
<1> HIDE DEF k
<1>3. Over(k, h) = Over(f, h)
  BY <1>1, <1>2 DEF Over
<1> QED BY <1>3 DEF k

\* The memories of a dump, as they are imported.
NewMemoryRows(lines) ==
    [id \in DOMAIN Rows(lines, "memory", DOMAIN lines) |->
        LET r == Rows(lines, "memory", DOMAIN lines)[id]
        IN MemoryRecord(r.layer, r.text, "import", r.until)]

\* A store with the memories of a dump and a given graph.
Built(s, lines, n, d) ==
    [memories |-> Over(s.memories, NewMemoryRows(lines)), graph |-> [entities |-> n, edges |-> d]]

\* The parts of such a store.
LEMMA BuiltIs ==
    ASSUME NEW s, NEW lines, NEW n, NEW d, NEW u, u = Built(s, lines, n, d)
    PROVE  /\ Shaped(u) /\ u.memories = Over(s.memories, NewMemoryRows(lines))
           /\ u.graph.entities = n /\ u.graph.edges = d
  BY DEF Built, Shaped

\* The store after the memories and some of the entities.
LEMMA EntitiesImported ==
    ASSUME NEW s, NEW lines, NEW J, Shaped(s)
    PROVE  ImportEntities(ImportMemories(s, lines), lines, J) =
               Built(s, lines, Over(s.graph.entities, Rows(lines, "entity", J)), s.graph.edges)
<1> DEFINE m == Over(s.memories, NewMemoryRows(lines))
           M == ImportMemories(s, lines)
           n == Over(s.graph.entities, Rows(lines, "entity", J))
<1>1. M = [memories |-> m, graph |-> s.graph]
  BY DEF ImportMemories, NewMemoryRows, Shaped
<1>2. ImportEntities(M, lines, J) = [M EXCEPT !.graph = [M.graph EXCEPT !.entities = Over(M.graph.entities, Rows(lines, "entity", J))]]
  BY DEF ImportEntities
<1>3. s.graph = [entities |-> s.graph.entities, edges |-> s.graph.edges]
  BY DEF Shaped
<1> HIDE DEF m, M
<1>4. M.graph = s.graph /\ M.memories = m
  BY <1>1
<1>5. [s.graph EXCEPT !.entities = n] = [entities |-> n, edges |-> s.graph.edges]
  BY <1>3
<1>6. ImportEntities(M, lines, J) = [M EXCEPT !.graph = [entities |-> n, edges |-> s.graph.edges]]
  BY <1>2, <1>4, <1>5
<1> HIDE DEF n
<1>7. ImportEntities(M, lines, J) = [memories |-> m, graph |-> [entities |-> n, edges |-> s.graph.edges]]
  BY <1>1, <1>6
<1> QED BY <1>7 DEF m, M, n, Built

\* The store after some of the edges.
LEMMA EdgesImported ==
    ASSUME NEW s, NEW lines, NEW n, NEW J
    PROVE  ImportEdges(Built(s, lines, n, s.graph.edges), lines, J) =
               Built(s, lines, n, Over(s.graph.edges, Rows(lines, "edge", J)))
<1> DEFINE m == Over(s.memories, NewMemoryRows(lines))
           d == Over(s.graph.edges, Rows(lines, "edge", J))
           B == Built(s, lines, n, s.graph.edges)
           g == [entities |-> n, edges |-> s.graph.edges]
<1>1. B = [memories |-> m, graph |-> g]
  BY DEF Built
<1>2. ImportEdges(B, lines, J) = [B EXCEPT !.graph = [B.graph EXCEPT !.edges = Over(B.graph.edges, Rows(lines, "edge", J))]]
  BY DEF ImportEdges
<1>3. g.edges = s.graph.edges
  OBVIOUS
<1>4. [g EXCEPT !.edges = d] = [entities |-> n, edges |-> d]
  OBVIOUS
<1> HIDE DEF m, d, B, g
<1>5. B.graph = g
  BY <1>1
<1>6. ImportEdges(B, lines, J) = [B EXCEPT !.graph = [entities |-> n, edges |-> d]]
  BY <1>2, <1>3, <1>4, <1>5 DEF d
<1>7. ImportEdges(B, lines, J) = [memories |-> m, graph |-> [entities |-> n, edges |-> d]]
  BY <1>1, <1>6
<1> QED BY <1>7 DEF m, d, B, Built

\* What an import leaves behind, wherever it stops ...
LEMMA ImportStatesAre ==
    ASSUME NEW s, NEW lines, Shaped(s), NEW u \in ImportStates(s, lines)
    PROVE  \/ u = s
           \/ \E J, K \in SUBSET DOMAIN lines : \E d :
                 /\ u = Built(s, lines, Over(s.graph.entities, Rows(lines, "entity", J)), d)
                 /\ d \in {s.graph.edges, Over(s.graph.edges, Rows(lines, "edge", K))}
                 /\ ImportMayFit(s, lines)
<1>1. CASE ~ImportMayFit(s, lines)
  BY <1>1 DEF ImportStates
<1>2. CASE ImportMayFit(s, lines)
  <2> DEFINE First(k) == {j \in DOMAIN lines : j <= k}
             E(J) == Over(s.graph.entities, Rows(lines, "entity", J))
             D(K) == Over(s.graph.edges, Rows(lines, "edge", K))
  <2>1. \A k : First(k) \in SUBSET DOMAIN lines
    OBVIOUS
  <2>2. \/ u = s
        \/ \E k \in 0 .. Len(lines) : u = ImportEntities(ImportMemories(s, lines), lines, First(k))
        \/ \E k \in 0 .. Len(lines) :
              u = ImportEdges(ImportEntities(ImportMemories(s, lines), lines, DOMAIN lines), lines, First(k))
    BY <1>2 DEF ImportStates
  <2> HIDE DEF First
  <2>3. \A J : ImportEntities(ImportMemories(s, lines), lines, J) = Built(s, lines, E(J), s.graph.edges)
    BY EntitiesImported
  <2>4. \A K : ImportEdges(Built(s, lines, E(DOMAIN lines), s.graph.edges), lines, K) =
                   Built(s, lines, E(DOMAIN lines), D(K))
    BY EdgesImported
  <2> HIDE DEF E, D
  <2>5. \/ u = s
        \/ \E k : u = Built(s, lines, E(First(k)), s.graph.edges)
        \/ \E k : u = Built(s, lines, E(DOMAIN lines), D(First(k)))
    BY <2>2, <2>3, <2>4
  <2>6. \/ u = s
        \/ \E J, K \in SUBSET DOMAIN lines : \E d : u = Built(s, lines, E(J), d) /\ d \in {s.graph.edges, D(K)}
    BY <2>1, <2>5
  <2> QED BY <1>2, <2>6 DEF E, D
<1> QED BY <1>1, <1>2

\* ... and at its end.
LEMMA CompletedIs ==
    ASSUME NEW s, NEW lines, Shaped(s)
    PROVE  Completed(s, lines) =
               Built(s, lines, Over(s.graph.entities, Rows(lines, "entity", DOMAIN lines)),
                               Over(s.graph.edges, Rows(lines, "edge", DOMAIN lines)))
  BY EntitiesImported, EdgesImported DEF Completed

\* New memories are no facts of a consolidation, and what is there is kept.
LEMMA BuiltSteps ==
    ASSUME NEW s, NEW now, NEW lines, NEW n, NEW d, StoreOk(s),
           Kept(s.graph.entities, n), Kept(s.graph.edges, d)
    PROVE  /\ Step(s, Built(s, lines, n, d), now)
           /\ KeptIn(s, Built(s, lines, n, d))
<1> DEFINE u == Built(s, lines, n, d)
           new == NewMemoryRows(lines)
           m == Over(s.memories, new)
<1>1. \A i \in DOMAIN new : new[i].source # "consolidation" /\ RecordOk(i, new[i])
  BY DEF NewMemoryRows, MemoryRecord, RecordOk
<1> HIDE DEF new
<1>2. \A i \in DOMAIN m : IF i \in DOMAIN s.memories THEN m[i] = s.memories[i] ELSE i \in DOMAIN new /\ m[i] = new[i]
  BY DEF Over
<1>3. Kept(s.memories, m)
  BY DEF Kept, Over
<1> HIDE DEF m
<1>4. Shaped(u) /\ u.memories = m /\ u.graph.entities = n /\ u.graph.edges = d
  BY BuiltIs DEF m, new
<1> HIDE DEF u
<1>5. RecordsOk(u) /\ Keeps(s, u, now)
  BY <1>1, <1>2, <1>4 DEF StoreOk, RecordsOk, Keeps
<1>6. KeptIn(s, u)
  BY <1>3, <1>4 DEF KeptIn
<1>7. Grows(s, u)
  BY <1>4 DEF Grows, Entities, Edges, Kept
<1>8. Step(s, u, now)
  BY <1>4, <1>5, <1>7 DEF Step, StoreOk
<1> QED BY <1>6, <1>8 DEF u

\* A store that is left alone.
LEMMA Itself == ASSUME NEW s, NEW now, StoreOk(s) PROVE Step(s, s, now) /\ KeptIn(s, s)
  BY DEF Step, Keeps, Grows, KeptIn, Kept

\* What is there is kept when what is lacking is written.
LEMMA OverKeeps == ASSUME NEW f, NEW g PROVE Kept(f, Over(f, g)) /\ Kept(f, f)
  BY DEF Kept, Over

\* Wherever an import stops, what was there is kept.
LEMMA ImportSteps ==
    ASSUME NEW s, NEW now, NEW lines, StoreOk(s), NEW u \in ImportStates(s, lines)
    PROVE  Step(s, u, now) /\ KeptIn(s, u)
<1>1. CASE u = s
  BY <1>1, Itself
<1>2. ASSUME NEW J, NEW K, NEW d,
             u = Built(s, lines, Over(s.graph.entities, Rows(lines, "entity", J)), d),
             d \in {s.graph.edges, Over(s.graph.edges, Rows(lines, "edge", K))}
      PROVE  Step(s, u, now) /\ KeptIn(s, u)
  BY <1>2, BuiltSteps, OverKeeps
<1> QED BY <1>1, <1>2, ImportStatesAre DEF StoreOk

\* An import that stopped after a write is done when it is made again, and
\* comes to the same end.
LEMMA ImportAgain ==
    ASSUME NEW s, NEW lines, Shaped(s), NEW u \in ImportStates(s, lines), u # s
    PROVE  Imported(u, lines) = {Completed(s, lines)}
<1> DEFINE all == DOMAIN lines
           n(J) == Over(s.graph.entities, Rows(lines, "entity", J))
           e(K) == Over(s.graph.edges, Rows(lines, "edge", K))
           m == Over(s.memories, NewMemoryRows(lines))
<1>1. ASSUME NEW J \in SUBSET all, NEW K \in SUBSET all, NEW d,
             u = Built(s, lines, n(J), d), d \in {s.graph.edges, e(K)}
      PROVE  Imported(u, lines) = {Completed(s, lines)}
  <2>1. Shaped(u) /\ u.memories = m /\ u.graph.entities = n(J) /\ u.graph.edges = d
    BY <1>1, BuiltIs
  <2>2. ImportFits(u, lines)
    <3>1. DOMAIN Rows(lines, "memory", all) \subseteq DOMAIN u.memories
      BY <2>1 DEF Over, NewMemoryRows
    <3>2. DOMAIN NewRows(u, lines) = {}
      BY <3>1 DEF NewRows, Restrict
    <3> QED BY <3>2, Zenon DEF ImportFits
  <2>3. Over(n(J), Rows(lines, "entity", all)) = n(all)
    BY RowsPart, OverTwice
  <2>4. Over(d, Rows(lines, "edge", all)) = e(all)
    <3>1. Over(e(K), Rows(lines, "edge", all)) = e(all)
      BY RowsPart, OverTwice
    <3> QED BY <1>1, <3>1
  <2>5. Over(u.memories, NewMemoryRows(lines)) = m
    <3>1. Over(m, NewMemoryRows(lines)) = m
      BY OverTwice
    <3> QED BY <2>1, <3>1
  <2>6. Completed(u, lines) = Built(u, lines, n(all), e(all))
    <3>1. Completed(u, lines) = Built(u, lines, Over(n(J), Rows(lines, "entity", all)), Over(d, Rows(lines, "edge", all)))
      BY <2>1, CompletedIs
    <3> QED BY <2>3, <2>4, <3>1
  <2>7. Completed(s, lines) = Built(s, lines, n(all), e(all))
    BY CompletedIs
  <2> HIDE DEF n, e, m
  <2>8. Built(u, lines, n(all), e(all)) = Built(s, lines, n(all), e(all))
    BY <2>5 DEF Built, m
  <2>9. Imported(u, lines) = {Completed(u, lines)}
    BY <2>2, Zenon DEF Imported, ImportMayFit
  <2> QED BY <2>6, <2>7, <2>8, <2>9
<1> QED
  <2>1. \E J, K \in SUBSET all : \E d : u = Built(s, lines, n(J), d) /\ d \in {s.graph.edges, e(K)}
    BY ImportStatesAre
  <2> HIDE DEF n, e
  <2> QED BY <1>1, <2>1

-----------------------------------------------------------------------------
(* Purges.                                                                 *)

\* The store of an agent that was purged.
LEMMA NothingOk == StoreOk(Nothing) /\ DOMAIN Nothing.memories = {}
  BY DEF StoreOk, Shaped, RecordsOk, Nothing, NoGraph

\* Wherever a purge stops, it has taken memories away, or everything.
LEMMA PurgeSteps ==
    ASSUME NEW s, NEW now, StoreOk(s), NEW u \in PurgeStates(s)
    PROVE  Step(s, u, now)
<1>1. CASE u = Nothing
  BY <1>1, NothingOk DEF Step, Keeps
<1>2. ASSUME NEW n, u = WithoutFirst(s, n)
      PROVE  Step(s, u, now)
  <2> DEFINE left == {i \in DOMAIN s.memories : Cardinality({j \in DOMAIN s.memories : j < i}) >= n}
             m == Restrict(s.memories, left)
  <2>1. DOMAIN m \subseteq DOMAIN s.memories /\ \A i \in DOMAIN m : m[i] = s.memories[i]
    BY DEF Restrict
  <2>2. u = [s EXCEPT !.memories = m]
    BY <1>2 DEF WithoutFirst
  <2> HIDE DEF m
  <2> QED BY <2>1, <2>2, MemoriesKept DEF StoreOk, RecordsOk
<1> QED BY <1>1, <1>2 DEF PurgeStates

-----------------------------------------------------------------------------
(* The calls of the consolidations.                                        *)

\* What a call goes on with is not the write of a fact.
LEMMA OnwardOk ==
    ASSUME NEW c, Full(c)
    PROVE  CallOk(Onward(c)) /\ Onward(c).at \in {"idle", "apply"}
<1> DEFINE d == [c EXCEPT !.at = "apply"]
<1>1. d = [at |-> "apply", agent |-> c.agent, facts |-> c.facts,
           entities |-> c.entities, relations |-> c.relations]
  BY DEF Full
<1> HIDE DEF d
<1>2. d.at = "apply" /\ Full(d)
  BY <1>1 DEF Full
<1>3. Idle.at = "idle"
  BY DEF Idle
<1>4. Onward(c) = Idle \/ Onward(c) = d
  BY DEF Onward, d
<1> QED BY <1>2, <1>3, <1>4 DEF CallOk

\* A call whose answer is partly applied.
LEMMA LessLeft ==
    ASSUME NEW c, NEW x, Full(c)
    PROVE  /\ Full([c EXCEPT !.entities = x]) /\ Full([c EXCEPT !.relations = x])
           /\ Full([c EXCEPT !.facts = x])
<1>1. ASSUME NEW n, NEW r, NEW f, NEW d,
             d = [at |-> c.at, agent |-> c.agent, facts |-> f, entities |-> n, relations |-> r]
      PROVE  Full(d)
  BY <1>1 DEF Full
<1>2. [c EXCEPT !.entities = x] =
        [at |-> c.at, agent |-> c.agent, facts |-> c.facts, entities |-> x, relations |-> c.relations]
  BY DEF Full
<1>3. [c EXCEPT !.relations = x] =
        [at |-> c.at, agent |-> c.agent, facts |-> c.facts, entities |-> c.entities, relations |-> x]
  BY DEF Full
<1>4. [c EXCEPT !.facts = x] =
        [at |-> c.at, agent |-> c.agent, facts |-> x, entities |-> c.entities, relations |-> c.relations]
  BY DEF Full
<1> QED BY <1>1, <1>2, <1>3, <1>4, Zenon

\* A call at another place.
LEMMA ElsewhereIs ==
    ASSUME NEW c, NEW place \in {"apply", "near", "put"}, NEW d, Full(c), d = [c EXCEPT !.at = place]
    PROVE  CallOk(d) /\ d.at = place /\ d.agent = c.agent /\ d.facts = c.facts
<1>1. d = [at |-> place, agent |-> c.agent, facts |-> c.facts,
           entities |-> c.entities, relations |-> c.relations]
  BY DEF Full
<1>2. d.at = place /\ d.agent = c.agent /\ d.facts = c.facts /\ d.entities = c.entities /\ d.relations = c.relations
  BY ONLY <1>1
<1>3. Full(d)
  BY <1>1, <1>2 DEF Full
<1> QED BY <1>2, <1>3 DEF CallOk

\* A call that has returned.
LEMMA IdleOk == CallOk(Idle) /\ Idle.at \in {"idle", "apply"}
  BY DEF CallOk, Idle

\* An answer that is to be applied.
LEMMA ApplyOk ==
    ASSUME NEW a \in Agents, NEW x
    PROVE  CallOk(Onward(Apply(a, x))) /\ Onward(Apply(a, x)).at \in {"idle", "apply"}
<1>1. Full(Apply(a, x))
  BY DEF Full, Apply
<1> QED BY <1>1, OnwardOk

\* A call under way but for the place is full.
LEMMA AtApply ==
    ASSUME KnowledgeTypeOK, NEW p \in Callers, calls[p].at \in {"apply", "near", "put"}
    PROVE  Full(calls[p])
  BY DEF KnowledgeTypeOK, CallOk

-----------------------------------------------------------------------------
(* The invariant is kept.                                                  *)

\* The place of a call, when it moves.
LEMMA OneGoes ==
    ASSUME KnowledgeTypeOK, NEW p \in Callers, NEW c, Goes(p, c), CallOk(c)
    PROVE  /\ calls' = [q \in Callers |-> calls'[q]] /\ \A q \in Callers : CallOk(calls'[q])
           /\ calls'[p] = c /\ \A q \in Callers \ {p} : calls'[q] = calls[q]
  BY DEF KnowledgeTypeOK, Goes

\* The store of an agent, when it is written.
LEMMA OneWritten ==
    ASSUME KnowledgeTypeOK, NEW a \in Agents, NEW u, With(a, u), StoreOk(u)
    PROVE  /\ store' = [b \in Agents |-> store'[b]] /\ \A b \in Agents : StoreOk(store'[b])
           /\ store'[a] = u /\ \A b \in Agents \ {a} : store'[b] = store[b]
  BY DEF KnowledgeTypeOK, With

\* The facts of a text can be counted: they are under the ids of the store.
LEMMA FactsFinite ==
    ASSUME KnowledgeAssumption, NEW s, NEW t, NEW now, StoreOk(s)
    PROVE  IsFiniteSet(Facts(s, t, now)) /\ Cardinality(Facts(s, t, now)) \in Nat
<1>1. Facts(s, t, now) \subseteq Ids
  BY DEF Facts, StoreOk, RecordsOk, RecordOk
<1>2. IsFiniteSet(Ids)
  BY FS_Interval DEF Ids, KnowledgeAssumption
<1> QED BY <1>1, <1>2, FS_Subset, FS_CardinalityType

\* And so can the calls.
LEMMA WritersFinite ==
    ASSUME KnowledgeAssumption, NEW S \in SUBSET Callers
    PROVE  IsFiniteSet(S) /\ Cardinality(S) \in Nat /\ Cardinality(S) <= Cardinality(Callers)
           /\ Cardinality(Callers) \in Nat
  BY FS_Subset, FS_CardinalityType DEF KnowledgeAssumption

\* Fewer facts and fewer calls about to write one.
LEMMA CountFewer ==
    ASSUME KnowledgeAssumption, NEW F, NEW G, NEW V \in SUBSET Callers, NEW W \in SUBSET Callers,
           IsFiniteSet(F), G \subseteq F, V \subseteq W,
           Cardinality(F) + Cardinality(W) <= Cardinality(Callers)
    PROVE  Cardinality(G) + Cardinality(V) <= Cardinality(Callers)
<1>1. IsFiniteSet(G) /\ Cardinality(G) \in Nat /\ Cardinality(F) \in Nat /\ Cardinality(G) <= Cardinality(F)
  BY FS_Subset, FS_CardinalityType
<1>2. IsFiniteSet(W) /\ Cardinality(W) \in Nat
  BY WritersFinite
<1>3. Cardinality(V) \in Nat /\ Cardinality(V) <= Cardinality(W)
  BY <1>2, FS_Subset, FS_CardinalityType
<1>4. Cardinality(Callers) \in Nat
  BY WritersFinite
<1> QED BY <1>1, <1>2, <1>3, <1>4

\* A step that writes no fact, and after which no call is about to write one
\* that was not about to before.
LEMMA FewerCounted ==
    ASSUME KnowledgeAssumption, KnowledgeInv,
           \A b \in Agents : Keeps(store[b], store'[b], clock'),
           clock' >= clock, clock' \in Nat,
           \A q \in Callers, a \in Agents : \A t : Writes(calls'[q], a, t) => Writes(calls[q], a, t)
    PROVE  Counted'
<1> SUFFICES ASSUME NEW a \in Agents, NEW t
             PROVE  CountOk(a, t)'
  BY DEF Counted
<1> DEFINE F == Facts(store[a], t, clock)
           G == Facts(store'[a], t, clock')
           V == {p \in Callers : Writes(calls'[p], a, t)}
           W == Writers(a, t)
<1>1. G \subseteq F
  <2> SUFFICES ASSUME NEW i \in G PROVE i \in F
    OBVIOUS
  <2>1. i \in DOMAIN store[a].memories /\ store[a].memories[i] = store'[a].memories[i]
    BY DEF Facts, Keeps
  <2>2. RecordOk(i, store[a].memories[i])
    BY <2>1 DEF KnowledgeInv, KnowledgeTypeOK, StoreOk, RecordsOk
  <2>3. store[a].memories[i].until \in Nat \cup {Forever}
    BY <2>1, <2>2 DEF Facts, RecordOk
  <2>4. clock \in Nat
    BY DEF KnowledgeInv, KnowledgeTypeOK
  <2>5. record_valid_at(store[a].memories[i], clock)
    BY <2>1, <2>3, <2>4 DEF Facts, record_valid_at, visible_at
  <2> QED BY <2>1, <2>5 DEF Facts
<1>2. V \subseteq W
  BY DEF Writers
<1>3. IsFiniteSet(F)
  BY FactsFinite DEF KnowledgeInv, KnowledgeTypeOK
<1>4. Cardinality(F) + Cardinality(W) <= Cardinality(Callers)
  BY DEF KnowledgeInv, Counted, CountOk
<1> HIDE DEF F, W
<1>5. W \in SUBSET Callers
  BY DEF W, Writers
<1>6. V \in SUBSET Callers
  OBVIOUS
<1> HIDE DEF V, G
<1>7. Cardinality(G) + Cardinality(V) <= Cardinality(Callers)
  BY <1>1, <1>2, <1>3, <1>4, <1>5, <1>6, CountFewer
<1> QED BY <1>7 DEF CountOk, Writers, G, V

\* What a step does to the graphs: PurgeOrder, without the box.
Ordered == \A b \in Agents : Grows(store[b], store'[b]) \/ store'[b] = Nothing

\* A step of the store of one agent, and no call goes on.
LEMMA StoreStep ==
    ASSUME KnowledgeAssumption, KnowledgeInv, NEW a \in Agents, NEW u,
           With(a, u), Step(store[a], u, clock), UNCHANGED <<clock, calls>>
    PROVE  KnowledgeInv' /\ Ordered
<1>1. StoreOk(u)
  BY DEF Step
<1>2. /\ store' = [b \in Agents |-> store'[b]] /\ \A b \in Agents : StoreOk(store'[b])
      /\ store'[a] = u /\ \A b \in Agents \ {a} : store'[b] = store[b]
  BY <1>1, OneWritten DEF KnowledgeInv
<1>3. KnowledgeTypeOK'
  BY <1>2 DEF KnowledgeInv, KnowledgeTypeOK
<1>4. \A b \in Agents : Step(store[b], store'[b], clock)
  BY <1>2, Itself DEF KnowledgeInv, KnowledgeTypeOK
<1>5. clock' = clock /\ clock \in Nat /\ calls' = calls
  BY DEF KnowledgeInv, KnowledgeTypeOK
<1>6. Counted'
  BY <1>4, <1>5, FewerCounted DEF Step
<1> QED BY <1>3, <1>4, <1>6 DEF KnowledgeInv, Ordered, Step

\* A step of one call that writes no fact, and perhaps of the store.
LEMMA CallStep ==
    ASSUME KnowledgeAssumption, KnowledgeInv, NEW p \in Callers, NEW c, Goes(p, c), CallOk(c),
           \A a \in Agents : \A t : Writes(c, a, t) => Writes(calls[p], a, t),
           clock' = clock,
           UNCHANGED store \/ \E a \in Agents : \E u : With(a, u) /\ Step(store[a], u, clock)
    PROVE  KnowledgeInv' /\ Ordered
<1>1. /\ calls' = [q \in Callers |-> calls'[q]] /\ \A q \in Callers : CallOk(calls'[q])
      /\ calls'[p] = c /\ \A q \in Callers \ {p} : calls'[q] = calls[q]
  BY OneGoes DEF KnowledgeInv
<1>2. /\ store' = [b \in Agents |-> store'[b]] /\ \A b \in Agents : StoreOk(store'[b])
      /\ \A b \in Agents : Step(store[b], store'[b], clock)
  <2>1. CASE UNCHANGED store
    BY <2>1, Itself DEF KnowledgeInv, KnowledgeTypeOK
  <2>2. ASSUME NEW a \in Agents, NEW u, With(a, u), Step(store[a], u, clock)
        PROVE  /\ store' = [b \in Agents |-> store'[b]] /\ \A b \in Agents : StoreOk(store'[b])
               /\ \A b \in Agents : Step(store[b], store'[b], clock)
    <3>1. StoreOk(u)
      BY <2>2 DEF Step
    <3>2. /\ store' = [b \in Agents |-> store'[b]] /\ \A b \in Agents : StoreOk(store'[b])
          /\ store'[a] = u /\ \A b \in Agents \ {a} : store'[b] = store[b]
      BY <2>2, <3>1, OneWritten DEF KnowledgeInv
    <3> QED BY <2>2, <3>2, Itself DEF KnowledgeInv, KnowledgeTypeOK
  <2> QED BY <2>1, <2>2
<1>3. KnowledgeTypeOK'
  BY <1>1, <1>2 DEF KnowledgeInv, KnowledgeTypeOK
<1>4. clock \in Nat
  BY DEF KnowledgeInv, KnowledgeTypeOK
<1>5. \A q \in Callers, b \in Agents : \A t : Writes(calls'[q], b, t) => Writes(calls[q], b, t)
  BY <1>1
<1>6. Counted'
  BY <1>2, <1>4, <1>5, FewerCounted DEF Step
<1> QED BY <1>2, <1>3, <1>6 DEF KnowledgeInv, Ordered, Step

\* A call elsewhere is not about to write a fact.
LEMMA NotWriting ==
    ASSUME NEW c, c.at \in {"idle", "apply", "llm"}
    PROVE  \A a : \A t : ~Writes(c, a, t)
  BY DEF Writes

\* What users do.
LEMMA UserSteps ==
    ASSUME KnowledgeAssumption, KnowledgeInv, NEW a \in Agents, UserCall(a)
    PROVE  KnowledgeInv' /\ Ordered
<1>0. StoreOk(store[a]) /\ clock \in Nat /\ clock # Forever
  BY DEF KnowledgeInv, KnowledgeTypeOK, KnowledgeAssumption
<1>1. ASSUME NEW r \in Memories, Remember(a, r)
      PROVE  KnowledgeInv' /\ Ordered
  <2> DEFINE u == [store[a] EXCEPT !.memories = Put(@, Min(Unused), r)]
  <2>1. r.source # "consolidation" /\ RecordOk(Min(Unused), r)
    <3>1. r = MemoryRecord(r.layer, r.text, "user", r.until)
      BY DEF KnowledgeAssumption
    <3>2. r.source = "user"
      BY ONLY <3>1 DEF MemoryRecord
    <3> QED BY <3>1, <3>2 DEF RecordOk
  <2>2. Step(store[a], u, clock)
    BY <1>0, <2>1, RememberSteps
  <2>3. With(a, u) /\ UNCHANGED <<clock, calls>>
    BY <1>1 DEF Remember, PutMemory
  <2> HIDE DEF u
  <2> QED BY <2>2, <2>3, StoreStep
<1>2. ASSUME NEW i \in Ids, Invalidate(a, i)
      PROVE  KnowledgeInv' /\ Ordered
  <2> DEFINE u == [store[a] EXCEPT !.memories[i].until = clock]
  <2>1. Step(store[a], u, clock)
    BY <1>0, InvalidateSteps
  <2>2. With(a, u) /\ UNCHANGED <<clock, calls>>
    BY <1>2 DEF Invalidate
  <2> HIDE DEF u
  <2> QED BY <2>1, <2>2, StoreStep
<1>3. ASSUME NEW id, NEW until, AddEntity(a, id, until)
      PROVE  KnowledgeInv' /\ Ordered
  <2> DEFINE u == [store[a] EXCEPT !.graph = upsert_entity(store[a].graph, id, GraphEntity(id, until))]
  <2>1. Step(store[a], u, clock)
    BY <1>0, EntitySteps
  <2>2. With(a, u) /\ UNCHANGED <<clock, calls>>
    BY <1>3 DEF AddEntity, PutGraph
  <2> HIDE DEF u
  <2> QED BY <2>1, <2>2, StoreStep
<1>4. ASSUME NEW edge, NEW weight, AddEdge(a, edge, weight)
      PROVE  KnowledgeInv' /\ Ordered
  <2> DEFINE u == [store[a] EXCEPT !.graph = graph_upsert_edge(store[a].graph, edge, weight)]
  <2>1. Step(store[a], u, clock)
    BY <1>0, EdgeSteps
  <2>2. With(a, u) /\ UNCHANGED <<clock, calls>>
    BY <1>4 DEF AddEdge, PutGraph
  <2> HIDE DEF u
  <2> QED BY <2>1, <2>2, StoreStep
<1>5. ASSUME NEW lines, NEW trusted, Import(a, lines, trusted)
      PROVE  KnowledgeInv' /\ Ordered
  <2>1. PICK u \in ImportStates(store[a], lines) : With(a, u) /\ UNCHANGED <<clock, calls>>
    BY <1>5 DEF Import
  <2>2. Step(store[a], u, clock)
    BY <1>0, ImportSteps
  <2> QED BY <2>1, <2>2, StoreStep
<1>6. ASSUME PurgeAgent(a)
      PROVE  KnowledgeInv' /\ Ordered
  <2>1. PICK u \in PurgeStates(store[a]) : With(a, u) /\ UNCHANGED <<clock, calls>>
    BY <1>6 DEF PurgeAgent
  <2>2. Step(store[a], u, clock)
    BY <1>0, PurgeSteps
  <2> QED BY <2>1, <2>2, StoreStep
<1> QED BY <1>1, <1>2, <1>3, <1>4, <1>5, <1>6, Zenon DEF UserCall

\* A write of the graph by a call, whatever becomes of it.
LEMMA GraphWritten ==
    ASSUME KnowledgeAssumption, KnowledgeInv, NEW p \in Callers, NEW a \in Agents, NEW u, NEW next,
           Written(p, With(a, u), next), Step(store[a], u, clock),
           CallOk(next), next.at \in {"idle", "apply"}, UNCHANGED clock
    PROVE  KnowledgeInv' /\ Ordered
<1>1. /\ \E c \in {next, Idle} : Goes(p, c)
      /\ UNCHANGED store \/ With(a, u)
  BY DEF Written
<1>2. PICK c \in {next, Idle} : Goes(p, c)
  BY <1>1
<1>3. CallOk(c) /\ c.at \in {"idle", "apply", "llm"}
  BY IdleOk
<1>4. \A b \in Agents : \A t : Writes(c, b, t) => Writes(calls[p], b, t)
  BY <1>3, NotWriting
<1> QED BY <1>1, <1>2, <1>3, <1>4, CallStep

\* What a call does before it writes a fact.
LEMMA ConsolidationSteps ==
    ASSUME KnowledgeAssumption, KnowledgeInv, NEW p \in Callers, Consolidation(p), ~CheckExact(p), ~PutFact(p)
    PROVE  KnowledgeInv' /\ Ordered
<1>0. KnowledgeTypeOK
  BY DEF KnowledgeInv
<1>1. ASSUME NEW c, Goes(p, c), CallOk(c), c.at \in {"idle", "apply", "llm"}, UNCHANGED <<store, clock>>
      PROVE  KnowledgeInv' /\ Ordered
  <2>1. \A b \in Agents : \A t : Writes(c, b, t) => Writes(calls[p], b, t)
    BY <1>1, NotWriting
  <2> QED BY <1>1, <2>1, CallStep
<1>2. ASSUME NEW a \in Agents, Consolidate(p, a)
      PROVE  KnowledgeInv' /\ Ordered
  <2>1. CallOk([at |-> "llm", agent |-> a])
    BY DEF CallOk
  <2> QED BY <1>1, <1>2, <2>1 DEF Consolidate
<1>3. ASSUME NEW x, LlmAnswers(p, x)
      PROVE  KnowledgeInv' /\ Ordered
  <2>1. calls[p].agent \in Agents
    BY <1>0, <1>3 DEF KnowledgeTypeOK, CallOk, LlmAnswers, At
  <2>2. CASE InBounds(x)
    BY <1>1, <1>3, <2>1, <2>2, ApplyOk DEF LlmAnswers
  <2>3. CASE ~InBounds(x)
    BY <1>1, <1>3, <2>3, IdleOk DEF LlmAnswers
  <2> QED BY <2>2, <2>3
<1>4. ASSUME LlmFails(p)
      PROVE  KnowledgeInv' /\ Ordered
  BY <1>1, <1>4, IdleOk DEF LlmFails
<1>5. ASSUME NEW a \in Agents, NEW x, ConsolidateApply(p, a, x)
      PROVE  KnowledgeInv' /\ Ordered
  BY <1>1, <1>5, ApplyOk DEF ConsolidateApply
<1>6. ASSUME ApplyEntity(p)
      PROVE  KnowledgeInv' /\ Ordered
  <2> DEFINE c == calls[p]
             e == GraphEntity(Head(c.entities), Forever)
             u == [store[c.agent] EXCEPT !.graph = upsert_entity(store[c.agent].graph, Head(c.entities), e)]
             left == [c EXCEPT !.entities = Tail(c.entities)]
  <2>1. Full(c)
    BY <1>0, <1>6, AtApply DEF ApplyEntity, At
  <2>2. c.agent \in Agents /\ StoreOk(store[c.agent])
    BY <1>0, <2>1 DEF Full, KnowledgeTypeOK
  <2>3. Step(store[c.agent], u, clock)
    BY <2>2, EntitySteps
  <2>4. CallOk(Onward(left)) /\ Onward(left).at \in {"idle", "apply"}
    BY <2>1, LessLeft, OnwardOk
  <2>5. Written(p, With(c.agent, u), Onward(left)) /\ UNCHANGED clock
    BY <1>6 DEF ApplyEntity, PutGraph
  <2> HIDE DEF u, left
  <2> QED BY <2>2, <2>3, <2>4, <2>5, GraphWritten
<1>7. ASSUME ApplyRelation(p)
      PROVE  KnowledgeInv' /\ Ordered
  <2> DEFINE c == calls[p]
             u == [store[c.agent] EXCEPT !.graph = graph_upsert_edge(store[c.agent].graph, Head(c.relations), 1)]
             left == [c EXCEPT !.relations = Tail(c.relations)]
  <2>1. Full(c)
    BY <1>0, <1>7, AtApply DEF ApplyRelation, At
  <2>2. c.agent \in Agents /\ StoreOk(store[c.agent])
    BY <1>0, <2>1 DEF Full, KnowledgeTypeOK
  <2>3. Step(store[c.agent], u, clock)
    BY <2>2, EdgeSteps
  <2>4. CallOk(Onward(left)) /\ Onward(left).at \in {"idle", "apply"}
    BY <2>1, LessLeft, OnwardOk
  <2>5. Written(p, With(c.agent, u), Onward(left)) /\ UNCHANGED clock
    BY <1>7 DEF ApplyRelation, PutGraph
  <2> HIDE DEF u, left
  <2> QED BY <2>2, <2>3, <2>4, <2>5, GraphWritten
<1>8. ASSUME CheckNear(p)
      PROVE  KnowledgeInv' /\ Ordered
  <2> DEFINE c == calls[p]
             put == [c EXCEPT !.at = "put"]
             left == [c EXCEPT !.facts = Tail(c.facts)]
  <2>1. Full(c) /\ c.at = "near"
    BY <1>0, <1>8, AtApply DEF CheckNear, At
  <2>2. Goes(p, put) \/ Goes(p, Onward(left))
    BY <1>8 DEF CheckNear
  <2>3. UNCHANGED <<store, clock>>
    BY <1>8 DEF CheckNear
  <2>4. CASE Goes(p, put)
    <3>1. CallOk(put) /\ put.at = "put" /\ put.agent = c.agent /\ put.facts = c.facts
      BY <2>1, ElsewhereIs
    <3>2. \A b \in Agents : \A t : Writes(put, b, t) => Writes(c, b, t)
      BY <2>1, <3>1 DEF Writes
    <3> HIDE DEF put
    <3> QED BY <2>3, <2>4, <3>1, <3>2, CallStep
  <2>5. CASE Goes(p, Onward(left))
    <3>1. CallOk(Onward(left)) /\ Onward(left).at \in {"idle", "apply"}
      BY <2>1, LessLeft, OnwardOk
    <3> QED BY <1>1, <2>3, <2>5, <3>1
  <2> QED BY <2>2, <2>4, <2>5
<1> QED BY <1>2, <1>3, <1>4, <1>5, <1>6, <1>7, <1>8, Zenon DEF Consolidation

\* A call that goes on to the write of a fact has found none of that text.
LEMMA CheckExactSteps ==
    ASSUME KnowledgeAssumption, KnowledgeInv, NEW p \in Callers, CheckExact(p)
    PROVE  KnowledgeInv' /\ Ordered
<1> DEFINE c == calls[p]
           near == [c EXCEPT !.at = "near"]
           left == [c EXCEPT !.facts = Tail(c.facts)]
           text == Head(c.facts)
<1>0. KnowledgeTypeOK
  BY DEF KnowledgeInv
<1>1. Full(c) /\ c.at = "apply" /\ UNCHANGED <<store, clock>>
  BY <1>0, AtApply DEF CheckExact, At
<1>2. \/ Goes(p, Onward(left))
      \/ Goes(p, near) /\ ~exact_fact_exists(c.agent, text)
  BY DEF CheckExact
<1>3. CASE Goes(p, Onward(left))
  <2>1. CallOk(Onward(left)) /\ Onward(left).at \in {"idle", "apply"}
    BY <1>1, LessLeft, OnwardOk
  <2>2. \A b \in Agents : \A t : Writes(Onward(left), b, t) => Writes(c, b, t)
    BY <2>1, NotWriting
  <2> HIDE DEF left
  <2> QED BY <1>1, <1>3, <2>1, <2>2, CallStep
<1>4. CASE Goes(p, near) /\ ~exact_fact_exists(c.agent, text)
  <2>1. CallOk(near) /\ near.at = "near" /\ near.agent = c.agent /\ near.facts = c.facts
    BY <1>1, ElsewhereIs
  <2> HIDE DEF near
  <2>2. /\ calls' = [q \in Callers |-> calls'[q]] /\ \A q \in Callers : CallOk(calls'[q])
        /\ calls'[p] = near /\ \A q \in Callers \ {p} : calls'[q] = calls[q]
    BY <1>0, <1>4, <2>1, OneGoes
  <2>3. KnowledgeTypeOK'
    BY <1>0, <1>1, <2>2 DEF KnowledgeTypeOK
  <2>4. ASSUME NEW a \in Agents, NEW t
        PROVE  CountOk(a, t)'
    <3> DEFINE F == Facts(store[a], t, clock)
               V == {q \in Callers : Writes(calls'[q], a, t)}
    <3>1. V \in SUBSET Callers
      OBVIOUS
    <3>2. StoreOk(store[a]) /\ CountOk(a, t)
      BY <1>0 DEF KnowledgeInv, Counted, KnowledgeTypeOK
    <3>3. Cardinality(F) + Cardinality(V) <= Cardinality(Callers)
      <4>1. CASE a = c.agent /\ t = text
        <5>1. F = {}
          BY <1>4, <3>2, <4>1 DEF Facts, exact_fact_exists, Valid, StoreOk, RecordsOk, RecordOk
        <5>2. Cardinality(F) = 0
          BY <5>1, FS_EmptySet
        <5> HIDE DEF F, V
        <5> QED BY <3>1, <5>2, WritersFinite
      <4>2. CASE ~(a = c.agent /\ t = text)
        <5>1. V \subseteq Writers(a, t)
          BY <2>1, <2>2, <4>2 DEF Writers, Writes
        <5>2. IsFiniteSet(F) /\ Writers(a, t) \in SUBSET Callers
          BY <3>2, FactsFinite DEF Writers
        <5>3. Cardinality(F) + Cardinality(Writers(a, t)) <= Cardinality(Callers)
          BY <3>2 DEF CountOk
        <5> HIDE DEF F, V
        <5> QED BY <3>1, <5>1, <5>2, <5>3, CountFewer
      <4> QED BY <4>1, <4>2
    <3> QED BY <1>1, <3>3 DEF CountOk, Writers
  <2>5. Ordered
    BY <1>0, <1>1, Itself DEF Ordered, Step, KnowledgeTypeOK
  <2> QED BY <2>3, <2>4, <2>5 DEF KnowledgeInv, Counted
<1> QED BY <1>2, <1>3, <1>4

\* The fact that is written, and what it is to the store.
LEMMA FactPut ==
    ASSUME NEW s, NEW now, NEW i \in Ids, NEW text, NEW u, StoreOk(s), i \notin DOMAIN s.memories,
           Shaped(u), u.graph = s.graph,
           u.memories = Put(s.memories, i, MemoryRecord("semantic", text, "consolidation", Forever))
    PROVE  /\ StoreOk(u) /\ Grows(s, u)
           /\ Facts(u, text, now) \subseteq Facts(s, text, now) \cup {i}
           /\ \A t : t # text => Facts(u, t, now) \subseteq Facts(s, t, now)
<1> DEFINE r == MemoryRecord("semantic", text, "consolidation", Forever)
           m == Put(s.memories, i, r)
<1>1. DOMAIN m = DOMAIN s.memories \cup {i} /\ m[i] = r /\ \A j \in DOMAIN s.memories \ {i} : m[j] = s.memories[j]
  BY DEF Put, Over
<1>2. r.layer = "semantic" /\ r.text = text /\ r.source = "consolidation" /\ r.until = Forever
  BY DEF MemoryRecord
<1>3. r = MemoryRecord(r.layer, r.text, r.source, r.until)
  BY <1>2
<1> HIDE DEF r
<1>4. u.memories = m
  BY DEF r
<1> HIDE DEF m
<1>5. RecordOk(i, r)
  BY <1>2, <1>3 DEF RecordOk
<1>6. RecordsOk(u)
  BY <1>1, <1>4, <1>5 DEF RecordsOk, StoreOk
<1>7. Grows(s, u)
  BY <1>4 DEF Grows, Entities, Edges
<1>8. ASSUME NEW t, NEW j \in Facts(u, t, now)
      PROVE  j \in Facts(s, t, now) \/ (j = i /\ t = text)
  BY <1>1, <1>2, <1>4, <1>8 DEF Facts
<1> QED BY <1>4, <1>6, <1>7, <1>8 DEF StoreOk

\* The caller that writes a fact is no longer about to: the sum stays.
LEMMA PutFactSteps ==
    ASSUME KnowledgeAssumption, KnowledgeInv, NEW p \in Callers, PutFact(p)
    PROVE  KnowledgeInv' /\ Ordered
<1> DEFINE c == calls[p]
           text == Head(c.facts)
           left == [c EXCEPT !.facts = Tail(c.facts)]
           r == MemoryRecord("semantic", text, "consolidation", Forever)
           s == store[c.agent]
           i == Min(Unused)
           u == [s EXCEPT !.memories = Put(s.memories, i, r)]
<1>0. KnowledgeTypeOK
  BY DEF KnowledgeInv
<1>1. Full(c) /\ c.at = "put" /\ c.agent \in Agents /\ StoreOk(s) /\ UNCHANGED clock
  BY <1>0, AtApply DEF PutFact, At, Full, KnowledgeTypeOK
<1>2. CallOk(Onward(left)) /\ Onward(left).at \in {"idle", "apply"}
  BY <1>1, LessLeft, OnwardOk
<1>3. PICK d \in {Onward(left), Idle} : Goes(p, d) /\ (PutMemory(c.agent, r) \/ UNCHANGED store)
  BY DEF PutFact, Written
<1>4. CallOk(d) /\ d.at \in {"idle", "apply"}
  BY <1>2, IdleOk
<1>5. \A b : \A t : ~Writes(d, b, t)
  BY <1>4, NotWriting
<1> HIDE DEF left
<1>6. CASE UNCHANGED store
  BY <1>1, <1>3, <1>4, <1>5, <1>6, CallStep
<1>7. CASE PutMemory(c.agent, r)
  <2>1. Unused # {} /\ With(c.agent, u)
    BY <1>7 DEF PutMemory
  <2>2. i \in Ids /\ i \notin DOMAIN s.memories
    BY <1>1, <2>1, FreshId
  <2>3. /\ StoreOk(u) /\ Grows(s, u)
        /\ Facts(u, text, clock) \subseteq Facts(s, text, clock) \cup {i}
        /\ \A t : t # text => Facts(u, t, clock) \subseteq Facts(s, t, clock)
    <3>1. Shaped(u) /\ u.memories = Put(s.memories, i, r) /\ u.graph = s.graph
      BY <1>1, NewMemories DEF StoreOk
    <3> HIDE DEF u, i, s, text
    <3> QED BY <1>1, <2>2, <3>1, FactPut DEF r
  <2> HIDE DEF u, r, i
  <2>4. /\ calls' = [q \in Callers |-> calls'[q]] /\ \A q \in Callers : CallOk(calls'[q])
        /\ calls'[p] = d /\ \A q \in Callers \ {p} : calls'[q] = calls[q]
    BY <1>0, <1>3, <1>4, OneGoes
  <2>5. /\ store' = [b \in Agents |-> store'[b]] /\ \A b \in Agents : StoreOk(store'[b])
        /\ store'[c.agent] = u /\ \A b \in Agents \ {c.agent} : store'[b] = store[b]
    BY <1>0, <1>1, <2>1, <2>3, OneWritten
  <2>6. KnowledgeTypeOK'
    BY <1>0, <1>1, <2>4, <2>5 DEF KnowledgeTypeOK
  <2>7. ASSUME NEW a \in Agents, NEW t
        PROVE  CountOk(a, t)'
    <3> DEFINE F == Facts(store[a], t, clock)
               G == Facts(store'[a], t, clock)
               W == Writers(a, t)
               V == {q \in Callers : Writes(calls'[q], a, t)}
    <3>1. V \in SUBSET Callers /\ W \in SUBSET Callers /\ V \subseteq W \ {p}
      BY <1>5, <2>4 DEF Writers
    <3>2. StoreOk(store[a]) /\ Cardinality(F) + Cardinality(W) <= Cardinality(Callers)
      BY <1>0 DEF KnowledgeInv, Counted, CountOk, KnowledgeTypeOK
    <3>3. IsFiniteSet(F) /\ Cardinality(F) \in Nat
      BY <3>2, FactsFinite
    <3>4. Cardinality(G) + Cardinality(V) <= Cardinality(Callers)
      <4>1. CASE a = c.agent /\ t = text
        <5>1. p \in W
          BY <1>1, <4>1 DEF Writers, Writes
        <5>2. G \subseteq F \cup {i}
          BY <2>3, <2>5, <4>1
        <5> HIDE DEF F, G, V, W
        <5>3. IsFiniteSet(W) /\ Cardinality(W) \in Nat
          BY <3>1, WritersFinite
        <5>4. IsFiniteSet(W \ {p}) /\ Cardinality(W \ {p}) = Cardinality(W) - 1
          BY <5>1, <5>3, FS_RemoveElement
        <5>5. IsFiniteSet(F \cup {i}) /\ Cardinality(F \cup {i}) \in Nat /\ Cardinality(F \cup {i}) <= Cardinality(F) + 1
          <6>1. Cardinality(F \cup {i}) \in {Cardinality(F), Cardinality(F) + 1}
            BY <3>3, FS_AddElement
          <6>2. IsFiniteSet(F \cup {i})
            BY <3>3, FS_AddElement
          <6> QED BY <3>3, <6>1, <6>2
        <5>6. W \ {p} \in SUBSET Callers /\ Cardinality(W \ {p}) \in Nat
          BY <3>1, WritersFinite
        <5>7. Cardinality(Callers) \in Nat
          BY <3>1, WritersFinite
        <5>8. Cardinality(F \cup {i}) + Cardinality(W \ {p}) <= Cardinality(Callers)
          BY <3>2, <3>3, <5>3, <5>4, <5>5, <5>7
        <5> QED BY <3>1, <5>2, <5>5, <5>6, <5>8, CountFewer
      <4>2. CASE ~(a = c.agent /\ t = text)
        <5>1. G \subseteq F /\ V \subseteq W
          BY <2>3, <2>5, <3>1, <4>2
        <5> HIDE DEF F, G, V, W
        <5> QED BY <3>1, <3>2, <3>3, <5>1, CountFewer
      <4> QED BY <4>1, <4>2
    <3> QED BY <1>1, <3>4 DEF CountOk, Writers
  <2>8. Ordered
    <3>1. \A b \in Agents : Grows(store[b], store'[b])
      BY <2>3, <2>5 DEF Grows
    <3> QED BY <3>1 DEF Ordered
  <2> QED BY <2>6, <2>7, <2>8 DEF KnowledgeInv, Counted
<1> QED BY <1>3, <1>6, <1>7

\* Nobody knows anything at the start.
LEMMA InitOk == ASSUME KnowledgeAssumption, Init PROVE KnowledgeInv
<1>1. KnowledgeTypeOK
  BY NothingOk, IdleOk DEF KnowledgeAssumption, KnowledgeTypeOK, Init
<1>2. ASSUME NEW a \in Agents, NEW t
      PROVE  CountOk(a, t)
  <2>1. Facts(store[a], t, clock) = {}
    BY NothingOk DEF Init, Facts
  <2>2. Cardinality(Facts(store[a], t, clock)) = 0
    BY <2>1, FS_EmptySet
  <2>3. Writers(a, t) \in SUBSET Callers
    BY DEF Writers
  <2> QED BY <2>2, <2>3, WritersFinite DEF CountOk
<1> QED BY <1>1, <1>2 DEF KnowledgeInv, Counted

\* Every step keeps the invariant, and takes a graph whole or not at all.
LEMMA NextKeeps ==
    ASSUME KnowledgeAssumption, KnowledgeInv, [Next]_vars
    PROVE  KnowledgeInv' /\ Ordered
<1>1. CASE UNCHANGED vars
  <2>1. KnowledgeInv'
    BY <1>1 DEF KnowledgeInv, KnowledgeTypeOK, Counted, CountOk, Writers, vars
  <2>2. Ordered
    BY <1>1 DEF vars, Ordered, Grows
  <2> QED BY <2>1, <2>2
<1>2. CASE \E a \in Agents : UserCall(a)
  BY <1>2, UserSteps
<1>3. CASE \E p \in Callers : Consolidation(p)
  BY <1>3, ConsolidationSteps, CheckExactSteps, PutFactSteps
<1>4. CASE Tick \/ Crash
  <2>1. KnowledgeTypeOK'
    <3>1. CASE Tick
      BY <3>1 DEF KnowledgeInv, KnowledgeTypeOK, Tick, KnowledgeAssumption
    <3>2. CASE Crash
      BY <3>2, IdleOk DEF KnowledgeInv, KnowledgeTypeOK, Crash
    <3> QED BY <1>4, <3>1, <3>2
  <2>2. UNCHANGED store
    BY <1>4 DEF Tick, Crash
  <2>3. clock' \in Nat /\ clock' >= clock
    BY <1>4 DEF KnowledgeInv, KnowledgeTypeOK, Tick, Crash
  <2>4. \A q \in Callers, a \in Agents : \A t : Writes(calls'[q], a, t) => Writes(calls[q], a, t)
    BY <1>4, IdleOk DEF Writes, Tick, Crash
  <2>5. \A b \in Agents : Keeps(store[b], store'[b], clock')
    BY <2>2 DEF Keeps
  <2>6. Counted'
    BY <2>3, <2>4, <2>5, FewerCounted
  <2>7. Ordered
    BY <2>2 DEF Ordered, Grows
  <2> QED BY <2>1, <2>6, <2>7 DEF KnowledgeInv
<1> QED BY <1>1, <1>2, <1>3, <1>4 DEF Next

-----------------------------------------------------------------------------
(* Dumps: what an agent has can be put into lines, and the lines give it   *)
(* back.                                                                   *)

\* A finite function.
Table(f) == f = [x \in DOMAIN f |-> f[x]] /\ IsFiniteSet(DOMAIN f)

\* What can be dumped: three tables, and memories of the layers there are.
Dumpable(s) ==
    /\ Table(s.memories) /\ Table(s.graph.entities) /\ Table(s.graph.edges)
    /\ \A i \in DOMAIN s.memories : s.memories[i].layer \in Layers

AllDumpable == \A a \in Agents : Dumpable(store[a])

\* Tables stay tables when they are laid over each other.
LEMMA TableOver == ASSUME NEW f, NEW g, Table(f), Table(g) PROVE Table(Over(f, g))
<1>1. IsFiniteSet(DOMAIN f \cup DOMAIN g)
  BY FS_Union DEF Table
<1>2. DOMAIN Over(f, g) = DOMAIN f \cup DOMAIN g
  BY DEF Over
<1>3. Over(f, g) = [x \in DOMAIN Over(f, g) |-> Over(f, g)[x]]
  BY DEF Over
<1> QED BY <1>1, <1>2, <1>3 DEF Table

\* A table with one more entry, or another one.
LEMMA TablePut == ASSUME NEW f, NEW x, NEW v, Table(f) PROVE Table(Put(f, x, v))
<1> DEFINE one == [y \in {x} |-> v]
<1>1. DOMAIN one = {x} /\ one = [y \in DOMAIN one |-> one[y]]
  OBVIOUS
<1>2. Table(one)
  BY <1>1, FS_Singleton DEF Table
<1> HIDE DEF one
<1> QED BY <1>2, TableOver DEF Put, one

\* The rows of a file are a table, whatever lines are taken.
LEMMA TableRows ==
    ASSUME NEW lines, NEW type, NEW J, IsFiniteSet(DOMAIN lines)
    PROVE  Table(Rows(lines, type, J))
<1> DEFINE K == FirstLines(lines, type) \cap J
           T == {lines[j].id : j \in K}
           f == [j \in K |-> lines[j].id]
<1>1. IsFiniteSet(K)
  BY FS_Subset DEF FirstLines
<1>2. f \in Surjection(K, T)
  BY DEF Surjection
<1>3. IsFiniteSet(T)
  BY <1>1, <1>2, FS_Surjection
<1>4. DOMAIN Rows(lines, type, J) = T /\ Rows(lines, type, J) = [x \in T |-> Rows(lines, type, J)[x]]
  BY DEF Rows
<1> QED BY <1>3, <1>4 DEF Table

\* The empty tables.
LEMMA NothingDumpable == Dumpable(Nothing)
<1>1. Table(<<>>)
  <2>1. DOMAIN <<>> = {} /\ <<>> = [x \in DOMAIN <<>> |-> <<>>[x]]
    OBVIOUS
  <2> QED BY <2>1, FS_EmptySet DEF Table
<1> QED BY <1>1, NothingOk DEF Dumpable, Nothing, NoGraph

\* New memories.
LEMMA MemoriesDumpable ==
    ASSUME NEW s, NEW m, Shaped(s), Dumpable(s), Table(m), \A i \in DOMAIN m : m[i].layer \in Layers
    PROVE  Dumpable([s EXCEPT !.memories = m])
<1> DEFINE u == [s EXCEPT !.memories = m]
<1>1. u.memories = m /\ u.graph = s.graph
  BY NewMemories
<1> HIDE DEF u
<1>2. Dumpable(u)
  BY <1>1 DEF Dumpable
<1> QED BY <1>2 DEF u

\* A new graph.
LEMMA GraphDumpable ==
    ASSUME NEW s, NEW n, NEW d, Shaped(s), Dumpable(s), Table(n), Table(d)
    PROVE  Dumpable([s EXCEPT !.graph = [entities |-> n, edges |-> d]])
<1> DEFINE u == [s EXCEPT !.graph = [entities |-> n, edges |-> d]]
<1>1. u.memories = s.memories /\ u.graph = [entities |-> n, edges |-> d]
  BY NewGraph
<1> HIDE DEF u
<1>2. Dumpable(u)
  BY <1>1 DEF Dumpable
<1> QED BY <1>2 DEF u

\* A memory that is put.
LEMMA PutDumpable ==
    ASSUME NEW s, NEW i, NEW r, Shaped(s), Dumpable(s), r.layer \in Layers
    PROVE  Dumpable([s EXCEPT !.memories = Put(@, i, r)])
<1> DEFINE m == Put(s.memories, i, r)
<1>1. Table(m)
  BY TablePut DEF Dumpable
<1>2. \A j \in DOMAIN m : m[j] = r \/ (j \in DOMAIN s.memories /\ m[j] = s.memories[j])
  BY DEF Put, Over
<1>3. \A j \in DOMAIN m : m[j].layer \in Layers
  BY <1>2 DEF Dumpable
<1> HIDE DEF m
<1>4. Dumpable([s EXCEPT !.memories = m])
  BY <1>1, <1>3, MemoriesDumpable
<1> QED BY <1>4 DEF m

\* An entity or an edge that is put.
LEMMA UpsertDumpable ==
    ASSUME NEW s, Shaped(s), Dumpable(s)
    PROVE  /\ \A id, e : Dumpable([s EXCEPT !.graph = upsert_entity(s.graph, id, e)])
           /\ \A edge, weight : Dumpable([s EXCEPT !.graph = graph_upsert_edge(s.graph, edge, weight)])
<1>1. ASSUME NEW id, NEW e
      PROVE  Dumpable([s EXCEPT !.graph = upsert_entity(s.graph, id, e)])
  <2> DEFINE n == Put(s.graph.entities, id, e)
  <2>1. Table(n) /\ Table(s.graph.edges)
    BY TablePut DEF Dumpable
  <2>2. upsert_entity(s.graph, id, e) = [entities |-> n, edges |-> s.graph.edges]
    BY DEF upsert_entity, Shaped
  <2> HIDE DEF n
  <2> QED BY <2>1, <2>2, GraphDumpable
<1>2. ASSUME NEW edge, NEW meta
      PROVE  Dumpable([s EXCEPT !.graph = upsert_edge(s.graph, edge, meta)])
  <2> DEFINE d == Put(s.graph.edges, edge, meta)
  <2>1. Table(d) /\ Table(s.graph.entities)
    BY TablePut DEF Dumpable
  <2>2. upsert_edge(s.graph, edge, meta) = [entities |-> s.graph.entities, edges |-> d]
    BY DEF upsert_edge, Shaped
  <2> HIDE DEF d
  <2> QED BY <2>1, <2>2, GraphDumpable
<1>3. ASSUME NEW edge, NEW weight
      PROVE  Dumpable([s EXCEPT !.graph = graph_upsert_edge(s.graph, edge, weight)])
  BY <1>2, Zenon DEF graph_upsert_edge
<1> QED BY <1>1, <1>3

\* A memory whose end is set.
LEMMA InvalidateDumpable ==
    ASSUME NEW s, NEW i, NEW now, StoreOk(s), Dumpable(s)
    PROVE  Dumpable([s EXCEPT !.memories[i].until = now])
<1> DEFINE m == [s.memories EXCEPT ![i].until = now]
<1>1. Table(m)
  BY DEF Dumpable, Table
<1>2. ASSUME NEW j \in DOMAIN m PROVE m[j].layer \in Layers
  <2>1. CASE j # i
    BY <2>1 DEF Dumpable
  <2>2. CASE j = i
    <3> DEFINE r == s.memories[i]
    <3>1. r = MemoryRecord(r.layer, r.text, r.source, r.until) /\ r.layer \in Layers
      BY <2>2 DEF Dumpable, StoreOk, RecordsOk, RecordOk
    <3>2. m[j] = [r EXCEPT !.until = now]
      BY <2>2
    <3> HIDE DEF r, m
    <3>3. m[j] = MemoryRecord(r.layer, r.text, r.source, now)
      BY <3>1, <3>2 DEF MemoryRecord
    <3> QED BY <3>1, <3>3 DEF MemoryRecord
  <2> QED BY <2>1, <2>2
<1> HIDE DEF m
<1>3. Dumpable([s EXCEPT !.memories = m])
  BY <1>1, <1>2, MemoriesDumpable DEF StoreOk
<1> QED BY <1>3 DEF m

\* The memories of a file that is accepted.
LEMMA NewRowsOk ==
    ASSUME NEW lines, NEW trusted, IsFiniteSet(DOMAIN lines), Accepted(lines, trusted)
    PROVE  /\ Table(NewMemoryRows(lines))
           /\ \A i \in DOMAIN NewMemoryRows(lines) : NewMemoryRows(lines)[i].layer \in Layers
<1> DEFINE rows == Rows(lines, "memory", DOMAIN lines)
           new == NewMemoryRows(lines)
<1>1. Table(rows)
  BY TableRows
<1>2. ASSUME NEW i \in DOMAIN rows PROVE rows[i].layer \in Layers
  <2> DEFINE j == CHOOSE j \in FirstLines(lines, "memory") : lines[j].id = i
  <2>1. \E k \in FirstLines(lines, "memory") : lines[k].id = i
    BY DEF Rows
  <2>2. rows[i] = lines[j].row
    BY DEF Rows
  <2>3. j \in FirstLines(lines, "memory")
    BY <2>1
  <2> HIDE DEF j
  <2>4. j \in DOMAIN lines /\ lines[j].type = "memory"
    BY <2>3 DEF FirstLines
  <2> QED BY <2>2, <2>4 DEF Accepted, BadLine
<1> HIDE DEF rows
<1>3. DOMAIN new = DOMAIN rows /\ new = [x \in DOMAIN new |-> new[x]]
  BY DEF NewMemoryRows, rows
<1>4. \A i \in DOMAIN new : new[i].layer = rows[i].layer
  BY DEF NewMemoryRows, rows, MemoryRecord
<1> HIDE DEF new
<1> QED BY <1>1, <1>2, <1>3, <1>4 DEF Table, new

\* Wherever an import stops.
LEMMA ImportDumpable ==
    ASSUME NEW s, NEW lines, NEW trusted, IsFiniteSet(DOMAIN lines), Accepted(lines, trusted),
           Shaped(s), Dumpable(s), NEW u \in ImportStates(s, lines)
    PROVE  Dumpable(u)
<1>1. ASSUME NEW J, NEW K, NEW d,
             u = Built(s, lines, Over(s.graph.entities, Rows(lines, "entity", J)), d),
             d \in {s.graph.edges, Over(s.graph.edges, Rows(lines, "edge", K))}
      PROVE  Dumpable(u)
  <2> DEFINE n == Over(s.graph.entities, Rows(lines, "entity", J))
             m == Over(s.memories, NewMemoryRows(lines))
  <2>1. Table(n) /\ Table(d)
    BY <1>1, TableRows, TableOver DEF Dumpable
  <2>2. Table(m)
    BY NewRowsOk, TableOver DEF Dumpable
  <2>3. \A i \in DOMAIN m : m[i].layer \in Layers
    BY NewRowsOk DEF Dumpable, Over
  <2>4. u.memories = m /\ u.graph.entities = n /\ u.graph.edges = d
    BY <1>1, BuiltIs
  <2> HIDE DEF m, n
  <2> QED BY <2>1, <2>2, <2>3, <2>4 DEF Dumpable
<1> QED BY <1>1, ImportStatesAre

\* Wherever a purge stops.
LEMMA PurgeDumpable ==
    ASSUME NEW s, Shaped(s), Dumpable(s), NEW u \in PurgeStates(s)
    PROVE  Dumpable(u)
<1>1. ASSUME NEW k, u = WithoutFirst(s, k)
      PROVE  Dumpable(u)
  <2> DEFINE left == {i \in DOMAIN s.memories : Cardinality({j \in DOMAIN s.memories : j < i}) >= k}
             m == Restrict(s.memories, left)
  <2>1. DOMAIN m = left /\ m = [x \in DOMAIN m |-> m[x]] /\ \A i \in left : m[i] = s.memories[i]
    BY DEF Restrict
  <2>2. left \subseteq DOMAIN s.memories
    OBVIOUS
  <2>3. u = [s EXCEPT !.memories = m]
    BY <1>1 DEF WithoutFirst
  <2> HIDE DEF m, left
  <2>4. Table(m)
    BY <2>1, <2>2, FS_Subset DEF Dumpable, Table
  <2>5. \A i \in DOMAIN m : m[i].layer \in Layers
    BY <2>1, <2>2 DEF Dumpable
  <2> QED BY <2>3, <2>4, <2>5, MemoriesDumpable
<1> QED BY <1>1, NothingDumpable DEF PurgeStates

\* No step takes that away from an agent.
LEMMA NextDumpable ==
    ASSUME KnowledgeAssumption, KnowledgeInv, AllDumpable, [Next]_vars
    PROVE  AllDumpable'
<1>1. ASSUME NEW a \in Agents, NEW u, With(a, u), Dumpable(u)
      PROVE  AllDumpable'
  BY <1>1 DEF AllDumpable, With, KnowledgeInv, KnowledgeTypeOK
<1>2. CASE UNCHANGED store
  BY <1>2 DEF AllDumpable
<1>3. \A a \in Agents : StoreOk(store[a]) /\ Shaped(store[a]) /\ Dumpable(store[a])
  BY DEF AllDumpable, KnowledgeInv, KnowledgeTypeOK, StoreOk
<1>4. ASSUME NEW a \in Agents, UserCall(a)
      PROVE  AllDumpable'
  <2>1. ASSUME NEW r \in Memories, Remember(a, r)
        PROVE  AllDumpable'
    BY <1>1, <1>3, <2>1, PutDumpable DEF Remember, PutMemory, KnowledgeAssumption
  <2>2. ASSUME NEW i \in Ids, Invalidate(a, i)
        PROVE  AllDumpable'
    BY <1>1, <1>3, <2>2, InvalidateDumpable DEF Invalidate
  <2>3. ASSUME NEW id, NEW until, AddEntity(a, id, until)
        PROVE  AllDumpable'
    BY <1>1, <1>3, <2>3, UpsertDumpable DEF AddEntity, PutGraph
  <2>4. ASSUME NEW edge, NEW weight, AddEdge(a, edge, weight)
        PROVE  AllDumpable'
    BY <1>1, <1>3, <2>4, UpsertDumpable DEF AddEdge, PutGraph
  <2>5. ASSUME NEW lines \in Dumps, NEW trusted, Import(a, lines, trusted)
        PROVE  AllDumpable'
    <3>1. PICK u \in ImportStates(store[a], lines) : With(a, u)
      BY <2>5 DEF Import
    <3>2. IsFiniteSet(DOMAIN lines) /\ Accepted(lines, trusted)
      BY <2>5 DEF Import, KnowledgeAssumption
    <3> QED BY <1>1, <1>3, <3>1, <3>2, ImportDumpable
  <2>6. ASSUME PurgeAgent(a)
        PROVE  AllDumpable'
    BY <1>1, <1>3, <2>6, PurgeDumpable DEF PurgeAgent
  <2> QED BY <1>4, <2>1, <2>2, <2>3, <2>4, <2>5, <2>6, Zenon DEF UserCall
<1>5. ASSUME NEW p \in Callers, Consolidation(p)
      PROVE  AllDumpable'
  <2> DEFINE c == calls[p]
  <2>1. \/ UNCHANGED store
        \/ ApplyEntity(p) \/ ApplyRelation(p) \/ PutFact(p)
    BY <1>5 DEF Consolidation, Consolidate, LlmAnswers, LlmFails, ConsolidateApply, CheckExact, CheckNear
  <2>2. ASSUME c.at \in {"apply", "near", "put"}
        PROVE  c.agent \in Agents
    BY <2>2, AtApply DEF KnowledgeInv, Full
  <2>3. CASE ApplyEntity(p)
    <3> DEFINE e == GraphEntity(Head(c.entities), Forever)
               u == [store[c.agent] EXCEPT !.graph = upsert_entity(store[c.agent].graph, Head(c.entities), e)]
    <3>1. UNCHANGED store \/ With(c.agent, u)
      BY <2>3 DEF ApplyEntity, PutGraph, Written
    <3>2. c.agent \in Agents
      BY <2>2, <2>3 DEF ApplyEntity, At
    <3>3. Dumpable(u)
      BY <1>3, <3>2, UpsertDumpable
    <3> HIDE DEF u, c
    <3> QED BY <1>1, <1>2, <3>1, <3>2, <3>3
  <2>4. CASE ApplyRelation(p)
    <3> DEFINE u == [store[c.agent] EXCEPT !.graph = graph_upsert_edge(store[c.agent].graph, Head(c.relations), 1)]
    <3>1. UNCHANGED store \/ With(c.agent, u)
      BY <2>4 DEF ApplyRelation, PutGraph, Written
    <3>2. c.agent \in Agents
      BY <2>2, <2>4 DEF ApplyRelation, At
    <3>3. Dumpable(u)
      BY <1>3, <3>2, UpsertDumpable
    <3> HIDE DEF u, c
    <3> QED BY <1>1, <1>2, <3>1, <3>2, <3>3
  <2>5. CASE PutFact(p)
    <3> DEFINE r == MemoryRecord("semantic", Head(c.facts), "consolidation", Forever)
               u == [store[c.agent] EXCEPT !.memories = Put(@, Min(Unused), r)]
    <3>1. UNCHANGED store \/ With(c.agent, u)
      BY <2>5 DEF PutFact, PutMemory, Written
    <3>2. c.agent \in Agents
      BY <2>2, <2>5 DEF PutFact, At
    <3>3. r.layer \in Layers
      BY DEF MemoryRecord, Layers
    <3>4. Dumpable(u)
      BY <1>3, <3>2, <3>3, PutDumpable
    <3> HIDE DEF u, c
    <3> QED BY <1>1, <1>2, <3>1, <3>2, <3>4
  <2> QED BY <1>2, <2>1, <2>3, <2>4, <2>5
<1> QED BY <1>2, <1>4, <1>5 DEF Next, Tick, Crash, vars

\* The elements of a finite set, put in an order.
LEMMA Listed ==
    ASSUME NEW S, IsFiniteSet(S)
    PROVE  SetToSeq(S) \in Seq(S) /\ Range(SetToSeq(S)) = S
<1> DEFINE n == Cardinality(S)
           f == SetToSeq(S)
<1>1. n \in Nat /\ ExistsBijection(1 .. n, S)
  BY FS_CardinalityType
<1>2. PICK g \in Bijection(1 .. n, S) : TRUE
  BY <1>1 DEF ExistsBijection
<1>3. g \in [1 .. n -> S] /\ IsInjective(g)
  BY <1>2 DEF Bijection, Injection
<1>4. f \in [1 .. n -> S] /\ IsInjective(f)
  BY <1>3 DEF SetToSeq
<1> HIDE DEF f
<1>5. f \in Injection(1 .. n, S)
  BY <1>4 DEF Injection
<1>6. Cardinality(1 .. n) = n
  BY <1>1, FS_Interval
<1>7. f \in Surjection(1 .. n, S)
  BY <1>5, <1>6, FS_Injection
<1>8. f \in Seq(S)
  BY <1>1, <1>4
<1>9. Range(f) = S
  BY <1>4, <1>7 DEF Surjection, Range
<1> QED BY <1>8, <1>9 DEF f

\* What is in two lists together.
LEMMA RangeConcat ==
    ASSUME NEW T, NEW a \in Seq(T), NEW b \in Seq(T)
    PROVE  a \o b \in Seq(T) /\ Range(a \o b) = Range(a) \cup Range(b)
<1> DEFINE c == a \o b
<1>1. c \in Seq(T) /\ Len(c) = Len(a) + Len(b) /\ DOMAIN c = 1 .. Len(a) + Len(b)
  OBVIOUS
<1>2. \A i \in DOMAIN a : i \in DOMAIN c /\ c[i] = a[i]
  OBVIOUS
<1>3. \A i \in DOMAIN b : Len(a) + i \in DOMAIN c /\ c[Len(a) + i] = b[i]
  OBVIOUS
<1>4. \A i \in DOMAIN c : i \in DOMAIN a \/ (i - Len(a) \in DOMAIN b /\ i = Len(a) + (i - Len(a)))
  BY <1>1
<1> HIDE DEF c
<1>5. Range(c) \subseteq Range(a) \cup Range(b)
  BY <1>2, <1>3, <1>4 DEF Range
<1>6. Range(a) \cup Range(b) \subseteq Range(c)
  BY <1>2, <1>3 DEF Range
<1> QED BY <1>1, <1>5, <1>6 DEF c

\* The lines of a table are finitely many.
LEMMA LinesFinite ==
    ASSUME NEW f, NEW type, Table(f)
    PROVE  IsFiniteSet({Line(type, x, f[x]) : x \in DOMAIN f})
<1> DEFINE T == {Line(type, x, f[x]) : x \in DOMAIN f}
           g == [x \in DOMAIN f |-> Line(type, x, f[x])]
<1>1. g \in Surjection(DOMAIN f, T)
  BY DEF Surjection
<1> QED BY <1>1, FS_Surjection DEF Table

\* A list and what is put before it.
LEMMA FirstAndRest ==
    ASSUME NEW U, NEW x \in U, NEW rest \in Seq(U), NEW q, q = <<x>> \o rest
    PROVE  /\ Len(rest) \in Nat /\ Len(q) = 1 + Len(rest) /\ DOMAIN q = 1 .. Len(q) /\ q[1] = x
           /\ \A j \in 1 .. Len(rest) : q[j + 1] = rest[j]
<1> DEFINE h == <<x>>
<1>1. h \in Seq(U) /\ Len(h) = 1 /\ h[1] = x
  OBVIOUS
<1>2. q = h \o rest
  OBVIOUS
<1> HIDE DEF h
<1>3. Len(rest) \in Nat /\ Len(q) = 1 + Len(rest) /\ DOMAIN q = 1 .. Len(q) /\ q[1] = x
  BY <1>1, <1>2
<1>4. \A j \in 1 .. Len(rest) : q[1 + j] = rest[j]
  BY <1>1, <1>2
<1>5. \A j \in 1 .. Len(rest) : 1 + j = j + 1
  OBVIOUS
<1> QED BY <1>3, <1>4, <1>5

\* The lines of a dump.
TableLines(f, type) == {Line(type, x, f[x]) : x \in DOMAIN f}
EdgeLines(s) == {EdgeLine(e, s.graph.edges[e]) : e \in Edges(s)}
DumpLines(s) ==
    TableLines(s.memories, "memory") \cup TableLines(s.graph.entities, "entity") \cup EdgeLines(s)

\* The tables of an agent and the types of their lines; the edges are said by
\* theirs if every weight is a number.
TableOf(s, f, type) ==
    \/ type = "memory" /\ f = s.memories
    \/ type = "entity" /\ f = s.graph.entities
    \/ type = "edge"   /\ f = s.graph.edges /\ AllFinite(s)

\* An edge has a line of its type, or one that cannot be read.
LEMMA EdgeLinesAre ==
    ASSUME NEW s
    PROVE  /\ \A l \in EdgeLines(s) : l.type \in {"edge", "malformed"}
           /\ (\E l \in EdgeLines(s) : l.type = "malformed") <=> ~AllFinite(s)
           /\ AllFinite(s) => EdgeLines(s) = TableLines(s.graph.edges, "edge")
<1>1. \A e, meta : \/ EdgeLine(e, meta) = Line("malformed", e, meta) /\ meta.weight = NonFinite
                   \/ EdgeLine(e, meta) = Line("edge", e, meta) /\ meta.weight # NonFinite
  BY DEF EdgeLine
<1>2. \A type, x, row : Line(type, x, row).type = type
  BY DEF Line
<1>3. /\ \A l \in EdgeLines(s) : l.type \in {"edge", "malformed"}
      /\ (\E l \in EdgeLines(s) : l.type = "malformed") <=> ~AllFinite(s)
  BY <1>1, <1>2 DEF EdgeLines, AllFinite
<1>4. ASSUME AllFinite(s)
      PROVE  EdgeLines(s) = TableLines(s.graph.edges, "edge")
  <2>1. \A e \in Edges(s) : EdgeLine(e, s.graph.edges[e]) = Line("edge", e, s.graph.edges[e])
    BY <1>4 DEF EdgeLine, AllFinite
  <2> QED BY <2>1 DEF EdgeLines, TableLines, Edges
<1> QED BY <1>3, <1>4

\* The lines of the edges are finitely many.
LEMMA EdgeLinesFinite ==
    ASSUME NEW s, Table(s.graph.edges)
    PROVE  IsFiniteSet(EdgeLines(s))
<1> DEFINE g == [e \in Edges(s) |-> EdgeLine(e, s.graph.edges[e])]
<1>1. g \in Surjection(Edges(s), EdgeLines(s))
  BY DEF Surjection, EdgeLines
<1> QED BY <1>1, FS_Surjection DEF Table, Edges

\* What a dump says: a header, and then a line for all there is.
LEMMA ExportSays ==
    ASSUME NEW s, Dumpable(s), NEW lines, lines = Export(s)
    PROVE  /\ Len(lines) \in Nat /\ DOMAIN lines = 1 .. Len(lines)
           /\ 1 \in DOMAIN lines /\ lines[1] = Header
           /\ \A j \in DOMAIN lines \ {1} : lines[j] \in DumpLines(s)
           /\ \A l \in DumpLines(s) : \E j \in DOMAIN lines : lines[j] = l
<1> DEFINE M == TableLines(s.memories, "memory")
           N == TableLines(s.graph.entities, "entity")
           E == EdgeLines(s)
           T == DumpLines(s)
           U == {Header} \cup T
           m == SetToSeq(M)
           n == SetToSeq(N)
           e == SetToSeq(E)
           h == <<Header>>
           q == n \o e
           rest == m \o q
<1>1. m \in Seq(M) /\ Range(m) = M /\ n \in Seq(N) /\ Range(n) = N /\ e \in Seq(E) /\ Range(e) = E
  BY LinesFinite, EdgeLinesFinite, Listed DEF Dumpable, TableLines
<1>2. lines = (h \o m) \o q
  BY DEF Export, GraphLines, TableLines, EdgeLines, MemoryLine, EntityLine, Entities
<1>3. M \subseteq T /\ N \subseteq T /\ E \subseteq T /\ T = M \cup (N \cup E)
  BY DEF DumpLines
<1> HIDE DEF m, n, e, M, N, E, T
<1>4. m \in Seq(T) /\ n \in Seq(T) /\ e \in Seq(T)
  BY <1>1, <1>3
<1>5. q \in Seq(T) /\ Range(q) = N \cup E
  BY <1>1, <1>4, RangeConcat
<1> HIDE DEF q
<1>6. rest \in Seq(T) /\ Range(rest) = T
  BY <1>1, <1>3, <1>4, <1>5, RangeConcat
<1>7. lines = h \o rest
  <2>1. h \in Seq(U) /\ m \in Seq(U) /\ q \in Seq(U)
    BY <1>4, <1>5
  <2> HIDE DEF h
  <2> QED BY <1>2, <2>1
<1> HIDE DEF rest
<1>8. /\ Len(rest) \in Nat /\ Len(lines) = 1 + Len(rest) /\ DOMAIN lines = 1 .. Len(lines) /\ lines[1] = Header
      /\ \A j \in 1 .. Len(rest) : lines[j + 1] = rest[j]
  <2>1. Header \in U /\ rest \in Seq(U)
    BY <1>6
  <2> HIDE DEF U
  <2> QED BY <1>7, <2>1, FirstAndRest DEF h
<1>9. \A j \in DOMAIN lines \ {1} : lines[j] \in T
  <2> SUFFICES ASSUME NEW j \in DOMAIN lines \ {1} PROVE lines[j] \in T
    OBVIOUS
  <2>1. j - 1 \in 1 .. Len(rest) /\ (j - 1) + 1 = j
    BY <1>8
  <2>2. lines[j] = rest[j - 1]
    BY <1>8, <2>1
  <2> QED BY <1>6, <2>1, <2>2
<1>10. \A l \in T : \E j \in DOMAIN lines : lines[j] = l
  <2> SUFFICES ASSUME NEW l \in T PROVE \E j \in DOMAIN lines : lines[j] = l
    OBVIOUS
  <2>1. PICK j \in 1 .. Len(rest) : rest[j] = l
    BY <1>6 DEF Range
  <2>2. j + 1 \in DOMAIN lines
    BY <1>8
  <2> QED BY <1>8, <2>1, <2>2
<1> QED BY <1>8, <1>9, <1>10 DEF T

\* The parts of a line, and of the header.
LEMMA LineIs ==
    /\ \A type, x, row : LET l == Line(type, x, row) IN l.type = type /\ l.id = x /\ l.row = row
    /\ Header.type = "header" /\ Header.format = FORMAT /\ Header.version = VERSION
  BY DEF Line, Header

\* The lines of each type, and no others, are those of its table.
LEMMA ExportRows ==
    ASSUME NEW s, Dumpable(s), NEW lines, lines = Export(s),
           NEW f, NEW type, TableOf(s, f, type)
    PROVE  /\ \A j \in DOMAIN lines : lines[j].type = type => lines[j].id \in DOMAIN f /\ lines[j].row = f[lines[j].id]
           /\ \A x \in DOMAIN f : \E j \in DOMAIN lines : lines[j].type = type /\ lines[j].id = x
<1>1. type # "header" /\ TableLines(f, type) \subseteq DumpLines(s)
  BY EdgeLinesAre DEF DumpLines, TableOf
<1>2. ASSUME NEW j \in DOMAIN lines, lines[j].type = type
      PROVE  lines[j].id \in DOMAIN f /\ lines[j].row = f[lines[j].id]
  <2>1. lines[j] \in DumpLines(s)
    BY <1>1, <1>2, ExportSays, LineIs
  <2>2. lines[j] \in TableLines(f, type)
    BY <1>2, <2>1, LineIs, EdgeLinesAre DEF DumpLines, TableLines, TableOf
  <2> QED BY <2>2, LineIs DEF TableLines
<1>3. ASSUME NEW x \in DOMAIN f
      PROVE  \E j \in DOMAIN lines : lines[j].type = type /\ lines[j].id = x
  <2>1. Line(type, x, f[x]) \in DumpLines(s)
    BY <1>1 DEF TableLines
  <2>2. PICK j \in DOMAIN lines : lines[j] = Line(type, x, f[x])
    BY <2>1, ExportSays
  <2> QED BY <2>2, LineIs
<1> QED BY <1>2, <1>3

\* Of the lines with an id there is a first.
LEMMA FirstLineOf ==
    ASSUME NEW lines, NEW type, NEW n \in Nat, DOMAIN lines = 1 .. n,
           NEW j \in DOMAIN lines, lines[j].type = type
    PROVE  \E k \in FirstLines(lines, type) : lines[k].id = lines[j].id
<1> DEFINE S == {k \in DOMAIN lines : lines[k].type = type /\ lines[k].id = lines[j].id}
<1>1. S \subseteq Nat /\ j \in S
  OBVIOUS
<1>2. PICK k \in S : \A i \in S : ~(<<i, k>> \in OpToRel(<, Nat))
  BY <1>1, NatLessThanWellFounded, WFMin, Zenon
<1>3. \A i \in S : ~(i < k)
  BY <1>1, <1>2 DEF OpToRel
<1>4. k \in FirstLines(lines, type)
  BY <1>3 DEF FirstLines
<1> QED BY <1>4

\* A table comes back from lines that say all of it and nothing else.
LEMMA RowsBack ==
    ASSUME NEW lines, NEW type, NEW n \in Nat, DOMAIN lines = 1 .. n, NEW f, Table(f),
           \A j \in DOMAIN lines : lines[j].type = type => lines[j].id \in DOMAIN f /\ lines[j].row = f[lines[j].id],
           \A x \in DOMAIN f : \E j \in DOMAIN lines : lines[j].type = type /\ lines[j].id = x
    PROVE  Rows(lines, type, DOMAIN lines) = f
<1> DEFINE F == FirstLines(lines, type)
           R == Rows(lines, type, DOMAIN lines)
<1>1. \A k \in F : k \in DOMAIN lines /\ lines[k].type = type
  BY DEF FirstLines
<1>2. \A x \in DOMAIN f : \E k \in F : lines[k].id = x
  BY FirstLineOf
<1> HIDE DEF F
<1>3. DOMAIN R = {lines[k].id : k \in F \cap DOMAIN lines}
  BY DEF Rows, F
<1>4. DOMAIN R = DOMAIN f
  <2>1. \A k \in F : lines[k].id \in DOMAIN f
    BY <1>1
  <2>2. \A x \in DOMAIN f : \E k \in F \cap DOMAIN lines : lines[k].id = x
    BY <1>1, <1>2
  <2> HIDE DEF R
  <2>3. DOMAIN R \subseteq DOMAIN f
    BY <1>3, <2>1
  <2>4. DOMAIN f \subseteq DOMAIN R
    BY <1>3, <2>2, Zenon
  <2> QED BY <2>3, <2>4
<1>5. ASSUME NEW x \in DOMAIN f PROVE R[x] = f[x]
  <2> DEFINE k == CHOOSE k \in F : lines[k].id = x
  <2>1. R[x] = lines[k].row
    BY <1>3, <1>4 DEF Rows, F
  <2>2. k \in F /\ lines[k].id = x
    BY <1>2
  <2> HIDE DEF k
  <2> QED BY <1>1, <2>1, <2>2
<1>6. R = [x \in DOMAIN R |-> R[x]]
  BY DEF Rows
<1> HIDE DEF R
<1>7. R = f
  BY <1>4, <1>5, <1>6 DEF Table
<1> QED BY <1>7 DEF R

\* A dump is accepted if every weight is a number, and without trust only if
\* no memory is procedural.
LEMMA ExportAccepted ==
    ASSUME NEW s, Dumpable(s), NEW trusted \in BOOLEAN
    PROVE  Accepted(Export(s), trusted)
               <=> AllFinite(s) /\ (trusted \/ \A i \in DOMAIN s.memories : s.memories[i].layer # "procedural")
<1> DEFINE lines == Export(s)
<1>1. /\ Len(lines) \in Nat /\ DOMAIN lines = 1 .. Len(lines)
      /\ 1 \in DOMAIN lines /\ lines[1] = Header
      /\ \A j \in DOMAIN lines \ {1} : lines[j] \in DumpLines(s)
      /\ \A l \in DumpLines(s) : \E j \in DOMAIN lines : lines[j] = l
  BY ExportSays
<1>2. /\ \A j \in DOMAIN lines : lines[j].type = "memory" =>
            lines[j].id \in DOMAIN s.memories /\ lines[j].row = s.memories[lines[j].id]
      /\ \A i \in DOMAIN s.memories : \E j \in DOMAIN lines : lines[j].type = "memory" /\ lines[j].id = i
  <2>1. lines = Export(s) /\ TableOf(s, s.memories, "memory")
    BY DEF TableOf
  <2> HIDE DEF lines
  <2> QED BY <2>1, ExportRows
<1>3. \A l \in DumpLines(s) : /\ l.type \in {"memory", "entity", "edge", "malformed"}
                              /\ l.type = "malformed" => l \in EdgeLines(s)
  BY LineIs, EdgeLinesAre DEF DumpLines, TableLines
<1>4. EdgeLines(s) \subseteq DumpLines(s)
  BY DEF DumpLines
<1> HIDE DEF lines
<1>5. lines # <<>>
  BY <1>1
<1>6. (\E j \in DOMAIN lines : lines[j].type = "malformed") <=> ~AllFinite(s)
  <2>1. \A j \in DOMAIN lines : lines[j].type = "malformed" => lines[j] \in EdgeLines(s)
    BY <1>1, <1>3, LineIs
  <2>2. \A l \in EdgeLines(s) : \E j \in DOMAIN lines : lines[j] = l
    BY <1>1, <1>4
  <2> QED BY <2>1, <2>2, EdgeLinesAre
<1>7. \A j \in DOMAIN lines :
         BadLine(lines, j, trusted) <=>
            \/ lines[j].type = "malformed"
            \/ lines[j].type = "memory" /\ lines[j].row.layer = "procedural" /\ ~trusted
  BY <1>1, <1>2, <1>3, LineIs DEF BadLine, Dumpable
<1>8. (\A j \in DOMAIN lines : ~BadLine(lines, j, trusted))
        <=> AllFinite(s) /\ (trusted \/ \A i \in DOMAIN s.memories : s.memories[i].layer # "procedural")
  BY <1>2, <1>6, <1>7
<1> QED BY <1>5, <1>8 DEF Accepted, lines

\* Laid over nothing, a table is itself.
LEMMA OverNothing == ASSUME NEW f, Table(f) PROVE Over(<<>>, f) = f
<1>1. DOMAIN <<>> = {}
  OBVIOUS
<1> QED BY <1>1 DEF Over, Table

\* Imported where nothing is, a dump gives back all there was.
LEMMA ExportRestores ==
    ASSUME NEW s, StoreOk(s), Dumpable(s), AllFinite(s)
    PROVE  Completed(Nothing, Export(s)) = Restored(s)
<1> DEFINE lines == Export(s)
           new == NewMemoryRows(lines)
           m == [i \in DOMAIN s.memories |-> [s.memories[i] EXCEPT !.source = "import"]]
<1>1. Len(lines) \in Nat /\ DOMAIN lines = 1 .. Len(lines)
  BY ExportSays
<1>2. /\ Rows(lines, "memory", DOMAIN lines) = s.memories
      /\ Rows(lines, "entity", DOMAIN lines) = s.graph.entities
      /\ Rows(lines, "edge", DOMAIN lines) = s.graph.edges
  <2>1. ASSUME NEW f, NEW type, TableOf(s, f, type)
        PROVE  Rows(lines, type, DOMAIN lines) = f
    <3>1. Table(f)
      BY <2>1 DEF Dumpable, TableOf
    <3>2. lines = Export(s)
      OBVIOUS
    <3> HIDE DEF lines
    <3>3. /\ \A j \in DOMAIN lines : lines[j].type = type => lines[j].id \in DOMAIN f /\ lines[j].row = f[lines[j].id]
          /\ \A x \in DOMAIN f : \E j \in DOMAIN lines : lines[j].type = type /\ lines[j].id = x
      BY <2>1, <3>2, ExportRows
    <3> QED BY <1>1, <3>1, <3>3, RowsBack
  <2> QED BY <2>1 DEF TableOf
<1> HIDE DEF lines
<1>3. new = m
  <2>1. ASSUME NEW i \in DOMAIN s.memories
        PROVE  LET r == s.memories[i]
               IN MemoryRecord(r.layer, r.text, "import", r.until) = [r EXCEPT !.source = "import"]
    <3>1. RecordOk(i, s.memories[i])
      BY DEF StoreOk, RecordsOk
    <3> QED BY <3>1 DEF RecordOk, MemoryRecord
  <2> QED BY <1>2, <2>1 DEF NewMemoryRows
<1>4. Table(m)
  BY DEF Table, Dumpable
<1>5. Shaped(Nothing) /\ Nothing.memories = <<>> /\ Nothing.graph.entities = <<>> /\ Nothing.graph.edges = <<>>
  BY NothingOk DEF StoreOk, Nothing, NoGraph
<1>6. Completed(Nothing, lines) = Built(Nothing, lines, s.graph.entities, s.graph.edges)
  BY <1>2, <1>5, CompletedIs, OverNothing DEF Dumpable
<1>7. Built(Nothing, lines, s.graph.entities, s.graph.edges) =
        [memories |-> m, graph |-> [entities |-> s.graph.entities, edges |-> s.graph.edges]]
  BY <1>3, <1>4, <1>5, OverNothing DEF Built
<1>8. [s EXCEPT !.memories = m] = [memories |-> m, graph |-> s.graph]
  BY DEF StoreOk, Shaped
<1>9. s.graph = [entities |-> s.graph.entities, edges |-> s.graph.edges]
  BY DEF StoreOk, Shaped
<1>10. Restored(s) = [s EXCEPT !.memories = m]
  BY DEF Restored
<1> HIDE DEF m
<1> QED BY <1>6, <1>7, <1>8, <1>9, <1>10 DEF lines

-----------------------------------------------------------------------------
(* The theorems.                                                           *)

(* Calls have what they need, and of every text there are as many facts,   *)
(* and calls past the look for it, as there are callers at most.           *)
THEOREM KnowledgeInvariance == Spec => []KnowledgeInv
<1>1. Init => KnowledgeInv
  BY InitOk, KnowledgeAssumption
<1>2. KnowledgeInv /\ [Next]_vars => KnowledgeInv'
  BY NextKeeps, KnowledgeAssumption
<1> QED BY <1>1, <1>2, PTL DEF Spec

(* However many tasks consolidate, answer, fail and crash in whatever      *)
(* order, a fact is not there more often than there are tasks              *)
(* (consolidation.rs:234).                                                 *)
THEOREM FactsAlwaysBounded == Spec => []FactsBounded
<1>1. KnowledgeInv => FactsBounded
  <2> SUFFICES ASSUME KnowledgeInv, NEW a \in Agents,
                      NEW i \in {j \in Valid(a) : store[a].memories[j].source = "consolidation"}
               PROVE  Cardinality({j \in {k \in Valid(a) : store[a].memories[k].source = "consolidation"} :
                                      store[a].memories[j].text = store[a].memories[i].text})
                        <= Cardinality(Callers)
    BY DEF FactsBounded
  <2> DEFINE t == store[a].memories[i].text
             F == Facts(store[a], t, clock)
  <2>1. {j \in {k \in Valid(a) : store[a].memories[k].source = "consolidation"} : store[a].memories[j].text = t} = F
    BY DEF Valid, Facts
  <2>2. Cardinality(F) + Cardinality(Writers(a, t)) <= Cardinality(Callers)
    BY DEF KnowledgeInv, Counted, CountOk
  <2>3. Cardinality(F) \in Nat
    BY KnowledgeAssumption, FactsFinite DEF KnowledgeInv, KnowledgeTypeOK
  <2>4. Writers(a, t) \in SUBSET Callers
    BY DEF Writers
  <2> HIDE DEF F, t
  <2>5. Cardinality(Writers(a, t)) \in Nat /\ Cardinality(Callers) \in Nat
    BY <2>4, KnowledgeAssumption, WritersFinite
  <2>6. Cardinality(F) <= Cardinality(Callers)
    BY <2>2, <2>3, <2>5
  <2> QED BY <2>1, <2>6 DEF t
<1> QED BY <1>1, KnowledgeInvariance, PTL

(* Whatever a dump says and wherever its import stops, what was there is   *)
(* kept; and once anything was written a second import is not refused for  *)
(* its size, and ends as the first would have (native_store/porting.rs).   *)
THEOREM ImportsSettle == Spec => []ImportSettles
<1>1. KnowledgeInv => ImportSettles
  <2> SUFFICES ASSUME KnowledgeInv, NEW a \in Agents, NEW lines, NEW s \in ImportStates(store[a], lines)
               PROVE  /\ KeptIn(store[a], s)
                      /\ s # store[a] => Imported(s, lines) = {Completed(store[a], lines)}
    BY DEF ImportSettles
  <2>1. StoreOk(store[a])
    BY DEF KnowledgeInv, KnowledgeTypeOK
  <2> QED BY <2>1, ImportSteps, ImportAgain DEF StoreOk
<1> QED BY <1>1, KnowledgeInvariance, PTL

(* Whatever agents know can be dumped: their tables are finite, and their  *)
(* memories are of the layers an import accepts.                           *)
THEOREM KnowledgeDumpable == Spec => []AllDumpable
<1>1. Init => AllDumpable
  BY NothingDumpable DEF Init, AllDumpable
<1>2. KnowledgeInv /\ AllDumpable /\ [Next]_vars => AllDumpable'
  BY NextDumpable, KnowledgeAssumption
<1> QED BY <1>1, <1>2, KnowledgeInvariance, PTL DEF Spec

(* The dump of an agent, taken at any moment, is accepted just when every  *)
(* weight of its graph is a number (and no memory procedural, if it is not *)
(* trusted).  Imported where nothing is it gives back all there was, or    *)
(* nothing; all, if the batch of its memories fits with the most           *)
(* neighbours their vectors can have (memory/porting.rs).                  *)
THEOREM BackupsRestore == Spec => []BackupRestores
<1>1. KnowledgeInv /\ AllDumpable => BackupRestores
  <2> SUFFICES ASSUME KnowledgeInv, AllDumpable, NEW a \in Agents
               PROVE  LET s == store[a]
                          lines == Export(s)
                      IN /\ Accepted(lines, TRUE) <=> AllFinite(s)
                         /\ Accepted(lines, FALSE) <=>
                               AllFinite(s) /\ \A i \in DOMAIN s.memories : s.memories[i].layer # "procedural"
                         /\ AllFinite(s) =>
                               /\ Imported(Nothing, lines) \subseteq {Restored(s), Nothing}
                               /\ ImportFits(Nothing, lines) => Imported(Nothing, lines) = {Restored(s)}
    BY DEF BackupRestores
  <2> DEFINE s == store[a]
             lines == Export(s)
  <2>1. StoreOk(s) /\ Dumpable(s)
    BY DEF KnowledgeInv, KnowledgeTypeOK, AllDumpable
  <2> HIDE DEF s
  <2>2. \A trusted \in BOOLEAN :
          Accepted(lines, trusted)
            <=> AllFinite(s) /\ (trusted \/ \A i \in DOMAIN s.memories : s.memories[i].layer # "procedural")
    BY <2>1, ExportAccepted
  <2>3. AllFinite(s) => Completed(Nothing, lines) = Restored(s)
    BY <2>1, ExportRestores
  <2> HIDE DEF lines
  <2>4. AllFinite(s) =>
          /\ Imported(Nothing, lines) \subseteq {Restored(s), Nothing}
          /\ ImportFits(Nothing, lines) => Imported(Nothing, lines) = {Restored(s)}
    BY <2>3 DEF Imported, ImportMayFit
  <2> QED BY <2>2, <2>4 DEF s, lines
<1> QED BY <1>1, KnowledgeInvariance, KnowledgeDumpable, PTL

(* A purge takes the graph of an agent whole, and last (trait_impl.rs:522). *)
THEOREM PurgesInOrder == Spec => PurgeOrder
<1>1. KnowledgeInv /\ [Next]_vars =>
        [\A a \in Agents :
            \/ Entities(store[a]) \subseteq Entities(store'[a]) /\ Edges(store[a]) \subseteq Edges(store'[a])
            \/ store'[a] = Nothing]_vars
  BY NextKeeps, KnowledgeAssumption DEF Ordered, Grows
<1> QED BY <1>1, KnowledgeInvariance, PTL DEF Spec, PurgeOrder
===============================================================================
