----------------------------- MODULE GraphSearch ----------------------------
(***************************************************************************)
(* The traversal of a graph (idx/graph/traverse.rs), over the graph in the *)
(* store and over the one in memory, whose edges stay in the order they    *)
(* were added.  A graph is given by the writes that made it.               *)
(***************************************************************************)
EXTENDS GraphIndex, SequencesExt

EntityWrite(id, until) == [op |-> "entity", id |-> id, until |-> until]
EdgeWrite(src, relation, dst, until) ==
    [op |-> "edge", edge |-> <<src, relation, dst>>, until |-> until]

\* PersistentGraph: the edges of a node are scanned in the order of their keys.
PersistentWrite(g, w) ==
    IF w.op = "entity" THEN upsert_entity(g, w.id, GraphEntity(w.id, w.until))
    ELSE upsert_edge(g, w.edge, GraphEdgeMeta(1, w.until))

KeyBefore(a, b) == a[2] < b[2] \/ (a[2] = b[2] /\ a[3] < b[3])
ScanOutEdges(g, src) ==
    LET es == SetToSortSeq(out_edges(g, src), KeyBefore)
    IN [i \in DOMAIN es |-> [dst |-> es[i][3], until |-> g.edges[es[i]].until]]

PersistentGraph(writes) == FoldLeft(PersistentWrite, NoGraph, writes)

\* RamGraph: a list per source; an edge that is there keeps its place.
RamUpsert(list, edge, until) ==
    LET at == {i \in DOMAIN list : list[i].edge = edge}
        new == [edge |-> edge, until |-> until]
    IN IF at = {} THEN Append(list, new) ELSE [list EXCEPT ![CHOOSE i \in at : TRUE] = new]

RamOutEdges(writes, src) ==
    LET mine == SelectSeq(writes, LAMBDA w : w.op = "edge" /\ w.edge[1] = src)
        list == FoldLeft(LAMBDA l, w : RamUpsert(l, w.edge, w.until), <<>>, mine)
    IN [i \in DOMAIN list |-> [dst |-> list[i].edge[3], until |-> list[i].until]]

-----------------------------------------------------------------------------
\* One edge of the node at hand: its end is queued the first time it is met.
Walk(s, e, depth, now) ==
    IF ~visible_at(e.until, now) \/ e.dst \in s.visited THEN s
    ELSE [visited |-> s.visited \cup {e.dst},
          depth_of |-> (e.dst :> depth + 1) @@ s.depth_of,
          frontier |-> Append(s.frontier, [node |-> e.dst, depth |-> depth + 1])]

RECURSIVE Explore(_, _, _, _)

\* run: the frontier, first in first out; a node at max_depth is not expanded.
Explore(out, s, max_depth, now) ==
    IF s.frontier = <<>> THEN s.depth_of
    ELSE LET at == Head(s.frontier)
             rest == [s EXCEPT !.frontier = Tail(@)]
         IN Explore(out,
                    IF at.depth >= max_depth THEN rest
                    ELSE FoldLeft(LAMBDA t, e : Walk(t, e, at.depth, now), rest, out[at.node]),
                    max_depth, now)

\* (Faulty: the start is not marked as visited.)
StartUnmarked(start) == [visited |-> {}, depth_of |-> <<>>, frontier |-> <<[node |-> start, depth |-> 0]>>]

\* The start is visited: it is never in the result.
Start(start) == [visited |-> {start}, depth_of |-> <<>>, frontier |-> <<[node |-> start, depth |-> 0]>>]

\* The answer: the reached nodes that are visible entities, nearest first, then by id.
Answer(depth_of, entities, now) ==
    SetToSortSeq({[id |-> n, depth |-> depth_of[n]] :
                    n \in {n \in DOMAIN depth_of \cap DOMAIN entities : visible_at(entities[n].until, now)}},
                 LAMBDA a, b : a.depth < b.depth \/ (a.depth = b.depth /\ a.id < b.id))

run(out, entities, start, max_depth, now) ==
    Answer(Explore(out, Start(start), max_depth, now), entities, now)

-----------------------------------------------------------------------------
(* What the traversal promises: every visible entity but the start that a  *)
(* path of at most max_depth visible edges leads to, at the length of the  *)
(* shortest one, whatever the entities on the way.                         *)
Shortest(g, nodes, start, max_depth, now) ==
    LET hop(n) == {e[3] : e \in {e \in out_edges(g, n) : visible_at(g.edges[e].until, now)}}
        within[d \in 0..max_depth] ==
            IF d = 0 THEN {start} ELSE within[d - 1] \cup UNION {hop(n) : n \in within[d - 1]}
    IN {[id |-> n, depth |-> CHOOSE d \in 1..max_depth : n \in within[d] /\ n \notin within[d - 1]] :
          n \in {n \in within[max_depth] \ {start} :
                   n \in DOMAIN g.entities /\ visible_at(g.entities[n].until, now)}}

Answers(g, writes, nodes, start, max_depth, now) ==
    LET scanned == run([n \in nodes |-> ScanOutEdges(g, n)], g.entities, start, max_depth, now)
    IN /\ ToSet(scanned) = Shortest(g, nodes, start, max_depth, now)
       /\ Len(scanned) = Cardinality(ToSet(scanned))
       /\ run([n \in nodes |-> RamOutEdges(writes, n)], g.entities, start, max_depth, now) = scanned

TraversalRight(writes, nodes, depths, times) ==
    LET g == PersistentGraph(writes)
    IN \A start \in nodes, max_depth \in depths, now \in times :
          Answers(g, writes, nodes, start, max_depth, now)
=============================================================================
