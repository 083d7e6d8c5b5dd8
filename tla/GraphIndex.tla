----------------------------- MODULE GraphIndex -----------------------------
(***************************************************************************)
(* The knowledge graph of one agent (idx/graph/): entities and directed,   *)
(* named edges, each with the time its validity ends.  The graph of an     *)
(* agent is a record of two partial functions, as its two key spaces are;  *)
(* each write is one put of one value.  A kind goes with its label, and    *)
(* the time a validity starts, which nothing looks at, is left out.        *)
(***************************************************************************)
EXTENDS Integers, FiniteSets

CONSTANT Forever  \* no valid_until

NoGraph == [entities |-> <<>>, edges |-> <<>>]

GraphEntity(label, until)    == [label |-> label, until |-> until]
GraphEdgeMeta(weight, until) == [weight |-> weight, until |-> until]

visible_at(until, now) == until = Forever \/ now < until

Over(f, g)   == [x \in DOMAIN f \cup DOMAIN g |-> IF x \in DOMAIN f THEN f[x] ELSE g[x]]
Put(f, x, v) == Over([y \in {x} |-> v], f)

upsert_entity(g, id, entity) == [g EXCEPT !.entities = Put(@, id, entity)]
upsert_edge(g, edge, meta)   == [g EXCEPT !.edges = Put(@, edge, meta)]

\* graph_upsert_edge: only the weight of an edge that is stated again changes.
graph_upsert_edge(g, edge, weight) ==
    IF edge \in DOMAIN g.edges
    THEN upsert_edge(g, edge, [g.edges[edge] EXCEPT !.weight = weight])
    ELSE upsert_edge(g, edge, GraphEdgeMeta(weight, Forever))

out_edges(g, src) == {e \in DOMAIN g.edges : e[1] = src}
=============================================================================
