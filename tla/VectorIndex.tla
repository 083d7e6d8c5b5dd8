------------------------------ MODULE VectorIndex ------------------------------
(***************************************************************************)
(* The persistent vector index of                                          *)
(* crates/basemyai-engine/src/idx/vector: node blocks and one metadata     *)
(* record kept in the key-value engine, and a handle with an entry point,  *)
(* a live count and a cache of decoded blocks in memory.                   *)
(*                                                                         *)
(* A step is one Engine::apply_batch with what the code does around it, so *)
(* consolidate and rebuild, which take several batches, may be cut short   *)
(* by a crash or an error between any two of them.  Vectors and distances  *)
(* are left out: where the code picks neighbors by distance, any choice it *)
(* could make is allowed.  The beam (beam_width) covers the whole graph.   *)
(***************************************************************************)
EXTENDS Integers, FiniteSets

CONSTANTS
    VecIds,     \* the vector ids clients use
    MaxDegrees, \* the values of VectorIndexParams::max_degree in use
    Chunk,      \* REBUILD_CHUNK: blocks per batch of a maintenance pass
    GroupSize,  \* how many vectors one insert_many_with or delete_many_with takes
    Faults,     \* what a failing apply_batch may have done: "rejected" (nothing),
                \* "applied" (all of it: the flush that followed failed)
    NoBlock, NoId, NoMeta

ASSUME VectorIndexAssumption ==
    /\ IsFiniteSet(VecIds) /\ VecIds \subseteq Nat
    /\ MaxDegrees \subseteq Nat \ {0} /\ Chunk \in Nat \ {0} /\ GroupSize \in Nat \ {0}
    /\ NoId \notin VecIds

\* One KV record per node.  Blocks gives for each id its block, or none.
Block    == [deleted : BOOLEAN, nbrs : SUBSET VecIds]
Blocks   == [VecIds -> Block \cup {NoBlock}]
NoBlocks == [v \in VecIds |-> NoBlock]
Meta     == [count : 0 .. Cardinality(VecIds), entry : VecIds \cup {NoId}]

ASSUME NoBlockAssumption == NoBlock \notin Block /\ NoMeta \notin Meta

VARIABLES
    nodes,      \* the node blocks in the store
    meta,       \* the metadata record in the store, but for its
    max_degree, \*   params, which are those the store was created with
    entry,      \* the handle: entry_point,
    count,      \*   count,
    cache,      \*   cache
    pc,         \* "closed", "idle", "plan" (inserts are planned, in memory), or the
                \*   next batch of a maintenance pass
    job,        \* "insert", or that pass: "consolidate", "rebuild", "open" (rebuild at open)
    group,      \* the ids that are inserted: those of the call, or all that are live
    work,       \* the blocks planned, or rewritten, and still to be written
    dead,       \* the tombstoned blocks it still has to remove
    anchor,     \* the metadata to be written
    failed      \* history: a pass failed, and no rebuild has succeeded since

store == <<nodes, meta, max_degree>>
ram   == <<entry, count, cache>>
pass  == <<pc, job, group, work, dead, anchor>>
vars  == <<store, ram, pass, failed>>

-----------------------------------------------------------------------------
(* Reading blocks. *)

Over(f, g) == [v \in VecIds |-> IF f[v] # NoBlock THEN f[v] ELSE g[v]]

Stored(f) == {v \in VecIds : f[v] # NoBlock}
Live(f)   == {v \in Stored(f) : ~f[v].deleted}

\* NodeProvider: the cache shadows the store.
Seen == Over(cache, nodes)

\* greedy_search: what is reached from e through the blocks that exist; tombstones
\* route.  Nothing where e itself has no block.
Closed(f, C) == UNION {f[v].nbrs : v \in C} \cap Stored(f) \subseteq C
Walk(f, e) ==
    {v \in Stored(f) : /\ e \in Stored(f)
                       /\ \A C \in SUBSET Stored(f) : e \in C /\ Closed(f, C) => v \in C}

\* The cache after the blocks of S have been read.
Reading(S) == [v \in VecIds |-> IF v \in S THEN Seen[v] ELSE cache[v]]

\* search_live_scored.
Results == Walk(Seen, entry) \cap Live(Seen)

\* robust_prune of the live candidates C: some of them, never none of several.
Prunes(C) ==
    IF C = {} THEN {{}}
    ELSE {N \in SUBSET C : N # {} /\ Cardinality(N) <= max_degree}

-----------------------------------------------------------------------------
(* plan_insert. *)

\* The lists of the chosen neighbors N of id, each with a back-edge, and pruned
\* again where that is one too many.
BackLinks(f, id, N) ==
    {L \in [N -> SUBSET VecIds] : \A n \in N :
        LET list == f[n].nbrs \cup {id}
        IN IF Cardinality(list) <= max_degree THEN L[n] = list
           ELSE L[n] \in Prunes({m \in list \ {n} : m = id \/ m \in Live(f)})}

\* The neighbors of a new node whose search visited the nodes of W: live ones,
\* and tombstones only where every visited node is one.
Choices(f, W) ==
    IF W = {} \/ W \cap Live(f) # {} THEN Prunes(W \cap Live(f))
    ELSE {N \in SUBSET W : N # {} /\ (N = W \/ Cardinality(N) = max_degree)
                           /\ Cardinality(N) <= max_degree}

\* The plans for inserting id over the blocks of base, given the blocks already
\* planned: those blocks with the ones the insert writes, and the entry point after it.
Plans(base, planned, e, id) ==
    LET f == Over(planned, base)
    IN IF e = NoId
       THEN {[blocks |-> [planned EXCEPT ![id] = [deleted |-> FALSE, nbrs |-> {}]],
              entry  |-> id]}
       ELSE UNION {{[blocks |-> [v \in VecIds |->
                         IF v = id THEN [deleted |-> FALSE, nbrs |-> N]
                         ELSE IF v \in N THEN [f[v] EXCEPT !.nbrs = L[v]]
                         ELSE planned[v]],
                     entry  |-> e] : L \in BackLinks(f, id, N)}
                   : N \in Choices(f, Walk(f, e) \ {id})}

Lowest(S)  == CHOOSE v \in S : \A u \in S : v <= u

Groups == {S \in SUBSET VecIds : S # {} /\ Cardinality(S) <= GroupSize}

-----------------------------------------------------------------------------
(* Engine::apply_batch. *)

Commits(n, m) == nodes' = n /\ meta' = m /\ UNCHANGED max_degree

\* It returns an error.
Fails(n, m) ==
    \/ "rejected" \in Faults /\ UNCHANGED store
    \/ "applied"  \in Faults /\ Commits(n, m)

-----------------------------------------------------------------------------
Init ==
    /\ nodes = NoBlocks /\ meta = NoMeta /\ max_degree \in MaxDegrees
    /\ entry = NoId /\ count = 0 /\ cache = NoBlocks
    /\ pc = "closed" /\ job = "open"
    /\ group = {} /\ work = NoBlocks /\ dead = {} /\ anchor = NoMeta
    /\ failed = FALSE

\* search_scored: nothing changes but the cache.
Search ==
    /\ pc = "idle"
    /\ cache' = Reading(Walk(Seen, entry))
    /\ UNCHANGED <<store, entry, count, pass, failed>>

\* The call is over, or returns an error; opening then leaves no handle.
Leave ==
    /\ job' = "open" /\ group' = {} /\ work' = NoBlocks /\ dead' = {} /\ anchor' = NoMeta

\* insert_with, insert_many_with: a live id is refused before anything is
\* written; a tombstoned one comes back to life.  The blocks that will be read are.
Insert(S) ==
    /\ pc = "idle" /\ S \cap Live(Seen) = {}
    /\ pc' = "plan" /\ job' = "insert" /\ group' = S
    /\ anchor' = [count |-> count + Cardinality(S), entry |-> entry]
    /\ cache' = Reading(S \cup Walk(Seen, entry))
    /\ UNCHANGED <<store, entry, count, work, dead, failed>>

\* One id after the other is planned against the blocks planned before, over those of
\* the store; a rebuild starts from none, in the order of the ids.
PlanNext ==
    /\ pc = "plan"
    /\ \E id \in group \ Live(work) :
          /\ job # "insert" => id = Lowest(group \ Live(work))
          /\ \E p \in Plans(IF job = "insert" THEN Seen ELSE NoBlocks, work, anchor.entry, id) :
                work' = p.blocks /\ anchor' = [anchor EXCEPT !.entry = p.entry]
    /\ pc' = IF job # "insert" /\ group \subseteq Live(work') THEN "write" ELSE "plan"
    /\ UNCHANGED <<store, ram, job, group, dead, failed>>

\* All that was planned is one batch.
CommitInsert ==
    /\ pc = "plan" /\ job = "insert" /\ group \subseteq Live(work)
    /\ LET n == Over(work, nodes)
       IN \/ /\ Commits(n, anchor)
             /\ entry' = anchor.entry /\ count' = anchor.count
             /\ cache' = Over(work, cache)
          \/ Fails(n, anchor) /\ UNCHANGED ram
    /\ pc' = "idle" /\ Leave
    /\ UNCHANGED failed

\* delete_with, delete_many_with.
Tombstoned(S) == {v \in S : v \in Live(Seen)}

\* (Faulty: the cached blocks are not refreshed.)
DeleteStale(S) ==
    LET T == Tombstoned(S)
        n == [v \in VecIds |-> IF v \in T THEN [Seen[v] EXCEPT !.deleted = TRUE]
                               ELSE nodes[v]]
        left == IF Cardinality(T) <= count THEN count - Cardinality(T) ELSE 0
        m == [count |-> left, entry |-> entry]
    IN /\ pc = "idle"
       /\ \/ T = {} /\ UNCHANGED <<store, count>> /\ cache' = Reading(S)
          \/ T # {} /\ Commits(n, m) /\ count' = left /\ cache' = Reading(S)
       /\ UNCHANGED <<entry, pass, failed>>

\* Ids that are absent or tombstoned already are skipped; the count saturates.
Delete(S) ==
    LET T == Tombstoned(S)
        n == [v \in VecIds |-> IF v \in T THEN [Seen[v] EXCEPT !.deleted = TRUE]
                               ELSE nodes[v]]
        left == IF Cardinality(T) <= count THEN count - Cardinality(T) ELSE 0
        m == [count |-> left, entry |-> entry]
    IN /\ pc = "idle"
       /\ \/ T = {} /\ UNCHANGED <<store, count>> /\ cache' = Reading(S)
          \/ T # {} /\ Commits(n, m) /\ count' = left
             /\ cache' = [v \in VecIds |-> IF v \in T THEN n[v] ELSE Reading(S)[v]]
          \/ T # {} /\ Fails(n, m) /\ cache' = Reading(S) /\ UNCHANGED count
       /\ UNCHANGED <<entry, pass, failed>>

-----------------------------------------------------------------------------
(* consolidate and rebuild: what they plan from one scan of the blocks. *)

\* (Faulty: a list with a live neighbor left is not repaired.)
RepairsLazy ==
    LET pool(v) == {u \in nodes[v].nbrs : u \in Live(nodes)} \ {v}
        broken  == {v \in Live(nodes) : nodes[v].nbrs # {} /\ pool(v) = {}}
    IN {w \in Blocks :
          \A v \in VecIds :
             IF v \in broken THEN w[v] = [deleted |-> FALSE, nbrs |-> {}]
             ELSE w[v] = NoBlock}

\* plan_repair of each live block that refers to a tombstone or to no block: its
\* live neighbors, and the live neighbors of its tombstoned ones, pruned.
Pool(v) ==
    {u \in nodes[v].nbrs \cup
           UNION {nodes[t].nbrs : t \in {t \in nodes[v].nbrs \cap Stored(nodes) :
                                             nodes[t].deleted}}
        : u \in Live(nodes)} \ {v}
Repairs ==
    LET broken == {v \in Live(nodes) : ~(nodes[v].nbrs \subseteq Live(nodes))}
    IN {[v \in VecIds |-> IF v \in broken THEN [deleted |-> FALSE, nbrs |-> L[v]]
                          ELSE NoBlock]
        : L \in {L \in [broken -> SUBSET VecIds] : \A v \in broken : L[v] \in Prunes(Pool(v))}}

\* The entry point consolidate keeps, or moves to the nearest live node.
Anchors ==
    IF entry \in Live(nodes)        THEN {entry}
    ELSE IF Live(nodes) = {}        THEN {NoId}
    ELSE IF entry \in Stored(nodes) THEN Live(nodes)
    ELSE {Lowest(Live(nodes))}

LiveCount == Cardinality(Live(nodes))

-----------------------------------------------------------------------------
(* The steps of a pass: consolidate writes repairs, metadata, then purges;  *)
(* rebuild drops the metadata, writes blocks, purges, then writes metadata. *)

Consolidate ==
    /\ pc = "idle"
    /\ \/ /\ Stored(nodes) = Live(nodes)
          /\ count' = LiveCount
          /\ UNCHANGED pass
       \/ /\ Stored(nodes) # Live(nodes)
          /\ job' = "consolidate" /\ dead' = Stored(nodes) \ Live(nodes)
          /\ work' \in Repairs
          /\ \E e \in Anchors : anchor' = [count |-> LiveCount, entry |-> e]
          /\ pc' = IF work' = NoBlocks THEN "meta" ELSE "write"
          /\ UNCHANGED <<count, group>>
    /\ UNCHANGED <<store, entry, cache, failed>>

\* rebuild_from_store up to its scan.
Drop(j) ==
    \/ /\ Commits(nodes, NoMeta)
       /\ job' = j
       /\ group' = Live(nodes) /\ work' = NoBlocks
       /\ anchor' = [count |-> LiveCount, entry |-> NoId]
       /\ dead' = Stored(nodes) \ Live(nodes)
       /\ pc' = IF group' # {} THEN "plan" ELSE IF dead' # {} THEN "purge" ELSE "meta"
       /\ UNCHANGED failed
    \/ /\ Fails(nodes, NoMeta)
       /\ failed' = TRUE
       /\ UNCHANGED pass

Rebuild ==
    /\ pc = "idle"
    /\ Drop("rebuild")
    /\ UNCHANGED ram

\* The handle takes what the pass computed.
Adopt ==
    /\ entry' = anchor.entry /\ count' = anchor.count /\ cache' = NoBlocks
    /\ pc' = "idle"
    /\ failed' = IF job = "consolidate" THEN failed ELSE FALSE
    /\ Leave

PassFails(n, m) ==
    /\ Fails(n, m)
    /\ pc' = IF job = "open" THEN "closed" ELSE "idle"
    /\ failed' = TRUE
    /\ Leave
    /\ UNCHANGED ram

FirstOf(S) == {v \in S : Cardinality({u \in S : u < v}) < Chunk}

WriteBlocks ==
    /\ pc = "write"
    /\ LET now == FirstOf(Stored(work))
           n   == [v \in VecIds |-> IF v \in now THEN work[v] ELSE nodes[v]]
       IN \/ /\ Commits(n, meta)
             /\ work' = [v \in VecIds |-> IF v \in now THEN NoBlock ELSE work[v]]
             /\ pc' = IF work' # NoBlocks THEN "write"
                      ELSE IF job # "consolidate" /\ dead # {} THEN "purge" ELSE "meta"
             /\ UNCHANGED <<job, group, dead, anchor, ram, failed>>
          \/ PassFails(n, meta)

\* (Faulty: the purge comes before the metadata.)
WriteMetaLate ==
    /\ pc = "meta"
    /\ IF job = "consolidate" /\ dead # {}
       THEN /\ pc' = "purge" /\ UNCHANGED <<job, group, work, dead, anchor, ram, failed, store>>
       ELSE Commits(nodes, anchor) /\ Adopt

WriteMeta ==
    /\ pc = "meta"
    /\ \/ /\ Commits(nodes, anchor)
          /\ IF job = "consolidate"
             THEN pc' = "purge" /\ UNCHANGED <<job, group, work, dead, anchor, ram, failed>>
             ELSE Adopt
       \/ PassFails(nodes, anchor)

\* (Faulty: live blocks are taken for tombstones.)
PurgeBlocksLive ==
    /\ pc = "purge"
    /\ Commits([v \in VecIds |-> IF v = Lowest(Stored(nodes)) THEN NoBlock ELSE nodes[v]], meta)
    /\ dead' = dead \ FirstOf(dead)
    /\ IF dead' # {} THEN UNCHANGED <<pc, job, group, work, anchor, ram, failed>>
       ELSE IF job = "consolidate" THEN Adopt
       ELSE pc' = "meta" /\ UNCHANGED <<job, group, work, anchor, ram, failed>>

PurgeBlocks ==
    /\ pc = "purge"
    /\ LET now == FirstOf(dead)
           n   == [v \in VecIds |-> IF v \in now THEN NoBlock ELSE nodes[v]]
       IN \/ Commits(n, meta) /\ dead = now /\ job = "consolidate" /\ Adopt
          \/ /\ Commits(n, meta) /\ ~(dead = now /\ job = "consolidate")
             /\ dead' = dead \ now
             /\ pc' = IF dead' = {} THEN "meta" ELSE "purge"
             /\ UNCHANGED <<job, group, work, anchor, ram, failed>>
          \/ PassFails(n, meta)

-----------------------------------------------------------------------------
(* The process dies at any point; the index is opened again. *)

Crash ==
    /\ pc # "closed"
    /\ pc' = "closed"
    /\ Leave
    /\ entry' = NoId /\ count' = 0 /\ cache' = NoBlocks
    /\ UNCHANGED <<store, failed>>

\* PersistentVectorIndex::open takes the metadata as it is.
Resolves ==
    /\ meta # NoMeta
    /\ IF meta.entry = NoId THEN meta.count = 0 ELSE meta.entry \in Stored(nodes)

Open ==
    /\ pc = "closed"
    /\ \/ Resolves /\ entry' = meta.entry /\ count' = meta.count
       \/ meta = NoMeta /\ Stored(nodes) = {} /\ UNCHANGED <<entry, count>>
    /\ pc' = "idle"
    /\ UNCHANGED <<store, cache, job, group, work, dead, anchor, failed>>

OpenRebuilding ==
    /\ pc = "closed" /\ ~Resolves
    /\ meta # NoMeta \/ Stored(nodes) # {}
    /\ Drop("open")
    /\ UNCHANGED ram

Next ==
    \/ Search
    \/ \E S \in Groups : Insert(S) \/ Delete(S)
    \/ PlanNext \/ CommitInsert
    \/ Consolidate \/ Rebuild
    \/ WriteBlocks \/ WriteMeta \/ PurgeBlocks
    \/ Crash \/ Open \/ OpenRebuilding

Spec == Init /\ [][Next]_vars

-----------------------------------------------------------------------------
(* Properties. *)

\* Every variable has its type; in particular the count never exceeds the ids.
TypeOK ==
    /\ nodes \in Blocks /\ meta \in Meta \cup {NoMeta} /\ max_degree \in MaxDegrees
    /\ entry \in VecIds \cup {NoId} /\ count \in 0 .. Cardinality(VecIds)
    /\ cache \in Blocks
    /\ pc \in {"closed", "idle", "plan", "write", "meta", "purge"}
    /\ job \in {"insert", "consolidate", "rebuild", "open"} /\ group \subseteq VecIds
    /\ work \in Blocks /\ dead \subseteq VecIds /\ anchor \in Meta \cup {NoMeta}
    /\ failed \in BOOLEAN

\* A search never returns what the store holds as deleted or does not hold.
ResultsAreLive == pc = "idle" => Results \subseteq Live(nodes)

\* Unless a pass returned an error, whatever a crash leaves opens without a
\* rebuild and with the exact count, except where a rebuild was cut short.
OpensCleanly ==
    ~failed /\ meta # NoMeta => Resolves /\ meta.count = LiveCount

\* Unless a pass returned an error, no live block refers to a missing one, at any
\* point of any pass.
NoDangling ==
    ~failed => \A v \in Live(nodes) : nodes[v].nbrs \subseteq Stored(nodes)

\* Through passes cut short anywhere, reopenings and errors, a vector becomes live
\* only by an insert of its id and stops being live only by a delete of its id.  In
\* particular pruning a tombstone's neighbors, repairing or rebuilding brings
\* nothing back (graph.rs: "re-pruning a routing tombstone must not resurrect it").
OnlyCallsChangeLive ==
    [][/\ Live(nodes') \ Live(nodes) # {} =>
             /\ CommitInsert /\ group \in Groups
             /\ Live(nodes') \ Live(nodes) = group
       /\ Live(nodes) \ Live(nodes') # {} =>
             \E S \in Groups : Live(nodes) \ Live(nodes') \subseteq S /\ Delete(S)]_vars
===============================================================================
