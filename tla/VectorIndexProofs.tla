--------------------------- MODULE VectorIndexProofs ---------------------------
(***************************************************************************)
(* Theorems about VectorIndex, for every value of its constants, where an  *)
(* apply_batch that returns an error has changed nothing: what a search    *)
(* returns is live, what a crash leaves opens without a rebuild, no list   *)
(* refers to a missing block, and only calls make a vector come or go.     *)
(***************************************************************************)
EXTENDS VectorIndex, FiniteSetTheorems, WellFoundedInduction, TLAPS

-----------------------------------------------------------------------------
(* The invariant. *)

\* The cached blocks c and the stored blocks n agree on what is live, or altogether.
SameLife(c, n) == \A v \in VecIds : c[v] # NoBlock => (v \in Live(n) <=> ~c[v].deleted)
InStep(c, n)   == \A v \in VecIds : c[v] \in {NoBlock, n[v]}

\* A search can start from e.
EntryOk(e, n) == IF e = NoId THEN Live(n) = {} ELSE e \in Stored(n)

\* No live block refers to a missing one.
Linked(f) == \A v \in Live(f) : f[v].nbrs \subseteq Stored(f)

\* Blocks w, planned over those of b for the ids of g, make no other id live or dead,
\* and leave no list of a live block without its blocks.
PlanOk(b, g, w) ==
    /\ \A v \in Stored(w) : \/ v \in g /\ ~w[v].deleted
                            \/ v \in Stored(b) /\ w[v].deleted = b[v].deleted
    /\ Linked(b) => Linked(Over(w, b))

\* Once the blocks of w are written over those of n, live ones refer to live ones.
Repaired(n, w) ==
    /\ \A v \in Stored(w) : v \in Live(n) /\ ~w[v].deleted /\ w[v].nbrs \subseteq Live(n)
    /\ \A v \in Live(n) \ Stored(w) : n[v].nbrs \subseteq Live(n)

\* The store is closed, or being rebuilt to be opened.
Opening == pc = "closed" \/ (job = "open" /\ pc # "idle")

Quiet == pc \in {"idle", "closed"} => job = "open" /\ work = NoBlocks

Handle ==
    IF Opening THEN entry = NoId /\ count = 0 /\ cache = NoBlocks
    ELSE count = LiveCount /\ SameLife(cache, nodes)

\* Between passes that succeeded the handle has the blocks of the store.
Fresh ==
    ~failed /\ (pc = "idle" \/ job = "insert")
        => InStep(cache, nodes) /\ EntryOk(entry, nodes)

MetaRight ==
    meta # NoMeta => meta.count = LiveCount /\ (~failed => EntryOk(meta.entry, nodes))

\* What the ids are planned over, and the entry point they are reached from.
Base       == IF job = "insert" THEN Seen ELSE NoBlocks
FirstEntry == IF job = "insert" THEN entry ELSE NoId

Planning ==
    pc = "plan" =>
        /\ job # "consolidate" /\ group # {} /\ anchor \in Meta
        /\ PlanOk(Base, group, work)
        /\ IF anchor.entry = NoId THEN FirstEntry = NoId /\ Live(work) = {}
           ELSE anchor.entry = FirstEntry \/ anchor.entry \in Live(work)
        /\ IF job = "insert"
           THEN /\ group \in Groups /\ group \cap Live(nodes) = {}
                /\ anchor.count = count + Cardinality(group)
           ELSE group = Live(nodes)

\* A pass removes the tombstones it has found, and writes the count it has found.
Removing ==
    pc \in {"write", "meta", "purge"} \/ (pc = "plan" /\ job # "insert") =>
        /\ job # "insert" /\ anchor \in Meta /\ anchor.count = LiveCount
        /\ dead = Stored(nodes) \ Live(nodes)
        /\ job # "consolidate" => meta = NoMeta

\* No live block will refer to a tombstone when they are removed.
Writing ==
    pc \in {"write", "meta", "purge"} =>
        /\ IF anchor.entry = NoId THEN Live(nodes) = {} ELSE anchor.entry \in Live(nodes)
        /\ Repaired(nodes, work)
        /\ pc # "write" => work = NoBlocks
        /\ pc = "purge" /\ job = "consolidate" => meta = anchor

IInv ==
    /\ TypeOK /\ Quiet /\ Handle /\ Fresh /\ MetaRight /\ Planning /\ Removing /\ Writing
    /\ NoDangling

-----------------------------------------------------------------------------
(* Blocks. *)

\* What is stored, and what is live, of any blocks: ids, of which the live ones can be
\* counted.
LEMMA StoredLive ==
    ASSUME NEW f
    PROVE  /\ Live(f) \subseteq Stored(f) /\ Stored(f) \subseteq VecIds
           /\ IsFiniteSet(Live(f)) /\ Cardinality(Live(f)) \in 0 .. Cardinality(VecIds)
<1>1. Live(f) \subseteq Stored(f) /\ Stored(f) \subseteq VecIds
  BY DEF Live, Stored
<1>2. IsFiniteSet(VecIds)
  BY VectorIndexAssumption
<1>3. Live(f) \in SUBSET VecIds
  BY <1>1
<1>4. IsFiniteSet(Live(f)) /\ Cardinality(Live(f)) <= Cardinality(VecIds)
  BY ONLY <1>2, <1>3, FS_Subset
<1>5. Cardinality(Live(f)) \in Nat /\ Cardinality(VecIds) \in Nat
  BY <1>2, <1>4, FS_CardinalityType
<1> QED BY <1>1, <1>4, <1>5

\* Where no blocks are, none is stored and none is live.
LEMMA NothingStored ==
    /\ NoBlocks \in Blocks /\ Stored(NoBlocks) = {} /\ Live(NoBlocks) = {}
    /\ \A w \in Blocks : Stored(w) = {} => w = NoBlocks
    /\ \A f \in Blocks : Over(NoBlocks, f) = f /\ Over(f, NoBlocks) = f
  BY NoBlockAssumption DEF NoBlocks, Blocks, Stored, Live, Over

\* What a block is: a record of the two fields, and not the absence of a block.
LEMMA BlockShape ==
    ASSUME NEW f \in Blocks, NEW v \in Stored(f)
    PROVE  v \in VecIds /\ f[v] \in Block /\ f[v].deleted \in BOOLEAN /\ f[v].nbrs \subseteq VecIds
  BY DEF Stored, Blocks, Block

\* Blocks over blocks are blocks: those of the first, and those of the second elsewhere.
LEMMA OverShape ==
    ASSUME NEW f \in Blocks, NEW g \in Blocks
    PROVE  /\ Over(f, g) \in Blocks
           /\ Stored(Over(f, g)) = Stored(f) \cup Stored(g)
           /\ Live(Over(f, g)) = Live(f) \cup (Live(g) \ Stored(f))
           /\ \A v \in VecIds : Over(f, g)[v] = IF v \in Stored(f) THEN f[v] ELSE g[v]
<1>1. \A v \in VecIds : Over(f, g)[v] = IF v \in Stored(f) THEN f[v] ELSE g[v]
  BY DEF Over, Stored
<1>2. Over(f, g) \in Blocks
  BY DEF Over, Blocks
<1>3. Stored(Over(f, g)) = Stored(f) \cup Stored(g)
  BY <1>1 DEF Stored
<1>4. Live(Over(f, g)) = Live(f) \cup (Live(g) \ Stored(f))
  BY <1>1, <1>3, StoredLive DEF Live
<1> QED BY <1>1, <1>2, <1>3, <1>4

\* A cache that agrees with the store on what is live shows what is live.
LEMMA SeenLive ==
    ASSUME NEW c \in Blocks, NEW n \in Blocks, SameLife(c, n)
    PROVE  Live(Over(c, n)) = Live(n)
<1>1. \A v \in VecIds : v \in Live(Over(c, n)) <=> v \in Live(n)
  <2> SUFFICES ASSUME NEW v \in VecIds
               PROVE  v \in Live(Over(c, n)) <=> v \in Live(n)
    OBVIOUS
  <2>1. CASE c[v] = NoBlock
    BY <2>1, OverShape DEF Live, Stored
  <2>2. CASE c[v] # NoBlock
    <3>1. v \in Live(n) <=> ~c[v].deleted
      BY <2>2 DEF SameLife
    <3>2. v \in Stored(c)
      BY <2>2 DEF Stored
    <3>3. v \in Live(Over(c, n)) <=> ~c[v].deleted
      BY <3>2, OverShape DEF Live
    <3> QED BY <3>1, <3>3
  <2> QED BY <2>1, <2>2
<1> QED BY <1>1, StoredLive

\* A cache in step with the store shows the blocks of the store, and what is live.
LEMMA InStepShows ==
    ASSUME NEW c \in Blocks, NEW n \in Blocks, InStep(c, n)
    PROVE  Over(c, n) = n /\ SameLife(c, n)
<1>1. Over(c, n) = n
  BY DEF Over, InStep, Blocks
<1>2. SameLife(c, n)
  BY DEF SameLife, InStep, Live, Stored
<1> QED BY <1>1, <1>2

\* An empty cache is in step with any blocks.
LEMMA NothingCached ==
    ASSUME NEW n
    PROVE  InStep(NoBlocks, n) /\ SameLife(NoBlocks, n)
  BY DEF InStep, SameLife, NoBlocks

\* Blocks read are cached as they are seen.
LEMMA CachedAsSeen ==
    ASSUME NEW c \in Blocks, NEW n \in Blocks, NEW S,
           NEW r, r = [v \in VecIds |-> IF v \in S THEN Over(c, n)[v] ELSE c[v]]
    PROVE  /\ r \in Blocks /\ Over(r, n) = Over(c, n)
           /\ SameLife(c, n) => SameLife(r, n)
           /\ InStep(c, n) => InStep(r, n)
<1>1. r \in Blocks
  BY OverShape DEF Blocks
<1>2. Over(r, n) = Over(c, n)
  BY DEF Over
<1>3. ASSUME SameLife(c, n) PROVE SameLife(r, n)
  <2> SUFFICES ASSUME NEW v \in VecIds, r[v] # NoBlock
               PROVE  v \in Live(n) <=> ~r[v].deleted
    BY DEF SameLife
  <2>1. CASE v \notin S \/ c[v] # NoBlock
    <3>1. r[v] = c[v]
      BY <2>1 DEF Over
    <3> QED BY <3>1, <1>3 DEF SameLife
  <2>2. CASE v \in S /\ c[v] = NoBlock
    <3>1. r[v] = n[v]
      BY <2>2 DEF Over
    <3> QED BY <3>1 DEF Live, Stored
  <2> QED BY <2>1, <2>2
<1>4. ASSUME InStep(c, n) PROVE InStep(r, n)
  BY <1>4 DEF InStep, Over
<1> QED BY <1>1, <1>2, <1>3, <1>4
-----------------------------------------------------------------------------
(* Planning. *)

\* Pruning keeps candidates.
LEMMA PrunesKept ==
    ASSUME NEW C, NEW N \in Prunes(C) PROVE N \subseteq C
  BY DEF Prunes

\* A search visits blocks that are there.
LEMMA WalkStored == ASSUME NEW f, NEW e PROVE Walk(f, e) \subseteq Stored(f)
  BY DEF Walk

\* The neighbors chosen for a new node have been visited.
LEMMA ChoicesVisited ==
    ASSUME NEW f, NEW W, NEW N \in Choices(f, W) PROVE N \subseteq W
<1>1. CASE W = {} \/ W \cap Live(f) # {}
  BY <1>1, PrunesKept DEF Choices
<1>2. CASE ~(W = {} \/ W \cap Live(f) # {})
  BY <1>2 DEF Choices
<1> QED BY <1>1, <1>2

\* The list of a live neighbor, linked back, refers to the new node and to what is
\* there.
LEMMA BackLinksLinked ==
    ASSUME NEW f \in Blocks, Linked(f), NEW id \in VecIds, NEW N \in SUBSET Stored(f),
           NEW L \in BackLinks(f, id, N), NEW n \in N, n \in Live(f)
    PROVE  L[n] \subseteq Stored(f) \cup {id}
<1> DEFINE list == f[n].nbrs \cup {id}
           some == {m \in list \ {n} : m = id \/ m \in Live(f)}
<1>1. list \subseteq Stored(f) \cup {id}
  BY DEF Linked
<1>2. L[n] = list \/ L[n] \in Prunes(some)
  BY DEF BackLinks
<1>3. some \subseteq Stored(f) \cup {id}
  BY <1>1
<1> HIDE DEF list, some
<1> QED BY <1>1, <1>2, <1>3, PrunesKept

\* The lists linked back are sets of ids.
LEMMA BackLinksShape ==
    ASSUME NEW f, NEW id, NEW N, NEW L \in BackLinks(f, id, N), NEW n \in N
    PROVE  L[n] \subseteq VecIds
  BY DEF BackLinks

\* What the plan for inserting id writes: the block of id, live, and those of its
\* neighbors, which stay what they were but for their lists.
Written(f, w, x, id, N) ==
    /\ N \subseteq Stored(f) \ {id}
    /\ x \in Blocks
    /\ x[id] = [deleted |-> FALSE, nbrs |-> N]
    /\ \A v \in N : x[v] # NoBlock /\ x[v].deleted = f[v].deleted
                    /\ (Linked(f) /\ v \in Live(f) => x[v].nbrs \subseteq Stored(f) \cup {id})
    /\ \A v \in VecIds \ (N \cup {id}) : x[v] = w[v]

\* A plan writes such blocks, and its entry point is the node where there was none.
LEMMA PlanWrites ==
    ASSUME NEW b \in Blocks, NEW w \in Blocks, NEW e, NEW id \in VecIds,
           NEW p \in Plans(b, w, e, id)
    PROVE  /\ \E N : Written(Over(w, b), w, p.blocks, id, N)
           /\ p.entry = IF e = NoId THEN id ELSE e
<1> DEFINE f == Over(w, b)
<1>0. f \in Blocks
  BY OverShape
<1>1. CASE e = NoId
  <2> DEFINE x == [w EXCEPT ![id] = [deleted |-> FALSE, nbrs |-> {}]]
  <2>1. p = [blocks |-> x, entry |-> id]
    BY <1>1 DEF Plans
  <2>2. [deleted |-> FALSE, nbrs |-> {}] \in Block
    BY DEF Block
  <2>3. x \in Blocks /\ x[id] = [deleted |-> FALSE, nbrs |-> {}]
        /\ \A v \in VecIds \ {id} : x[v] = w[v]
    BY <2>2 DEF Blocks
  <2> HIDE DEF x
  <2>4. Written(f, w, x, id, {})
    BY <2>3 DEF Written
  <2> QED BY <1>1, <2>1, <2>4
<1>2. CASE e # NoId
  <2>1. PICK N \in Choices(f, Walk(f, e) \ {id}) : \E L \in BackLinks(f, id, N) :
           p = [blocks |-> [v \in VecIds |->
                                IF v = id THEN [deleted |-> FALSE, nbrs |-> N]
                                ELSE IF v \in N THEN [f[v] EXCEPT !.nbrs = L[v]]
                                ELSE w[v]],
                entry  |-> e]
    BY <1>2 DEF Plans
  <2>0. PICK L \in BackLinks(f, id, N) :
           p = [blocks |-> [v \in VecIds |->
                                IF v = id THEN [deleted |-> FALSE, nbrs |-> N]
                                ELSE IF v \in N THEN [f[v] EXCEPT !.nbrs = L[v]]
                                ELSE w[v]],
                entry  |-> e]
    BY <2>1
  <2> DEFINE x == [v \in VecIds |-> IF v = id THEN [deleted |-> FALSE, nbrs |-> N]
                                    ELSE IF v \in N THEN [f[v] EXCEPT !.nbrs = L[v]]
                                    ELSE w[v]]
  <2>2. N \subseteq Stored(f) \ {id}
    BY ChoicesVisited, WalkStored
  <2> HIDE DEF f
  <2>3. [deleted |-> FALSE, nbrs |-> N] \in Block
    BY <2>2, StoredLive DEF Block
  <2>4. ASSUME NEW v \in N
        PROVE  /\ v \in VecIds /\ x[v] \in Block /\ x[v].deleted = f[v].deleted
               /\ x[v].nbrs = L[v]
    <3>1. v \in VecIds /\ v # id /\ f[v] \in Block /\ L[v] \subseteq VecIds
      BY <1>0, <2>2, BlockShape, BackLinksShape
    <3>2. x[v] = [f[v] EXCEPT !.nbrs = L[v]]
      BY <3>1
    <3> QED BY <3>1, <3>2 DEF Block
  <2>5. x[id] = [deleted |-> FALSE, nbrs |-> N]
        /\ \A v \in VecIds \ (N \cup {id}) : x[v] = w[v]
    OBVIOUS
  <2>6. x \in Blocks
    <3>1. \A v \in VecIds : x[v] \in Block \cup {NoBlock}
      BY <2>3, <2>4, <2>5 DEF Blocks
    <3> QED BY <3>1 DEF Blocks
  <2>7. p.blocks = x /\ p.entry = e
    BY <2>0
  <2> HIDE DEF x
  <2>8. \A v \in N : x[v] # NoBlock /\ x[v].deleted = f[v].deleted
                     /\ (Linked(f) /\ v \in Live(f) => x[v].nbrs \subseteq Stored(f) \cup {id})
    <3> SUFFICES ASSUME NEW v \in N
                 PROVE  /\ x[v] # NoBlock /\ x[v].deleted = f[v].deleted
                        /\ (Linked(f) /\ v \in Live(f) => x[v].nbrs \subseteq Stored(f) \cup {id})
      OBVIOUS
    <3>1. x[v] # NoBlock /\ x[v].deleted = f[v].deleted
      BY <2>4, NoBlockAssumption
    <3>2. ASSUME Linked(f), v \in Live(f) PROVE L[v] \subseteq Stored(f) \cup {id}
      BY <3>2, <1>0, <2>2, BackLinksLinked
    <3> QED BY <2>4, <3>1, <3>2
  <2>9. Written(f, w, x, id, N)
    BY <2>2, <2>5, <2>6, <2>8 DEF Written
  <2> QED BY <1>2, <2>7, <2>9 DEF f
<1> QED BY <1>1, <1>2
\* What has been planned stays right when the plan for one more id is added.
LEMMA PlanAdds ==
    ASSUME NEW b \in Blocks, NEW w \in Blocks, NEW g, NEW id \in g, id \in VecIds,
           PlanOk(b, g, w), NEW x, NEW N, Written(Over(w, b), w, x, id, N)
    PROVE  /\ x \in Blocks /\ PlanOk(b, g, x)
           /\ Live(w) \cup {id} \subseteq Live(x)
<1> DEFINE f == Over(w, b)
           y == Over(x, b)
<1>1. x \in Blocks /\ f \in Blocks
  BY OverShape DEF Written
<1>2. /\ N \subseteq Stored(f) /\ id \notin N
      /\ x[id] = [deleted |-> FALSE, nbrs |-> N]
      /\ \A v \in N : x[v] # NoBlock /\ x[v].deleted = f[v].deleted
      /\ \A v \in N : Linked(f) /\ v \in Live(f) => x[v].nbrs \subseteq Stored(f) \cup {id}
      /\ \A v \in VecIds \ (N \cup {id}) : x[v] = w[v]
  BY DEF Written
<1>3. /\ Stored(f) = Stored(w) \cup Stored(b) /\ Stored(y) = Stored(x) \cup Stored(b)
      /\ \A v \in VecIds : f[v] = IF v \in Stored(w) THEN w[v] ELSE b[v]
      /\ \A v \in VecIds : y[v] = IF v \in Stored(x) THEN x[v] ELSE b[v]
  BY <1>1, OverShape
<1>4. N \subseteq VecIds
  BY <1>2, StoredLive
<1> HIDE DEF f, y
<1>5. x[id] # NoBlock
  <2>1. [deleted |-> FALSE, nbrs |-> N] \in Block
    BY <1>4 DEF Block
  <2> QED BY <1>2, <2>1, NoBlockAssumption
<1>6. Stored(x) = Stored(w) \cup N \cup {id}
  BY <1>2, <1>4, <1>5 DEF Stored
<1>7. Stored(y) = Stored(f) \cup {id}
  BY <1>2, <1>3, <1>6
<1>8. \A v \in Stored(w) : \/ v \in g /\ ~w[v].deleted
                           \/ v \in Stored(b) /\ w[v].deleted = b[v].deleted
  BY DEF PlanOk
<1>9. ASSUME NEW v \in Stored(x)
      PROVE  \/ v \in g /\ ~x[v].deleted
             \/ v \in Stored(b) /\ x[v].deleted = b[v].deleted
  <2>1. CASE v = id
    <3>1. x[v].deleted = FALSE
      BY <2>1, <1>2
    <3> QED BY <3>1, <2>1
  <2>2. CASE v \in N
    <3>1. CASE v \in Stored(w)
      BY <3>1, <2>2, <1>2, <1>3, <1>4, <1>8
    <3>2. CASE v \notin Stored(w)
      BY <3>2, <2>2, <1>2, <1>3, <1>4
    <3> QED BY <3>1, <3>2
  <2>3. CASE v \notin N \cup {id}
    <3>1. v \in Stored(w) /\ x[v] = w[v]
      BY <2>3, <1>2, <1>6, StoredLive
    <3> QED BY <3>1, <1>8
  <2> QED BY <2>1, <2>2, <2>3
<1>10. ASSUME Linked(b) PROVE Linked(y)
  <2>1. Linked(f)
    BY <1>10 DEF PlanOk, f
  <2> SUFFICES ASSUME NEW v \in Live(y) PROVE y[v].nbrs \subseteq Stored(f) \cup {id}
    BY <1>7 DEF Linked
  <2>2. v \in VecIds /\ ~y[v].deleted /\ v \in Stored(y)
    BY StoredLive DEF Live
  <2>3. CASE v = id
    <3>1. y[v] = x[id]
      BY <2>2, <2>3, <1>3, <1>6
    <3> QED BY <3>1, <1>2
  <2>4. CASE v \in N
    <3>1. y[v] = x[v]
      BY <2>2, <2>4, <1>3, <1>6
    <3>2. v \in Live(f)
      BY <3>1, <2>2, <2>4, <1>2 DEF Live
    <3> QED BY <3>1, <3>2, <2>1, <2>4, <1>2
  <2>5. CASE v \notin N \cup {id}
    <3>1. y[v] = f[v] /\ v \in Stored(f)
      BY <2>2, <2>5, <1>2, <1>3, <1>6, <1>7
    <3>2. v \in Live(f)
      BY <3>1, <2>2 DEF Live
    <3> QED BY <3>1, <3>2, <2>1 DEF Linked
  <2> QED BY <2>2, <2>3, <2>4, <2>5
<1>11. PlanOk(b, g, x)
  BY <1>9, <1>10 DEF PlanOk, y
<1>12. ASSUME NEW v \in Live(w) \cup {id} PROVE v \in Live(x)
  <2>1. CASE v = id
    BY <2>1, <1>2, <1>6 DEF Live
  <2>2. CASE v # id /\ v \in Live(w)
    <3>1. v \in Stored(w) /\ ~w[v].deleted /\ v \in VecIds /\ v \in Stored(x)
      BY <2>2, <1>6, StoredLive DEF Live
    <3>2. f[v] = w[v]
      BY <3>1, <1>3
    <3>3. x[v].deleted = w[v].deleted
      BY <3>1, <3>2, <2>2, <1>2
    <3> QED BY <3>1, <3>3 DEF Live
  <2> QED BY <2>1, <2>2
<1> QED BY <1>1, <1>11, <1>12

\* Nothing planned is a right plan.
LEMMA PlanStarts ==
    ASSUME NEW b \in Blocks, NEW g PROVE PlanOk(b, g, NoBlocks)
  BY NothingStored DEF PlanOk

\* When the ids of g, none of them live, are all planned over blocks seen that agree
\* with the store, writing the plan makes them live and no other id live or dead; the
\* cache it leaves agrees with it.
LEMMA PlanInserts ==
    ASSUME NEW c \in Blocks, NEW n \in Blocks, NEW w \in Blocks, NEW g, SameLife(c, n),
           PlanOk(Over(c, n), g, w), g \subseteq Live(w)
    PROVE  /\ Live(Over(w, n)) = Live(n) \cup g
           /\ Stored(n) \subseteq Stored(Over(w, n))
           /\ SameLife(Over(w, c), Over(w, n))
           /\ InStep(c, n) => InStep(Over(w, c), Over(w, n))
           /\ InStep(c, n) /\ Linked(n) => Linked(Over(w, n))
<1> DEFINE b == Over(c, n)
           f == Over(w, n)
<1>1. Live(b) = Live(n) /\ b \in Blocks
  BY SeenLive, OverShape
<1>2. /\ f \in Blocks /\ Stored(f) = Stored(w) \cup Stored(n)
      /\ Live(f) = Live(w) \cup (Live(n) \ Stored(w))
      /\ \A v \in VecIds : f[v] = IF v \in Stored(w) THEN w[v] ELSE n[v]
      /\ \A v \in VecIds : Over(w, c)[v] = IF v \in Stored(w) THEN w[v] ELSE c[v]
  BY OverShape
<1>3. \A v \in Stored(w) : \/ v \in g /\ ~w[v].deleted
                           \/ v \in Stored(b) /\ w[v].deleted = b[v].deleted
  BY DEF PlanOk
<1>4. Linked(b) => Linked(Over(w, b))
  BY DEF PlanOk
<1> HIDE DEF b, f
<1>5. \A v \in Stored(w) : v \in Live(w) <=> v \in g \/ v \in Live(n)
  BY <1>1, <1>3 DEF Live
<1>6. Live(f) = Live(n) \cup g
  BY <1>2, <1>5, StoredLive
<1>7. SameLife(Over(w, c), f)
  <2> SUFFICES ASSUME NEW v \in VecIds, Over(w, c)[v] # NoBlock
               PROVE  v \in Live(f) <=> ~Over(w, c)[v].deleted
    BY DEF SameLife
  <2>1. CASE v \in Stored(w)
    <3>1. v \in Live(f) <=> v \in Live(w)
      BY <1>2, <2>1
    <3> QED BY <3>1, <2>1, <1>2 DEF Live
  <2>2. CASE v \notin Stored(w)
    <3>1. Over(w, c)[v] = c[v] /\ (v \in Live(f) <=> v \in Live(n))
      BY <1>2, <2>2, StoredLive
    <3> QED BY <3>1 DEF SameLife
  <2> QED BY <2>1, <2>2
<1>8. InStep(c, n) => InStep(Over(w, c), f)
  BY <1>2 DEF InStep
<1>9. InStep(c, n) /\ Linked(n) => Linked(f)
  BY <1>4, InStepShows DEF b, f
<1> QED BY <1>2, <1>6, <1>7, <1>8, <1>9 DEF f

\* Planned over no blocks, the graph of the ids of g refers to them alone.
LEMMA PlanRebuilds ==
    ASSUME NEW w \in Blocks, NEW n, PlanOk(NoBlocks, Live(n), w), Live(n) \subseteq Live(w)
    PROVE  Repaired(n, w) /\ Live(w) = Live(n)
<1>1. Linked(w)
  BY NothingStored DEF PlanOk, Linked
<1>2. \A v \in Stored(w) : v \in Live(n) /\ ~w[v].deleted
  BY NothingStored DEF PlanOk
<1>3. Live(w) = Stored(w) /\ Stored(w) = Live(n)
  BY <1>2, StoredLive DEF Live
<1>4. \A v \in Stored(w) : w[v].nbrs \subseteq Live(n)
  BY <1>1, <1>3 DEF Linked
<1> QED BY <1>2, <1>3, <1>4 DEF Repaired
-----------------------------------------------------------------------------
(* Deleting, repairing, removing. *)

\* What a cache agrees with is what is live.
LEMMA LifeIsLive ==
    ASSUME NEW c, NEW n, NEW m, SameLife(c, n), Live(m) = Live(n) PROVE SameLife(c, m)
  BY DEF SameLife

\* The lowest of some ids is one of them.
LEMMA LowestIn == ASSUME NEW S \in SUBSET VecIds, S # {} PROVE Lowest(S) \in S
<1>1. S \in SUBSET Nat
  BY VectorIndexAssumption
<1>2. PICK v \in S : \A u \in S : ~(<<u, v>> \in OpToRel(<, Nat))
  BY <1>1, NatLessThanWellFounded, WFMin, Zenon
<1>3. \A u \in S : ~(u < v)
  BY <1>1, <1>2 DEF OpToRel
<1>4. \A u \in S : v <= u
  BY <1>1, <1>3
<1> QED BY <1>4 DEF Lowest

\* Ids that are live and those of a set with none of them add up.
LEMMA LiveAddsUp ==
    ASSUME NEW n, NEW S \in SUBSET VecIds, S \cap Live(n) = {}
    PROVE  /\ Cardinality(Live(n) \cup S) = Cardinality(Live(n)) + Cardinality(S)
           /\ Cardinality(Live(n)) + Cardinality(S) \in 0 .. Cardinality(VecIds)
<1>1. IsFiniteSet(VecIds)
  BY VectorIndexAssumption
<1>2. IsFiniteSet(Live(n)) /\ Live(n) \subseteq VecIds
  BY StoredLive
<1>3. IsFiniteSet(S)
  BY ONLY <1>1, S \in SUBSET VecIds, FS_Subset
<1>4. Live(n) \cap S = {}
  OBVIOUS
<1>5. Cardinality(Live(n) \cap S) = 0
  BY <1>4, FS_EmptySet
<1>6. Cardinality(Live(n) \cup S) = Cardinality(Live(n)) + Cardinality(S) - Cardinality(Live(n) \cap S)
  BY ONLY <1>2, <1>3, FS_Union
<1>7. Live(n) \cup S \in SUBSET VecIds
  BY <1>2
<1>8. Cardinality(Live(n) \cup S) <= Cardinality(VecIds)
  BY ONLY <1>1, <1>7, FS_Subset
<1>9. Cardinality(Live(n)) \in Nat /\ Cardinality(S) \in Nat /\ Cardinality(VecIds) \in Nat
  BY <1>1, <1>2, <1>3, FS_CardinalityType
<1> QED BY <1>5, <1>6, <1>8, <1>9

\* Live ids less some of them.
LEMMA LiveTakesOff ==
    ASSUME NEW n, NEW T \in SUBSET Live(n)
    PROVE  /\ Cardinality(T) <= Cardinality(Live(n))
           /\ Cardinality(Live(n) \ T) = Cardinality(Live(n)) - Cardinality(T)
           /\ Cardinality(Live(n) \ T) \in 0 .. Cardinality(VecIds)
<1>1. IsFiniteSet(VecIds)
  BY VectorIndexAssumption
<1>2. IsFiniteSet(Live(n)) /\ Live(n) \subseteq VecIds
  BY StoredLive
<1>3. IsFiniteSet(T) /\ Cardinality(T) <= Cardinality(Live(n))
  BY ONLY <1>2, T \in SUBSET Live(n), FS_Subset
<1>4. Live(n) \cap T = T
  OBVIOUS
<1>5. Cardinality(Live(n) \ T) = Cardinality(Live(n)) - Cardinality(Live(n) \cap T)
  BY ONLY <1>2, FS_Difference
<1>6. Live(n) \ T \in SUBSET VecIds
  BY <1>2
<1>7. IsFiniteSet(Live(n) \ T) /\ Cardinality(Live(n) \ T) <= Cardinality(VecIds)
  BY ONLY <1>1, <1>6, FS_Subset
<1>8. Cardinality(Live(n) \ T) \in Nat /\ Cardinality(VecIds) \in Nat
  BY <1>1, <1>7, FS_CardinalityType
<1> QED BY <1>3, <1>4, <1>5, <1>7, <1>8

\* Blocks m: those of n, but of the ids of T as they are seen and marked as deleted.
\* Cache d: r, but with those blocks.
Marked(m, c, n, T) ==
    m = [v \in VecIds |-> IF v \in T THEN [Over(c, n)[v] EXCEPT !.deleted = TRUE] ELSE n[v]]
Refreshed(d, m, r, T) == d = [v \in VecIds |-> IF v \in T THEN m[v] ELSE r[v]]

\* The blocks of ids that are live marked as deleted, those ids alone are live no more.
LEMMA DeletedBlocks ==
    ASSUME NEW c \in Blocks, NEW n \in Blocks, SameLife(c, n), NEW T \in SUBSET Live(n),
           NEW m, Marked(m, c, n, T), NEW r \in Blocks, SameLife(r, n),
           NEW d, Refreshed(d, m, r, T)
    PROVE  /\ m \in Blocks /\ d \in Blocks
           /\ Stored(m) = Stored(n) /\ Live(m) = Live(n) \ T
           /\ SameLife(d, m)
           /\ InStep(r, n) => InStep(d, m)
           /\ InStep(c, n) /\ Linked(n) => Linked(m)
<1> DEFINE s == Over(c, n)
<1>1. s \in Blocks /\ Live(s) = Live(n)
  BY OverShape, SeenLive
<1>2. T \subseteq VecIds /\ T \subseteq Stored(s) /\ T \subseteq Stored(n)
  BY <1>1, StoredLive
<1> HIDE DEF s
<1>3. \A v \in T : m[v] = [s[v] EXCEPT !.deleted = TRUE]
  BY <1>2 DEF s, Marked
<1>4. \A v \in T : /\ m[v] \in Block /\ m[v] # NoBlock
                   /\ m[v].deleted = TRUE /\ m[v].nbrs = s[v].nbrs
  <2> SUFFICES ASSUME NEW v \in T
               PROVE  /\ m[v] \in Block /\ m[v] # NoBlock
                      /\ m[v].deleted = TRUE /\ m[v].nbrs = s[v].nbrs
    OBVIOUS
  <2>1. s[v] \in Block
    BY <1>1, <1>2, BlockShape
  <2>2. m[v] = [s[v] EXCEPT !.deleted = TRUE]
    BY <1>3
  <2> DEFINE z == s[v]
  <2>3. z \in Block /\ m[v] = [z EXCEPT !.deleted = TRUE]
    BY <2>1, <2>2
  <2> HIDE DEF z
  <2>4. m[v] \in Block /\ m[v].deleted = TRUE /\ m[v].nbrs = z.nbrs
    BY ONLY <2>3 DEF Block
  <2> QED BY <2>4, NoBlockAssumption DEF z
<1>5. \A v \in VecIds \ T : m[v] = n[v]
  BY DEF Marked
<1>6. \A v \in VecIds : m[v] \in Block \cup {NoBlock}
  BY <1>4, <1>5 DEF Blocks
<1>7. m \in Blocks
  BY <1>6 DEF Blocks, Marked
<1>8. \A v \in VecIds : d[v] = IF v \in T THEN m[v] ELSE r[v]
  BY DEF Refreshed
<1>9. d \in Blocks
  BY <1>6 DEF Blocks, Refreshed
<1>10. Stored(m) = Stored(n)
  BY <1>2, <1>4, <1>5 DEF Stored
<1>11. Live(m) = Live(n) \ T
  BY <1>4, <1>5, <1>10, StoredLive DEF Live
<1>12. SameLife(d, m)
  <2> SUFFICES ASSUME NEW v \in VecIds, d[v] # NoBlock PROVE v \in Live(m) <=> ~d[v].deleted
    BY DEF SameLife
  <2>1. CASE v \in T
    <3>1. d[v].deleted = TRUE
      BY <1>4, <1>8, <2>1
    <3> QED BY <3>1, <2>1, <1>11
  <2>2. CASE v \notin T
    <3>1. d[v] = r[v] /\ (v \in Live(m) <=> v \in Live(n))
      BY <1>8, <1>11, <2>2
    <3> QED BY <3>1 DEF SameLife
  <2> QED BY <2>1, <2>2
<1>13. InStep(r, n) => InStep(d, m)
  BY <1>5, <1>8 DEF InStep
<1>14. ASSUME InStep(c, n), Linked(n) PROVE Linked(m)
  <2> SUFFICES ASSUME NEW v \in Live(m) PROVE m[v].nbrs \subseteq Stored(m)
    BY DEF Linked
  <2>1. v \in Live(n) /\ m[v] = n[v]
    BY <1>5, <1>11, StoredLive
  <2> QED BY <2>1, <1>10, <1>14 DEF Linked
<1> QED BY <1>7, <1>9, <1>10, <1>11, <1>12, <1>13, <1>14

\* The repairs consolidate plans.
LEMMA RepairsRepair ==
    ASSUME nodes \in Blocks, NEW w \in Repairs
    PROVE  w \in Blocks /\ Repaired(nodes, w)
<1> DEFINE broken == {v \in Live(nodes) : ~(nodes[v].nbrs \subseteq Live(nodes))}
<1>1. PICK L \in {L \in [broken -> SUBSET VecIds] : \A v \in broken : L[v] \in Prunes(Pool(v))} :
         w = [v \in VecIds |-> IF v \in broken THEN [deleted |-> FALSE, nbrs |-> L[v]]
                               ELSE NoBlock]
  BY DEF Repairs
<1>2. broken \subseteq Live(nodes) /\ broken \subseteq VecIds
  BY StoredLive
<1>3. \A v \in Live(nodes) \ broken : nodes[v].nbrs \subseteq Live(nodes)
  OBVIOUS
<1> HIDE DEF broken
<1>4. \A v \in broken : L[v] \subseteq VecIds /\ L[v] \subseteq Live(nodes)
  <2> SUFFICES ASSUME NEW v \in broken PROVE L[v] \subseteq VecIds /\ L[v] \subseteq Live(nodes)
    OBVIOUS
  <2>1. Pool(v) \subseteq Live(nodes)
    BY DEF Pool
  <2>2. L[v] \in Prunes(Pool(v))
    OBVIOUS
  <2> QED BY <2>1, <2>2, PrunesKept
<1>5. \A v \in broken : /\ w[v] = [deleted |-> FALSE, nbrs |-> L[v]]
                        /\ w[v] \in Block /\ w[v] # NoBlock
  <2> SUFFICES ASSUME NEW v \in broken
               PROVE  /\ w[v] = [deleted |-> FALSE, nbrs |-> L[v]]
                      /\ w[v] \in Block /\ w[v] # NoBlock
    OBVIOUS
  <2>1. w[v] = [deleted |-> FALSE, nbrs |-> L[v]]
    BY <1>1, <1>2
  <2>2. L[v] \subseteq VecIds
    BY <1>4
  <2>3. [deleted |-> FALSE, nbrs |-> L[v]] \in Block
    BY ONLY <2>2 DEF Block
  <2> QED BY <2>1, <2>3, NoBlockAssumption
<1>6. \A v \in VecIds \ broken : w[v] = NoBlock
  BY <1>1
<1>7. w \in Blocks
  <2>1. \A v \in VecIds : w[v] \in Block \cup {NoBlock}
    BY <1>5, <1>6
  <2> QED BY <2>1, <1>1 DEF Blocks
<1>8. Stored(w) = broken
  BY <1>2, <1>5, <1>6 DEF Stored
<1>9. \A v \in broken : w[v].deleted = FALSE /\ w[v].nbrs = L[v]
  <2> SUFFICES ASSUME NEW v \in broken PROVE w[v].deleted = FALSE /\ w[v].nbrs = L[v]
    OBVIOUS
  <2>1. w[v] = [deleted |-> FALSE, nbrs |-> L[v]]
    BY <1>5
  <2> QED BY ONLY <2>1
<1>10. \A v \in broken : v \in Live(nodes) /\ ~w[v].deleted /\ w[v].nbrs \subseteq Live(nodes)
  BY <1>2, <1>4, <1>9
<1> QED BY <1>3, <1>7, <1>8, <1>10 DEF Repaired

\* Some of the blocks that are to be written, written.
LEMMA WrittenSome ==
    ASSUME NEW n \in Blocks, NEW w \in Blocks, Repaired(n, w), NEW now \in SUBSET Stored(w),
           NEW m, m = [v \in VecIds |-> IF v \in now THEN w[v] ELSE n[v]],
           NEW x, x = [v \in VecIds |-> IF v \in now THEN NoBlock ELSE w[v]]
    PROVE  /\ m \in Blocks /\ x \in Blocks
           /\ Stored(m) = Stored(n) /\ Live(m) = Live(n)
           /\ Repaired(m, x)
           /\ Linked(n) => Linked(m)
<1>1. m \in Blocks /\ x \in Blocks
  BY DEF Blocks
<1>2. /\ \A v \in Stored(w) : v \in Live(n) /\ ~w[v].deleted /\ w[v].nbrs \subseteq Live(n)
      /\ \A v \in Live(n) \ Stored(w) : n[v].nbrs \subseteq Live(n)
  BY DEF Repaired
<1>3. Stored(x) = Stored(w) \ now
  BY DEF Stored
<1>4. \A v \in now : v \in VecIds /\ m[v] = w[v] /\ m[v] # NoBlock
  BY DEF Stored
<1>5. \A v \in VecIds \ now : m[v] = n[v] /\ x[v] = w[v]
  OBVIOUS
<1>6. Stored(m) = Stored(n)
  BY <1>2, <1>4, <1>5, StoredLive DEF Stored
<1>7. Live(m) = Live(n)
  BY <1>2, <1>4, <1>5, <1>6, StoredLive DEF Live
<1>8. \A v \in Stored(x) : v \in Live(m) /\ ~x[v].deleted /\ x[v].nbrs \subseteq Live(m)
  BY <1>2, <1>3, <1>5, <1>7, StoredLive
<1>9. ASSUME NEW v \in Live(m) \ Stored(x) PROVE m[v].nbrs \subseteq Live(m)
  <2>1. CASE v \in now
    BY <2>1, <1>2, <1>4, <1>7
  <2>2. CASE v \notin now
    BY <2>2, <1>2, <1>3, <1>5, <1>7, StoredLive
  <2> QED BY <2>1, <2>2
<1>10. ASSUME Linked(n) PROVE Linked(m)
  <2> SUFFICES ASSUME NEW v \in Live(m) PROVE m[v].nbrs \subseteq Stored(m)
    BY DEF Linked
  <2>1. CASE v \in now
    BY <2>1, <1>2, <1>4, <1>6, StoredLive
  <2>2. CASE v \notin now
    <3>1. m[v] = n[v] /\ v \in Live(n)
      BY <2>2, <1>5, <1>7, StoredLive
    <3> QED BY <3>1, <1>6, <1>10 DEF Linked
  <2> QED BY <2>1, <2>2
<1> QED BY <1>1, <1>6, <1>7, <1>8, <1>9, <1>10 DEF Repaired

\* Once all are written, no live block refers to one that is not live.
LEMMA RepairedLinked == ASSUME NEW n, Repaired(n, NoBlocks) PROVE Linked(n)
<1>1. \A v \in Live(n) : n[v].nbrs \subseteq Live(n)
  BY NothingStored DEF Repaired
<1> QED BY <1>1, StoredLive DEF Linked

\* Tombstones that no live block refers to, removed.
LEMMA PurgedSome ==
    ASSUME NEW n \in Blocks, Repaired(n, NoBlocks), NEW D \in SUBSET (Stored(n) \ Live(n)),
           NEW m, m = [v \in VecIds |-> IF v \in D THEN NoBlock ELSE n[v]]
    PROVE  /\ m \in Blocks /\ Stored(m) = Stored(n) \ D /\ Live(m) = Live(n)
           /\ Repaired(m, NoBlocks)
<1>1. m \in Blocks
  BY DEF Blocks
<1>2. Stored(m) = Stored(n) \ D
  BY DEF Stored
<1>3. Live(m) = Live(n)
  BY <1>2, StoredLive DEF Live
<1>4. \A v \in Live(n) : m[v] = n[v]
  BY StoredLive
<1> QED BY <1>1, <1>2, <1>3, <1>4, NothingStored DEF Repaired
-----------------------------------------------------------------------------
(* The calls that take one batch. *)

\* What the invariant says of the blocks, and of the handle of an open store.
LEMMA IdleFacts ==
    ASSUME IInv, pc = "idle" \/ job = "insert"
    PROVE  /\ nodes \in Blocks /\ cache \in Blocks /\ work \in Blocks
           /\ ~Opening /\ count = Cardinality(Live(nodes)) /\ SameLife(cache, nodes)
           /\ Live(Seen) = Live(nodes)
           /\ ~failed => InStep(cache, nodes) /\ EntryOk(entry, nodes) /\ Linked(nodes)
<1>1. nodes \in Blocks /\ cache \in Blocks /\ work \in Blocks
  BY DEF IInv, TypeOK
<1>2. ~Opening
  <2>1. pc = "closed" => job = "open"
    BY DEF IInv, Quiet
  <2> QED BY <2>1 DEF Opening
<1>3. count = Cardinality(Live(nodes)) /\ SameLife(cache, nodes)
  BY <1>2 DEF IInv, Handle, LiveCount
<1>4. Live(Seen) = Live(nodes)
  BY <1>1, <1>3, SeenLive DEF Seen
<1>5. ~failed => InStep(cache, nodes) /\ EntryOk(entry, nodes)
  BY DEF IInv, Fresh
<1>6. ~failed => Linked(nodes)
  BY DEF IInv, NoDangling, Linked
<1> QED BY <1>1, <1>2, <1>3, <1>4, <1>5, <1>6

\* What has been read is cached as it is seen.
LEMMA ReadingKeeps ==
    ASSUME NEW S, cache \in Blocks, nodes \in Blocks
    PROVE  /\ Reading(S) \in Blocks /\ Over(Reading(S), nodes) = Seen
           /\ SameLife(cache, nodes) => SameLife(Reading(S), nodes)
           /\ InStep(cache, nodes) => InStep(Reading(S), nodes)
<1> DEFINE r == Reading(S)
<1>1. r = [v \in VecIds |-> IF v \in S THEN Over(cache, nodes)[v] ELSE cache[v]]
  BY DEF Reading, Seen
<1> HIDE DEF r
<1>2. /\ r \in Blocks /\ Over(r, nodes) = Over(cache, nodes)
      /\ SameLife(cache, nodes) => SameLife(r, nodes)
      /\ InStep(cache, nodes) => InStep(r, nodes)
  BY <1>1, CachedAsSeen
<1> QED BY <1>2 DEF r, Seen

\* When a call or a pass is over, nothing is left of it.
LEMMA PassOver ==
    ASSUME Leave, pc' \in {"idle", "closed"},
           TypeOK', Handle', Fresh', MetaRight', NoDangling'
    PROVE  IInv'
  BY DEF IInv, Leave, Quiet, Planning, Removing, Writing

\* A batch that is rejected leaves the store as it is.
LEMMA FailsNothing ==
    ASSUME Faults \subseteq {"rejected"}, NEW n, NEW m, Fails(n, m)
    PROVE  UNCHANGED <<nodes, meta, max_degree>>
  BY DEF Fails, store

\* A search changes the cache.
LEMMA SearchKeeps == ASSUME IInv, Search PROVE IInv'
<1>1. pc = "idle" /\ cache' = Reading(Walk(Seen, entry))
      /\ UNCHANGED <<nodes, meta, max_degree, entry, count, pc, job, group, work, dead, anchor,
                     failed>>
  BY DEF Search, store, pass
<1>2. /\ cache' \in Blocks
      /\ SameLife(cache, nodes) => SameLife(cache', nodes)
      /\ InStep(cache, nodes) => InStep(cache', nodes)
  BY <1>1, IdleFacts, ReadingKeeps
<1>3. TypeOK'
  BY <1>1, <1>2 DEF IInv, TypeOK
<1>4. Handle'
  BY <1>1, <1>2, IdleFacts DEF Handle, Opening, LiveCount
<1>5. Fresh'
  BY <1>1, <1>2 DEF IInv, Fresh
<1>6. MetaRight' /\ NoDangling'
  BY <1>1 DEF IInv, MetaRight, NoDangling, LiveCount
<1>7. Quiet' /\ Planning' /\ Removing' /\ Writing'
  BY <1>1 DEF IInv, Quiet, Planning, Removing, Writing
<1> QED BY <1>3, <1>4, <1>5, <1>6, <1>7 DEF IInv

\* An insert starts: nothing is planned yet.
LEMMA InsertKeeps == ASSUME IInv, NEW S \in Groups, Insert(S) PROVE IInv'
<1>1. /\ pc = "idle" /\ S \cap Live(Seen) = {}
      /\ pc' = "plan" /\ job' = "insert" /\ group' = S
      /\ anchor' = [count |-> count + Cardinality(S), entry |-> entry]
      /\ cache' = Reading(S \cup Walk(Seen, entry))
      /\ UNCHANGED <<nodes, meta, max_degree, entry, count, work, dead, failed>>
  BY DEF Insert, store
<1>2. /\ cache' \in Blocks /\ Over(cache', nodes) = Seen
      /\ SameLife(cache, nodes) => SameLife(cache', nodes)
      /\ InStep(cache, nodes) => InStep(cache', nodes)
  BY <1>1, IdleFacts, ReadingKeeps
<1>3. S \subseteq VecIds /\ S # {}
  BY DEF Groups
<1>4. S \cap Live(nodes) = {} /\ count = Cardinality(Live(nodes))
  BY <1>1, IdleFacts
<1>5. count + Cardinality(S) \in 0 .. Cardinality(VecIds)
  BY <1>3, <1>4, LiveAddsUp
<1>6. anchor' \in Meta /\ anchor'.count = count + Cardinality(S) /\ anchor'.entry = entry
  BY <1>1, <1>5 DEF IInv, TypeOK, Meta
<1>7. work = NoBlocks
  BY <1>1 DEF IInv, Quiet
<1>8. TypeOK'
  BY <1>1, <1>2, <1>3, <1>6 DEF IInv, TypeOK
<1>9. Handle'
  BY <1>1, <1>2, IdleFacts DEF Handle, Opening, LiveCount
<1>10. Fresh'
  BY <1>1, <1>2, IdleFacts DEF Fresh
<1>11. MetaRight' /\ NoDangling'
  BY <1>1 DEF IInv, MetaRight, NoDangling, LiveCount
<1>12. Planning'
  <2>1. Seen \in Blocks
    BY <1>1, IdleFacts, OverShape DEF Seen
  <2>2. PlanOk(Seen, S, NoBlocks)
    BY <2>1, PlanStarts
  <2>3. Base' = Seen /\ FirstEntry' = entry
    BY <1>1, <1>2 DEF Base, FirstEntry, Seen
  <2>4. PlanOk(Base', group', work')
    BY <1>1, <1>7, <2>2, <2>3
  <2>5. Live(work') = {}
    BY <1>1, <1>7, NothingStored
  <2> QED BY <1>1, <1>3, <1>4, <1>6, <2>3, <2>4, <2>5 DEF Planning
<1>13. Quiet' /\ Removing' /\ Writing'
  BY <1>1 DEF Quiet, Removing, Writing
<1> QED BY <1>8, <1>9, <1>10, <1>11, <1>12, <1>13 DEF IInv

\* An insert ends: its plan is one batch.
LEMMA CommitInsertKeeps == ASSUME IInv, Faults \subseteq {"rejected"}, CommitInsert PROVE IInv'
<1>1. /\ pc = "plan" /\ job = "insert" /\ group \subseteq Live(work)
      /\ pc' = "idle" /\ Leave /\ failed' = failed
  BY DEF CommitInsert
<1>2. /\ group # {} /\ group \subseteq VecIds /\ group \cap Live(nodes) = {}
      /\ anchor \in Meta /\ anchor.count = count + Cardinality(group)
      /\ PlanOk(Seen, group, work)
      /\ IF anchor.entry = NoId THEN Live(work) = {}
         ELSE anchor.entry = entry \/ anchor.entry \in Live(work)
  BY <1>1 DEF IInv, Planning, Base, FirstEntry, TypeOK
<1>3. /\ nodes \in Blocks /\ cache \in Blocks /\ work \in Blocks
      /\ count = Cardinality(Live(nodes)) /\ SameLife(cache, nodes)
      /\ ~failed => InStep(cache, nodes) /\ EntryOk(entry, nodes) /\ Linked(nodes)
  BY <1>1, IdleFacts
<1>4. ASSUME Commits(Over(work, nodes), anchor), entry' = anchor.entry, count' = anchor.count,
             cache' = Over(work, cache)
      PROVE  IInv'
  <2>1. nodes' = Over(work, nodes) /\ meta' = anchor /\ max_degree' = max_degree
    BY <1>4 DEF Commits
  <2>2. /\ Live(nodes') = Live(nodes) \cup group /\ Stored(nodes) \subseteq Stored(nodes')
        /\ SameLife(cache', nodes')
        /\ InStep(cache, nodes) => InStep(cache', nodes')
        /\ InStep(cache, nodes) /\ Linked(nodes) => Linked(nodes')
    BY <1>1, <1>2, <1>3, <1>4, <2>1, PlanInserts DEF Seen
  <2>3. nodes' \in Blocks /\ cache' \in Blocks /\ Stored(work) \subseteq Stored(nodes')
    BY <1>3, <1>4, <2>1, OverShape
  <2>4. count' = Cardinality(Live(nodes'))
    BY <1>2, <1>3, <1>4, <2>2, LiveAddsUp
  <2>5. ~failed => EntryOk(anchor.entry, nodes')
    <3>1. anchor.entry # NoId
      BY <1>1, <1>2
    <3>2. anchor.entry \in Live(work) => anchor.entry \in Stored(nodes')
      BY <2>3, StoredLive
    <3>3. ~failed /\ anchor.entry = entry => anchor.entry \in Stored(nodes')
      BY <1>3, <2>2, <3>1 DEF EntryOk
    <3> QED BY <1>2, <3>1, <3>2, <3>3 DEF EntryOk
  <2>6. anchor.count \in 0 .. Cardinality(VecIds) /\ anchor.entry \in VecIds \cup {NoId}
    BY <1>2 DEF Meta
  <2>7. TypeOK'
    BY <1>1, <1>2, <1>4, <2>1, <2>3, <2>6, NothingStored DEF IInv, TypeOK, Leave
  <2>8. Handle'
    BY <1>1, <2>2, <2>4 DEF Handle, Opening, LiveCount
  <2>9. Fresh'
    BY <1>1, <1>3, <1>4, <2>2, <2>5 DEF Fresh, Leave
  <2>10. MetaRight'
    BY <1>1, <1>4, <2>1, <2>4, <2>5 DEF MetaRight, LiveCount
  <2>11. NoDangling'
    <3>1. ~failed' => Linked(nodes')
      BY <1>1, <1>3, <2>2
    <3> QED BY <3>1 DEF NoDangling, Linked
  <2> QED BY <1>1, <2>7, <2>8, <2>9, <2>10, <2>11, PassOver
<1>5. ASSUME Fails(Over(work, nodes), anchor), UNCHANGED ram
      PROVE  IInv'
  <2>1. UNCHANGED <<nodes, meta, max_degree, entry, count, cache>>
    BY <1>5, FailsNothing DEF ram
  <2>2. TypeOK'
    BY <1>1, <2>1, NothingStored DEF IInv, TypeOK, Leave
  <2>3. Handle'
    BY <1>1, <1>3, <2>1 DEF Handle, Opening, LiveCount
  <2>4. Fresh'
    BY <1>1, <1>3, <2>1 DEF Fresh
  <2>5. MetaRight' /\ NoDangling'
    BY <1>1, <2>1 DEF IInv, MetaRight, NoDangling, LiveCount
  <2> QED BY <1>1, <2>2, <2>3, <2>4, <2>5, PassOver
<1>6. \/ /\ Commits(Over(work, nodes), anchor)
         /\ entry' = anchor.entry /\ count' = anchor.count /\ cache' = Over(work, cache)
      \/ Fails(Over(work, nodes), anchor) /\ UNCHANGED ram
  BY DEF CommitInsert
<1> QED BY <1>4, <1>5, <1>6

\* A delete, of ids some of which may be gone.
LEMMA DeleteKeeps == ASSUME IInv, Faults \subseteq {"rejected"}, NEW S, Delete(S) PROVE IInv'
<1> DEFINE T == Tombstoned(S)
           n == [v \in VecIds |-> IF v \in T THEN [Seen[v] EXCEPT !.deleted = TRUE]
                                  ELSE nodes[v]]
           left == IF Cardinality(T) <= count THEN count - Cardinality(T) ELSE 0
           m == [count |-> left, entry |-> entry]
           d == [v \in VecIds |-> IF v \in T THEN n[v] ELSE Reading(S)[v]]
<1>1. pc = "idle" /\ UNCHANGED <<entry, pc, job, group, work, dead, anchor, failed>>
  BY DEF Delete, pass
<1>2. /\ nodes \in Blocks /\ cache \in Blocks
      /\ ~Opening /\ count = Cardinality(Live(nodes)) /\ SameLife(cache, nodes)
      /\ Live(Seen) = Live(nodes)
      /\ ~failed => InStep(cache, nodes) /\ EntryOk(entry, nodes) /\ Linked(nodes)
  BY <1>1, IdleFacts
<1>3. /\ Reading(S) \in Blocks /\ SameLife(Reading(S), nodes)
      /\ InStep(cache, nodes) => InStep(Reading(S), nodes)
  BY <1>2, ReadingKeeps
<1>4. Quiet' /\ Planning' /\ Removing' /\ Writing'
  BY <1>1 DEF IInv, Quiet, Planning, Removing, Writing
<1>5. \/ T = {} /\ UNCHANGED <<nodes, meta, max_degree, count>> /\ cache' = Reading(S)
      \/ T # {} /\ Commits(n, m) /\ count' = left /\ cache' = d
      \/ T # {} /\ Fails(n, m) /\ cache' = Reading(S) /\ UNCHANGED count
  BY DEF Delete, store
<1>6. T \subseteq Live(nodes)
  BY <1>2 DEF Tombstoned
<1>7. /\ n \in Blocks /\ d \in Blocks /\ Stored(n) = Stored(nodes) /\ Live(n) = Live(nodes) \ T
      /\ SameLife(d, n)
      /\ InStep(Reading(S), nodes) => InStep(d, n)
      /\ InStep(cache, nodes) /\ Linked(nodes) => Linked(n)
  <2>1. Marked(n, cache, nodes, T)
    BY DEF Seen, Marked
  <2>2. Refreshed(d, n, Reading(S), T)
    BY DEF Refreshed
  <2>3. T \in SUBSET Live(nodes)
    BY <1>6
  <2>4. cache \in Blocks /\ nodes \in Blocks /\ SameLife(cache, nodes)
        /\ Reading(S) \in Blocks /\ SameLife(Reading(S), nodes)
    BY <1>2, <1>3
  <2> HIDE DEF T, n, d
  <2> QED BY ONLY <2>1, <2>2, <2>3, <2>4, DeletedBlocks
<1>8. /\ Cardinality(T) <= Cardinality(Live(nodes))
      /\ Cardinality(Live(n)) = Cardinality(Live(nodes)) - Cardinality(T)
      /\ Cardinality(Live(n)) \in 0 .. Cardinality(VecIds)
  BY <1>6, <1>7, LiveTakesOff
<1> HIDE DEF T, n, d
<1>9. left = Cardinality(Live(n))
  BY <1>2, <1>8
<1>10. m \in Meta /\ m.count = left /\ m.entry = entry
  BY <1>8, <1>9 DEF IInv, TypeOK, Meta
<1> HIDE DEF left, m
<1>11. ASSUME UNCHANGED <<nodes, meta, max_degree, count>>, cache' = Reading(S)
       PROVE  IInv'
  <2>1. TypeOK'
    BY <1>1, <1>3, <1>11 DEF IInv, TypeOK
  <2>2. Handle'
    BY <1>1, <1>2, <1>3, <1>11 DEF Handle, Opening, LiveCount
  <2>3. Fresh'
    BY <1>1, <1>2, <1>3, <1>11 DEF Fresh
  <2>4. MetaRight' /\ NoDangling'
    BY <1>1, <1>11 DEF IInv, MetaRight, NoDangling, LiveCount
  <2> QED BY <1>4, <2>1, <2>2, <2>3, <2>4 DEF IInv
<1>12. ASSUME Commits(n, m), count' = left, cache' = d
       PROVE  IInv'
  <2>1. nodes' = n /\ meta' = m /\ max_degree' = max_degree
    BY <1>12 DEF Commits
  <2>2. count' \in 0 .. Cardinality(VecIds)
    BY <1>8, <1>9, <1>12
  <2>3. TypeOK'
    BY <1>1, <1>7, <1>10, <1>12, <2>1, <2>2 DEF IInv, TypeOK
  <2>4. Handle'
    BY <1>1, <1>2, <1>7, <1>9, <1>12, <2>1 DEF Handle, Opening, LiveCount
  <2>5. ~failed => EntryOk(entry, n)
    BY <1>2, <1>7 DEF EntryOk
  <2>6. Fresh'
    BY <1>1, <1>2, <1>3, <1>7, <1>12, <2>1, <2>5 DEF Fresh
  <2>7. MetaRight'
    BY <1>1, <1>9, <1>10, <2>1, <2>5 DEF MetaRight, LiveCount
  <2>8. NoDangling'
    <3>1. ~failed' => Linked(nodes')
      BY <1>1, <1>2, <1>7, <2>1
    <3> QED BY <3>1 DEF NoDangling, Linked
  <2> QED BY <1>4, <2>3, <2>4, <2>6, <2>7, <2>8 DEF IInv
<1> QED BY <1>5, <1>11, <1>12, FailsNothing

\* The process dies.
LEMMA CrashKeeps == ASSUME IInv, Crash PROVE IInv'
<1>1. /\ pc' = "closed" /\ Leave /\ job' = "open"
      /\ entry' = NoId /\ count' = 0 /\ cache' = NoBlocks
      /\ UNCHANGED <<nodes, meta, max_degree, failed>>
  BY DEF Crash, store, Leave
<1>2. 0 \in 0 .. Cardinality(VecIds)
  BY VectorIndexAssumption, FS_CardinalityType
<1>3. TypeOK'
  BY <1>1, <1>2, NothingStored DEF IInv, TypeOK, Leave
<1>4. Handle' /\ Fresh'
  BY <1>1 DEF Handle, Opening, Fresh
<1>5. MetaRight' /\ NoDangling'
  BY <1>1 DEF IInv, MetaRight, NoDangling, LiveCount
<1> QED BY <1>1, <1>3, <1>4, <1>5, PassOver

\* The store is opened as it is.
LEMMA OpenKeeps == ASSUME IInv, Open PROVE IInv'
<1>1. /\ pc = "closed" /\ pc' = "idle"
      /\ UNCHANGED <<nodes, meta, max_degree, cache, job, group, work, dead, anchor, failed>>
  BY DEF Open, store
<1>2. Opening /\ entry = NoId /\ count = 0 /\ cache = NoBlocks /\ job = "open" /\ work = NoBlocks
  BY <1>1 DEF IInv, Handle, Opening, Quiet
<1>3. SameLife(cache, nodes) /\ InStep(cache, nodes)
  BY <1>2, NothingCached
<1>4. /\ count' = LiveCount /\ count' \in 0 .. Cardinality(VecIds)
      /\ entry' \in VecIds \cup {NoId}
      /\ ~failed => EntryOk(entry', nodes)
  <2>1. CASE Resolves /\ entry' = meta.entry /\ count' = meta.count
    <3>1. meta # NoMeta
      BY <2>1 DEF Resolves
    <3>2. meta \in Meta
      BY <3>1 DEF IInv, TypeOK
    <3>3. meta.count \in 0 .. Cardinality(VecIds) /\ meta.entry \in VecIds \cup {NoId}
      BY <3>2 DEF Meta
    <3>4. meta.count = LiveCount /\ (~failed => EntryOk(meta.entry, nodes))
      BY <3>1 DEF IInv, MetaRight
    <3> QED BY <2>1, <3>3, <3>4
  <2>2. CASE Stored(nodes) = {} /\ UNCHANGED <<entry, count>>
    <3>1. Live(nodes) = {}
      BY <2>2, StoredLive
    <3>2. LiveCount = 0
      BY <3>1, FS_EmptySet DEF LiveCount
    <3>3. 0 \in 0 .. Cardinality(VecIds)
      BY VectorIndexAssumption, FS_CardinalityType
    <3> QED BY <1>2, <2>2, <3>1, <3>2, <3>3 DEF EntryOk
  <2> QED BY <2>1, <2>2 DEF Open
<1>5. TypeOK'
  BY <1>1, <1>4 DEF IInv, TypeOK
<1>6. Handle'
  BY <1>1, <1>2, <1>3, <1>4 DEF Handle, Opening, LiveCount
<1>7. Fresh'
  BY <1>1, <1>3, <1>4 DEF Fresh
<1>8. MetaRight' /\ NoDangling'
  BY <1>1 DEF IInv, MetaRight, NoDangling, LiveCount
<1>9. Quiet' /\ Planning' /\ Removing' /\ Writing'
  BY <1>1, <1>2 DEF Quiet, Planning, Removing, Writing
<1> QED BY <1>5, <1>6, <1>7, <1>8, <1>9 DEF IInv
-----------------------------------------------------------------------------
(* The plans. *)

\* One more id is planned; when a rebuild has planned all, the blocks are to be written.
LEMMA PlanNextKeeps == ASSUME IInv, PlanNext PROVE IInv'
<1>1. /\ pc = "plan"
      /\ pc' = IF job # "insert" /\ group \subseteq Live(work') THEN "write" ELSE "plan"
      /\ UNCHANGED <<nodes, meta, max_degree, entry, count, cache, job, group, dead, failed>>
  BY DEF PlanNext, store, ram
<1>2. /\ job # "consolidate" /\ group # {} /\ anchor \in Meta /\ group \subseteq VecIds
      /\ PlanOk(Base, group, work)
      /\ IF anchor.entry = NoId THEN FirstEntry = NoId /\ Live(work) = {}
         ELSE anchor.entry = FirstEntry \/ anchor.entry \in Live(work)
      /\ job = "insert" => /\ group \in Groups /\ group \cap Live(nodes) = {}
                           /\ anchor.count = count + Cardinality(group)
      /\ job # "insert" => group = Live(nodes)
  BY <1>1 DEF IInv, Planning, TypeOK
<1>3. nodes \in Blocks /\ cache \in Blocks /\ work \in Blocks
  BY DEF IInv, TypeOK
<1>4. Base \in Blocks
  BY <1>3, OverShape, NothingStored DEF Base, Seen
<1>5. PICK id \in group \ Live(work) :
         \E p \in Plans(Base, work, anchor.entry, id) :
            work' = p.blocks /\ anchor' = [anchor EXCEPT !.entry = p.entry]
  BY DEF PlanNext, Base
<1>6. PICK p \in Plans(Base, work, anchor.entry, id) :
         work' = p.blocks /\ anchor' = [anchor EXCEPT !.entry = p.entry]
  BY <1>5
<1>7. id \in VecIds /\ id \in group
  BY <1>2
<1>8. /\ \E N : Written(Over(work, Base), work, work', id, N)
      /\ p.entry = IF anchor.entry = NoId THEN id ELSE anchor.entry
  BY <1>3, <1>4, <1>6, <1>7, PlanWrites
<1>9. PICK N : Written(Over(work, Base), work, work', id, N)
  BY <1>8
<1>10. work' \in Blocks /\ PlanOk(Base, group, work') /\ Live(work) \cup {id} \subseteq Live(work')
  BY <1>2, <1>3, <1>4, <1>7, <1>9, PlanAdds
<1>11. anchor.entry \in VecIds \cup {NoId} /\ p.entry \in VecIds \cup {NoId} /\ id # NoId
  BY <1>2, <1>7, <1>8, VectorIndexAssumption DEF Meta
<1>12. anchor' \in Meta /\ anchor'.count = anchor.count /\ anchor'.entry = p.entry
  BY <1>2, <1>6, <1>11 DEF Meta
<1>13. /\ anchor'.entry # NoId
       /\ anchor'.entry = FirstEntry \/ anchor'.entry \in Live(work')
  BY <1>2, <1>8, <1>10, <1>11, <1>12
<1>14. Base' = Base /\ FirstEntry' = FirstEntry
  BY <1>1 DEF Base, FirstEntry, Seen
<1>15. TypeOK'
  BY <1>1, <1>10, <1>12 DEF IInv, TypeOK
<1>16. Quiet' /\ Fresh'
  BY <1>1 DEF IInv, Quiet, Fresh
<1>17. Handle'
  BY <1>1 DEF IInv, Handle, Opening, LiveCount
<1>18. MetaRight' /\ NoDangling'
  BY <1>1 DEF IInv, MetaRight, NoDangling, LiveCount
<1>19. Planning'
  BY <1>1, <1>2, <1>10, <1>12, <1>13, <1>14 DEF Planning
<1>20. Removing'
  BY <1>1, <1>12 DEF IInv, Removing, LiveCount
<1>21. Writing'
  <2> SUFFICES ASSUME pc' = "write" PROVE Writing'
    BY <1>1 DEF Writing
  <2>1. job # "insert" /\ Live(nodes) \subseteq Live(work')
    BY <1>1, <1>2
  <2>2. PlanOk(NoBlocks, Live(nodes), work') /\ FirstEntry = NoId
    BY <1>2, <1>10, <2>1 DEF Base, FirstEntry
  <2>3. Repaired(nodes, work') /\ Live(work') = Live(nodes)
    BY <1>10, <2>1, <2>2, PlanRebuilds
  <2>4. anchor'.entry # NoId /\ anchor'.entry \in Live(nodes)
    BY <1>13, <2>2, <2>3
  <2> QED BY <1>1, <2>3, <2>4 DEF Writing
<1> QED BY <1>15, <1>16, <1>17, <1>18, <1>19, <1>20, <1>21 DEF IInv

-----------------------------------------------------------------------------
(* The passes. *)

\* The blocks are scanned: there is nothing to remove, or the repairs are planned.
LEMMA ConsolidateKeeps == ASSUME IInv, Consolidate PROVE IInv'
<1>1. pc = "idle" /\ UNCHANGED <<nodes, meta, max_degree, entry, cache, failed>>
  BY DEF Consolidate, store
<1>2. /\ nodes \in Blocks /\ ~Opening /\ count = LiveCount /\ SameLife(cache, nodes)
      /\ job = "open" /\ work = NoBlocks
      /\ ~failed => InStep(cache, nodes) /\ EntryOk(entry, nodes)
  BY <1>1, IdleFacts DEF LiveCount, IInv, Quiet
<1>3. LiveCount \in 0 .. Cardinality(VecIds)
  BY StoredLive DEF LiveCount
<1>4. MetaRight' /\ NoDangling'
  BY <1>1 DEF IInv, MetaRight, NoDangling, LiveCount
<1>5. CASE count' = LiveCount /\ UNCHANGED pass
  <2>1. UNCHANGED <<pc, job, group, work, dead, anchor>>
    BY <1>5 DEF pass
  <2>2. TypeOK'
    BY <1>1, <1>3, <1>5, <2>1 DEF IInv, TypeOK
  <2>3. Handle'
    BY <1>1, <1>2, <1>5, <2>1 DEF Handle, Opening, LiveCount
  <2>4. Fresh'
    BY <1>1, <1>2, <2>1 DEF Fresh
  <2>5. Quiet' /\ Planning' /\ Removing' /\ Writing'
    BY <1>1, <2>1 DEF IInv, Quiet, Planning, Removing, Writing
  <2> QED BY <1>4, <2>2, <2>3, <2>4, <2>5 DEF IInv
<1>6. CASE /\ job' = "consolidate" /\ dead' = Stored(nodes) \ Live(nodes)
           /\ work' \in Repairs
           /\ \E e \in Anchors : anchor' = [count |-> LiveCount, entry |-> e]
           /\ pc' = IF work' = NoBlocks THEN "meta" ELSE "write"
           /\ UNCHANGED <<count, group>>
  <2>1. work' \in Blocks /\ Repaired(nodes, work')
    BY <1>2, <1>6, RepairsRepair
  <2>2. PICK e \in Anchors : anchor' = [count |-> LiveCount, entry |-> e]
    BY <1>6
  <2>3. IF e = NoId THEN Live(nodes) = {} ELSE e \in Live(nodes)
    <3>1. NoId \notin Live(nodes)
      BY StoredLive, VectorIndexAssumption
    <3>2. CASE entry \in Live(nodes)
      BY <3>1, <3>2 DEF Anchors
    <3>3. CASE entry \notin Live(nodes) /\ Live(nodes) = {}
      BY <3>3 DEF Anchors
    <3>4. CASE entry \notin Live(nodes) /\ Live(nodes) # {} /\ entry \in Stored(nodes)
      BY <3>1, <3>4 DEF Anchors
    <3>5. CASE entry \notin Live(nodes) /\ Live(nodes) # {} /\ entry \notin Stored(nodes)
      <4>1. e = Lowest(Live(nodes))
        BY <3>5 DEF Anchors
      <4>2. Lowest(Live(nodes)) \in Live(nodes)
        BY <3>5, StoredLive, LowestIn
      <4> QED BY <3>1, <4>1, <4>2
    <3> QED BY <3>2, <3>3, <3>4, <3>5
  <2>4. e \in VecIds \cup {NoId}
    BY <2>3, StoredLive
  <2>5. anchor' \in Meta /\ anchor'.count = LiveCount /\ anchor'.entry = e
    BY <1>3, <2>2, <2>4 DEF Meta
  <2>6. dead' \subseteq VecIds
    BY <1>6, StoredLive
  <2>7. TypeOK'
    BY <1>1, <1>6, <2>1, <2>5, <2>6 DEF IInv, TypeOK
  <2>8. Handle'
    BY <1>1, <1>2, <1>6 DEF Handle, Opening, LiveCount
  <2>9. Quiet' /\ Fresh' /\ Planning'
    BY <1>6 DEF Quiet, Fresh, Planning
  <2>10. Removing'
    BY <1>1, <1>6, <2>5 DEF Removing, LiveCount
  <2>11. Writing'
    BY <1>1, <1>6, <2>1, <2>3, <2>5 DEF Writing
  <2> QED BY <1>4, <2>7, <2>8, <2>9, <2>10, <2>11 DEF IInv
<1> QED BY <1>5, <1>6 DEF Consolidate

\* A rebuild starts, of an open store or of one to be opened: the metadata is dropped.
LEMMA DropKeeps ==
    ASSUME IInv, Faults \subseteq {"rejected"}, NEW j, Drop(j), UNCHANGED ram,
           (pc = "idle" /\ j = "rebuild") \/ (pc = "closed" /\ j = "open")
    PROVE  IInv'
<1>1. UNCHANGED <<entry, count, cache>>
  BY DEF ram
<1>2. /\ nodes \in Blocks /\ work = NoBlocks /\ job = "open"
      /\ pc = "idle" => count = LiveCount /\ SameLife(cache, nodes)
      /\ pc = "closed" => entry = NoId /\ count = 0 /\ cache = NoBlocks
  BY DEF IInv, TypeOK, Quiet, Handle, Opening
<1>3. LiveCount \in 0 .. Cardinality(VecIds)
  BY StoredLive DEF LiveCount
<1>4. ASSUME /\ Commits(nodes, NoMeta)
             /\ job' = j
             /\ group' = Live(nodes) /\ work' = NoBlocks
             /\ anchor' = [count |-> LiveCount, entry |-> NoId]
             /\ dead' = Stored(nodes) \ Live(nodes)
             /\ pc' = IF group' # {} THEN "plan" ELSE IF dead' # {} THEN "purge" ELSE "meta"
             /\ UNCHANGED failed
      PROVE  IInv'
  <2>1. nodes' = nodes /\ meta' = NoMeta /\ max_degree' = max_degree
    BY <1>4 DEF Commits
  <2>2. anchor' \in Meta /\ anchor'.count = LiveCount /\ anchor'.entry = NoId
    BY <1>3, <1>4 DEF Meta
  <2>3. TypeOK'
    BY <1>1, <1>4, <2>1, <2>2, NothingStored, StoredLive DEF IInv, TypeOK
  <2>4. Handle'
    BY <1>1, <1>2, <1>4, <2>1 DEF Handle, Opening, LiveCount
  <2>5. Quiet' /\ Fresh'
    BY <1>4 DEF Quiet, Fresh
  <2>6. MetaRight' /\ NoDangling'
    BY <1>4, <2>1 DEF IInv, MetaRight, NoDangling
  <2>7. Planning'
    <3> SUFFICES ASSUME pc' = "plan" PROVE Planning'
      BY DEF Planning
    <3>1. PlanOk(NoBlocks, Live(nodes), NoBlocks)
      BY NothingStored, PlanStarts
    <3>2. Base' = NoBlocks /\ FirstEntry' = NoId
      BY <1>4 DEF Base, FirstEntry
    <3>3. Live(nodes) # {}
      BY <1>4
    <3> QED BY <1>4, <2>1, <2>2, <3>1, <3>2, <3>3, NothingStored DEF Planning
  <2>8. Removing'
    BY <1>4, <2>1, <2>2 DEF Removing, LiveCount
  <2>9. Writing'
    <3> SUFFICES ASSUME pc' \in {"write", "meta", "purge"} PROVE Writing'
      BY DEF Writing
    <3>1. Live(nodes) = {}
      BY <1>4
    <3>2. Repaired(nodes, NoBlocks)
      BY <3>1, NothingStored DEF Repaired
    <3> QED BY <1>4, <2>1, <2>2, <3>1, <3>2 DEF Writing
  <2> QED BY <2>3, <2>4, <2>5, <2>6, <2>7, <2>8, <2>9 DEF IInv
<1>5. ASSUME Fails(nodes, NoMeta), failed' = TRUE, UNCHANGED pass
      PROVE  IInv'
  <2>1. UNCHANGED <<nodes, meta, max_degree, pc, job, group, work, dead, anchor>>
    BY <1>5, FailsNothing DEF pass
  <2>2. TypeOK'
    BY <1>1, <1>5, <2>1 DEF IInv, TypeOK
  <2>3. Handle'
    BY <1>1, <2>1 DEF IInv, Handle, Opening, LiveCount
  <2>4. Fresh' /\ MetaRight' /\ NoDangling'
    BY <1>5, <2>1 DEF IInv, Fresh, MetaRight, NoDangling, LiveCount
  <2>5. Quiet' /\ Planning' /\ Removing' /\ Writing'
    BY <2>1 DEF IInv, Quiet, Planning, Removing, Writing
  <2> QED BY <2>2, <2>3, <2>4, <2>5 DEF IInv
<1> QED BY <1>4, <1>5 DEF Drop
\* What the invariant says of a pass that writes.
LEMMA PassFacts ==
    ASSUME IInv, pc \in {"write", "meta", "purge"}
    PROVE  /\ nodes \in Blocks /\ work \in Blocks /\ Repaired(nodes, work)
           /\ job # "insert" /\ anchor \in Meta /\ anchor.count = LiveCount
           /\ dead = Stored(nodes) \ Live(nodes)
           /\ job # "consolidate" => meta = NoMeta
           /\ IF anchor.entry = NoId THEN Live(nodes) = {} ELSE anchor.entry \in Live(nodes)
           /\ pc # "write" => work = NoBlocks
           /\ pc = "purge" /\ job = "consolidate" => meta = anchor
           /\ IF job = "open" THEN entry = NoId /\ count = 0 /\ cache = NoBlocks
              ELSE count = LiveCount /\ SameLife(cache, nodes)
           /\ job # "open" => ~Opening
  BY DEF IInv, TypeOK, Removing, Writing, Handle, Opening

\* A pass ends: the handle takes what it computed.
LEMMA AdoptKeeps ==
    ASSUME IInv, pc \in {"meta", "purge"}, Adopt,
           nodes' \in Blocks, Live(nodes') = Live(nodes), Repaired(nodes', NoBlocks),
           meta' = anchor, max_degree' = max_degree
    PROVE  IInv'
<1>1. /\ entry' = anchor.entry /\ count' = anchor.count /\ cache' = NoBlocks
      /\ pc' = "idle" /\ Leave /\ failed' \in {failed, FALSE}
  BY DEF Adopt
<1>2. /\ anchor \in Meta /\ anchor.count = LiveCount
      /\ IF anchor.entry = NoId THEN Live(nodes) = {} ELSE anchor.entry \in Live(nodes)
  BY PassFacts
<1>3. anchor.count \in 0 .. Cardinality(VecIds) /\ anchor.entry \in VecIds \cup {NoId}
  BY <1>2 DEF Meta
<1>4. TypeOK'
  BY <1>1, <1>2, <1>3, NothingStored DEF IInv, TypeOK, Leave
<1>5. InStep(cache', nodes') /\ SameLife(cache', nodes')
  BY <1>1, NothingCached
<1>6. EntryOk(anchor.entry, nodes')
  BY <1>2, StoredLive DEF EntryOk
<1>7. Handle'
  BY <1>1, <1>2, <1>5 DEF Handle, Opening, LiveCount
<1>8. Fresh'
  BY <1>1, <1>5, <1>6 DEF Fresh
<1>9. MetaRight'
  BY <1>2, <1>6 DEF MetaRight, LiveCount
<1>10. NoDangling'
  <2>1. Linked(nodes')
    BY RepairedLinked
  <2> QED BY <2>1 DEF NoDangling, Linked
<1> QED BY <1>1, <1>4, <1>7, <1>8, <1>9, <1>10, PassOver

\* A pass is given up: the handle is what it was, or there is still none.
LEMMA PassFailsKeeps ==
    ASSUME IInv, Faults \subseteq {"rejected"}, pc \in {"write", "meta", "purge"},
           NEW n, NEW m, PassFails(n, m)
    PROVE  IInv'
<1>1. /\ UNCHANGED <<nodes, meta, max_degree, entry, count, cache>>
      /\ pc' = IF job = "open" THEN "closed" ELSE "idle"
      /\ failed' = TRUE /\ Leave /\ job' = "open"
  BY FailsNothing DEF PassFails, ram, Leave
<1>2. IF job = "open" THEN entry = NoId /\ count = 0 /\ cache = NoBlocks
      ELSE count = LiveCount /\ SameLife(cache, nodes)
  BY PassFacts
<1>3. TypeOK'
  BY <1>1, NothingStored DEF IInv, TypeOK, Leave
<1>4. Handle'
  BY <1>1, <1>2 DEF Handle, Opening, LiveCount
<1>5. Fresh' /\ MetaRight' /\ NoDangling'
  BY <1>1 DEF IInv, Fresh, MetaRight, NoDangling, LiveCount
<1> QED BY <1>1, <1>3, <1>4, <1>5, PassOver

\* Some blocks are written.
LEMMA WriteBlocksKeeps == ASSUME IInv, Faults \subseteq {"rejected"}, WriteBlocks PROVE IInv'
<1> DEFINE now == FirstOf(Stored(work))
           n == [v \in VecIds |-> IF v \in now THEN work[v] ELSE nodes[v]]
           x == [v \in VecIds |-> IF v \in now THEN NoBlock ELSE work[v]]
<1>1. pc = "write"
  BY DEF WriteBlocks
<1>2. \/ /\ Commits(n, meta) /\ work' = x
         /\ pc' = IF work' # NoBlocks THEN "write"
                  ELSE IF job # "consolidate" /\ dead # {} THEN "purge" ELSE "meta"
         /\ UNCHANGED <<job, group, dead, anchor, ram, failed>>
      \/ PassFails(n, meta)
  BY DEF WriteBlocks
<1>3. now \subseteq Stored(work)
  BY DEF FirstOf
<1>4. nodes \in Blocks /\ work \in Blocks /\ Repaired(nodes, work)
  BY <1>1, PassFacts
<1> HIDE DEF now
<1>5. /\ n \in Blocks /\ x \in Blocks /\ Stored(n) = Stored(nodes) /\ Live(n) = Live(nodes)
      /\ Repaired(n, x)
      /\ Linked(nodes) => Linked(n)
  BY <1>3, <1>4, WrittenSome
<1> HIDE DEF n, x
<1>6. CASE /\ Commits(n, meta) /\ work' = x
           /\ pc' = IF work' # NoBlocks THEN "write"
                    ELSE IF job # "consolidate" /\ dead # {} THEN "purge" ELSE "meta"
           /\ UNCHANGED <<job, group, dead, anchor, ram, failed>>
  <2>1. /\ nodes' = n /\ UNCHANGED <<meta, max_degree, entry, count, cache>>
        /\ UNCHANGED <<job, group, dead, anchor, failed>>
    BY <1>6 DEF Commits, ram
  <2>2. pc' \in {"write", "meta", "purge"} /\ (pc' # "write" => work' = NoBlocks)
        /\ (pc' = "purge" => job # "consolidate")
    BY <1>6
  <2>3. TypeOK'
    BY <1>5, <1>6, <2>1, <2>2 DEF IInv, TypeOK
  <2>4. Handle'
    <3>1. IF job = "open" THEN entry = NoId /\ count = 0 /\ cache = NoBlocks
          ELSE count = LiveCount /\ SameLife(cache, nodes)
      BY <1>1, PassFacts
    <3>2. Opening' => job = "open"
      BY <2>1, <2>2 DEF Opening
    <3>3. job = "open" => Opening'
      BY <2>1, <2>2 DEF Opening
    <3>4. SameLife(cache, nodes) => SameLife(cache, n)
      BY <1>5, LifeIsLive
    <3> QED BY <1>5, <2>1, <3>1, <3>2, <3>3, <3>4 DEF Handle, LiveCount
  <2>5. Quiet' /\ Fresh' /\ Planning'
    BY <1>1, <2>1, <2>2, PassFacts DEF Quiet, Fresh, Planning
  <2>6. MetaRight'
    BY <1>5, <2>1 DEF IInv, MetaRight, LiveCount, EntryOk
  <2>7. NoDangling'
    BY <1>5, <2>1 DEF IInv, NoDangling, Linked
  <2>8. Removing'
    BY <1>1, <1>5, <2>1, PassFacts DEF Removing, LiveCount
  <2>9. Writing'
    BY <1>1, <1>5, <1>6, <2>1, <2>2, PassFacts DEF Writing
  <2> QED BY <2>3, <2>4, <2>5, <2>6, <2>7, <2>8, <2>9 DEF IInv
<1> QED BY <1>1, <1>2, <1>6, PassFailsKeeps

\* The metadata is written, before the tombstones go or as the last step.
LEMMA WriteMetaKeeps == ASSUME IInv, Faults \subseteq {"rejected"}, WriteMeta PROVE IInv'
<1>1. pc = "meta"
  BY DEF WriteMeta
<1>2. /\ nodes \in Blocks /\ Repaired(nodes, NoBlocks) /\ work = NoBlocks
      /\ job # "insert" /\ anchor \in Meta /\ anchor.count = LiveCount
      /\ dead = Stored(nodes) \ Live(nodes)
      /\ IF anchor.entry = NoId THEN Live(nodes) = {} ELSE anchor.entry \in Live(nodes)
      /\ job = "consolidate" => count = LiveCount /\ SameLife(cache, nodes) /\ ~Opening
  BY <1>1, PassFacts
<1>3. CASE Commits(nodes, anchor) /\ job = "consolidate" /\ pc' = "purge"
           /\ UNCHANGED <<job, group, work, dead, anchor, ram, failed>>
  <2>1. /\ nodes' = nodes /\ meta' = anchor
        /\ UNCHANGED <<max_degree, entry, count, cache, job, group, work, dead, anchor, failed>>
    BY <1>3 DEF Commits, ram
  <2>2. TypeOK'
    BY <1>2, <1>3, <2>1 DEF IInv, TypeOK
  <2>3. Handle'
    BY <1>2, <1>3, <2>1 DEF Handle, Opening, LiveCount
  <2>4. Quiet' /\ Fresh' /\ Planning'
    BY <1>3, <2>1 DEF Quiet, Fresh, Planning
  <2>5. EntryOk(anchor.entry, nodes)
    BY <1>2, StoredLive DEF EntryOk
  <2>6. MetaRight' /\ NoDangling'
    BY <1>2, <2>1, <2>5 DEF IInv, MetaRight, NoDangling, LiveCount
  <2>7. Removing' /\ Writing'
    BY <1>2, <1>3, <2>1 DEF Removing, Writing, LiveCount
  <2> QED BY <2>2, <2>3, <2>4, <2>6, <2>7 DEF IInv
<1>4. CASE Commits(nodes, anchor) /\ Adopt
  <2>1. nodes' = nodes /\ meta' = anchor /\ max_degree' = max_degree
    BY <1>4 DEF Commits
  <2>2. nodes' \in Blocks /\ Live(nodes') = Live(nodes) /\ Repaired(nodes', NoBlocks)
    BY <1>2, <2>1
  <2> QED BY <1>1, <1>4, <2>1, <2>2, AdoptKeeps
<1>5. CASE PassFails(nodes, anchor)
  BY <1>1, <1>5, PassFailsKeeps
<1> QED BY <1>3, <1>4, <1>5 DEF WriteMeta

\* Some tombstones are removed.
LEMMA PurgeBlocksKeeps == ASSUME IInv, Faults \subseteq {"rejected"}, PurgeBlocks PROVE IInv'
<1> DEFINE now == FirstOf(dead)
           n == [v \in VecIds |-> IF v \in now THEN NoBlock ELSE nodes[v]]
<1>1. pc = "purge"
  BY DEF PurgeBlocks
<1>2. \/ Commits(n, meta) /\ dead = now /\ job = "consolidate" /\ Adopt
      \/ /\ Commits(n, meta) /\ ~(dead = now /\ job = "consolidate")
         /\ dead' = dead \ now
         /\ pc' = IF dead' = {} THEN "meta" ELSE "purge"
         /\ UNCHANGED <<job, group, work, anchor, ram, failed>>
      \/ PassFails(n, meta)
  BY DEF PurgeBlocks
<1>3. /\ nodes \in Blocks /\ Repaired(nodes, NoBlocks) /\ work = NoBlocks
      /\ job # "insert" /\ anchor \in Meta /\ anchor.count = LiveCount
      /\ dead = Stored(nodes) \ Live(nodes)
      /\ job # "consolidate" => meta = NoMeta
      /\ IF anchor.entry = NoId THEN Live(nodes) = {} ELSE anchor.entry \in Live(nodes)
      /\ job = "consolidate" => meta = anchor
      /\ IF job = "open" THEN entry = NoId /\ count = 0 /\ cache = NoBlocks
         ELSE count = LiveCount /\ SameLife(cache, nodes)
  BY <1>1, PassFacts
<1>4. now \subseteq dead
  BY DEF FirstOf
<1> HIDE DEF now
<1>5. now \in SUBSET (Stored(nodes) \ Live(nodes))
  BY <1>3, <1>4
<1>6. /\ n \in Blocks /\ Stored(n) = Stored(nodes) \ now /\ Live(n) = Live(nodes)
      /\ Repaired(n, NoBlocks)
  BY <1>3, <1>5, PurgedSome
<1> HIDE DEF n
<1>7. CASE Commits(n, meta) /\ job = "consolidate" /\ Adopt
  <2>1. nodes' = n /\ meta' = anchor /\ max_degree' = max_degree
    BY <1>3, <1>7 DEF Commits
  <2>2. nodes' \in Blocks /\ Live(nodes') = Live(nodes) /\ Repaired(nodes', NoBlocks)
    BY <1>6, <2>1
  <2> QED BY <1>1, <1>7, <2>1, <2>2, AdoptKeeps
<1>8. CASE /\ Commits(n, meta) /\ ~(dead = now /\ job = "consolidate")
           /\ dead' = dead \ now
           /\ pc' = IF dead' = {} THEN "meta" ELSE "purge"
           /\ UNCHANGED <<job, group, work, anchor, ram, failed>>
  <2>1. /\ nodes' = n
        /\ UNCHANGED <<meta, max_degree, entry, count, cache, job, group, work, anchor, failed>>
    BY <1>8 DEF Commits, ram
  <2>2. pc' \in {"meta", "purge"}
    BY <1>8
  <2>3. TypeOK'
    BY <1>6, <1>8, <2>1, <2>2 DEF IInv, TypeOK
  <2>4. Handle'
    <3>1. Opening' <=> job = "open"
      BY <2>1, <2>2 DEF Opening
    <3>2. SameLife(cache, nodes) => SameLife(cache, n)
      BY <1>6, LifeIsLive
    <3> QED BY <1>3, <1>6, <2>1, <3>1, <3>2 DEF Handle, LiveCount
  <2>5. Quiet' /\ Fresh' /\ Planning'
    BY <1>3, <2>1, <2>2 DEF Quiet, Fresh, Planning
  <2>6. MetaRight'
    <3>1. EntryOk(anchor.entry, n)
      BY <1>3, <1>6, StoredLive DEF EntryOk
    <3> QED BY <1>3, <1>6, <2>1, <3>1 DEF MetaRight, LiveCount
  <2>7. NoDangling'
    <3>1. Linked(n)
      BY <1>6, RepairedLinked
    <3> QED BY <2>1, <3>1 DEF NoDangling, Linked
  <2>8. Removing'
    <3>1. dead' = Stored(n) \ Live(n)
      BY <1>3, <1>4, <1>6, <1>8
    <3> QED BY <1>3, <1>6, <2>1, <3>1 DEF Removing, LiveCount
  <2>9. Writing'
    BY <1>3, <1>6, <2>1, <2>2 DEF Writing
  <2> QED BY <2>3, <2>4, <2>5, <2>6, <2>7, <2>8, <2>9 DEF IInv
<1>9. CASE PassFails(n, meta)
  BY <1>1, <1>9, PassFailsKeeps
<1> QED BY <1>2, <1>7, <1>8, <1>9
-----------------------------------------------------------------------------
(* The theorems. *)

\* At first there is nothing.
LEMMA InitWhole == Init => IInv
<1> SUFFICES ASSUME Init PROVE IInv
  OBVIOUS
<1>1. 0 \in 0 .. Cardinality(VecIds)
  BY VectorIndexAssumption, FS_CardinalityType
<1>2. TypeOK
  BY <1>1, NothingStored DEF Init, TypeOK
<1>3. Quiet /\ Handle /\ Fresh /\ MetaRight /\ Planning /\ Removing /\ Writing
  BY DEF Init, Quiet, Handle, Opening, Fresh, MetaRight, Planning, Removing, Writing
<1>4. NoDangling
  BY NothingStored DEF Init, NoDangling
<1> QED BY <1>2, <1>3, <1>4 DEF IInv

\* Every step keeps the invariant.
LEMMA NextWhole ==
    ASSUME Faults \subseteq {"rejected"}, IInv, [Next]_vars
    PROVE  IInv'
<1>1. CASE Search
  BY <1>1, SearchKeeps
<1>2. ASSUME NEW S \in Groups, Insert(S) \/ Delete(S)
      PROVE  IInv'
  BY <1>2, InsertKeeps, DeleteKeeps
<1>3. CASE PlanNext
  BY <1>3, PlanNextKeeps
<1>4. CASE CommitInsert
  BY <1>4, CommitInsertKeeps
<1>5. CASE Consolidate
  BY <1>5, ConsolidateKeeps
<1>6. CASE Rebuild
  <2>1. pc = "idle" /\ Drop("rebuild") /\ UNCHANGED ram
    BY <1>6 DEF Rebuild
  <2> QED BY <2>1, DropKeeps
<1>7. CASE WriteBlocks
  BY <1>7, WriteBlocksKeeps
<1>8. CASE WriteMeta
  BY <1>8, WriteMetaKeeps
<1>9. CASE PurgeBlocks
  BY <1>9, PurgeBlocksKeeps
<1>10. CASE Crash
  BY <1>10, CrashKeeps
<1>11. CASE Open
  BY <1>11, OpenKeeps
<1>12. CASE OpenRebuilding
  <2>1. pc = "closed" /\ Drop("open") /\ UNCHANGED ram
    BY <1>12 DEF OpenRebuilding
  <2> QED BY <2>1, DropKeeps
<1>13. CASE UNCHANGED vars
  <2>1. UNCHANGED <<nodes, meta, max_degree, entry, count, cache>>
        /\ UNCHANGED <<pc, job, group, work, dead, anchor, failed>>
    BY <1>13 DEF vars, store, ram, pass
  <2>2. TypeOK' /\ Quiet'
    BY <2>1 DEF IInv, TypeOK, Quiet
  <2>3. Handle' /\ Fresh' /\ MetaRight' /\ NoDangling'
    BY <2>1 DEF IInv, Handle, Opening, Fresh, MetaRight, NoDangling, LiveCount
  <2>4. Planning' /\ Removing' /\ Writing'
    BY <2>1 DEF IInv, Planning, Base, FirstEntry, Seen, Removing, Writing, LiveCount
  <2> QED BY <2>2, <2>3, <2>4 DEF IInv
<1> QED
  BY <1>1, <1>2, <1>3, <1>4, <1>5, <1>6, <1>7, <1>8, <1>9, <1>10, <1>11, <1>12, <1>13 DEF Next

\* Every state has types, agrees with the handle, and is one a pass can be cut short in.
THEOREM VectorInvariance == ASSUME Faults \subseteq {"rejected"} PROVE Spec => []IInv
<1>1. Init => IInv
  BY InitWhole
<1>2. IInv /\ [Next]_vars => IInv'
  BY NextWhole
<1> QED BY <1>1, <1>2, PTL DEF Spec

\* Every variable has its type; in particular the count never exceeds the ids.
THEOREM VectorTypes == ASSUME Faults \subseteq {"rejected"} PROVE Spec => []TypeOK
<1>1. IInv => TypeOK
  BY DEF IInv
<1> QED BY <1>1, VectorInvariance, PTL

\* A search returns nothing that the store holds as deleted or does not hold
\* (search_scored; the cache that shadows the store in EngineProvider::node).
THEOREM SearchesReturnLive == ASSUME Faults \subseteq {"rejected"} PROVE Spec => []ResultsAreLive
<1>1. ASSUME IInv PROVE ResultsAreLive
  <2> SUFFICES ASSUME pc = "idle" PROVE Results \subseteq Live(nodes)
    BY DEF ResultsAreLive
  <2>1. Live(Seen) = Live(nodes)
    BY <1>1, IdleFacts
  <2> QED BY <2>1 DEF Results
<1> QED BY <1>1, VectorInvariance, PTL

\* What a crash leaves, between any two batches, opens as it is and with the exact count,
\* unless a pass had failed or a rebuild was cut short (PersistentVectorIndex::open).
THEOREM AlwaysOpensCleanly == ASSUME Faults \subseteq {"rejected"} PROVE Spec => []OpensCleanly
<1>1. ASSUME IInv PROVE OpensCleanly
  <2> SUFFICES ASSUME ~failed, meta # NoMeta PROVE Resolves /\ meta.count = LiveCount
    BY DEF OpensCleanly
  <2>1. meta.count = LiveCount /\ EntryOk(meta.entry, nodes)
    BY <1>1 DEF IInv, MetaRight
  <2>2. Live(nodes) = {} => LiveCount = 0
    BY FS_EmptySet DEF LiveCount
  <2> QED BY <2>1, <2>2 DEF Resolves, EntryOk
<1> QED BY <1>1, VectorInvariance, PTL

\* No live block refers to a missing one, in any step of any pass that has not failed
\* (consolidate writes repairs before it purges, rebuild its blocks).
THEOREM NeverDangling == ASSUME Faults \subseteq {"rejected"} PROVE Spec => []NoDangling
<1>1. IInv => NoDangling
  BY DEF IInv
<1> QED BY <1>1, VectorInvariance, PTL

\* What a delete makes live no more are ids it was called for.
LEMMA DeleteTakes ==
    ASSUME IInv, Faults \subseteq {"rejected"}, NEW S, Delete(S)
    PROVE  Live(nodes') \subseteq Live(nodes) /\ Live(nodes) \ Live(nodes') \subseteq S
<1> DEFINE T == Tombstoned(S)
           n == [v \in VecIds |-> IF v \in T THEN [Seen[v] EXCEPT !.deleted = TRUE]
                                  ELSE nodes[v]]
           d == [v \in VecIds |-> IF v \in T THEN n[v] ELSE cache[v]]
<1>1. pc = "idle" /\ (nodes' = nodes \/ nodes' = n)
  BY FailsNothing DEF Delete, store, Commits
<1>2. cache \in Blocks /\ nodes \in Blocks /\ SameLife(cache, nodes) /\ Live(Seen) = Live(nodes)
  BY <1>1, IdleFacts
<1>3. T \in SUBSET Live(nodes) /\ T \subseteq S
  BY <1>2 DEF Tombstoned
<1>4. Marked(n, cache, nodes, T) /\ Refreshed(d, n, cache, T)
  BY DEF Seen, Marked, Refreshed
<1> HIDE DEF T, n, d
<1>5. Live(n) = Live(nodes) \ T
  BY ONLY <1>2, <1>3, <1>4, DeletedBlocks
<1> QED BY <1>1, <1>3, <1>5

\* What an insert makes live are the ids it was called for, all of them.
LEMMA InsertAdds ==
    ASSUME IInv, Faults \subseteq {"rejected"}, CommitInsert
    PROVE  \/ nodes' = nodes
           \/ /\ group \in Groups /\ group \cap Live(nodes) = {}
              /\ Live(nodes') = Live(nodes) \cup group
<1>1. pc = "plan" /\ job = "insert" /\ group \subseteq Live(work)
  BY DEF CommitInsert
<1>2. group \in Groups /\ group \cap Live(nodes) = {} /\ PlanOk(Over(cache, nodes), group, work)
  BY <1>1 DEF IInv, Planning, Base, Seen
<1>3. nodes \in Blocks /\ cache \in Blocks /\ work \in Blocks /\ SameLife(cache, nodes)
  BY <1>1, IdleFacts
<1>4. Live(Over(work, nodes)) = Live(nodes) \cup group
  BY <1>1, <1>2, <1>3, PlanInserts
<1>5. nodes' = nodes \/ nodes' = Over(work, nodes)
  BY FailsNothing DEF CommitInsert, Commits
<1> QED BY <1>2, <1>4, <1>5

\* No step of a pass makes any id live or dead, nor does a crash or an opening.
LEMMA PassesKeepLive ==
    ASSUME IInv, Faults \subseteq {"rejected"},
           \/ Search \/ (\E S \in Groups : Insert(S)) \/ PlanNext
           \/ Consolidate \/ Rebuild \/ WriteBlocks \/ WriteMeta \/ PurgeBlocks
           \/ Crash \/ Open \/ OpenRebuilding
    PROVE  Live(nodes') = Live(nodes)
<1>1. CASE WriteBlocks
  <2> DEFINE now == FirstOf(Stored(work))
             n == [v \in VecIds |-> IF v \in now THEN work[v] ELSE nodes[v]]
             x == [v \in VecIds |-> IF v \in now THEN NoBlock ELSE work[v]]
  <2>1. pc = "write" /\ (nodes' = nodes \/ nodes' = n)
    BY <1>1, FailsNothing DEF WriteBlocks, Commits, PassFails
  <2>2. nodes \in Blocks /\ work \in Blocks /\ Repaired(nodes, work)
    BY <2>1, PassFacts
  <2>3. now \in SUBSET Stored(work)
    BY DEF FirstOf
  <2> HIDE DEF now
  <2>4. /\ n \in Blocks /\ x \in Blocks /\ Stored(n) = Stored(nodes) /\ Live(n) = Live(nodes)
        /\ Repaired(n, x)
        /\ Linked(nodes) => Linked(n)
    BY <2>2, <2>3, WrittenSome
  <2> QED BY <2>1, <2>4
<1>2. CASE PurgeBlocks
  <2> DEFINE now == FirstOf(dead)
             n == [v \in VecIds |-> IF v \in now THEN NoBlock ELSE nodes[v]]
  <2>1. pc = "purge" /\ (nodes' = nodes \/ nodes' = n)
    BY <1>2, FailsNothing DEF PurgeBlocks, Commits, PassFails
  <2>2. /\ nodes \in Blocks /\ Repaired(nodes, NoBlocks)
        /\ dead = Stored(nodes) \ Live(nodes)
    BY <2>1, PassFacts
  <2>3. now \in SUBSET (Stored(nodes) \ Live(nodes))
    BY <2>2 DEF FirstOf
  <2> HIDE DEF now
  <2>4. Live(n) = Live(nodes)
    BY <2>2, <2>3, PurgedSome
  <2> QED BY <2>1, <2>4
<1>3. ASSUME NEW j, Drop(j) PROVE nodes' = nodes
  BY <1>3, FailsNothing DEF Drop, Commits
<1>4. CASE Rebuild \/ OpenRebuilding
  BY <1>3, <1>4 DEF Rebuild, OpenRebuilding
<1>5. CASE WriteMeta
  <2>1. nodes' = nodes
    BY <1>5, FailsNothing DEF WriteMeta, Commits, PassFails
  <2> QED BY <2>1
<1>6. CASE Search \/ PlanNext \/ Consolidate \/ Crash \/ Open \/ \E S \in Groups : Insert(S)
  <2>1. nodes' = nodes
    BY <1>6 DEF Search, PlanNext, Consolidate, Crash, Open, Insert, store
  <2> QED BY <2>1
<1> QED BY <1>1, <1>2, <1>4, <1>5, <1>6

\* A vector becomes live only when an insert of its id commits, and stops being live only
\* in a delete of its id (plan_insert, plan_repair, consolidate, rebuild bring nothing
\* back and lose nothing, wherever they are cut short).
THEOREM OnlyCallsCount == ASSUME Faults \subseteq {"rejected"} PROVE Spec => OnlyCallsChangeLive
<1> DEFINE A == /\ Live(nodes') \ Live(nodes) # {} =>
                      /\ CommitInsert /\ group \in Groups
                      /\ Live(nodes') \ Live(nodes) = group
                /\ Live(nodes) \ Live(nodes') # {} =>
                      \E S \in Groups : Live(nodes) \ Live(nodes') \subseteq S /\ Delete(S)
<1>1. ASSUME IInv, Next PROVE A
  <2>1. ASSUME Live(nodes') = Live(nodes) PROVE A
    BY <2>1
  <2>2. ASSUME NEW S \in Groups, Delete(S) PROVE A
    <3>1. Live(nodes') \subseteq Live(nodes) /\ Live(nodes) \ Live(nodes') \subseteq S
      BY <1>1, <2>2, DeleteTakes
    <3> QED BY <2>2, <3>1
  <2>3. CASE CommitInsert
    <3>1. \/ nodes' = nodes
          \/ /\ group \in Groups /\ group \cap Live(nodes) = {}
             /\ Live(nodes') = Live(nodes) \cup group
      BY <1>1, <2>3, InsertAdds
    <3>2. CASE nodes' = nodes
      BY <2>1, <3>2
    <3>3. CASE /\ group \in Groups /\ group \cap Live(nodes) = {}
               /\ Live(nodes') = Live(nodes) \cup group
      <4>1. Live(nodes') \ Live(nodes) = group /\ Live(nodes) \ Live(nodes') = {}
        BY <3>3
      <4> QED BY <2>3, <3>3, <4>1
    <3> QED BY <3>1, <3>2, <3>3
  <2>4. CASE \/ Search \/ (\E S \in Groups : Insert(S)) \/ PlanNext
             \/ Consolidate \/ Rebuild \/ WriteBlocks \/ WriteMeta \/ PurgeBlocks
             \/ Crash \/ Open \/ OpenRebuilding
    <3>1. Live(nodes') = Live(nodes)
      BY <1>1, <2>4, PassesKeepLive
    <3> QED BY <2>1, <3>1
  <2> HIDE DEF A
  <2>5. \/ \E S \in Groups : Delete(S)
        \/ CommitInsert
        \/ Search \/ (\E S \in Groups : Insert(S)) \/ PlanNext
        \/ Consolidate \/ Rebuild \/ WriteBlocks \/ WriteMeta \/ PurgeBlocks
        \/ Crash \/ Open \/ OpenRebuilding
    BY <1>1 DEF Next
  <2> QED BY <2>2, <2>3, <2>4, <2>5
<1>2. IInv /\ [Next]_vars => [A]_vars
  BY <1>1
<1>3. Spec => [][A]_vars
  <2> HIDE DEF A
  <2> QED BY <1>2, VectorInvariance, PTL DEF Spec
<1> QED BY <1>3 DEF OnlyCallsChangeLive
===============================================================================
