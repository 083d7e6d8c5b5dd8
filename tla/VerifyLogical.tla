---------------------------- MODULE VerifyLogical ----------------------------
(***************************************************************************)
(* The offline check of a store's indexes (store/verify_logical.rs) and    *)
(* the repair of what can be derived (store/repair.rs).                    *)
(*                                                                         *)
(* A store is its live keys, tuples of a kind and its parts, and what they *)
(* hold: <<value>>, or Corrupt where the codec refuses it.                 *)
(***************************************************************************)
EXTENDS Naturals, FiniteSetsExt, Sequences, TLC

CONSTANTS
    FtsNames,   \* names that have "fts " in them
    MetaNames   \* names that have "vector index metadata" in them

Corrupt == <<>>

Rec(a, i) == <<"rec", a, i>>                \* [vec, terms]: term |-> how often
Map(v) == <<"map", v>>                      \* <<agent, id>>
Alloc == <<"alloc">>                        \* next_vec_id
Node(v) == <<"node", v>>                    \* [dim, neighbors, deleted]
VMeta == <<"vmeta">>                        \* [dim, count, entry]
Post(a, t, v) == <<"post", a, t, v>>        \* tf
Doc(a, v) == <<"doc", a, v>>                \* term |-> tf
Stats(a) == <<"stats", a>>                  \* [docs, terms]
Ent(a, e) == <<"ent", a, e>>
Edge(a, s, r, d) == <<"edge", a, s, r, d>>
Exp(a, i) == <<"exp", a, i>>                \* idx/temporal/expiry/
Reg(a) == <<"reg", a>>                      \* meta/agents/, outside idx/

Parsed(kv, k) == k \in DOMAIN kv /\ kv[k] # Corrupt
OfKind(kv, kind) == {k \in DOMAIN kv : k[1] = kind /\ kv[k] # Corrupt}
Val(kv, k) == kv[k][1]
VecOf(kv, k) == Val(kv, k).vec
LiveNode(kv, v) == Parsed(kv, Node(v)) /\ ~Val(kv, Node(v)).deleted

(* ------------------------------- parsing ------------------------------- *)
\* parse_view: the kinds it has a branch for.
Known == {"rec", "map", "alloc", "node", "vmeta", "post", "doc", "stats", "ent", "edge"}
HealedKinds == {"vmeta", "stats"}

ParseErrors(kv) ==
    {<<"IdxKeyMalformed", k>> : k \in {k \in DOMAIN kv : k[1] \notin Known \cup {"reg"}}}
    \cup {<<"IdxValueCorrupt", k>> :
            k \in {k \in DOMAIN kv : kv[k] = Corrupt /\ k[1] \in Known \ HealedKinds}}

ParseWarnings(kv) ==
    {<<IF k = VMeta THEN "VectorMetaInconsistent" ELSE "FtsStatsInconsistent", k>> :
        k \in {k \in DOMAIN kv : kv[k] = Corrupt /\ k[1] \in HealedKinds}}

MemoryPopulated(kv) == OfKind(kv, "rec") \cup OfKind(kv, "map") # {} \/ Parsed(kv, Alloc)

(* -------------------------------- links -------------------------------- *)
\* check_memory_links: a record, its mapping and its live vector go together.
LinkErrors(kv) ==
    LET recs == OfKind(kv, "rec")
        Shared(k) == \E l \in recs \ {k} : VecOf(kv, l) = VecOf(kv, k)
        Maps(k) == /\ Parsed(kv, Map(VecOf(kv, k))) /\ Val(kv, Map(VecOf(kv, k))) = Tail(k)
        MapsBack(k) == /\ Parsed(kv, <<"rec">> \o Val(kv, k))
                       /\ VecOf(kv, <<"rec">> \o Val(kv, k)) = k[2]
    IN {<<"MemoryLinkBroken", k>> :
          k \in {k \in recs : Shared(k) \/ ~Maps(k) \/ ~LiveNode(kv, VecOf(kv, k))}
                \cup {k \in OfKind(kv, "map") : ~MapsBack(k)}
                \cup {k \in OfKind(kv, "node") : LiveNode(kv, k[2]) /\ ~Parsed(kv, Map(k[2]))}}

UsedIds(kv) == {k[2] : k \in OfKind(kv, "node") \cup OfKind(kv, "map")}
\* (Faulty: the highest id in use may be given again.)
AllocErrorsBelow(kv) ==
    IF Parsed(kv, Alloc) /\ \E v \in UsedIds(kv) : Val(kv, Alloc) < v
    THEN {<<"AllocatorStale", Alloc>>} ELSE {}

AllocErrors(kv) ==
    IF Parsed(kv, Alloc) /\ \E v \in UsedIds(kv) : Val(kv, Alloc) <= v
    THEN {<<"AllocatorStale", Alloc>>} ELSE {}
AllocWarnings(kv) ==
    IF ~Parsed(kv, Alloc) /\ UsedIds(kv) # {} THEN {<<"AllocatorStale", Alloc>>} ELSE {}

(* ------------------------------- vectors ------------------------------- *)
FirstNode(kv) == Node(Min({k[2] : k \in OfKind(kv, "node")}))
ExpectedDim(kv) == IF Parsed(kv, VMeta) THEN Val(kv, VMeta).dim ELSE Val(kv, FirstNode(kv)).dim

VectorErrors(kv) ==
    LET nodes == OfKind(kv, "node")
    IN {<<"VectorDimMismatch", k>> : k \in {k \in nodes : Val(kv, k).dim # ExpectedDim(kv)}}
       \cup {<<"VectorNeighborMissing", k>> :
               k \in {k \in nodes : \E n \in Val(kv, k).neighbors : ~Parsed(kv, Node(n))}}

LiveCount(kv) == Cardinality({k \in OfKind(kv, "node") : LiveNode(kv, k[2])})
VectorWarnings(kv) ==
    LET m == Val(kv, VMeta)
    IN IF Parsed(kv, VMeta)
          /\ \/ m.count # LiveCount(kv)
             \/ \E e \in m.entry : ~Parsed(kv, Node(e))
             \/ m.entry = {} /\ LiveCount(kv) > 0
       THEN {<<"VectorMetaInconsistent", VMeta>>} ELSE {}

(* ------------------------------ full text ------------------------------ *)
Terms(doc) == MapThenSumSet(LAMBDA t : doc[t], DOMAIN doc)
DocsOf(kv, a) == {k \in OfKind(kv, "doc") : k[2] = a}
Recount(kv, a) == [docs |-> Cardinality(DocsOf(kv, a)),
                   terms |-> MapThenSumSet(LAMBDA k : Terms(Val(kv, k)), DocsOf(kv, a))]
Indexed(kv) == {k[2] : k \in OfKind(kv, "doc")}

\* check_fts: documents, postings and statistics; a document belongs to the agent
\* of its vector id.
FtsErrors(kv) ==
    LET docs == OfKind(kv, "doc")
        Posted(k, t) == /\ Val(kv, k)[t] > 0
                        /\ Parsed(kv, Post(k[2], t, k[3])) /\ Val(kv, Post(k[2], t, k[3])) = Val(kv, k)[t]
        Listed(p) == Parsed(kv, Doc(p[2], p[4])) /\ p[3] \in DOMAIN Val(kv, Doc(p[2], p[4]))
        Mapped(k) == MemoryPopulated(kv) => Parsed(kv, Map(k[3]))
        stored == {k[2] : k \in OfKind(kv, "stats")}
        StatsOf(a) == Val(kv, Stats(a))
    IN {<<"FtsLinkBroken", k>> :
          k \in {k \in docs : ~Mapped(k) \/ \E t \in DOMAIN Val(kv, k) : ~Posted(k, t)}
                \cup {p \in OfKind(kv, "post") : ~Listed(p)}}
       \cup {<<"AgentIsolationBreach", k>> :
               k \in {k \in docs : MemoryPopulated(kv) /\ Parsed(kv, Map(k[3])) /\ Val(kv, Map(k[3]))[1] # k[2]}}
       \cup {<<"FtsStatsInconsistent", Stats(a)>> :
               a \in {a \in stored : StatsOf(a) # Recount(kv, a)}}

FtsWarnings(kv) ==
    {<<"FtsStatsInconsistent", Stats(a)>> : a \in {a \in Indexed(kv) : ~Parsed(kv, Stats(a))}}

(* -------------------------------- graph -------------------------------- *)
GraphWarnings(kv) ==
    {<<"GraphEdgeDangling", k>> :
        k \in {k \in OfKind(kv, "edge") :
                 ~Parsed(kv, Ent(k[2], k[3])) \/ ~Parsed(kv, Ent(k[2], k[5]))}}

(* check_logical.                                                          *)
CheckLogical(kv) ==
    LET memory == MemoryPopulated(kv)
    IN [errors   |-> ParseErrors(kv) \cup (IF memory THEN LinkErrors(kv) \cup AllocErrors(kv) ELSE {})
                     \cup VectorErrors(kv) \cup FtsErrors(kv),
        warnings |-> ParseWarnings(kv) \cup (IF memory THEN AllocWarnings(kv) ELSE {})
                     \cup VectorWarnings(kv) \cup FtsWarnings(kv) \cup GraphWarnings(kv)]

Clean(report) == report.errors \cup report.warnings = {}

(* -------------------------------- repair ------------------------------- *)
\* What an unreadable value belongs to is looked for in the text of the issue, and
\* that has the key in it, with the names the key is made of.
Mentions(k, names) == k[1] \in {"rec", "ent", "edge"} /\ \E i \in 2..Len(k) : k[i] \in names
SaysFts(k) == k[1] \in {"post", "doc"} \/ Mentions(k, FtsNames)

\* plan_repair: what may be rebuilt, and what must not be touched.
ActionsFor(issue, warned) ==
    LET kind == issue[1]
        unreadable == kind = "IdxValueCorrupt"
    IN CASE kind = "VectorMetaInconsistent" -> {"RebuildVectorGraph"}
         [] kind = "FtsStatsInconsistent" -> {"RebuildFts"}
         [] warned -> {}
         [] kind = "AllocatorStale" -> {"RebuildMemoryMappings"}
         [] kind = "FtsLinkBroken" -> {"RebuildFts"}
         [] kind \in {"VectorNeighborMissing", "VectorDimMismatch"} -> {"RebuildVectorGraph"}
         [] kind = "MemoryLinkBroken" -> {"RebuildMemoryMappings", "ReembedMissingVectors"}
         [] unreadable /\ SaysFts(issue[2]) -> {"RebuildFts"}
         [] unreadable /\ ~SaysFts(issue[2]) /\ Mentions(issue[2], MetaNames) -> {"RebuildVectorGraph"}
         [] OTHER -> {}

PlanRepair(report) ==
    [actions |-> UNION ({ActionsFor(i, FALSE) : i \in report.errors} \cup {ActionsFor(i, TRUE) : i \in report.warnings}),
     at_risk |-> {i \in report.errors : ActionsFor(i, FALSE) = {}}]

Without(kv, kinds) == [k \in {k \in DOMAIN kv : k[1] \notin kinds} |-> kv[k]]

\* (Faulty: the mappings there are stay.)
RebuildMappingsOver(kv) ==
    LET recs == OfKind(kv, "rec")
        ids == {VecOf(kv, k) : k \in recs}
    IN (Alloc :> <<IF ids = {} THEN 0 ELSE Max(ids) + 1>>)
       @@ [m \in {Map(v) : v \in ids} |-> <<Tail(CHOOSE k \in recs : VecOf(kv, k) = m[2])>>]
       @@ Without(kv, {"alloc"})

\* rebuild_memory_mappings, and the allocator behind the records' ids.
RebuildMappings(kv) ==
    LET recs == OfKind(kv, "rec")
        ids == {VecOf(kv, k) : k \in recs}
    IN (Alloc :> <<IF ids = {} THEN 0 ELSE Max(ids) + 1>>)
       @@ [m \in {Map(v) : v \in ids} |-> <<Tail(CHOOSE k \in recs : VecOf(kv, k) = m[2])>>]
       @@ Without(kv, {"map", "alloc"})

\* rebuild_fts, from the records' contents.
RebuildFts(kv) ==
    LET recs == {k \in OfKind(kv, "rec") : DOMAIN Val(kv, k).terms # {}}
        Of(k) == Val(kv, k)
        docs == [d \in {Doc(k[2], Of(k).vec) : k \in recs} |->
                   <<Of(CHOOSE k \in recs : Doc(k[2], Of(k).vec) = d).terms>>]
        posts == [p \in UNION {{Post(d[2], t, d[3]) : t \in DOMAIN docs[d][1]} : d \in DOMAIN docs} |->
                    <<docs[Doc(p[2], p[4])][1][p[3]]>>]
        stats == [s \in {Stats(d[2]) : d \in DOMAIN docs} |-> <<Recount(docs, s[2])>>]
    IN docs @@ posts @@ stats @@ Without(kv, {"doc", "post", "stats"})

\* PersistentVectorIndex::rebuild: the tombstones go and the graph is made again;
\* which of the others a node is linked to is left to module VectorIndex.
RebuildVectors(kv) ==
    LET dead == {k \in OfKind(kv, "node") : Val(kv, k).deleted}
        live == {k[2] : k \in OfKind(kv, "node") \ dead}
        rest == [k \in DOMAIN kv \ (dead \cup {VMeta}) |-> kv[k]]
    IN (VMeta :> <<[dim |-> ExpectedDim(kv), count |-> Cardinality(live),
                    entry |-> IF live = {} THEN {} ELSE {Min(live)}]>>)
       @@ [n \in {Node(v) : v \in live} |-> <<[Val(kv, n) EXCEPT !.neighbors = live \ {n[2]}]>>]
       @@ rest

Failed(kv) == [ok |-> FALSE, kv |-> kv, reembed |-> {}]

\* rebuild_indexes: what it leaves, also where it fails, and the records whose
\* vector is gone.
RebuildIndexes(kv) ==
    LET recs == OfKind(kv, "rec")
        derived == RebuildFts(RebuildMappings(kv))
        vectors == Parsed(kv, VMeta) \/ OfKind(kv, "node") # {}
        misfits == {k \in OfKind(kv, "node") : LiveNode(kv, k[2]) /\ Val(kv, k).dim # ExpectedDim(kv)}
    IN IF \E k \in DOMAIN kv : k[1] \in {"rec", "node"} /\ kv[k] = Corrupt THEN Failed(kv)
       ELSE IF \E k, l \in recs : k # l /\ VecOf(kv, k) = VecOf(kv, l) THEN Failed(kv)
       ELSE IF vectors /\ misfits # {} THEN Failed([k \in DOMAIN derived \ {VMeta} |-> derived[k]])
       ELSE [ok |-> TRUE, kv |-> IF vectors THEN RebuildVectors(derived) ELSE derived,
             reembed |-> {k \in recs : ~LiveNode(kv, VecOf(kv, k))}]

\* The repair command: an audit, its plan, and the rebuild where nothing but
\* derived data is in doubt.
CanApply(report) == PlanRepair(report).at_risk = {}

(* ------------------------------ promises ------------------------------- *)
(* What the searches of an agent answer with.                              *)
VectorHits(kv, a) ==
    {Val(kv, Map(k[2])) : k \in {k \in OfKind(kv, "node") :
        LiveNode(kv, k[2]) /\ Parsed(kv, Map(k[2])) /\ Val(kv, Map(k[2]))[1] = a}}
TextHits(kv, a, t) ==
    {Val(kv, Map(p[4])) : p \in {p \in OfKind(kv, "post") :
        p[2] = a /\ p[3] = t /\ Parsed(kv, Map(p[4]))}}
Memories(kv, a) == {Tail(k) : k \in {k \in OfKind(kv, "rec") : k[2] = a}}
WithTerm(kv, a, t) == {m \in Memories(kv, a) : t \in DOMAIN Val(kv, <<"rec">> \o m).terms}

AnswersRight(kv, agents, terms) ==
    /\ \A a \in agents :
          /\ VectorHits(kv, a) = Memories(kv, a)
          /\ \A t \in terms : TextHits(kv, a, t) = WithTerm(kv, a, t)
          /\ Indexed(kv) \cap {a} # {} => Parsed(kv, Stats(a)) /\ Val(kv, Stats(a)) = Recount(kv, a)
    /\ Parsed(kv, Alloc) => \A v \in UsedIds(kv) : v < Val(kv, Alloc)

Primary(kv) == [k \in {k \in DOMAIN kv : k[1] \in {"rec", "ent", "edge", "reg", "exp"}} |-> kv[k]]

(* A live vector that no record claims, which rebuilding keeps.            *)
Unclaimed(kv) ==
    {k \in OfKind(kv, "node") : LiveNode(kv, k[2]) /\ \A r \in OfKind(kv, "rec") : VecOf(kv, r) # k[2]}

(* What cannot be derived, unreadable, and what of it a plan takes for     *)
(* damage of an index by what it, or its agent, is called.                 *)
Lost(kv) == {k \in DOMAIN kv : k[1] \in {"rec", "ent", "edge"} /\ kv[k] = Corrupt}
Misread(kv) == {k \in Lost(kv) : Mentions(k, FtsNames \cup MetaNames)}

(* The damage of one key: lost, unreadable, or holding something else.     *)
Changed(kv, others) ==
    {[l \in DOMAIN kv \ {k} |-> kv[l]] : k \in DOMAIN kv}
    \cup {[kv EXCEPT ![k] = Corrupt] : k \in DOMAIN kv}
    \cup {[kv EXCEPT ![k] = <<o>>] : k \in DOMAIN kv \cap {Alloc}, o \in {0, 1}}
    \cup UNION {{o @@ kv, kv @@ o} : o \in others}

(* An audit without findings can be relied on: whatever one key of the     *)
(* store was damaged, searches answer with the agent's own memories, all   *)
(* of them, and the next vector id is a new one.                           *)
CleanMeansRight(kv, others, agents, terms) ==
    \A d \in Changed(kv, others) : Clean(CheckLogical(d)) => AnswersRight(d, agents, terms)

(* A repair that is applied and succeeds leaves no error but the records   *)
(* it asks to embed again, the vectors no record claims, and what it was   *)
(* wrongly applied for: a plan that may be applied has at most unreadable  *)
(* primary data whose names pass for those of an index.  What a repair     *)
(* cannot derive is as it was, also where it fails.                        *)
Repairs(kv, others, agents, terms) ==
    \A d \in Changed(kv, others) :
        LET done == RebuildIndexes(d)
            left == CheckLogical(done.kv)
        IN /\ Primary(done.kv) = Primary(d)
           /\ CanApply(CheckLogical(d)) => Lost(d) \subseteq Misread(d)
           /\ CanApply(CheckLogical(d)) /\ done.ok =>
                /\ {i[2] : i \in left.errors} \subseteq done.reembed \cup Unclaimed(d) \cup Misread(d)
                                                       \cup (IF Unclaimed(d) = {} THEN {} ELSE {Alloc})
                /\ left.errors = {} => AnswersRight(done.kv, agents, terms)
=============================================================================
