------------------------------ MODULE MemoryIndex ------------------------------
(***************************************************************************)
(* The memory index of crates/basemyai-engine/src/idx/memory with the      *)
(* indexes it composes: the records, their vector-id mappings, the         *)
(* allocator, the vector nodes, the full-text documents and statistics,    *)
(* the expiry index and the agent registry, all keys of one engine.        *)
(*                                                                         *)
(* A step is one Engine::apply_batch.  The engine is two functions: what   *)
(* the process reads, and what opening the store again would show, which   *)
(* differ once a batch was appended to the log but not applied (its fsync  *)
(* failed).  The graph of the vector index is in module VectorIndex; here  *)
(* a vector node is live or tombstoned.                                    *)
(***************************************************************************)
EXTENDS Integers, FiniteSetsExt, Sequences

CONSTANTS
    Agents, Ids,    \* agents, and the ids of their memories
    Times,          \* the valid_until a memory may have
    Lengths,        \* how many terms a content may tokenize to
    MaxVec,         \* bound: the highest vector id allocated
    GroupSize,      \* bound: how many memories one put_many or forget_many takes
    MaxItems,       \* ForgetBatchOptions::max_items
    Faults,         \* what a failing apply_batch may have done: "rejected" (nothing),
                    \* "unsynced" (appended), "applied" (all: the flush behind it failed)
    Absent, Never, Corrupt, Nobody

ASSUME MemoryIndexAssumption ==
    /\ Lengths \subseteq Nat /\ MaxVec \in Nat
    /\ GroupSize \in Nat \ {0} /\ MaxItems \in Nat \ {0}
    /\ Never \notin Times /\ Nobody \notin Agents

VecIds == 0 .. MaxVec

\* The keys of the reserved keyspaces (key/mod.rs).
Rec(a, i)    == <<"rec", a, i>>
Map(v)       == <<"map", v>>
Node(v)      == <<"node", v>>
Doc(a, v)    == <<"doc", a, v>>
Stats(a)     == <<"stats", a>>
Exp(a, t, i) == <<"exp", a, t, i>>
Reg(a)       == <<"reg", a>>
Alloc        == <<"alloc">>

Keys ==
    {Rec(a, i) : a \in Agents, i \in Ids} \cup {Map(v) : v \in VecIds}
    \cup {Node(v) : v \in VecIds} \cup {Doc(a, v) : a \in Agents, v \in VecIds}
    \cup {Stats(a) : a \in Agents}
    \cup {Exp(a, t, i) : a \in Agents, t \in Times, i \in Ids}
    \cup {Reg(a) : a \in Agents} \cup {Alloc}

\* What a key holds.
Value(k) ==
    CASE k[1] = "rec"   -> [vec : VecIds, until : Times \cup {Never}, terms : Lengths]
      [] k[1] = "map"   -> Agents \X Ids
      [] k[1] = "node"  -> {"live", "dead"}
      [] k[1] = "doc"   -> Lengths
      [] k[1] = "stats" -> [docs : Nat, terms : Nat]
      [] k[1] = "alloc" -> (0 .. MaxVec + 1) \cup {Corrupt}
      [] OTHER          -> {"set"}

ASSUME AbsentAssumption == \A k \in Keys : Absent \notin Value(k)

VARIABLES
    kv,         \* what the process reads: a value or Absent for each key
    disk,       \* what opening the store again would show
    next,       \* PersistentMemoryIndex::next_vec_id
    pc,         \* "closed", "idle", "forget", "purge", a step of rebuild_indexes, or
                \* "reembed" and "missing" in a call of integrity.rs
    who, todo,  \* the agent, or the memory, it is at, and those it has still to visit
    repairing,  \* history: rebuild_indexes has begun and not yet succeeded
    lost        \* history: vector ids whose vector a reembedding took and did not give back

vars == <<kv, disk, next, pc, who, todo, repairing, lost>>

-----------------------------------------------------------------------------
(* Batch and Engine::apply_batch. *)

\* K(x) is written V(x), for each x of S.
Puts(S, K(_), V(_)) == [k \in {K(x) : x \in S} |-> V(CHOOSE x \in S : K(x) = k)]
Put(k, v) == [x \in {k} |-> v]
Dels(S) == [k \in S |-> Absent]
Nothing == [k \in {} |-> Absent]

\* The writes of b, and those of c to other keys.
b ++ c == [k \in DOMAIN b \cup DOMAIN c |-> IF k \in DOMAIN b THEN b[k] ELSE c[k]]

Apply(store, batch) == [k \in Keys |-> IF k \in DOMAIN batch THEN batch[k] ELSE store[k]]

\* A commit after which the memtable is flushed empties the log.
Commits(batch) ==
    /\ kv' = Apply(kv, batch)
    /\ disk' \in {Apply(disk, batch), kv'}

Fails(batch) ==
    \/ "rejected" \in Faults /\ UNCHANGED <<kv, disk>>
    \/ "unsynced" \in Faults /\ kv' = kv /\ disk' = Apply(disk, batch)
    \/ "applied"  \in Faults /\ kv' = Apply(kv, batch) /\ disk' = Apply(disk, batch)

Memories(a) == {i \in Ids : kv[Rec(a, i)] # Absent}
Records     == {m \in Agents \X Ids : m[2] \in Memories(m[1])}

-----------------------------------------------------------------------------
(* The statistics: read, changed and written whole. *)

LoadStats(a) == IF kv[Stats(a)] = Absent THEN [docs |-> 0, terms |-> 0] ELSE kv[Stats(a)]

Total(f) == MapThenSumSet(LAMBDA x : f[x], DOMAIN f)

Minus(m, n) == IF n <= m THEN m - n ELSE 0

\* stage_insert_many: docs gives the number of terms by vector id.
StageInsert(a, docs) ==
    LET D == {v \in DOMAIN docs : docs[v] > 0}
        s == LoadStats(a)
    IN IF D = {} THEN Nothing
       ELSE Puts(D, LAMBDA v : Doc(a, v), LAMBDA v : docs[v])
            ++ Put(Stats(a), [docs  |-> s.docs + Cardinality(D),
                              terms |-> s.terms + Total([v \in D |-> docs[v]])])

\* (Faulty: as if each document were staged by itself in one batch.)
StageDeleteOne(a, V) ==
    LET D == {v \in V : kv[Doc(a, v)] # Absent}
        s == LoadStats(a)
        x == CHOOSE v \in D : TRUE
    IN IF D = {} THEN Nothing
       ELSE Dels({Doc(a, v) : v \in D})
            ++ Put(Stats(a), [docs |-> Minus(s.docs, 1), terms |-> Minus(s.terms, kv[Doc(a, x)])])

\* stage_delete_many.
StageDelete(a, V) ==
    LET D == {v \in V : kv[Doc(a, v)] # Absent}
        s == LoadStats(a)
    IN IF D = {} THEN Nothing
       ELSE Dels({Doc(a, v) : v \in D})
            ++ Put(Stats(a), [docs  |-> Minus(s.docs, Cardinality(D)),
                              terms |-> Minus(s.terms, Total([v \in D |-> kv[Doc(a, v)]]))])

-----------------------------------------------------------------------------
Init ==
    /\ kv = [k \in Keys |-> Absent] /\ disk = kv
    /\ next = 0 /\ pc = "closed" /\ who = Nobody /\ todo = {}
    /\ repairing = FALSE /\ lost = {}

\* put, put_many: one batch; refused if a record exists or an allocated id is live.
Item   == [id : Ids, until : Times \cup {Never}, terms : Lengths]
Groups == {s \in UNION {[1 .. n -> Item] : n \in 1 .. GroupSize} :
              \A m, n \in DOMAIN s : s[m].id = s[n].id => m = n}

\* (Faulty: the allocator record is written before it is bumped.)
PutBatchEarly(a, s) ==
    LET N == DOMAIN s
        vec(n) == next + n - 1
    IN Puts(N, LAMBDA n : Rec(a, s[n].id),
               LAMBDA n : [vec |-> vec(n), until |-> s[n].until, terms |-> s[n].terms])
       ++ Puts(N, LAMBDA n : Map(vec(n)), LAMBDA n : <<a, s[n].id>>)
       ++ Puts(N, LAMBDA n : Node(vec(n)), LAMBDA n : "live")
       ++ Put(Alloc, next)

PutBatch(a, s) ==
    LET N      == DOMAIN s
        vec(n) == next + n - 1
    IN Puts(N, LAMBDA n : Rec(a, s[n].id),
               LAMBDA n : [vec |-> vec(n), until |-> s[n].until, terms |-> s[n].terms])
       ++ Puts(N, LAMBDA n : Map(vec(n)), LAMBDA n : <<a, s[n].id>>)
       ++ Puts(N, LAMBDA n : Node(vec(n)), LAMBDA n : "live")
       ++ Puts({n \in N : s[n].until # Never},
               LAMBDA n : Exp(a, s[n].until, s[n].id), LAMBDA n : "set")
       ++ StageInsert(a, [v \in {vec(n) : n \in N} |-> s[v - next + 1].terms])
       ++ Put(Alloc, next + Len(s)) ++ Put(Reg(a), "set")

PutMany(a, s) ==
    /\ pc = "idle"
    /\ next + Len(s) <= MaxVec + 1
    /\ \A n \in DOMAIN s : s[n].id \notin Memories(a) /\ kv[Node(next + n - 1)] # "live"
    /\ \/ /\ Commits(PutBatch(a, s)) /\ next' = next + Len(s)
          /\ lost' = lost \ {next + n - 1 : n \in DOMAIN s}
       \/ Fails(PutBatch(a, s)) /\ UNCHANGED <<next, lost>>
    /\ UNCHANGED <<pc, who, todo, repairing>>

\* (Faulty: the entry of the previous valid_until stays.)
UpdateKeepsOld(a, i, until) ==
    /\ pc = "idle" /\ i \in Memories(a)
    /\ Commits(Put(Rec(a, i), [kv[Rec(a, i)] EXCEPT !.until = until])
               ++ (IF until = Never THEN Nothing ELSE Put(Exp(a, until, i), "set")))
    /\ UNCHANGED <<next, pc, who, todo, repairing, lost>>

UpdateBatch(a, i, until) ==
    LET old == kv[Rec(a, i)].until
    IN Put(Rec(a, i), [kv[Rec(a, i)] EXCEPT !.until = until])
       ++ (IF until \in {old, Never} THEN Nothing ELSE Put(Exp(a, until, i), "set"))
       ++ (IF old \in {until, Never} THEN Nothing ELSE Dels({Exp(a, old, i)}))

\* update (invalidate, set_importance); touch_last_access leaves valid_until alone.
Update(a, i, until) ==
    /\ pc = "idle" /\ i \in Memories(a)
    /\ Commits(UpdateBatch(a, i, until)) \/ Fails(UpdateBatch(a, i, until))
    /\ UNCHANGED <<next, pc, who, todo, repairing, lost>>

-----------------------------------------------------------------------------
(* forget, forget_many and purge_agent. *)

\* (Faulty: the vectors are left to a later batch.)
ForgetBatchHalf(a, I) ==
    LET V == {kv[Rec(a, i)].vec : i \in I}
    IN Dels({Rec(a, i) : i \in I} \cup {Map(v) : v \in V}) ++ StageDelete(a, V)

ForgetBatch(a, I) ==
    LET V == {kv[Rec(a, i)].vec : i \in I}
    IN Dels({Rec(a, i) : i \in I} \cup {Map(v) : v \in V}
            \cup {Exp(a, kv[Rec(a, i)].until, i) : i \in {i \in I : kv[Rec(a, i)].until # Never}})
       ++ StageDelete(a, V)
       ++ Puts({v \in V : kv[Node(v)] = "live"}, Node, LAMBDA v : "dead")

\* The call begins: absent ids are skipped.
StartForget(a, I) ==
    /\ pc = "idle" /\ I \subseteq Memories(a) /\ I # {}
    /\ pc' = "forget" /\ who' = a /\ todo' = I
    /\ UNCHANGED <<kv, disk, next, repairing, lost>>

StartPurge(a) ==
    /\ pc = "idle"
    /\ pc' = "purge" /\ who' = a /\ todo' = Memories(a)
    /\ UNCHANGED <<kv, disk, next, repairing, lost>>

Returns == pc' = "idle" /\ who' = Nobody /\ todo' = {}

\* A chunk is cut by its count or its bytes; an error ends the call.
ForgetChunk ==
    /\ pc = "forget"
    /\ \E I \in SUBSET todo :
          /\ I # {} /\ Cardinality(I) <= MaxItems
          /\ \/ /\ Commits(ForgetBatch(who, I))
                /\ IF I = todo THEN Returns
                   ELSE todo' = todo \ I /\ UNCHANGED <<pc, who>>
             \/ Fails(ForgetBatch(who, I)) /\ Returns
    /\ UNCHANGED <<next, repairing, lost>>

\* One memory after the other, and the registry entry last.
PurgeOne ==
    /\ pc = "purge"
    /\ \E i \in todo :
          \/ /\ Commits(ForgetBatch(who, {i}))
             /\ todo' = todo \ {i} /\ UNCHANGED <<pc, who>>
          \/ Fails(ForgetBatch(who, {i})) /\ Returns
    /\ UNCHANGED <<next, repairing, lost>>

\* (Faulty: the registry entry goes first.)
PurgeRegistryFirst ==
    /\ pc = "purge"
    /\ Commits(Dels({Reg(who)}))
    /\ UNCHANGED <<next, pc, who, todo, repairing, lost>>

PurgeRegistry ==
    /\ pc = "purge" /\ todo = {}
    /\ Commits(Dels({Reg(who)})) \/ Fails(Dels({Reg(who)}))
    /\ Returns
    /\ UNCHANGED <<next, repairing, lost>>

\* PersistentVectorIndex::consolidate removes tombstoned nodes, some of them where
\* it is cut short.
Dead == {v \in VecIds : kv[Node(v)] = "dead"}
Consolidate ==
    /\ pc = "idle"
    /\ \E V \in SUBSET Dead : V # {} /\ Commits(Dels({Node(v) : v \in V}))
    /\ UNCHANGED <<next, pc, who, todo, repairing, lost>>

-----------------------------------------------------------------------------
(* Closing, dying, opening. *)

Stop ==
    /\ pc # "closed"
    /\ disk' \in IF pc = "idle" THEN {disk, kv} ELSE {disk}
    /\ kv' = disk'
    /\ next' = 0 /\ pc' = "closed" /\ who' = Nobody /\ todo' = {}
    /\ UNCHANGED <<repairing, lost>>

\* The allocator record goes bad while the store is closed.
Rot ==
    /\ pc = "closed" /\ kv[Alloc] \notin {Absent, Corrupt}
    /\ kv' = [kv EXCEPT ![Alloc] = Corrupt] /\ disk' = kv'
    /\ UNCHANGED <<next, pc, who, todo, repairing, lost>>

Highest(V) == CHOOSE v \in V : \A u \in V : u <= v
After(V) == IF V = {} THEN 0 ELSE Highest(V) + 1

\* Vector ids in use.
Used(store) == {v \in VecIds : store[Node(v)] # Absent \/ store[Map(v)] # Absent}

\* open, heal_next_vec_id.
Open ==
    /\ pc = "closed" /\ pc' = "idle"
    /\ next' = IF kv[Alloc] \in {Absent, Corrupt} THEN After(Used(kv)) ELSE kv[Alloc]
    /\ UNCHANGED <<kv, disk, who, todo, repairing, lost>>

-----------------------------------------------------------------------------
(* rebuild_indexes (store/repair.rs), run on a store nobody has open. *)

VecOf(m) == kv[Rec(m[1], m[2])].vec

\* rebuild_memory_mappings.
RepairMappings ==
    /\ pc = "closed"
    /\ \A m, n \in Records : VecOf(m) = VecOf(n) => m = n
    /\ LET b == Puts(Records, LAMBDA m : Map(VecOf(m)), LAMBDA m : m)
                ++ Put(Alloc, After({VecOf(m) : m \in Records}))
                ++ Dels({Map(v) : v \in VecIds})
       IN \/ Commits(b) /\ pc' = "fts" /\ repairing' = TRUE
          \/ Fails(b) /\ UNCHANGED <<pc, repairing>>
    /\ UNCHANGED <<next, who, todo, lost>>

\* rebuild_fts: everything goes, then each record is staged by itself.
RepairFts ==
    /\ pc = "fts"
    /\ LET b == Dels({Doc(a, v) : a \in Agents, v \in VecIds} \cup {Stats(a) : a \in Agents})
       IN \/ Commits(b) /\ pc' = "docs" /\ todo' = Records
          \/ Fails(b) /\ pc' = "closed" /\ UNCHANGED todo
    /\ UNCHANGED <<next, who, repairing, lost>>

RepairDoc ==
    /\ pc = "docs"
    /\ \E m \in todo :
          LET b == StageInsert(m[1], Put(VecOf(m), kv[Rec(m[1], m[2])].terms))
          IN \/ Commits(b) /\ todo' = todo \ {m} /\ UNCHANGED pc
             \/ Fails(b) /\ todo' = {} /\ pc' = "closed"
    /\ UNCHANGED <<next, who, repairing, lost>>

\* RebuildReport::reembedding_required.
Missing == {m \in Records : kv[Node(VecOf(m))] # "live"}

\* reembed_missing_container goes on with what rebuild_indexes found missing.
ReembedMissing == pc' = "missing" /\ todo' = Missing

\* PersistentVectorIndex::rebuild drops the tombstoned nodes.
RepairVectors ==
    /\ pc = "docs" /\ todo = {}
    /\ LET b == Dels({Node(v) : v \in Dead})
       IN \/ /\ Commits(b) /\ repairing' = FALSE
             /\ \/ pc' = "closed" /\ UNCHANGED todo
                \/ ReembedMissing
          \/ Fails(b) /\ pc' = "closed" /\ UNCHANGED <<repairing, todo>>
    /\ UNCHANGED <<next, who, lost>>

-----------------------------------------------------------------------------
(* Embedding again (crates/basemyai/src/storage/integrity.rs), on a store  *)
(* nobody has open.                                                        *)

\* reembed_ids_container; an id without a record is passed over.  Bound: a call
\* that was cut short is followed by reembed_missing_container only.
ReembedIds(a, I) ==
    /\ pc = "closed" /\ lost = {}
    /\ pc' = "reembed" /\ todo' = Records \cap ({a} \X I)
    /\ UNCHANGED <<kv, disk, next, who, repairing, lost>>

\* reembed_all_container.
ReembedAll(a) == ReembedIds(a, Memories(a))

\* reembed_targets: the vector of one record after the other is deleted, where it
\* is live,
DeleteVector ==
    /\ pc \in {"reembed", "missing"} /\ who = Nobody
    /\ \E m \in todo :
          LET v == VecOf(m)
              b == IF kv[Node(v)] = "live" THEN Put(Node(v), "dead") ELSE Nothing
          IN \/ Commits(b) /\ who' = m /\ lost' = lost \cup {v} /\ UNCHANGED <<pc, todo>>
             \/ Fails(b) /\ pc' = "closed" /\ todo' = {} /\ UNCHANGED <<who, lost>>
    /\ UNCHANGED <<next, repairing>>

\* (Faulty: under a new vector id.)
InsertElsewhere ==
    /\ pc \in {"reembed", "missing"} /\ who # Nobody
    /\ \E v \in VecIds : kv[Node(v)] = Absent /\ Commits(Put(Node(v), "live"))
    /\ todo' = todo \ {who} /\ lost' = lost \ {VecOf(who)} /\ who' = Nobody
    /\ UNCHANGED <<pc, next, repairing>>

\* and a new one inserted under the same vector id.
InsertVector ==
    /\ pc \in {"reembed", "missing"} /\ who # Nobody
    /\ LET b == Put(Node(VecOf(who)), "live")
       IN \/ /\ Commits(b)
             /\ todo' = todo \ {who} /\ lost' = lost \ {VecOf(who)} /\ UNCHANGED pc
          \/ Fails(b) /\ pc' = "closed" /\ todo' = {} /\ UNCHANGED lost
    /\ who' = Nobody
    /\ UNCHANGED <<next, repairing>>

\* The call ends; nothing is missing then, if that is what it was for.
Reembedded ==
    /\ pc \in {"reembed", "missing"} /\ todo = {} /\ pc' = "closed"
    /\ lost' = IF pc = "missing" THEN {} ELSE lost
    /\ UNCHANGED <<kv, disk, next, who, todo, repairing>>

Next ==
    \/ \E a \in Agents :
          \/ \E s \in Groups : PutMany(a, s)
          \/ \E i \in Ids, t \in Times \cup {Never} : Update(a, i, t)
          \/ \E I \in SUBSET Ids : Cardinality(I) <= GroupSize /\ StartForget(a, I)
          \/ \E i \in Ids : ReembedIds(a, {i})
          \/ StartPurge(a) \/ ReembedAll(a)
    \/ ForgetChunk \/ PurgeOne \/ PurgeRegistry \/ Consolidate
    \/ Stop \/ Rot \/ Open
    \/ RepairMappings \/ RepairFts \/ RepairDoc \/ RepairVectors
    \/ DeleteVector \/ InsertVector \/ Reembedded

Spec == Init /\ [][Next]_vars

-----------------------------------------------------------------------------
(* Properties: what opening the store at this moment would show. *)

\* Every key holds a value of its kind, and the handle's counter is in range.
TypeOK ==
    /\ \A k \in Keys : {kv[k], disk[k]} \subseteq Value(k) \cup {Absent}
    /\ next \in 0 .. MaxVec + 1
    /\ pc \in {"closed", "idle", "forget", "purge", "fts", "docs", "reembed", "missing"}
    /\ who \in Agents \cup (Agents \X Ids) \cup {Nobody}
    /\ todo \subseteq Ids \cup (Agents \X Ids)
    /\ repairing \in BOOLEAN /\ lost \subseteq VecIds

Present(m) == disk[Rec(m[1], m[2])] # Absent
DiskVec(m) == disk[Rec(m[1], m[2])].vec

\* check_memory_links: no two records share a vector id, a record, its mapping and
\* its live vector node exist together, and no live node is without a mapping.  Only
\* a reembedding that was cut short, while the records it was at had no vector,
\* leaves a record without, and reembed_missing_container gives it one again.
LinksAgree ==
    /\ \A m \in Agents \X Ids : Present(m) =>
          /\ disk[Map(DiskVec(m))] = m
          /\ disk[Node(DiskVec(m))] = "live" \/ DiskVec(m) \in lost
    /\ \A v \in VecIds :
          /\ disk[Map(v)] # Absent => Present(disk[Map(v)]) /\ DiskVec(disk[Map(v)]) = v
          /\ disk[Node(v)] = "live" => disk[Map(v)] # Absent

\* An allocator that would be trusted is above every live or mapped vector id,
\* and above the tombstoned ones too unless rebuild_indexes was cut short.
AllocatorFresh ==
    disk[Alloc] \notin {Absent, Corrupt} =>
        /\ \A v \in VecIds : disk[Node(v)] = "live" \/ disk[Map(v)] # Absent => v < disk[Alloc]
        /\ ~repairing => \A v \in Used(disk) : v < disk[Alloc]

\* check_fts: documents belong to the agent their vector id is mapped to; and every
\* record with terms has its document unless rebuild_indexes was cut short.
DocumentsAgree ==
    /\ \A a \in Agents, v \in VecIds :
          disk[Doc(a, v)] # Absent => disk[Map(v)] # Absent /\ disk[Map(v)][1] = a
    /\ ~repairing => \A a \in Agents, i \in Ids :
          Present(<<a, i>>) /\ disk[Rec(a, i)].terms > 0 => disk[Doc(a, DiskVec(<<a, i>>))] # Absent

\* check_fts: the statistics the ranking divides by count the documents there are
\* and their terms, whatever was staged, replaced or dropped since.
StatisticsAgree ==
    \A a \in Agents :
        LET D == {v \in VecIds : disk[Doc(a, v)] # Absent}
            s == IF disk[Stats(a)] = Absent THEN [docs |-> 0, terms |-> 0] ELSE disk[Stats(a)]
        IN s = [docs |-> Cardinality(D), terms |-> Total([v \in D |-> disk[Doc(a, v)]])]

\* The expiry index lists exactly the valid_until of the records.
ExpiryAgrees ==
    \A a \in Agents, i \in Ids, t \in Times :
        disk[Exp(a, t, i)] # Absent <=> Present(<<a, i>>) /\ disk[Rec(a, i)].until = t

\* An agent with a memory is registered.
Registered == \A m \in Agents \X Ids : Present(m) => disk[Reg(m[1])] # Absent

\* What the text search, the collector of expired memories and the listings by
\* agent read is what the records say, whatever batch was the last one before a
\* kill and however a purge was cut short.
SidecarsAgree == DocumentsAgree /\ ExpiryAgrees /\ Registered
===============================================================================
