---------------------------- MODULE IndexFormats ----------------------------
(***************************************************************************)
(* The records the indexes keep as values in the engine: memories, vector  *)
(* ids and their allocator (idx/memory), words and statistics (idx/fts),   *)
(* entities and edges (idx/graph), nodes and the vector index's metadata   *)
(* (idx/vector).  Strings are sequences of bytes; an encoder refuses what  *)
(* its length fields cannot hold.                                          *)
(***************************************************************************)
EXTENDS Wire, Widths

CONSTANT U16  \* the largest number a field of two bytes holds
ASSUME WidthAssumption == U16 \in Nat /\ U32 \in Nat /\ U16 < U32

MEMORY == 301
VECMAP == 302
MEMORY_META == 303
DOCTERMS == 304
POSTING == 305
STATS == 306
ENTITY == 307
EDGE == 308
NODE == 309
VECTOR_META == 310

(* The fields after the prologue, when the text after them has exactly the *)
(* length they declare.                                                    *)
Fields(buf, n) == Reads(buf, 2, n)
Exactly(buf, fixed, texts) == Len(buf) = 2 + fixed + texts + 1

(* -------------------------------- idx/memory --------------------------- *)
EncodeMemoryRecord(r) ==
    IF Len(r.layer) > U16 \/ Len(r.content) > U32 \/ Len(r.source) > U16 THEN Refused("too long")
    ELSE Got(Checked(Nums(
           <<MEMORY, 1, Len(r.layer), Len(r.content), Len(r.source), r.valid_from>> \o Until(r.valid_until)
           \o <<r.importance, r.last_access, r.vec_id>> \o r.layer \o r.content \o r.source)))

DecodeMemoryRecord(buf) ==
    LET why == Opening(buf, Len(buf) >= 12, MEMORY, 1)
        f == Fields(buf, 9)
    IN IF why # "" THEN Refused(why)
       ELSE IF f[5] > 1 THEN Refused("has_valid_until")
       ELSE IF ~Exactly(buf, 9, f[1] + f[2] + f[3]) THEN Refused("length")
       ELSE Got([layer |-> Reads(buf, 11, f[1]),
                 content |-> Reads(buf, 11 + f[1], f[2]),
                 source |-> Reads(buf, 11 + f[1] + f[2], f[3]),
                 valid_from |-> f[4], valid_until |-> ReadUntil(f[5], f[6]),
                 importance |-> f[7], last_access |-> f[8], vec_id |-> f[9]])

EncodeVecMap(e) ==
    IF Len(e.agent) > U32 \/ Len(e.id) > U32 THEN Refused("too long")
    ELSE Got(Checked(Nums(<<VECMAP, 1, Len(e.agent), Len(e.id)>> \o e.agent \o e.id)))

DecodeVecMap(buf) ==
    LET why == Opening(buf, Len(buf) >= 5, VECMAP, 1)
        f == Fields(buf, 2)
    IN IF why # "" THEN Refused(why)
       ELSE IF ~Exactly(buf, 2, f[1] + f[2]) THEN Refused("length")
       ELSE Got([agent |-> Reads(buf, 4, f[1]), id |-> Reads(buf, 4 + f[1], f[2])])

EncodeMemoryIndexMeta(m) == Got(Checked(Nums(<<MEMORY_META, 1, m.next_vec_id>>)))

DecodeMemoryIndexMeta(buf) ==
    LET why == Opening(buf, Len(buf) = 4, MEMORY_META, 1)
    IN IF why # "" THEN Refused(why) ELSE Got([next_vec_id |-> Read(buf[3])])

(* ---------------------------------- idx/fts ---------------------------- *)
EncodeDocTerms(d) ==
    IF Len(d) > U32 \/ \E i \in DOMAIN d : Len(d[i].term) > U16 THEN Refused("too long")
    ELSE Got(Checked(Nums(<<DOCTERMS, 1, Len(d)>>
           \o FlattenSeq([i \in DOMAIN d |-> <<Len(d[i].term), d[i].tf>> \o d[i].term]))))

DecodeDocTerm(buf, end, c) ==
    LET n == Read(buf[c.at + 1])
    IN IF c.at + 2 > end THEN Stopped(c, "truncated header")
       ELSE IF c.at + 2 + n > end THEN Stopped(c, "truncated term")
       ELSE ReadEntry(c, 2 + n, [term |-> Reads(buf, c.at + 2, n), tf |-> Read(buf[c.at + 2])])

DecodeDocTerms(buf) ==
    LET why == Opening(buf, Len(buf) >= 4, DOCTERMS, 1)
        end == Len(buf) - 1
        One(c) == DecodeDocTerm(buf, end, c)
    IN IF why # "" THEN Refused(why) ELSE Entries(One, Read(buf[3]), 3, end, 2)

EncodePosting(p) == Got(Checked(Nums(<<POSTING, 1, p.tf>>)))

DecodePosting(buf) ==
    LET why == Opening(buf, Len(buf) = 4, POSTING, 1)
    IN IF why # "" THEN Refused(why) ELSE Got([tf |-> Read(buf[3])])

EncodeStats(s) == Got(Checked(Nums(<<STATS, 1, s.doc_count, s.total_terms>>)))

DecodeStats(buf) ==
    LET why == Opening(buf, Len(buf) = 5, STATS, 1)
        f == Fields(buf, 2)
    IN IF why # "" THEN Refused(why) ELSE Got([doc_count |-> f[1], total_terms |-> f[2]])

(* --------------------------------- idx/graph --------------------------- *)
EncodeEntity(e) ==
    IF Len(e.kind) > U16 \/ Len(e.label) > U32 THEN Refused("too long")
    ELSE Got(Checked(Nums(<<ENTITY, 1, Len(e.kind), Len(e.label), e.valid_from>>
                          \o Until(e.valid_until) \o e.kind \o e.label)))

DecodeEntity(buf) ==
    LET why == Opening(buf, Len(buf) >= 8, ENTITY, 1)
        f == Fields(buf, 5)
    IN IF why # "" THEN Refused(why)
       ELSE IF f[4] > 1 THEN Refused("has_valid_until")
       ELSE IF ~Exactly(buf, 5, f[1] + f[2]) THEN Refused("length")
       ELSE Got([kind |-> Reads(buf, 7, f[1]), label |-> Reads(buf, 7 + f[1], f[2]),
                 valid_from |-> f[3], valid_until |-> ReadUntil(f[4], f[5])])

EncodeEdge(e) == Got(Checked(Nums(<<EDGE, 1, e.weight, e.valid_from>> \o Until(e.valid_until))))

DecodeEdge(buf) ==
    LET why == Opening(buf, Len(buf) = 7, EDGE, 1)
        f == Fields(buf, 4)
    IN IF why # "" THEN Refused(why)
       ELSE IF f[3] > 1 THEN Refused("has_valid_until")
       ELSE Got([weight |-> f[1], valid_from |-> f[2], valid_until |-> ReadUntil(f[3], f[4])])

(* -------------------------------- idx/vector --------------------------- *)
EncodeNode(n) ==
    IF Len(n.vector) > U16 \/ Len(n.neighbors) > U16 THEN Refused("too long")
    ELSE Got(Checked(Nums(<<NODE, 2, IF n.deleted THEN 1 ELSE 0, Len(n.vector), Len(n.neighbors)>>
                          \o n.vector \o n.neighbors)))

(* Faulty: flags of a later build are passed over.                         *)
DecodeNodeAnyFlag(buf) ==
    LET why == Opening(buf, Len(buf) >= 6, NODE, 2)
        f == Fields(buf, 3)
    IN IF why # "" THEN Refused(why)
       ELSE IF ~Exactly(buf, 3, f[2] + f[3]) THEN Refused("length")
       ELSE Got([vector |-> Reads(buf, 5, f[2]), neighbors |-> Reads(buf, 5 + f[2], f[3]),
                 deleted |-> f[1] = 1])

(* One flag is known; a buffer with any other is of a later build.         *)
DecodeNode(buf) ==
    LET why == Opening(buf, Len(buf) >= 6, NODE, 2)
        f == Fields(buf, 3)
    IN IF why # "" THEN Refused(why)
       ELSE IF f[1] \notin {0, 1} THEN Refused("flags")
       ELSE IF ~Exactly(buf, 3, f[2] + f[3]) THEN Refused("length")
       ELSE Got([vector |-> Reads(buf, 5, f[2]), neighbors |-> Reads(buf, 5 + f[2], f[3]),
                 deleted |-> f[1] = 1])

EncodeVectorMeta(m) ==
    IF m.dim > U16 \/ m.max_degree > U16 \/ m.beam_width > U16 THEN Refused("too long")
    ELSE Got(Checked(Nums(<<VECTOR_META, 1, m.dim, m.max_degree, m.beam_width, m.alpha, m.epoch, m.count,
                            IF m.entry_point = None THEN 0 ELSE m.entry_point[1]>>)))

(* There is an entry point exactly when there are nodes.                   *)
DecodeVectorMeta(buf) ==
    LET why == Opening(buf, Len(buf) = 10, VECTOR_META, 1)
        f == Fields(buf, 7)
    IN IF why # "" THEN Refused(why)
       ELSE Got([dim |-> f[1], max_degree |-> f[2], beam_width |-> f[3], alpha |-> f[4],
                 epoch |-> f[5], count |-> f[6],
                 entry_point |-> IF f[6] > 0 THEN Some(f[7]) ELSE None])
=============================================================================
