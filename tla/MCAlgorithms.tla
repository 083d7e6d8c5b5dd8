---- MODULE MCAlgorithms ----
EXTENDS Algorithms

Sample(codec, v) == [codec |-> codec, value |-> v, fits |-> TRUE]
Overlong(codec, v) == [codec |-> codec, value |-> v, fits |-> FALSE]
Long(n) == [i \in 1..n |-> 1]

Entry(k, v) == [key |-> k, value |-> v]
Section(a, b, o, l, n, t) ==
    [first_key |-> a, last_key |-> b, offset |-> o, len |-> l, entry_count |-> n, tombstone_count |-> t]
Memory(layer, content, source, until) ==
    [layer |-> layer, content |-> content, source |-> source, valid_from |-> 3, valid_until |-> until,
     importance |-> 1, last_access |-> 4, vec_id |-> 2]

Values == <<
    Sample("SstHeader", [sst_id |-> 1, block_size |-> 4, entry_count |-> 2, dim |-> 0]),
    Sample("SstHeader", [sst_id |-> 0, block_size |-> 1, entry_count |-> 0, dim |-> 3]),
    Sample("SstDataBlock", <<>>),
    Sample("SstDataBlock", <<Entry(<<>>, None)>>),
    Sample("SstDataBlock", <<Entry(<<1>>, Some(<<2, 3>>)), Entry(<<1, 0>>, None), Entry(<<2>>, Some(<<>>))>>),
    Overlong("SstDataBlock", <<Entry(Long(U32 + 1), Some(<<2>>))>>),
    Overlong("SstDataBlock", <<Entry(<<1>>, Some(Long(U32 + 1)))>>),
    Sample("SstBlockIndex", <<>>),
    Overlong("SstBlockIndex", <<Section(Long(U32 + 1), <<2>>, 7, 9, 1, 0)>>),
    Sample("SstBlockIndex", <<Section(<<1>>, <<1, 2>>, 7, 9, 2, 1), Section(<<2>>, <<2>>, 16, 8, 1, 0)>>),
    Sample("SstBloomFilter", [num_bits |-> 9, num_hashes |-> 2, bits |-> <<1, 0>>]),
    Sample("SstBloomFilter", [num_bits |-> 0, num_hashes |-> 1, bits |-> <<>>]),
    Sample("SstFooter", [index_offset |-> 9, index_len |-> 4, bloom_offset |-> 13, bloom_len |-> 5, block_count |-> 1]),
    Sample("StoreMeta", [store_format_version |-> 2]),
    Sample("CryptoMeta", [salt |-> 5, wrap_nonce |-> 6, wrapped_dek |-> SealWith(1, <<1>>, 6, Nums(<<8>>))]),
    Sample("MemoryRecord", Memory(<<1>>, <<2, 3>>, <<>>, None)),
    Sample("MemoryRecord", Memory(<<1>>, <<>>, <<4>>, Some(7))),
    Sample("MemoryRecord", Memory(<<1>>, Long(U32), <<4>>, Some(0))),
    Overlong("MemoryRecord", Memory(<<1, 1, 1, 1>>, <<>>, <<>>, None)),
    Overlong("MemoryRecord", Memory(<<1>>, Long(U32 + 1), <<>>, None)),
    Sample("MemoryVecMap", [agent |-> <<1>>, id |-> <<2, 2>>]),
    Overlong("MemoryVecMap", [agent |-> <<1>>, id |-> Long(U32 + 1)]),
    Sample("MemoryIndexMeta", [next_vec_id |-> 3]),
    Sample("FtsDocTerms", <<>>),
    Sample("FtsDocTerms", <<[term |-> <<1, 2>>, tf |-> 2], [term |-> <<3>>, tf |-> 1]>>),
    Overlong("FtsDocTerms", <<[term |-> <<1, 2, 1, 2>>, tf |-> 2]>>),
    Sample("FtsPosting", [tf |-> 2]),
    Sample("FtsStats", [doc_count |-> 2, total_terms |-> 5]),
    Sample("GraphEntity", [kind |-> <<1>>, label |-> <<2, 2>>, valid_from |-> 1, valid_until |-> None]),
    Sample("GraphEntity", [kind |-> <<>>, label |-> <<2>>, valid_from |-> 1, valid_until |-> Some(2)]),
    Overlong("GraphEntity", [kind |-> <<1, 1, 1, 1>>, label |-> <<2>>, valid_from |-> 1, valid_until |-> Some(2)]),
    Sample("GraphEdge", [weight |-> 1, valid_from |-> 1, valid_until |-> None]),
    Sample("GraphEdge", [weight |-> 1, valid_from |-> 1, valid_until |-> Some(4)]),
    Sample("VectorNode", [vector |-> <<1, 2>>, neighbors |-> <<3>>, deleted |-> FALSE]),
    Sample("VectorNode", [vector |-> <<1>>, neighbors |-> <<>>, deleted |-> TRUE]),
    Overlong("VectorNode", [vector |-> <<1>>, neighbors |-> <<1, 2, 3, 4>>, deleted |-> TRUE]),
    Sample("VectorIndexMeta", [dim |-> 2, max_degree |-> 2, beam_width |-> 2, alpha |-> 1, epoch |-> 1, count |-> 0,
                               entry_point |-> None]),
    Sample("VectorIndexMeta", [dim |-> 2, max_degree |-> 2, beam_width |-> 2, alpha |-> 1, epoch |-> 4, count |-> 1,
                               entry_point |-> Some(1)]),
    Overlong("VectorIndexMeta", [dim |-> 4, max_degree |-> 2, beam_width |-> 2, alpha |-> 1, epoch |-> 4, count |-> 1,
                                entry_point |-> Some(1)])
    >>

Op(op, k, v) == [op |-> op, key |-> k, value |-> v]
One(op) == [batch |-> FALSE, ops |-> <<op>>]
Several(ops) == [batch |-> TRUE, ops |-> ops]
Appends == <<
    <<One(Op(PUT, <<1>>, Some(<<2>>))), Several(<<Op(PUT, <<>>, Some(<<>>)), Op(DELETE, <<1>>, None)>>),
      One(Op(DELETE, <<1, 2>>, None))>>,
    <<Several(<<>>), Several(<<Op(DELETE, <<1>>, None), Op(DELETE, <<1>>, None), Op(DELETE, <<1>>, None)>>),
      One(Op(PUT, <<>>, Some(<<>>)))>>,
    <<One(Op(DELETE, <<>>, None))>>,
    <<>>,
    \* Lengths at their field's limit and past it, of keys, values, batches and sealed records.
    <<One(Op(PUT, <<>>, Some(Long(U32 - 7)))), One(Op(PUT, <<>>, Some(Long(U32 - 6))))>>,
    <<One(Op(PUT, <<>>, Some(Long(U32)))), One(Op(DELETE, <<1>>, None))>>,
    <<One(Op(PUT, <<1>>, Some(<<2>>))), One(Op(PUT, Long(U32 + 1), Some(<<2>>))), One(Op(PUT, <<2>>, Some(<<3>>)))>>,
    <<One(Op(DELETE, <<1>>, None)), Several(<<Op(PUT, <<1>>, Some(Long(U32 + 1))), Op(DELETE, <<1>>, None)>>)>>,
    <<One(Op(DELETE, <<1>>, None)), Several(<<Op(PUT, Long(U32 - 3), Some(<<>>))>>)>>,
    <<One(Op(DELETE, <<1>>, None)), Several(<<Op(PUT, Long(U32 - 4), Some(<<>>))>>)>> >>
Logs == [i \in 1..2 * Len(Appends) |->
           [key |-> IF i > Len(Appends) THEN Some(1) ELSE None, appends |-> Appends[1 + ((i - 1) % Len(Appends))]]]

Format(name, version, fields) == [name |-> name, version |-> version, fields |-> fields]
A1 == Format("a", 1, <<"u8">>)
A2 == Format("a", 2, <<"u8">>)
AWide == Format("a", 1, <<"u16">>)
B1 == Format("b", 1, <<"u8">>)
LockLists == << <<>>, <<A1>>, <<A2>>, <<AWide>>, <<B1>>, <<A1, B1>>, <<B1, A1>>, <<AWide, B1>>, <<B1, A2>> >>
LockFiles == [i \in 1..(Len(LockLists) * Len(LockLists)) |->
               [specs |-> ToSet(LockLists[1 + ((i - 1) \div Len(LockLists))]),
                lock |-> LockLists[1 + ((i - 1) % Len(LockLists))]]]

E1 == Entry(<<1>>, Some(<<2>>))
E10 == Entry(<<1, 0>>, None)
E101 == Entry(<<1, 0, 1>>, Some(<<1>>))
E2 == Entry(<<2>>, Some(<<>>))
EntryLists == << <<>>, <<E10>>, <<E1, E10>>, <<E1, E101, E2>>, <<E1, E10, E101, E2>>, <<E10, E101>>,
                 <<E1, Entry(<<2>>, Some(Long(U32 + 1)))>>, <<Entry(Long(U32 + 1), None), E2>>,
                 [i \in 1..8 |-> Entry(<<i, i>>, None)] >>
Keys == {<<>>, <<1>>, <<1, 0>>, <<1, 0, 1>>, <<1, 1>>, <<2>>, <<2, 0>>}
Others2 == <<Entry(<<1>>, Some(<<3>>)), Entry(<<1, 0>>, Some(<<>>)), Entry(<<2>>, Some(<<>>))>>
Files == [i \in 1..(6 * Len(EntryLists)) |->
            [entries |-> EntryLists[1 + ((i - 1) % Len(EntryLists))],
             other |-> Others2,
             block_size |-> <<1, 9, 100>>[1 + (((i - 1) \div Len(EntryLists)) % 3)],
             key |-> IF i > 3 * Len(EntryLists) THEN Some(1) ELSE None]]

\* A store as the indexes write it: live memories, deleted vectors, a graph.
Stored(mems, dead, until) ==
    LET M == DOMAIN mems
        vecs == M \cup dead
        Terms(m) == mems[m].terms
        docs == [d \in {Audit!Doc(mems[m].agent, m) : m \in {m \in M : DOMAIN Terms(m) # {}}} |-> <<Terms(d[3])>>]
    IN [k \in {Audit!Rec(mems[m].agent, mems[m].id) : m \in M} |->
          LET m == CHOOSE m \in M : Audit!Rec(mems[m].agent, mems[m].id) = k IN <<[vec |-> m, terms |-> Terms(m)]>>]
       @@ [k \in {Audit!Map(m) : m \in M} |-> <<(<<mems[k[2]].agent, mems[k[2]].id>>)>>]
       @@ (IF vecs = {} THEN <<>> ELSE (Audit!Alloc :> <<Audit!Max(vecs) + 1>>)
             @@ (Audit!VMeta :> <<[dim |-> 2, count |-> Cardinality(M), entry |-> {Audit!Min(vecs)}]>>))
       @@ [k \in {Audit!Node(v) : v \in vecs} |->
             <<[dim |-> 2, neighbors |-> vecs \ {k[2]}, deleted |-> k[2] \in dead]>>]
       @@ docs
       @@ [k \in UNION {{Audit!Post(mems[m].agent, t, m) : t \in DOMAIN Terms(m)} : m \in M} |->
             <<Terms(k[4])[k[3]]>>]
       @@ [k \in {Audit!Stats(mems[m].agent) : m \in M} |-> <<Audit!Recount(docs, k[2])>>]
       @@ [k \in {Audit!Reg(mems[m].agent) : m \in M} |-> <<TRUE>>]
       @@ [k \in {Audit!Exp(mems[m].agent, mems[m].id) : m \in M \cap until} |-> <<TRUE>>]

Memo(a, i, terms) == [agent |-> a, id |-> i, terms |-> terms]
Graph == (Audit!Ent("a", "e") :> <<"e">>) @@ (Audit!Ent("a", "f") :> <<"f">>)
         @@ (Audit!Edge("a", "e", "knows", "f") :> <<1>>)
\* Names that read like the audit's own words for an index.
OddGraph == (Audit!Ent("a", "fts e") :> <<"e">>) @@ (Audit!Ent("a", "f") :> <<"f">>)
            @@ (Audit!Edge("a", "f", "vector index metadata", "fts e") :> <<1>>)
            @@ (Audit!Edge("a", "f", "vector index metadata", "f") :> <<1>>)
OddMemory == (1 :> Memo("a", "fts e", "t" :> 1))
TwoAgents == (1 :> Memo("a", "m", "s" :> 2 @@ "t" :> 1)) @@ (2 :> Memo("a", "n", "t" :> 1))
             @@ (4 :> Memo("b", "m", "t" :> 3))
Silent == (0 :> Memo("a", "m", <<>>))
Foreign == {Audit!Rec("b", "n") :> <<[vec |-> 1, terms |-> "t" :> 1]>>,
            Audit!Rec("a", "m") :> <<[vec |-> 9, terms |-> "t" :> 1]>>,
            Audit!Map(1) :> <<(<<"b", "m">>)>>, Audit!Map(7) :> <<(<<"a", "m">>)>>,
            Audit!Doc("b", 1) :> <<"t" :> 1>>, Audit!Doc("a", 1) :> <<"t" :> 0>>,
            Audit!Post("b", "t", 1) :> <<1>>, Audit!Post("a", "t", 1) :> <<5>>,
            Audit!Stats("a") :> <<[docs |-> 1, terms |-> 4]>>,
            Audit!Node(1) :> <<[dim |-> 3, neighbors |-> {}, deleted |-> FALSE]>>,
            Audit!Node(1) :> <<[dim |-> 2, neighbors |-> {8}, deleted |-> TRUE]>>,
            Audit!Node(9) :> <<[dim |-> 2, neighbors |-> {1}, deleted |-> FALSE]>>,
            Audit!VMeta :> <<[dim |-> 3, count |-> 1, entry |-> {6}]>>,
            <<"zzz">> :> <<1>>}
Case(kv) == [kv |-> kv, others |-> Foreign, agents |-> {"a", "b"}, terms |-> {"s", "t"}]
Stores == << Case(Stored(TwoAgents, {3}, {}) @@ Graph), Case(Stored(TwoAgents, {}, {})),
             Case(Stored(Silent, {1}, {})), Case(Stored(<<>>, {}, {}) @@ Graph),
             Case(Stored(OddMemory, {}, {}) @@ OddGraph) >>
Healthy == << Stored(TwoAgents, {3}, {}) @@ Graph, Stored(Silent, {}, {0}) >>
Image(files, log, block_size, dek) ==
    [files |-> files, log |-> log, block_size |-> block_size, dek |-> dek,
     user |-> IF dek = 0 THEN None ELSE Some(3), strays |-> {"tmp"}]
Images == <<
    Image(<< <<E1, E10>>, <<Entry(<<1>>, None), E2>> >>, <<Entry(<<1, 0>>, Some(<<4>>))>>, 4, 0),
    Image(<< <<E1, E101, E2>> >>, <<Entry(<<2>>, None), Entry(<<2>>, Some(<<1>>))>>, 4, 0),
    Image(<< <<E1, E2>>, <<Entry(<<1>>, None)>> >>, <<Entry(<<1, 0>>, Some(<<4>>))>>, 4, 7) >>
\* Names that begin one another, that look like a length, that end in 0xff (2), and one too long.
Names == << [names |-> {<<>>, <<0>>, <<1>>, <<1, 0>>, <<2>>, <<2, 2>>, Long(U32 + 1)}, ids |-> {0, 1, 5}, times |-> {-3, -1, 0, 2}] >>

\* Graphs of three nodes, one of them not an entity and one that ends at 1: the
\* edges are those of the bits of i, written last first, some of them twice.
Pairs == << <<1, 2>>, <<2, 3>>, <<3, 1>>, <<2, 1>>, <<1, 3>>, <<3, 2>>, <<1, 4>>, <<4, 3>> >>
EdgeOf(i, j) == Search!EdgeWrite(Pairs[j][1], (i + j) % 2, Pairs[j][2], IF (i \div 3 + j) % 3 = 0 THEN 1 ELSE Forever)
EdgesOf(i) == SelectSeq([j \in 1..Len(Pairs) |-> [j |-> j, edge |-> EdgeOf(i, 9 - j)]],
                        LAMBDA x : (i \div (2 ^ (x.j - 1))) % 2 = 1)
Graphs == [i \in 1..255 |->
    [writes |-> <<Search!EdgeWrite(1, 0, 2, 1), Search!EntityWrite(1, Forever), Search!EntityWrite(2, 1),
                  Search!EntityWrite(3, Forever)>>
                \o [j \in 1..Len(EdgesOf(i)) |-> EdgesOf(i)[j].edge],
     nodes |-> 1..4, depths |-> 0..3, times |-> {0, 1}]]

\* Memories of two agents, in all layers, past, present and to come, with words that
\* differ in case and accents; a vector without memory and a posting without document.
Chars(w) == [ab |-> <<"a", "b">>, Ab |-> <<"A", "b">>, e |-> <<"e_acute">>, E |-> <<"E_acute">>, s |-> <<"sigma", "a">>,
             S |-> <<"Sigma", "A">>, b |-> <<"b">>][w]
Phrase(ws) == FoldLeft(LAMBDA t, w : t \o Chars(w) \o <<" ">>, <<"-">>, ws)
Kept(agent, id, layer, source, from, until, far, ws) ==
    [agent |-> agent, id |-> id, layer |-> layer, source |-> source, from |-> from, until |-> until,
     far |-> far, text |-> Phrase(ws)]
RecallStore == [
    mems |-> (0 :> Kept("x", 5, "episodic", "user", 0, Forever, 4, <<"ab", "E", "b">>))
          @@ (1 :> Kept("x", 4, "semantic", "import", 1, Forever, 2, <<"Ab", "ab">>))
          @@ (2 :> Kept("x", 3, "procedural", "user", 0, Forever, 1, <<"e">>))
          @@ (3 :> Kept("x", 2, "episodic", "user", 0, 1, 3, <<"S", "e">>))
          @@ (4 :> Kept("x", 1, "short_term", "consolidation", 0, Forever, 6, <<>>))
          @@ (5 :> Kept("y", 5, "episodic", "user", 0, Forever, 0, <<"ab", "s">>)),
    unmapped |-> (7 :> 5),
    stray |-> [x |-> {<< <<"s">>, 9, 1>>, << <<"e">>, 8, 2>>}],
    entities |-> {[agent |-> "x", label |-> Chars("b"), until |-> Forever], [agent |-> "x", label |-> Chars("E"), until |-> 1],
                  [agent |-> "y", label |-> Chars("s"), until |-> Forever]}]
Queries == << <<>>, <<"ab">>, <<"Ab", "e">>, <<"E">>, <<"S", "ab">>, <<"s">>, <<"e", "e", "b">>, <<"b", "E", "s", "ab">> >>
Recalls == [i \in 1..(4 * Len(Queries)) |->
    [store |-> IF i % 2 = 0 THEN RecallStore ELSE [RecallStore EXCEPT !.stray = <<>>],
     agent |-> IF (i \div 2) % 2 = 0 THEN "x" ELSE "y",
     query |-> Phrase(Queries[1 + ((i - 1) \div 4)]),
     ks |-> {0, 1, 3}, times |-> 0..1]]
====
