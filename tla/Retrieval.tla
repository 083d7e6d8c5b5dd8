------------------------------ MODULE Retrieval -----------------------------
(***************************************************************************)
(* What a recall answers: the searches of the native store                 *)
(* (storage/native_store), the fusion of their rankings (retrieval.rs) and *)
(* the recalls of the facade (memory/mod.rs), over the memories of several *)
(* agents.                                                                 *)
(*                                                                         *)
(* A store has its mems (by vector id: agent, id, layer, source, from,     *)
(* until, text, and far, the distance to the vector of the query at hand), *)
(* unmapped vectors (vector id |-> distance) and postings without document *)
(* (stray).  The vector index answers its nearest vectors; the model of    *)
(* VectorIndex says what that one does.                                    *)
(***************************************************************************)
EXTENDS TextSearch

CONSTANTS OVERSAMPLE, RRF_K, Forever

IndexOfAgent(store, agent) ==
    LET mine == {v \in DOMAIN store.mems : store.mems[v].agent = agent}
    IN IndexOf([v \in mine |-> store.mems[v].text], IF agent \in DOMAIN store.stray THEN store.stray[agent] ELSE {})

record_valid_at(m, now) == m.from <= now /\ (m.until = Forever \/ m.until > now)

\* The vectors nearest to the query, of whatever agent.
search_scored(store, n) ==
    LET far == [v \in DOMAIN store.mems |-> store.mems[v].far] @@ store.unmapped
    IN Take(BestFirst(DOMAIN far, [v \in DOMAIN far |-> -far[v]]), n)

Shown(m, layer, now, procedural) ==
    /\ record_valid_at(m, now)
    /\ layer # <<>> => m.layer = layer[1]
    /\ procedural \/ layer # <<>> \/ m.layer # "procedural"

\* search_filtered: the k nearest among OVERSAMPLE * k candidates.
search_filtered(store, agent, k, layer, now, procedural) ==
    Take(SelectSeq(search_scored(store, k * OVERSAMPLE),
                   LAMBDA v : /\ v \in DOMAIN store.mems
                              /\ store.mems[v].agent = agent
                              /\ Shown(store.mems[v], layer, now, procedural)), k)

\* keyword_ranking_ids: the same filter over the documents the words are found in.
keyword_ranking_ids(store, agent, expr, k, now, procedural) ==
    Take(SelectSeq(search_bm25(IndexOfAgent(store, agent), expr, k * OVERSAMPLE),
                   LAMBDA v : v \in DOMAIN store.mems /\ Shown(store.mems[v], <<>>, now, procedural)), k)

\* str::contains.
Substring(text, part) == \E i \in 0..(Len(text) - Len(part)) : SubSeq(text, i + 1, i + Len(part)) = part

\* recall_graph_filtered: the memories that name a visible entity of the agent.
recall_graph_filtered(store, agent, k, now, procedural) ==
    LET labels == {e.label : e \in {x \in store.entities : x.agent = agent /\ (x.until = Forever \/ x.until > now)}}
    IN Take(SelectSeq(search_filtered(store, agent, k * OVERSAMPLE, <<>>, now, procedural),
                      LAMBDA v : \E l \in labels : Substring(store.mems[v].text, l)), k)

-----------------------------------------------------------------------------
\* Each rank of x in the ranking gives 1 / (k + rank), in hundred-millionths.
Gain(scores, ranking) ==
    [x \in DOMAIN scores \cup Range(ranking) |->
        (IF x \in DOMAIN scores THEN scores[x] ELSE 0)
        + SumOf([i \in {j \in DOMAIN ranking : ranking[j] = x} |-> 100000000 \div (RRF_K + i - 1)])]

\* rrf_fuse.
FusedScores(rankings) == FoldLeft(Gain, <<>>, rankings)
rrf_fuse(rankings) == LET scores == FusedScores(rankings) IN BestFirst(DOMAIN scores, scores)

\* apply_recall_options: the filter comes after the k best were taken.
apply_recall_options(store, found, exclude_imported) ==
    SelectSeq(found, LAMBDA v : exclude_imported => store.mems[v].source # "import")

recall(store, agent, k, now, options) ==
    apply_recall_options(store, search_filtered(store, agent, k, <<>>, now, options.procedural), options.exclude_imported)

recall_by_layer(store, agent, layer, k, now) == search_filtered(store, agent, k, <<layer>>, now, TRUE)

\* recall_hybrid: both rankings four times as long; a query without words has one.
HybridRankings(store, agent, query, n, now, procedural) ==
    LET expr == fts_match_expr(query)
    IN << search_filtered(store, agent, n, <<>>, now, procedural),
          IF expr = <<>> THEN <<>> ELSE keyword_ranking_ids(store, agent, expr[1], n, now, procedural) >>

recall_hybrid(store, agent, query, k, now, options) ==
    apply_recall_options(store,
        Take(rrf_fuse(HybridRankings(store, agent, query, 4 * k, now, options.procedural)), k),
        options.exclude_imported)

-----------------------------------------------------------------------------
MineAt(store, agent, now) ==
    {v \in DOMAIN store.mems : store.mems[v].agent = agent /\ record_valid_at(store.mems[v], now)}

Layers == {"short_term", "episodic", "procedural", "semantic"}

\* agent_stats.
agent_stats(store, agent, now) ==
    [l \in Layers |-> Cardinality({v \in MineAt(store, agent, now) : store.mems[v].layer = l})]

\* list_memories: the latest first, equals in the order of their ids.
list_memories(store, agent, layer, limit, invalid, now) ==
    LET mine == {v \in DOMAIN store.mems :
                    /\ store.mems[v].agent = agent
                    /\ invalid \/ record_valid_at(store.mems[v], now)
                    /\ layer # <<>> => store.mems[v].layer = layer[1]}
        Before(v, w) == \/ store.mems[v].from > store.mems[w].from
                        \/ store.mems[v].from = store.mems[w].from /\ store.mems[v].id < store.mems[w].id
    IN Take([i \in 1..Cardinality(mine) |->
                CHOOSE v \in mine : Cardinality({w \in mine : Before(w, v)}) = i - 1], limit)

-----------------------------------------------------------------------------
(* What the answers are checked against.                                   *)

SameLetter(c, d) ==
    c = d \/ \E C \in {{"a", "A"}, {"b", "B"}, {"e", "E", "e_acute", "E_acute"}, {"sigma", "Sigma"}} : {c, d} \subseteq C
SameWord(u, w) == Len(u) = Len(w) /\ \A i \in DOMAIN u : SameLetter(u[i], w[i])
SharesWord(text, words) == \E u \in Range(split(text)), w \in words : SameWord(u, w)

\* A word of the query is searched for letter by letter, but for a capital sigma at
\* its end, which the query lowers in another way than the index.
SearchedWords(query) == Range(Take(split(query), MAX_TERMS))
LoweredAlike(words) == \A w \in words : Len(w) = 1 \/ Last(w) # "Sigma"

Smaller(m, n) == IF m <= n THEN m ELSE n
Distinct(s) == Cardinality(Range(s)) = Len(s)
Before(s, x, y) == IndexFirstSubSeq(<<x>>, s) < IndexFirstSubSeq(<<y>>, s)

\* The documents that share a word with the query, and no others, as long as the
\* candidates suffice; of one word, that which has it more often in no more words first.
FindsWords(store, agent, words, found, k, shared, good) ==
    /\ Range(found) \subseteq good /\ Distinct(found)
    /\ Cardinality(shared) <= k * OVERSAMPLE => Len(found) = Smaller(k, Cardinality(good))
    /\ Cardinality(words) = 1 /\ agent \notin DOMAIN store.stray =>
          \A v, w \in Range(found) :
             LET Of(x) == SelectSeq(split(store.mems[x].text), LAMBDA u : SharesWord(u, words))
             IN Len(Of(v)) > Len(Of(w)) /\ Len(split(store.mems[v].text)) <= Len(split(store.mems[w].text))
                => Before(found, v, w)

KeywordsRight(store, agent, query, k, now, procedural) ==
    LET expr == fts_match_expr(query)
        words == SearchedWords(query)
        shared == {v \in DOMAIN store.mems : store.mems[v].agent = agent /\ SharesWord(store.mems[v].text, words)}
    IN /\ expr = <<>> <=> words = {}
       /\ words # {} /\ LoweredAlike(words) =>
             FindsWords(store, agent, words, keyword_ranking_ids(store, agent, expr[1], k, now, procedural), k, shared,
                        {v \in shared : Shown(store.mems[v], <<>>, now, procedural)})

\* The k nearest of the memories that may be shown, as long as the candidates suffice.
FindsNearest(store, found, k, good) ==
    /\ Range(found) \subseteq good /\ Distinct(found)
    /\ Cardinality(DOMAIN store.mems \cup DOMAIN store.unmapped) <= k * OVERSAMPLE =>
          /\ Len(found) = Smaller(k, Cardinality(good))
          /\ \A v \in Range(found), w \in good \ Range(found) : store.mems[v].far <= store.mems[w].far

VectorsRight(store, agent, layer, k, now, procedural) ==
    FindsNearest(store, search_filtered(store, agent, k, layer, now, procedural), k,
                 {v \in MineAt(store, agent, now) : Shown(store.mems[v], layer, now, procedural)})

\* What is ranked in each ranking no lower than another is fused before it, and the
\* order of the rankings does not matter.
FusionRight(a, b, fused) ==
    /\ Range(fused) = Range(a) \cup Range(b) /\ Distinct(fused)
    /\ rrf_fuse(<<b, a>>) = fused
    /\ \A x, y \in Range(fused) :
          (x # y /\ \A r \in {a, b} : y \in Range(r) => x \in Range(r) /\ Before(r, x, y)) => Before(fused, x, y)

HybridRight(store, agent, query, k, now, options, union, found) ==
    /\ Distinct(found) /\ Len(found) <= k
    /\ \A v \in Range(found) : v \in MineAt(store, agent, now) /\ Shown(store.mems[v], <<>>, now, options.procedural)
    /\ IF options.exclude_imported THEN \A v \in Range(found) : store.mems[v].source # "import"
       ELSE Len(found) = Smaller(k, Cardinality(union))

\* The listing has what the statistics count and what any recall finds.
ListingRight(store, agent, k, now, listed, counts) ==
    /\ Len(listed) = SumOf(counts)
    /\ \A l \in Layers :
          /\ Len(list_memories(store, agent, <<l>>, 100, FALSE, now)) = counts[l]
          /\ Range(recall_by_layer(store, agent, l, k, now))
                \subseteq Range(list_memories(store, agent, <<l>>, 100, FALSE, now))
    /\ \A i, j \in DOMAIN listed : i < j => store.mems[listed[i]].from >= store.mems[listed[j]].from
    /\ list_memories(store, agent, <<>>, k, FALSE, now) = Take(listed, k)

\* A graph search finds what names an entity of the agent, and nothing when it has none.
GraphSearchRight(store, agent, k, now) ==
    \A v \in Range(recall_graph_filtered(store, agent, k, now, FALSE)) :
        /\ Shown(store.mems[v], <<>>, now, FALSE) /\ store.mems[v].agent = agent
        /\ \E e \in store.entities : e.agent = agent /\ (e.until = Forever \/ e.until > now) /\ Substring(store.mems[v].text, e.label)

RankingsRight(store, agent, query, k, now, options, rankings) ==
    /\ FusionRight(rankings[1], rankings[2], rrf_fuse(rankings))
    /\ HybridRight(store, agent, query, k, now, options, Range(rankings[1]) \cup Range(rankings[2]),
                   recall_hybrid(store, agent, query, k, now, options))

SearchRight(store, agent, query, k, now, options) ==
    /\ KeywordsRight(store, agent, query, k, now, options.procedural)
    /\ \A layer \in {<<>>} \cup {<<l>> : l \in Layers} : VectorsRight(store, agent, layer, k, now, options.procedural)
    /\ RankingsRight(store, agent, query, k, now, options,
                     HybridRankings(store, agent, query, 4 * k, now, options.procedural))
    /\ ListingRight(store, agent, k, now, list_memories(store, agent, <<>>, 100, FALSE, now), agent_stats(store, agent, now))
    /\ Range(recall(store, agent, k, now, options)) \subseteq Range(list_memories(store, agent, <<>>, 100, FALSE, now))
    /\ GraphSearchRight(store, agent, k, now)
=============================================================================
