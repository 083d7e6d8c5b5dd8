------------------------------ MODULE KeySpace ------------------------------
(***************************************************************************)
(* The keys of the engine's own data (key/mod.rs).  A key is a sequence of *)
(* words in the order of its bytes: the prefix of its space is one word,   *)
(* so is a length, an id and a time (big-endian numbers, which sort as     *)
(* they are), and so is each byte of a name.                               *)
(***************************************************************************)
EXTENDS SstReads, Widths  \* U32: the longest name

CONSTANTS
    HIGH_BYTE,  \* 0xff
    I64_MAX     \* the latest time

DOCTERMS_PREFIX == 1
FTS_META_PREFIX == 2
POSTINGS_PREFIX == 3
EDGE_PREFIX == 4
ENTITY_PREFIX == 5
RECORD_PREFIX == 6
VECMAP_PREFIX == 7
EXPIRY_PREFIX == 8
NODE_PREFIX == 9
REGISTRY_PREFIX == 10

(* ------------------------------- writing ------------------------------- *)
(* A name that others follow is preceded by its length; "too long" is an   *)
(* error of every key below.                                               *)
PushBare(name) == name      \* faulty: the length is left out
push_len_prefixed(name) == <<Len(name)>> \o name

TooLong(name) == Len(name) > U32
Keyed(names, key) == IF \E i \in DOMAIN names : TooLong(names[i]) THEN Refused("too long") ELSE Got(key)

AgentPrefix(space, agent) == <<space>> \o push_len_prefixed(agent)
NamePrefix(space, agent, name) == AgentPrefix(space, agent) \o push_len_prefixed(name)

node_key(id) == Got(<<NODE_PREFIX, id>>)
vecmap_key(id) == Got(<<VECMAP_PREFIX, id>>)
entity_key(agent, id) == Keyed(<<agent>>, AgentPrefix(ENTITY_PREFIX, agent) \o id)
edge_key(agent, src, relation, dst) ==
    Keyed(<<agent, src, relation>>,
          NamePrefix(EDGE_PREFIX, agent, src) \o push_len_prefixed(relation) \o dst)
record_key(agent, id) == Keyed(<<agent>>, AgentPrefix(RECORD_PREFIX, agent) \o id)
postings_key(agent, term, id) == Keyed(<<agent, term>>, Append(NamePrefix(POSTINGS_PREFIX, agent, term), id))
docterms_key(agent, id) == Keyed(<<agent>>, Append(AgentPrefix(DOCTERMS_PREFIX, agent), id))
fts_meta_key(agent) == Keyed(<<agent>>, AgentPrefix(FTS_META_PREFIX, agent))
agent_key(agent) == Keyed(<<agent>>, AgentPrefix(REGISTRY_PREFIX, agent))

(* Times are signed: flipping the sign bit makes them sort as numbers.     *)
WIDTH == 2 * (I64_MAX + 1)
sortable(t) == (t + I64_MAX + 1) % WIDTH
from_sortable(w) == w - (I64_MAX + 1)

saturating_add(t, n) == IF t + n > I64_MAX THEN I64_MAX ELSE t + n

expiry_key(agent, until, id) ==
    Keyed(<<agent>>, Append(AgentPrefix(EXPIRY_PREFIX, agent), sortable(until)) \o id)

(* The first key behind those that expired at "at".                        *)
expiry_upper_bound(agent, at) ==
    Append(AgentPrefix(EXPIRY_PREFIX, agent), sortable(saturating_add(at, 1)))

(* The first key behind the agent's records: trailing 0xff are dropped and *)
(* the byte before them counted up.  (A length is one word here: counting  *)
(* it up, or the last of its bytes that is not 0xff, gives the same place.) *)
record_agent_upper_bound(agent) ==
    LET p == AgentPrefix(RECORD_PREFIX, agent)
        raise == {i \in DOMAIN p : i <= 2 \/ p[i] < HIGH_BYTE}
        last == CHOOSE i \in raise : \A j \in raise : j <= i
    IN Append(SubSeq(p, 1, last - 1), p[last] + 1)

(* ------------------------------- reading ------------------------------- *)
Rest(key, n) == SubSeq(key, n + 1, Len(key))
StartsWith(key, space) == key # <<>> /\ key[1] = space

(* The one number behind a prefix, and the name to the end of the key.     *)
IdAfter(n, key) == IF Len(key) = n + 1 THEN Some(key[n + 1]) ELSE None
NameAfter(space, n, key) == IF StartsWith(key, space) /\ Len(key) >= n THEN Some(Rest(key, n)) ELSE None

node_id(key) == IF StartsWith(key, NODE_PREFIX) THEN IdAfter(1, key) ELSE None
vecmap_id(key) == IF StartsWith(key, VECMAP_PREFIX) THEN IdAfter(1, key) ELSE None
entity_id(n, key) == NameAfter(ENTITY_PREFIX, n, key)
record_id(n, key) == NameAfter(RECORD_PREFIX, n, key)
postings_vec_id(n, key) == IdAfter(n, key)

(* A name preceded by its length, and what follows it.                     *)
take_len_prefixed(words) ==
    IF words = <<>> \/ words[1] > Len(words) - 1 THEN None
    ELSE Some([name |-> SubSeq(words, 2, 1 + words[1]), rest |-> Rest(words, 1 + words[1])])

edge_relation_dst(n, key) ==
    LET r == take_len_prefixed(Rest(key, n))
    IN IF r = None THEN None ELSE Some(<<r[1].name, r[1].rest>>)

edge_src_relation_dst(n, key) ==
    LET s == take_len_prefixed(Rest(key, n))
        r == edge_relation_dst(0, s[1].rest)
    IN IF s = None \/ r = None THEN None ELSE Some(<<s[1].name>> \o r[1])

expiry_decode(n, key) ==
    IF ~StartsWith(key, EXPIRY_PREFIX) \/ Len(key) < n + 1 THEN None
    ELSE Some(<<from_sortable(key[n + 1]), Rest(key, n + 1)>>)

agent_decode(key) ==
    LET a == take_len_prefixed(Rest(key, 1))
    IN IF ~StartsWith(key, REGISTRY_PREFIX) \/ a = None \/ a[1].rest # <<>> THEN None ELSE Some(a[1].name)

(* ------------------------------ promises ------------------------------- *)
(* The keys of a store that uses some names, ids and times.                *)
Fits(names) == {n \in names : ~TooLong(n)}
Edges(names) ==
    [e \in {"edge"} \X Fits(names) \X Fits(names) \X Fits(names) \X names |-> edge_key(e[2], e[3], e[4], e[5]).value]
Posts(names, ids) ==
    [p \in {"post"} \X Fits(names) \X Fits(names) \X ids |-> postings_key(p[2], p[3], p[4]).value]
Expiries(names, times) ==
    [x \in {"expiry"} \X Fits(names) \X times \X names |-> expiry_key(x[2], x[3], x[4]).value]
Named(names) ==
    [r \in {"record", "entity"} \X Fits(names) \X names |->
       IF r[1] = "record" THEN record_key(r[2], r[3]).value ELSE entity_key(r[2], r[3]).value]
Docs(names, ids) == [d \in {"doc"} \X Fits(names) \X ids |-> docterms_key(d[2], d[3]).value]
Agents(names) ==
    [a \in {"stats", "agent"} \X Fits(names) |-> IF a[1] = "stats" THEN fts_meta_key(a[2]).value ELSE agent_key(a[2]).value]
Nodes(ids) ==
    [n \in {"node", "map"} \X ids |-> IF n[1] = "node" THEN node_key(n[2]).value ELSE vecmap_key(n[2]).value]

Injective(f) == Cardinality({f[x] : x \in DOMAIN f}) = Cardinality(DOMAIN f)
Apart(fs) == \A i, j \in DOMAIN fs : i # j => {fs[i][x] : x \in DOMAIN fs[i]} \cap {fs[j][x] : x \in DOMAIN fs[j]} = {}

(* Which of a store's keys a scan of a prefix or a range meets.            *)
Scanned(f, prefix) == {x \in DOMAIN f : IsPrefix(prefix, f[x])}
Ranged(f, start, end) == {x \in DOMAIN f : InRange(f[x], start, end)}

(* Two things never share a key; the key gives back what it was made of;   *)
(* and a scan of an agent's prefix meets that agent's keys and no others,  *)
(* whatever the names are, one the beginning of another or none at all.    *)
Separate(names, ids, times) ==
    LET edges == Edges(names)
        posts == Posts(names, ids)
        expiries == Expiries(names, times)
        named == Named(names)
        spaces == <<edges, posts, expiries, named, Docs(names, ids), Agents(names), Nodes(ids)>>
        Len1(space, a) == Len(AgentPrefix(space, a))
    IN /\ \A i \in DOMAIN spaces : Injective(spaces[i])
       /\ Apart(spaces)
       /\ \A a \in Fits(names) :
            /\ Scanned(edges, AgentPrefix(EDGE_PREFIX, a)) = {e \in DOMAIN edges : e[2] = a}
            /\ Scanned(posts, AgentPrefix(POSTINGS_PREFIX, a)) = {p \in DOMAIN posts : p[2] = a}
            /\ Scanned(named, AgentPrefix(RECORD_PREFIX, a)) = {r \in DOMAIN named : r[1] = "record" /\ r[2] = a}
            /\ Scanned(named, AgentPrefix(ENTITY_PREFIX, a)) = {r \in DOMAIN named : r[1] = "entity" /\ r[2] = a}
            /\ \A b \in Fits(names) :
                 /\ Scanned(edges, NamePrefix(EDGE_PREFIX, a, b)) = {e \in DOMAIN edges : e[2] = a /\ e[3] = b}
                 /\ Scanned(posts, NamePrefix(POSTINGS_PREFIX, a, b)) = {p \in DOMAIN posts : p[2] = a /\ p[3] = b}
            /\ Ranged(named, AgentPrefix(RECORD_PREFIX, a), record_agent_upper_bound(a))
                 = {r \in DOMAIN named : r[1] = "record" /\ r[2] = a}
            /\ \A at \in times \ {I64_MAX} :
                 Ranged(expiries, AgentPrefix(EXPIRY_PREFIX, a), expiry_upper_bound(a, at))
                   = {x \in DOMAIN expiries : x[2] = a /\ x[3] <= at}
            /\ agent_decode(agent_key(a).value) = Some(a)
       /\ \A e \in DOMAIN edges :
            /\ edge_relation_dst(Len(NamePrefix(EDGE_PREFIX, e[2], e[3])), edges[e]) = Some(<<e[4], e[5]>>)
            /\ edge_src_relation_dst(Len1(EDGE_PREFIX, e[2]), edges[e]) = Some(<<e[3], e[4], e[5]>>)
       /\ \A p \in DOMAIN posts :
            postings_vec_id(Len(NamePrefix(POSTINGS_PREFIX, p[2], p[3])), posts[p]) = Some(p[4])
       /\ \A x \in DOMAIN expiries : expiry_decode(Len1(EXPIRY_PREFIX, x[2]), expiries[x]) = Some(<<x[3], x[4]>>)
       /\ \A r \in DOMAIN named :
            IF r[1] = "record" THEN record_id(Len1(RECORD_PREFIX, r[2]), named[r]) = Some(r[3])
            ELSE entity_id(Len1(ENTITY_PREFIX, r[2]), named[r]) = Some(r[3])
       /\ \A i, j \in ids :
            /\ node_id(node_key(i).value) = Some(i) /\ vecmap_id(vecmap_key(i).value) = Some(i)
            /\ vecmap_id(node_key(i).value) = None
            /\ Less(node_key(i).value, node_key(j).value) <=> i < j
       /\ \A n \in names \ Fits(names) : ~record_key(n, <<>>).ok /\ ~edge_key(<<>>, n, <<>>, <<>>).ok
=============================================================================
