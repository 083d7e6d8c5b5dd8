------------------------------ MODULE SstReads ------------------------------
(***************************************************************************)
(* How a sorted run of entries is cut into the blocks of an SST and read   *)
(* (store/sst_block.rs), whatever its bytes are.  A run is a function from *)
(* finitely many keys to optional values, None for a tombstone: what the   *)
(* code has as a BTreeMap, or as entries in ascending order with each key  *)
(* once.  An SST is the sequence of its blocks, which are runs, and the    *)
(* index, which has the first and the last key of each.                    *)
(***************************************************************************)
EXTENDS Wire

(* Keys are sequences of bytes in the order of their bytes.                *)
Less(a, b) ==
    \E n \in 0..Len(a) :
        /\ n < Len(b)
        /\ SubSeq(a, 1, n) = SubSeq(b, 1, n)
        /\ n = Len(a) \/ a[n + 1] < b[n + 1]
AtMost(a, b) == a = b \/ Less(a, b)
InRange(k, start, end) == AtMost(start, k) /\ Less(k, end)
LeastKey(S) == CHOOSE k \in S : \A l \in S : AtMost(k, l)
GreatestKey(S) == CHOOSE k \in S : \A l \in S : AtMost(l, k)

(* ------------------------------ layering ------------------------------- *)
(* Runs laid over one another, each over those before it, as inserting     *)
(* their entries one run after the other into one BTreeMap does.           *)
LastWith(runs, k) ==
    CHOOSE i \in DOMAIN runs :
        k \in DOMAIN runs[i] /\ \A j \in DOMAIN runs : k \in DOMAIN runs[j] => j <= i
Overlay(runs) == [k \in UNION {DOMAIN runs[i] : i \in DOMAIN runs} |-> runs[LastWith(runs, k)][k]]

(* The entries that have a value.                                          *)
Present(run) == Restrict(run, {k \in DOMAIN run : run[k] # None})

(* ------------------------------- writing ------------------------------- *)
EntrySize(key, value) == 3 + Len(key) + (IF value = None THEN 0 ELSE Len(value[1]))
SizeOf(run) == MapThenSumSet(LAMBDA k : EntrySize(k, run[k]), DOMAIN run)

(* The entries since the last key that ended a block; k ends one when they *)
(* have reached the block size, and the last key ends one in any case.     *)
Current(run, ends, k) == {l \in DOMAIN run : AtMost(l, k) /\ \A e \in ends : Less(e, k) => Less(e, l)}
EndsBlock(run, ends, block_size, k) ==
    \/ SizeOf(Restrict(run, Current(run, ends, k))) >= block_size
    \/ \A l \in DOMAIN run : AtMost(l, k)
BlockEnds(run, block_size) ==
    CHOOSE ends \in SUBSET DOMAIN run :
        ends = {k \in DOMAIN run : EndsBlock(run, ends, block_size, k)}

(* The blocks in order: the i-th has the keys with i - 1 ends below them.  *)
Cut(run, ends) ==
    [i \in 1..Cardinality(ends) |->
        Restrict(run, {k \in DOMAIN run : Cardinality({e \in ends : Less(e, k)}) = i - 1})]
Blocks(run, block_size) == Cut(run, BlockEnds(run, block_size))

Routing(block) ==
    [first_key |-> LeastKey(DOMAIN block), last_key |-> GreatestKey(DOMAIN block),
     entry_count |-> Cardinality(DOMAIN block),
     tombstone_count |-> Cardinality(DOMAIN block \ DOMAIN Present(block))]

(* ------------------------------- reading ------------------------------- *)
(* Faulty: a block whose last key is the key itself is skipped.            *)
FirstBlockPast(index, key) ==
    1 + Cardinality({i \in DOMAIN index : AtMost(index[i].last_key, key)})

(* partition_point: the first block whose last key is not below the key.   *)
FirstBlock(index, key) ==
    1 + Cardinality({i \in DOMAIN index : Less(index[i].last_key, key)})

(* The block a key can only be in; 0 when it is past the last block or in  *)
(* the gap before the block it would be in.                                *)
Route(index, key) ==
    LET i == FirstBlock(index, key)
    IN IF i > Len(index) THEN 0 ELSE IF Less(key, index[i].first_key) THEN 0 ELSE i

(* Some(value) when the run has the key; the value of a tombstone is       *)
(* itself None.                                                            *)
Hit(run, key) == IF key \in DOMAIN run THEN Some(run[key]) ELSE None

(* A read of several blocks begins at one and stops before a block that is *)
(* past what is asked, or before a further block once it has "limit"       *)
(* entries: then it is truncated.  parts are, for each block, its entries  *)
(* that are asked for.                                                     *)
Unlimited == -1
FoundBefore(parts, from, i) == UNION {DOMAIN parts[j] : j \in from..(i - 1)}
Enough(parts, from, i, limit) ==
    limit # Unlimited /\ Cardinality(FoundBefore(parts, from, i)) >= limit
ReadBlocks(parts, from, past, limit) ==
    LET stops == {i \in from..Len(parts) : i \in past \/ Enough(parts, from, i, limit)}
        end == IF stops = {} THEN Len(parts) + 1 ELSE Min(stops)
    IN [out |-> Overlay(SubSeq(parts, from, end - 1)), truncated |-> stops # {} /\ end \notin past]

AllEntries(sst) == Overlay(sst.blocks)

WithPrefix(run, prefix) == Restrict(run, {k \in DOMAIN run : IsPrefix(prefix, k)})
WithRange(run, start, end) == Restrict(run, {k \in DOMAIN run : InRange(k, start, end)})

EntriesWithPrefix(sst, prefix) ==
    LET Past(k) == Less(prefix, k) /\ ~IsPrefix(prefix, k)
    IN ReadBlocks([i \in DOMAIN sst.blocks |-> WithPrefix(sst.blocks[i], prefix)],
                  FirstBlock(sst.index, prefix),
                  {i \in DOMAIN sst.index : Past(sst.index[i].first_key)}, Unlimited).out

(* The limit is looked at before a block, so a block is taken whole and    *)
(* the answer may have more entries than the limit.                        *)
EntriesWithRangeLimited(sst, start, end, limit) ==
    IF ~Less(start, end) \/ limit = 0 THEN [out |-> Overlay(<<>>), truncated |-> FALSE]
    ELSE ReadBlocks([i \in DOMAIN sst.blocks |-> WithRange(sst.blocks[i], start, end)],
                    FirstBlock(sst.index, start),
                    {i \in DOMAIN sst.index : AtMost(end, sst.index[i].first_key)}, limit)

EntriesWithRange(sst, start, end) == EntriesWithRangeLimited(sst, start, end, Unlimited).out
=============================================================================
