----------------------------- MODULE BlockReads -----------------------------
(***************************************************************************)
(* The read side of one open engine (store/engine.rs): point reads through *)
(* the block cache (store/block_cache.rs), each a call of several steps    *)
(* that other readers' steps come between, and scans in pages, each page a *)
(* call of its own, between writes, flushes and compactions.  The engine   *)
(* is behind a lock that many readers or one writer hold                   *)
(* (storage/native_store/mod.rs).  Here an SST is the sequence of its      *)
(* blocks; Engine models its files and its crashes, and SstFile its bytes. *)
(* live is what the engine should hold: the last value written to each key. *)
(***************************************************************************)
EXTENDS SstReads

CONSTANTS
    Keys,               \* keys written and read
    Values,
    Readers,            \* threads that read one key at a time
    FlushThreshold, CompactThreshold, BlockSize,    \* EngineOptions
    Capacity,           \* of the cache, in bytes
    PageLimit,          \* entries asked for by a page
    Start, End,         \* the range scanned
    Together,           \* bound: whether point reads and a scan may be under way at once
    MaxWrites           \* bound: writes in a behaviour

ASSUME ReadsAssumption ==
    /\ Keys \subseteq Seq(Nat) /\ Start \in Seq(Nat) /\ End \in Seq(Nat)
    /\ FlushThreshold \in Nat \ {0} /\ CompactThreshold \in Nat
    /\ Together \in BOOLEAN
    /\ BlockSize \in Nat /\ Capacity \in Nat /\ PageLimit \in Nat \ {0}

VARIABLES
    memtable,   \* the run of what is not yet in a file
    ssts,       \* oldest first: [id, blocks, index]
    nextId,
    cache,      \* <<id, number>> of a block -> [block, last_used]
    live,       \* key -> optional value
    readers,    \* reader -> its point read under way, or None
    scan,       \* the scan under way: [next, pages, held, seen], or None
    writes

vars == <<memtable, ssts, nextId, cache, live, readers, scan, writes>>

(* ------------------------------- content ------------------------------- *)
Sst(id, run) ==
    LET blocks == Blocks(run, BlockSize)
    IN [id |-> id, blocks |-> blocks, index |-> [i \in DOMAIN blocks |-> Routing(blocks[i])]]

Empty == Overlay(<<>>)
Put(run, k, v) == [l \in DOMAIN run \cup {k} |-> IF l = k THEN v ELSE run[l]]

Init ==
    /\ memtable = Empty /\ ssts = <<>> /\ nextId = 1 /\ cache = Empty
    /\ live = [k \in Keys |-> None]
    /\ readers = [r \in Readers |-> None]
    /\ scan = None /\ writes = 0

(* -------------------------------- cache -------------------------------- *)
(* The bytes of a block: those of its keys and values.                     *)
BlockBytes(block) ==
    MapThenSumSet(LAMBDA k : Len(k) + (IF block[k] = None THEN 0 ELSE Len(block[k][1])), DOMAIN block)
Resident(c) == MapThenSumSet(LAMBDA p : BlockBytes(c[p].block), DOMAIN c)

(* Faulty: a block is looked up by its file alone.                         *)
SlotOfFile(id, no) == <<id, 0>>
(* What a block is looked up by.                                           *)
Slot(id, no) == <<id, no>>

(* Only the order of the ticks matters, so they are renumbered from 1.     *)
Renumbered(c) ==
    [p \in DOMAIN c |->
        [c[p] EXCEPT !.last_used = Cardinality({q \in DOMAIN c : c[q].last_used <= c[p].last_used})]]
Tick(c) == Cardinality(DOMAIN c) + 1
Touched(c, p) == Renumbered([c EXCEPT ![p].last_used = Tick(c)])

(* Room is made from the least recently used end; a block larger than the  *)
(* whole cache goes in alone.                                              *)
UsedAfter(c, n) == Restrict(c, {p \in DOMAIN c : c[p].last_used > n})
Evicted(c, bytes) ==
    UsedAfter(c, Min({n \in 0..Cardinality(DOMAIN c) :
                        \/ n = Cardinality(DOMAIN c)
                        \/ Resident(UsedAfter(c, n)) + bytes <= Capacity}))

Insert(c, p, block) ==
    IF p \in DOMAIN c THEN c
    ELSE Renumbered(Put(Evicted(c, BlockBytes(block)), p, [block |-> block, last_used |-> Tick(c)]))

InvalidateSst(c, ids) == Renumbered(Restrict(c, {p \in DOMAIN c : p[1] \notin ids}))

(* --------------------------- flush, compact ---------------------------- *)
(* The state of the engine's files as one value, so that a write and the   *)
(* flush and compaction it leads to are one step.                          *)
Files == [memtable |-> memtable, ssts |-> ssts, nextId |-> nextId, cache |-> cache]

Flushed(f) ==
    IF DOMAIN f.memtable = {} THEN f
    ELSE [f EXCEPT !.ssts = Append(@, Sst(f.nextId, f.memtable)),
                   !.nextId = @ + 1, !.memtable = Empty]

Compacted(f) ==
    LET merged == Overlay([i \in DOMAIN f.ssts |-> AllEntries(f.ssts[i])])
    IN [f EXCEPT !.ssts = <<Sst(f.nextId, Present(merged))>>,
                 !.nextId = @ + 1,
                 !.cache = InvalidateSst(@, {f.ssts[i].id : i \in DOMAIN f.ssts})]

(* flush: the log may fail to reset, which leaves the memtable and the id  *)
(* as they were, and the compaction that may follow may fail to write.     *)
CompactsAfter(f) == DOMAIN f.memtable # {} /\ Len(Flushed(f).ssts) > CompactThreshold
FlushDone(f) == IF CompactsAfter(f) THEN Compacted(Flushed(f)) ELSE Flushed(f)
FlushResults(f, fails) == IF fails THEN {f, Flushed(f), FlushDone(f)} ELSE {FlushDone(f)}

Become(f) ==
    /\ memtable' = f.memtable /\ ssts' = f.ssts /\ nextId' = f.nextId /\ cache' = f.cache

(* A writer has the engine to itself.                                      *)
NoReader == \A r \in Readers : readers[r] = None

(* put and delete: the memtable, then maybe_flush.                         *)
Write(k, v, fails) ==
    /\ NoReader
    /\ writes < MaxWrites
    /\ LET f == [Files EXCEPT !.memtable = Put(@, k, v)]
       IN \E g \in (IF Cardinality(DOMAIN f.memtable) >= FlushThreshold THEN FlushResults(f, fails) ELSE {f}) :
            Become(g)
    /\ live' = [live EXCEPT ![k] = v]
    /\ scan' = IF scan = None THEN None
               ELSE Some([scan[1] EXCEPT !.held = IF v = None THEN @ \ {k} ELSE @,
                                         !.seen = IF v = None THEN @ ELSE @ \cup {<<k, v[1]>>}])
    /\ writes' = writes + 1
    /\ UNCHANGED readers

Flush ==
    /\ NoReader
    /\ DOMAIN memtable # {}
    /\ Become(FlushDone(Files))
    /\ UNCHANGED <<live, readers, scan, writes>>

CompactNow ==
    /\ NoReader
    /\ nextId <= MaxWrites
    /\ LET g == FlushDone(Files)
       IN Become(IF g.ssts = <<>> THEN g ELSE Compacted(g))
    /\ UNCHANGED <<live, readers, scan, writes>>

(* ----------------------------- point reads ----------------------------- *)
(* get: the memtable, then the files from the newest on.  A read is of a   *)
(* key; left is the number of files not yet passed, missed the number of   *)
(* the block it has to read from the file because the cache had not got    *)
(* it, and answer what it found.                                           *)
Begun(k) ==
    [key |-> k, left |-> Len(ssts), missed |-> 0,
     answer |-> IF k \in DOMAIN memtable THEN Hit(memtable, k)
                ELSE IF ssts = <<>> THEN Some(None) ELSE None]

(* After the newest file left has been looked at.                          *)
Passed(read, hit) ==
    [read EXCEPT !.left = @ - 1, !.missed = 0,
                 !.answer = IF hit = None /\ read.left = 1 THEN Some(None) ELSE hit]

Looking(r) == readers[r] # None /\ readers[r][1].answer = None /\ readers[r][1].missed = 0
File(r) == ssts[readers[r][1].left]
Candidate(r) == Route(File(r).index, readers[r][1].key)

BeginGet(r, k) ==
    /\ readers[r] = None
    /\ Together \/ scan = None
    /\ readers' = [readers EXCEPT ![r] = Some(Begun(k))]
    /\ UNCHANGED <<memtable, ssts, nextId, cache, live, scan, writes>>

(* No block can have the key, or the bloom filter, which lets through      *)
(* every key of the file and some others, holds it back.                   *)
SkipFile(r) ==
    /\ Looking(r)
    /\ Candidate(r) = 0 \/ readers[r][1].key \notin DOMAIN AllEntries(File(r))
    /\ readers' = [readers EXCEPT ![r] = Some(Passed(@[1], None))]
    /\ UNCHANGED <<memtable, ssts, nextId, cache, live, scan, writes>>

ReadCached(r) ==
    LET p == Slot(File(r).id, Candidate(r))
    IN /\ Looking(r) /\ Candidate(r) # 0
       /\ p \in DOMAIN cache
       /\ readers' = [readers EXCEPT ![r] = Some(Passed(@[1], Hit(cache[p].block, @[1].key)))]
       /\ cache' = Touched(cache, p)
       /\ UNCHANGED <<memtable, ssts, nextId, live, scan, writes>>

Miss(r) ==
    /\ Looking(r) /\ Candidate(r) # 0
    /\ Slot(File(r).id, Candidate(r)) \notin DOMAIN cache
    /\ readers' = [readers EXCEPT ![r] = Some([@[1] EXCEPT !.missed = Candidate(r)])]
    /\ UNCHANGED <<memtable, ssts, nextId, cache, live, scan, writes>>

(* The block is read from the file, outside the cache's lock, and put in   *)
(* the cache; another reader may have done the same meanwhile.             *)
Fetch(r) ==
    LET read == readers[r][1]
        block == File(r).blocks[read.missed]
    IN /\ readers[r] # None /\ read.missed # 0
       /\ readers' = [readers EXCEPT ![r] = Some(Passed(@[1], Hit(block, read.key)))]
       /\ cache' = Insert(cache, Slot(File(r).id, read.missed), block)
       /\ UNCHANGED <<memtable, ssts, nextId, live, scan, writes>>

(* The read has its answer, or the block cannot be read.                   *)
Return(r) ==
    /\ readers[r] # None
    /\ readers[r][1].answer # None \/ readers[r][1].missed # 0
    /\ readers' = [readers EXCEPT ![r] = None]
    /\ UNCHANGED <<memtable, ssts, nextId, cache, live, scan, writes>>

(* -------------------------------- scans -------------------------------- *)
(* scan_prefix and scan_range: all sources, oldest first, over one another. *)
ScanPrefix(p) ==
    Present(Overlay(Append([i \in DOMAIN ssts |-> EntriesWithPrefix(ssts[i], p)], WithPrefix(memtable, p))))

ScanRange(a, z) ==
    IF ~Less(a, z) THEN Empty
    ELSE Present(Overlay(Append([i \in DOMAIN ssts |-> EntriesWithRange(ssts[i], a, z)],
                                WithRange(memtable, a, z))))

(* The first "limit" entries of a run.                                     *)
Taken(run, limit) ==
    Restrict(run, {k \in DOMAIN run : Cardinality({l \in DOMAIN run : Less(l, k)}) < limit})

(* What each source gives to a page, and the last key of each source that  *)
(* was cut short.                                                          *)
PageParts(a, z, limit) == [i \in DOMAIN ssts |-> EntriesWithRangeLimited(ssts[i], a, z, limit)]
PageEntries(parts, taken) == Overlay(Append([i \in DOMAIN parts |-> parts[i].out], taken))
CutShort(parts, mem, taken) ==
    {GreatestKey(DOMAIN parts[i].out) : i \in {i \in DOMAIN parts : parts[i].truncated}}
    \cup (IF taken # mem THEN {GreatestKey(DOMAIN taken)} ELSE {})

(* Faulty: the page goes on to the end of what the sources gave.           *)
ScanRangePageWhole(a, z, limit) ==
    LET merged == PageEntries(PageParts(a, z, limit), Taken(WithRange(memtable, a, z), limit))
    IN [entries |-> Present(merged),
        next |-> IF DOMAIN merged = {} THEN None ELSE Some(Append(GreatestKey(DOMAIN merged), 0))]

(* scan_range_page: each source gives about a page; a source that was cut  *)
(* short vouches only for the keys up to its last, so the page ends at the *)
(* least of those, and the next one starts right after it.                 *)
ScanRangePage(a, z, limit) ==
    LET parts == PageParts(a, z, limit)
        mem == WithRange(memtable, a, z)
        cut == CutShort(parts, mem, Taken(mem, limit))
        merged == PageEntries(parts, Taken(mem, limit))
        frontier == LeastKey(cut)
    IN IF ~Less(a, z) \/ limit = 0 THEN [entries |-> Empty, next |-> None]
       ELSE IF cut = {} THEN [entries |-> Present(merged), next |-> None]
       ELSE [entries |-> Present(Restrict(merged, {k \in DOMAIN merged : AtMost(k, frontier)})),
             next |-> Some(Append(frontier, 0))]

(* A caller's loop over scan_range_page.  held are the keys that have had  *)
(* a value since the scan began, seen the pairs there were at some moment. *)
LiveKeys == {k \in Keys : live[k] # None}

BeginScan ==
    /\ scan = None
    /\ Together \/ NoReader
    /\ scan' = Some([next |-> Some(Start), pages |-> <<>>,
                     held |-> {k \in LiveKeys : InRange(k, Start, End)},
                     seen |-> {<<k, live[k][1]>> : k \in LiveKeys}])
    /\ UNCHANGED <<memtable, ssts, nextId, cache, live, readers, writes>>

ScanPage ==
    /\ scan # None /\ scan[1].next # None
    /\ LET page == ScanRangePage(scan[1].next[1], End, PageLimit)
       IN scan' = Some([scan[1] EXCEPT !.pages = Append(@, page.entries), !.next = page.next])
    /\ UNCHANGED <<memtable, ssts, nextId, cache, live, readers, writes>>

EndScan ==
    /\ scan # None /\ scan[1].next = None
    /\ scan' = None
    /\ UNCHANGED <<memtable, ssts, nextId, cache, live, readers, writes>>

ReadStep(r) ==
    \/ \E k \in Keys : BeginGet(r, k)
    \/ SkipFile(r) \/ ReadCached(r) \/ Miss(r) \/ Fetch(r) \/ Return(r)

Next ==
    \/ \E k \in Keys, v \in {Some(v) : v \in Values} \cup {None}, fails \in BOOLEAN : Write(k, v, fails)
    \/ Flush
    \/ CompactNow
    \/ \E r \in Readers : ReadStep(r)
    \/ BeginScan
    \/ ScanPage
    \/ EndScan

Spec == Init /\ [][Next]_vars

(* ----------------------------- properties ------------------------------ *)
(* Every read gives the value last written: a point read whatever other    *)
(* readers, the cache and the bloom filters do, and a scan of the whole or *)
(* of a prefix, however the entries lie in memtable, files and blocks.     *)
Live == Restrict(live, LiveKeys)

ReadsLatest ==
    /\ \A r \in Readers :
         readers[r] # None => readers[r][1].answer \in {None, Some(live[readers[r][1].key])}
    /\ ScanRange(Start, End) = WithRange(Live, Start, End)
    /\ \A p \in Keys : ScanPrefix(p) = WithPrefix(Live, p)

(* A scan in pages lists keys in ascending order, each at most once; every *)
(* key that had a value throughout is in it when it ends, and no pair that *)
(* was never there, whatever was written, flushed or compacted meanwhile.  *)
PagedScan ==
    scan # None =>
        LET s == scan[1]
            passed == IF s.next = None THEN s.held ELSE {k \in s.held : Less(k, s.next[1])}
        IN /\ \A i, j \in DOMAIN s.pages : \A k \in DOMAIN s.pages[i], l \in DOMAIN s.pages[j] :
                i < j => Less(k, l)
           /\ \A k \in passed : \E i \in DOMAIN s.pages : k \in DOMAIN s.pages[i]
           /\ \A i \in DOMAIN s.pages : \A k \in DOMAIN s.pages[i] : <<k, s.pages[i][k][1]>> \in s.seen

=============================================================================
