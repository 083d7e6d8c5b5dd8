# TLA+ models of BaseMyAI

BaseMyAI is a local memory for AI agents: an embedded, encrypted key-value
engine with vector, text and graph indexes on top, a memory facade per agent,
background maintenance, and a command line, an MCP server, a REST server and
language bindings around them. This directory holds TLA+ models of the parts
whose correctness depends on the order of steps (crashes, failed I/O, several
batches per operation, several tasks on one store), the TLC configurations that
check them, and TLAPS proofs.

    tlc -workers 2 -config MCEngineBatches.cfg MCEngine
    tlapm EngineProofs.tla

Paths below are relative to the root of the repository.

## Inventory

### Engine core (`crates/basemyai-engine/src/store`)

*State*: a directory with `wal.log` (`wal.rs`), immutable `*.sst` files
(`sst_block.rs`), `store.meta` and `crypto.meta`; in memory the memtable, the
list of open SSTs, the next SST id and a block cache.
*Operations*: `put`, `delete`, `apply_batch` (append a record to the log, fsync,
apply to the memtable, flush when it is full), `flush` (write an SST to a
temporary file, fsync, rename, truncate the log, compact when there are too
many files), `compact_now`, `get`, the scans, `rotate_key`, `close`, `open`
(list the SSTs, ignoring temporary files; replay, truncate the torn tail).
*Interaction*: one writer owns the engine (`&mut self`); every index above keeps
its data in reserved key spaces of the same engine and groups its writes in
`Batch`es.
*Hard*: a kill or a power loss between any two I/O calls; an I/O call that fails
and leaves the engine alive; a flush that fails inside a write that is already
durable; SST ids reused after a failure; old files that survive a compaction.
*Correct when*: what returned Ok survives, whole batches only, in order;
maintenance is invisible to readers; a live file is never rewritten; every call
returns.

### Vector index (`crates/basemyai-engine/src/idx/vector`)

*State*: a block per node (vector, tombstone flag, neighbour list) and one
metadata record (count, entry point, epoch) in the engine; in memory the entry
point, the count and a cache of blocks.
*Operations*: `open` (rebuild when the metadata is missing or unusable),
`insert_many_with`, `delete_with` (tombstone), `search`, `consolidate`
(repair neighbour lists, rewrite the metadata, purge tombstones),
`rebuild_from_store`.
*Hard*: `consolidate` and `rebuild` are several batches; the cache and the
counters are refreshed only when everything went well; an id may be deleted and
inserted again.
*Correct when*: a search returns live vectors only, every reopening finds a
count and an entry point that agree with the blocks, no live block lists a
missing one, and only inserts and deletes change which vectors are live.

### Text index (`idx/fts`), graph index (`idx/graph`)

The text index keeps one document record per vector id, postings and one
statistics record per agent, which each change reads, modifies and writes back.
It has no batch of its own: it stages its writes in the batch of the memory
index. The graph index upserts an entity or an edge with one put and purges an
agent with one batch (which refuses an agent with more than `MAX_BATCH_OPS` of them).

### Memory index (`idx/memory`)

*State*: per agent and id a record; a mapping from vector id to memory; the
allocator `next_vec_id` (persisted and in memory); an expiry index ordered by
`valid_until`; a registry of agents.
*Operations*: `open` (heals the allocator), `put_many`, `update`,
`touch_last_access`, `forget`, `forget_many` (chunks), `purge_agent` (memory by
memory, then the registry), paged scans, and the repairs of `store/repair.rs`.
*Hard*: one memory is five kinds of records; the chunked operations stop between
chunks; the allocator lives in memory and on disk; a put may fail after it was
applied.
*Correct when*: record, mapping, vector, documents, expiry entry and registry
agree in every state a crash can leave, and no vector id is given out twice.

### Native store, facade, events (`crates/basemyai/src/storage`, `src/memory`)

*State*: the engine and the indexes behind one `RwLock`; per `Memory` an agent,
an embedder and a broadcast channel of events.
*Operations*: every store call runs in the blocking pool under the lock. The
facade composes several of them with awaits in between: `remember` reads the
clock, embeds, puts, emits; `recall` searches under the read lock, then touches
the results under the write lock; `recall_hybrid` ranks twice, then hydrates and
touches; `forget` and `invalidate` read the layer, write, emit.
*Hard*: everything another task does between two of these calls; the clock read
before the await and used after it; events emitted after the commit.

### Maintenance (`crates/basemyai/src/maintenance`, `basemyai-core/src/maintenance.rs`, `src/cognition`)

The worker runs each task in its own tokio task (sleep, run, log the error,
loop). *Adaptive forgetting* makes two paged passes: select the `capacity` best
memories in a bounded heap, then scan again and evict everything else.
*Expired GC* pages over the expiry index and forgets what it lists.
*Consolidation* asks a model for facts and adds those not known yet.
*Hard*: pages of one task interleave with writes of the others; check-then-act
across awaits; a pass that fails in the middle.

### Graph, search and knowledge (`idx/graph`, `idx/fts`, `src/retrieval.rs`, `src/cognition`)

*State*: entities and edges per agent, each with the end of its validity;
postings, document records and statistics per agent.
*Operations*: upserts, a traversal by breadth from an entity, the search for words
(tokenise, match expression, BM25), recalls that fuse rankings and filter by
validity and layer, the consolidation of an answer of a language model, dumps and
imports.
*Hard*: cutting before filtering; cycles, expired edges and entities; look-ups and
writes of one pass as separate calls; a failure in the middle of a list of writes.
*Correct when*: a recall answers the best of what is visible; a traversal finds each
entity at its least depth; a fact is not multiplied; an import run again settles, and
a dump restores.

### Opening a store (`store/engine.rs`, `crypto.rs`, `native_store/mod.rs`, `basemyai-core/src/storage/key.rs`)

*State*: `store.meta`, `crypto.meta` (the data key wrapped under the user's key),
the container's metadata entries (format, dimension, embedding model).
*Operations*: create, open with or without a key, rotate the key, write and check
the embedding contract.
*Hard*: a kill or a power loss between two files; a wrong or missing key; a second
key while a rotation is under way; an embedder other than the store's.
*Correct when*: what was acknowledged opens with the key it should, and the vectors
in a store are those of the embedder the store names.

### Formats, keys, audit (`format`, `key`, `store/verify*.rs`, `store/repair.rs`)

*State*: none; functions of bytes, keys and stores.
*Hard*: damage at any place; keys of different things that collide; an audit that
reads the files by itself, beside the engine's own reading; derived data that
disagrees with the primary.
*Correct when*: what is encoded is decoded, and nothing else is; keys are injective
and sort as they should; a clean audit means that reads are right; a repair heals
what is derived and touches nothing else.

### Provisioning and servers (`src/provision`, `basemyai-rest`, `basemyai-mcp`)

*State*: the user's model cache on disk; in a server the pool of one `Memory` per
agent, the times of the last `remember` requests, the event channels.
*Operations*: look up, download, check and install the model; open a memory for a
request, limit the rate, run the handler, announce, watch.
*Hard*: several programs install at once; two first requests of an agent; a handler
dropped by a timeout; a subscriber that is slow.
*Correct when*: the cache holds whole files or none; a watcher is told of the changes
of its agent; the limit holds.

### Other surfaces and tools

Command line, Node and Python bindings, benchmarks, fuzz targets, failpoint harness.
They map requests to the calls above and keep no state that takes part in the
properties; they are listed in `PROJECT.json` as not modelled.

## Modules

| module | models | composed with |
|---|---|---|
| `DurableMap` | what the engine promises: a map changed by atomic, durable batches | implemented by `Engine` |
| `Engine` | log, memtable, SSTs, flush, compaction, recovery | refines `DurableMap` |
| `EngineProofs` | theorems about the types and files of `Engine`, and about what it keeps and shows | extends `Engine` |
| `Wire` | words, checksums, sealed text: what the codecs are written with | extended by the formats |
| `SstFormat`, `WalFormat`, `IndexFormats` | every codec of the engine | `Wire` |
| `Formats` | what all codecs promise, the reading of a log, `format.lock` | the three above |
| `SstReads`, `SstFile` | how a run of entries is cut into blocks, indexed and read; its bytes and its bloom filter | `SstFile` extends `SstReads` and `SstFormat` |
| `BlockReads` | the reads of one open engine: concurrent readers, block cache, scans in pages | extends `SstReads` |
| `BlockReadsProofs` | theorems about `BlockReads` and the blocks of `SstReads`, and about the keys of `KeySpace` | extends `BlockReads` and `KeyCases` |
| `KeySpace` | the keys of every index | extends `SstReads` (the order of keys) |
| `KeyCases` | the case of `Algorithms` that is about keys | extends `KeySpace`, extended by `Algorithms` |
| `Widths` | the greatest length of a field, and what `as u32` makes of a longer one | extended by the formats and `KeySpace` |
| `VerifyFiles` | the audit of the files beside the open that meets them | extends `SstFile`, uses `WalFormat` |
| `VerifyLogical` | the audit of the indexes, the repair plan, the rebuilds | |
| `StoreOpen` | the metadata files, keys, rotation, container entries, embedding contract | what `Engine` leaves out of opening |
| `StoreOpenProofs` | theorems about `StoreOpen` | extends `StoreOpen` |
| `VectorIndex` | node blocks, metadata, cache; insert, delete, consolidate, rebuild | a step is one batch of the engine, or the plan for one id |
| `VectorIndexProofs` | theorems about `VectorIndex` | extends `VectorIndex` |
| `MemoryIndex` | records, mappings, allocator, nodes, documents, statistics, expiry, registry; repair, re-embedding | a step is one batch of the engine |
| `MemoryIndexProofs` | theorems about `MemoryIndex` | extends `MemoryIndex` |
| `AgentMemory` | the facade's calls, adaptive forgetting and the collector as tasks on one store | a step is one call of the store |
| `AgentMemoryProofs` | theorems about `AgentMemory` | extends `AgentMemory` |
| `GraphIndex`, `GraphSearch` | the graph of an agent, its writes; the traversals | `Knowledge` extends `GraphIndex` |
| `Knowledge` | consolidation, import, export, purge as tasks on one store | a step is one write of a call |
| `KnowledgeProofs` | theorems about `Knowledge` | extends `Knowledge` |
| `TextSearch`, `Retrieval` | terms, match expressions, BM25; the searches, their fusion, the recalls | `Retrieval` extends `TextSearch` |
| `Algorithms` | the functions above on one sample after the other | all of them |
| `Provision` | the model cache, shared by programs | used by `Servers` |
| `Serving` | one server: pool, rate limit, handlers, timeouts, events | extended by `Servers` |
| `Servers` | provisioning, then serving | `Provision` and `Serving` |
| `ServersProofs` | theorems about `Serving`, `Servers` and `Provision` | extends `Servers` |
| `MC*` | samples and symmetry sets for TLC; the bounds are in the `.cfg` files | |

The levels are joined by what each one may assume of the one below. `Engine`
shows what a batch is to its caller: applied and acknowledged, rejected, applied
although the call returned an error, or left in the log although the call
returned an error (a reopening may then show it). `VectorIndex` and `MemoryIndex`
take these outcomes as the `Faults` of one step. `AgentMemory` and `Knowledge` take
a store call as one closure under the lock of `with_inner`.

Definitions whose comment begins with "Faulty" are not part of any behaviour:
each is a plausible mistake in the definition below it, used to show that the
properties notice it (`PROJECT.json`, "mutants").

### Engine

`pc` is the next I/O of the call in progress and every action is one I/O, so that
a kill, a power loss or an I/O error fits between any two. `Write` hands a batch
in, `WalAppend` and `WalSync` are `Wal::write_record`, `MaybeFlush` is
`maybe_flush`, `WriteTmp`, `SyncTmp` and `Rename` are `SstReader::write_new` (for
a flush or a compaction, told apart by `job`), `Truncate` and `SyncTruncate` are
`Wal::truncate`, `Unlink` and `CompactDone` the end of `compact`, and
`Open`/`OpenSync` the recovery.

Batches are numbered and the contents of log, memtable and files are the numbers
of the batches that wrote each key. Since the log only grows and numbers only
grow, the log is the set of its records; `torn` holds those of which a part was
written. SST ids are pushed in increasing order, so the list of open files is a
set. `disks` is the set of images a power loss may leave: an unsynced change adds
an image, a successful `sync_all` reduces them. `OrderedDir = TRUE` says that
directory changes reach the disk in order and no later than the next `sync_all`
(a journaled file system); `FALSE` leaves directory entries unordered. A failed
fsync is assumed not to lose pages of earlier, successful ones.

Left to other modules: `MAX_BATCH_OPS` and the encodings (`WalFormat`, `SstFile`),
the block cache and the scans (`BlockReads`), the metadata files, key rotation and
the creation of the directory (`StoreOpen`). `close` is `Flush` followed by the end
of the process. The fault `"unlink"` (a `remove_file` that fails, which the code
ignores) is in the model and in no run: see "What the runs found".

### VectorIndex

`nodes` and `meta` are the store, `entry`, `count` and `cache` the handle. A
maintenance pass is a queue of blocks to rewrite, the metadata to write and
blocks to remove, cut into batches of `Chunk`. The ids of a `group` are planned one by
one (`PlanNext`): those of an insert over the blocks that are seen, in any order, and
written as one batch (`CommitInsert`); those of a rebuild over none, in ascending order.
Planning is in memory, so a crash is all that may come between. Vectors and distances are left
out: where the code chooses neighbours by distance, every choice is allowed, so
what the properties say does not depend on the metric. The cache is never full
here (its capacity is 4096 blocks); an eviction only makes it agree more with the
store. The beam is taken to cover the graph, and nothing is claimed about which
live vectors a search reaches.

### MemoryIndex

One function per view: `kv` is what the process reads, `disk` what opening the
store again would show; they differ after a batch that was appended and not
acknowledged. Each operation builds its batch from the staging helpers of the
text, expiry and mapping code (`StageInsert`, `StageDelete`, ...) as the code
does. `touch_last_access` rewrites a record with the same `valid_until`, which is
`Update`. A chunk of `forget_many` is cut by bytes in the code and is any
non-empty part of up to `MaxItems` memories here. `Rot` damages the allocator
record while the store is closed, to exercise the healing at open. The repairs run
on a store no `Memory` has open, as `repair.rs` requires, and close it.

### AgentMemory

Tasks run calls of the facade; `local[p].at` is the next store call. The clock
counts seconds and only goes forward. A record keeps its validity, importance
and last access. A search may return any subset of what is valid at the call's
`now`; the second pass of a recall touches what the first one found. `Fails` is a
call that returns an error, or a caller that is dropped, before the store call
ran; `ForgetManyFails` one whose closure ran in part or whole while the caller
learned of an error. A page of the first pass of adaptive forgetting is read in one
step (`Select`) and then offered to the heap one candidate at a time (`OfferNext`), as
the loop does; `page` is what is left of it, and `short` whether it is the last. No
call is dropped between two offers, where the code does not wait. The retention score is kept as an order, for importances
that are integers: the recency term is in (0, 1], so importance decides first.
Only `Forgotten` events are modelled. `purge_agent` and the batch variants are
not.

### Formats, files and keys

A buffer is a sequence of words: a field of fixed width is one word and so is each
byte of a string. A checksum is a word that equals only the checksum of the same
words, and a sealed text opens only with its key and its associated data. A codec
keeps the code's order of checks and its arithmetic on lengths; `U16` and `U32` are
the greatest numbers its fields hold. The codecs of the indexes and the keys refuse what
is longer. Those of the log, of the SST files and of `crypto.meta` write `len() as u32`,
which keeps the low bits and says nothing: that is `AsU32`, at each place where the code
has it, and what follows from it is under "What the runs found". Whether bytes are UTF-8, and the layout inside
a word, are left out. The bloom filter uses two hashes where the code uses seven.
A log is read record by record, and a torn record (the log ends inside it) is told
from a damaged one as the code tells them.

`VerifyLogical` takes a store as a function of keys, tuples of a kind and its parts,
to values or `Corrupt`; `VerifyFiles` takes a directory of words. `KeySpace` builds
keys as the code does and says what is injective and what a prefix or range lists.

### BlockReads

A run of entries, which the code has as a `BTreeMap` or as a list in ascending order, is
a function from finitely many keys to optional values (`SstReads`); runs laid over one
another (`Overlay`) are what a merge makes of its sources. A file is the sequence of its
blocks and the index over them: `BlockEnds` are the keys at which `write_new` starts a new
block, given as the one set that agrees with the running size, where the code has a loop.
The bytes are left to `SstFile`.

Any number of `Readers` read one key each. A read looks at the memtable (`BeginGet`), then
at the files from the newest on, one step a file: it is held back by the index or the
bloom filter (`SkipFile`), answered from the cache (`ReadCached`), or misses (`Miss`) and
reads the block with the cache unlocked, then inserts it (`Fetch`); between the two other
readers may miss, insert and evict the same block. An error of such a read is `Return`. A
cached block is named by file and number (`Slot`); since only the order of its ticks
matters, they are renumbered from 1. Writers take the engine for themselves (`NoReader`:
the `RwLock` of the native store, and `&mut self` in the engine), so a write with the flush
and the compaction that may follow it is one step, to any of the states its errors leave
(`FlushResults`). A page of a scan is one call under the lock, and anything may happen
between two pages. `MaxWrites` bounds the history; with `Together = FALSE` a point read and
a scan are not under way at once. In the code they may be, and the theorems hold of that
too; but a page goes past the cache, so neither changes what the other sees, and the run
is spared the product of their states.

### StoreOpen

A file is what it holds and the key that content is sealed with; every write, sync
and rename of a metadata file is a step. `disks` is the set of images a power loss
may leave; names are taken to change on disk in the order they were changed, and a
sync to take earlier changes along. The code syncs no directory; on a file system
that keeps no such order nothing of this would hold. Two keys, a blank one and none;
three embedders, of which one has another dimension.

### Knowledge, Retrieval, TextSearch, GraphSearch

What a language model extracts is any of a few answers. A consolidation is several
calls of the store, each a step. An import and a purge are one call of several writes
under the lock: one step, to any of the states an error or the end of the process may
leave (`ImportStates`, `PurgeStates`) or to the last. Times are 0 and 1.
`BatchOps` counts the operations of the one batch an import writes for its memories:
record, mapping and vector, the postings, the terms, the expiry entry, and the vectors
whose neighbours change, then the allocator, the registry, the vectors' metadata and the
statistics. How many neighbours a new vector gets depends on distances, which are left
out: between none and `MaxDegree`, so a batch whose size lies between the two counts may
be written or refused (`ImportMayFit`, `ImportFits`). A dump is lines in JSON, where a
weight that is not finite becomes `null`, a line that cannot be read (`EdgeLine`). Finite
numbers are taken to come back as they were written; `serde_json` without its feature
`float_roundtrip` may be off in the last bit, which is not modelled. `Retrieval` takes the vectors'
distances as given, and a score is an integer in hundred-thousandths where the code
has a float; where the code takes the logarithm of `x` there is `x - 1`, which grows
with it and has its sign, so orders of terms of one document set are kept and
numerical values are not claimed. `Algorithms` picks one sample after the other, and
its properties are about the sample at hand.

### Provision, Serving, Servers

Files are inodes with the pieces written to them, because two programs use the same
name for a temporary file. Programs are killed and started again; a power loss is
left out (nothing is synced, so a file may then be cut). A step of a handler is what
it does between two awaits. `AtRest` is a bound: serving starts from one state of the
cache, which it never reads again. A server is not stopped and started again.
A timeout, or a client that goes away, drops the handler of the REST server anywhere
it waits; the MCP server runs its tools in the task of the session and has none.

## Runs

All bounds are named in the modules' CONSTANTS.

| run | checks | bounds and why they are enough |
|---|---|---|
| `engine_batches` | `Durable`, `ReadsExplained`, `LiveFiles`, `LiveFilesImmutable`, `MaintenanceInvisible` | two keys and two batches, the second crossing the flush threshold: a batch of several keys can be split, flushed in half, or mixed with another; compaction at every second file |
| `engine_history` | `IsDurableMap`, `CallReturns` | one key, three batches, flush at every batch: put, delete and put again through files, merges, dropped tombstones, reused ids; under fairness |
| `vector_lifecycle` | `ResultsAreLive`, `OpensCleanly`, `NoDangling`, `OnlyCallsChangeLive` | three ids, degrees of one and two (lists that must be pruned, lists with a live neighbour left), groups of two, one block per batch: every pass is several batches and has live, dead and missing neighbours at once |
| `memory_composition` | `LinksAgree`, `AllocatorFresh`, `SidecarsAgree`, `StatisticsAgree` | two agents with two ids each, three vector ids, one expiry time or none, groups of two: sharing of ids between agents, chunks that stop in the middle, allocator exhausted and healed, vectors lost and given back |
| `agent_memory` | `InvalidatedIsGone`, `ValidityOnlyCloses`, `BestSurvive`, `CapacityReached`, `CollectsExpired`, `RemovalsAnnounced` | two tasks, two memories, pages of one, capacity 1, two importances, one tick: any two calls interleave at every store call, and every pass takes several pages |
| `algorithms` | `FormatsKept`, `FilesReadBack`, `CleanAuditRight`, `RepairHeals`, `AuditTrusted`, `KeysApart`, `TraversalRight`, `RecallsRight` | values on both sides of every length, `U32` = 63: in the logs keys, values, whole batches and sealed texts of 63 words and more, in the files keys, values, blocks, indexes and filters; logs, files and directories with every word damaged, removed or cut in turn; stores with every record missing, corrupt or taken from another, one of them with an entity that is called as the repair calls the text index; 255 graphs of four nodes; names that begin one another; recalls of two agents at two times and three sizes |
| `block_reads` | `ReadsLatest`, `PagedScan` | three keys of different lengths, two readers, a cache of about two blocks, pages of one entry, three writes: files of several blocks, eviction and invalidation, two readers that miss one block, a change between any two pages |
| `store_open` | `AlwaysOpens`, `ContainerWhole` | two keys and two rotations, two container entries, three embedders, a fault or a power loss at each step |
| `knowledge` | `FactsBounded`, `ImportSettles`, `BackupRestores`, `PurgeOrder` | two callers, three memories, answers at and above the bound on facts, a dump whose rows repeat and end, whole or cut; weights finite and not; texts with a term and without, one neighbour at most and batches of 10 operations: memories that surely fit into one batch, that may, and that cannot |
| `servers` | `RateBound`, `WatchersTold`, `CacheWhole` | three programs and a file in two pieces; then three requests of two agents, a limit of one per window of one tick, a channel of one event: two openings of one memory, a slow watcher, a handler cut anywhere |

`engine_history` assumes `WF_vars(EngineStep)`: a call that has begun keeps executing
its next I/O. The engine has one writer, the call runs in that thread without
waiting for anything but the I/O, and an I/O either returns or reports an error;
`Kill` and the errors need no fairness. Nothing is assumed about clients.

A module's `TypeOK` is in no run: it is there for the proofs. Those of `Engine`,
`AgentMemory` and `VectorIndex` are theorems.

What the less obvious properties say:

- `IsDurableMap`: the engine, seen through `Promise`, is a `DurableMap`, faults and
  crashes included.
- `LinksAgree`, `SidecarsAgree`, `StatisticsAgree`: what reopening the store at this moment would show.
- `AuditTrusted`: a directory that the audit passes opens, and what is read is what
  was written, or a prefix of it where damage to a length makes the rest of the log
  look like a torn tail.
- `CleanAuditRight`: a store whose audit finds nothing answers every search rightly;
  `RepairHeals`: an applied repair changes no primary data, and the audit reports
  nothing more than the records it asks to embed again, vectors no record claims, and
  primary data whose names the plan took for those of an index (`Misread`); no other
  unreadable primary data passes for something to repair.
- `FormatsKept`, `FilesReadBack`: what fits its length fields is read back, and nothing
  else is read in its place. What does not fit is refused by the encoder or, for the
  log and the SST files, at worst refused by whoever reads it: it is never read as
  other data (`LogReadsBack`, `Honest`).
- `ImportSettles`: once an import has written anything, another one of the same dump
  is not refused for its size and ends as the first would have.
- `BackupRestores`: a dump is accepted just when all weights in it are finite, and then
  restores everything or, if the batch of its memories is too large, nothing.
- `AlwaysOpens`: from every image a crash may leave, the key that was acknowledged
  last (or, during a rotation, one of the two) opens the store and finds the data.
- `RecallsRight`: every recall equals its definition by sets (who is visible, in which
  order), apart from letters whose lower case depends on their place in a word.

### What the runs found

Two runs check one sentence of the repository's comments each, and TLC finds a
behaviour of the code in which it is false. `PROJECT.json` ("findings") quotes them.

- `engine_short_write` (`OkIsDurable`): a `write_all` that fails half-way leaves its
  bytes in the log; what later calls acknowledge goes behind them and is dropped
  by recovery. The other runs of `Engine` allow the short write only as the last
  write of a process (`"last_short_write"`).
- `verify_expiry` (`NoFalseAlarm`): the audit does not know the keys under
  `idx/temporal/expiry/`. Any healthy store with a memory that expires is reported as
  damaged, and a repair is refused.

The following was met while modelling. The models exclude it, by a fault no run
enables or by a condition in the property, so that the rest can be checked.

- *Removals that fail in a compaction.* `compact` drops tombstones and ignores a
  failed `remove_file` (`engine.rs:677`; the comment speaks of a space leak). The old
  file is read again at the next open, and a deleted key comes back. To reproduce:
  `Faults = {"unlink"}` in `MCEngineHistory.cfg`, invariant `OldFilesAreRedundant`.
- *Directory order.* Nothing syncs the directory between the rename of an SST and the
  truncation of the log: with `OrderedDir = FALSE`, `Durable` is violated.
- *Batches that were applied although the call failed.* With `Faults = {"applied"}`,
  `OnlyCallsChangeLive` of `VectorIndex` is violated: the cache keeps the live block of
  a deleted vector, and the next insert writes it back (`idx/vector/persistent.rs:473`).
  With `"applied"` or `"unsynced"`, `AllocatorFresh` and `LinksAgree` of `MemoryIndex`
  are: the allocator in memory advances only after Ok, and ids are used twice.
- *Passes that fail in a process that goes on.* `OpensCleanly` and `NoDangling` are
  claimed as long as no pass has returned an error (`failed`): `consolidate` changes its
  handle only at its end. The documents of `SidecarsAgree` and the tombstone part of
  `AllocatorFresh` are claimed outside an unfinished repair; an interrupted
  `rebuild_fts` leaves records without documents, which the audit does not report.
- *Lengths that do not fit.* The engine bounds neither keys nor values, and the encoders of the
  log and of the SST files cut their lengths with `as u32` (`format/wal.rs:138,142,143,234`,
  `format/sst_block.rs:298,305,442`). A record of 4 GiB or more is acknowledged, and the
  next replay refuses the whole log, with what was acknowledged before and behind it. In
  an SST file the block with such an entry, or the whole file where its index or filter
  is that long, is refused from the next read or open on. The properties claim that no
  other data is read, and that whatever fits is read back.
- *Audit and repair.* A lost statistics record (`fts/persistent.rs:211`) or a wrong live
  count is reported as a warning that open heals, and open does not. A
  `VectorDimMismatch` is planned as a rebuild, which refuses the store after it deleted
  the metadata. The rebuilt allocator is derived from the records alone and may fall
  below a vector without record (`Unclaimed`). A log cut between two records, or a
  lost SST file, cannot be noticed: nothing lists them. `plan_repair` tells what an
  unreadable value belongs to by words of the message (`store/repair.rs:73`: `"fts "`,
  `"vector index metadata"`), and the message has the key in it. An unreadable memory,
  entity or edge whose name, or whose agent's name, contains these words is planned as a
  rebuild of the index: the repair is applied, although primary data is at risk, and the
  damage stays. `Mentions` models it; `RepairHeals` excepts these keys and no others.
- *Embedding contract.* The re-embedding commands neither check nor change the model
  the store names: afterwards the new model is refused and the old one mixes vectors.
  An embedder of a wrong dimension opened on a fresh store names itself before it is
  refused, and the right one is refused from then on.
- *Keys.* `rotate-key --new-key` takes a blank key that resolving would refuse.
- *Graph purge.* It is one batch: an agent with more than `MAX_BATCH_OPS` entities and
  edges can never be purged. An agent with a graph and no memories is in no registry, so no listing finds it.
- *Dumps that cannot be imported.* `Graph::add_edge` (`cognition/graph.rs:75`) takes any
  weight. One that is infinite or not a number is written to the dump as `null`, and the
  import then refuses the dump as a whole. `import_rows` puts all memories in one batch,
  with all their postings and the neighbours of their vectors, so the dump of an agent
  may be refused for its size long before it has `MAX_BATCH_OPS` memories.
- *Consolidation.* A purge while a pass is under way is followed by the facts of that
  pass. An edge that expired stays so when it is stated again.
- *Search.* Documents are lowered letter by letter, queries as a whole: a word that ends
  in a capital sigma is not found. A recall filters after cutting, so a store whose
  nearest vectors are mostly hidden answers fewer than it could.
- *Provisioning.* Two programs that fetch at once write the same temporary file; one
  may move into place what the other truncated, and nobody checks it again (`raced`).
- *Servers.* A handler that is dropped after its store call has begun commits and
  announces nothing. The MCP watch tool answers before it subscribes. `purge_agent`
  announces nothing, and two removals of one memory at once announce it twice. The
  entries of the rate limit and of the pool are never removed.

## Proofs

`EngineProofs` proves, for any sets of keys, thresholds, faults, disk model and
bounds:

- `TypeCorrect`: `Spec => []TypeOK`;
- `LiveFilesSafe`: `Spec => []LiveFiles`;
- `LiveFilesNeverRewritten`: `Spec => LiveFilesImmutable`.

They rest on `EngineAssumption` and `NoFileAssumption` only (naturals, a finite set
of keys, a marker that is not a file). `TypeOK` is not inductive: the step that
lists a new file must know that its id is one of `Ids`, and what a merge or a
replay returns is well typed only if every file and every logged batch exists.
`IndInv` adds that: `Phases` says which `call`, `job`, `todo` and temporary file go
with which `pc`, and that the file about to be listed is on disk and whole;
`IdsLeft` that the ids the call may still use are below the bound; `LogStamps` and
`DiskStamps` that logs hold batches that were handed in. `Invariance` proves
`Spec => []IndInv`, one step per action of `Next`. `LiveFilesNeverRewritten` follows
from it: only `Rename` writes a file, under `next_sst_id`, and every live id is below
it.

### The engine keeps and shows what it acknowledged

The second half of `EngineProofs` proves `MaintenanceNeverSeen` (`Spec => MaintenanceInvisible`)
without further hypotheses, and from `Dependable` the rest: `DurableAlways`,
`ReadsExplainedAlways` and `EngineIsDurableMap`, the refinement of `DurableMap`.
`Dependable` says that changes of a directory reach the disk in order
(`OrderedDir`), that a removal does not fail (`"unlink"`) and that a failed append
leaves nothing behind (`"short_write"`). Each conjunct is needed: the run
`engine_short_write` and the first two items of the findings above are the
counterexamples without it. It is stated as a hypothesis of those theorems, not as an
assumption of the module.

The argument. Batches are numbered, and memtables, files and logs hold numbers, so that
a set of batches can stand for each of them. `Exact(c, S)`: the contents `c` are the last
entry of every key among `S`, tombstones included; `Shows(c, S)`: the same, but that
tombstones may be missing. `RunHolds` says that the memtable is exactly some set `M`, the
live files show some set `F`, with and without the files that are being removed, and
whatever of `F` is not in `M` came before all of `M`. `Images` says of every disk image a
power loss may leave that its files show some set `G`, that `G` comes before the records
of its log in the same sense, and that all that was promised is in one of them. The
invariant has to speak of all images at once, because a sync, a rename and a truncation
each change which of them remain, and has to allow overlap, because between the rename
and the truncation the log still holds what the new file shows. A flush moves `M` into
`F`; a compaction keeps `F` and leaves out tombstones only (`Gap`), which is sound while
the old files are removed oldest first and none stays behind. `LastOfUnion` (the last
entry in a union of two sets, one before the other) is the lemma all of this rests on.
The refinement follows: handing in a batch is `Submit`, the step after which the memtable
holds it is `Show`, the return of Ok is `Ack`, a death is `Down`, the last step of an open
is `Reopen`, and all other steps stutter.

### Reads give what was written last

`BlockReadsProofs` proves `ReadsLatest` and `PagedScan`, for any keys and values, any
number of readers, any block size, capacity, thresholds and page limit. They assume
`ReadsAssumption` only (keys are sequences of naturals, the sizes are naturals, a page
has at least one entry).

The inductive invariant is `ReadsInv`. `GoodFiles`: each file is its run cut into blocks
in order, none of them empty, with an index that tells where (`Written`); no two files
share an id; and under a slot of the cache lies that file's block (`CacheRight`).
`LiveHeld`: memtable and files, laid over one another, hold the value last written of
every key (`Held`). `ReadRight`: a read that has no answer yet has not passed the newest
file with its key, the number of a block it missed is that of the block the key can only
be in, and an answer is the last value; this is where writers and readers must exclude each
other, for a read half-way would not survive a flush. `ScanRight`: what a scan has shown
lies in order before the key it goes on from, and of the keys that had a value throughout
none before it is missing. None of the two properties is inductive without all four.

The work is in the lemmas about `SstReads`, which name the code they are about:

- `KeyOrder` and `NextKey`: the order of keys is total, and a key with a zero byte behind
  it is the next one, which is why a page may go on from there;
- `BlocksAreCut`: there is a set of ends as `BlockEnds` chooses it (`EndsExist`, by
  the least counterexample), and a run cut at its ends is in order and complete;
- `OverlayAt`, `OverlayAppend`, `OverlayAgree`: a merge has of every key what the last
  source with that key has, so what all sources say of a key settles it;
- `RouteRight`, `PrefixRead`, `RangeRead`: a key in the file is in the block the index
  leads to, and a read of the blocks from the first that may matter to the first that
  cannot gives the whole range or prefix; with a limit (`GoodPart`), all of it up to
  its last key;
- `PageRight`: a page ends at the least last key of the sources that were cut short, up to
  which all sources are complete; so it shows everything up to there with the values of
  the moment (`PageOf`), and makes progress (`Less(a, page.next[1])`);
- `CompactedGood`, `FlushGood`, `InsertRight`, `TouchedRight`: a flush and a compaction,
  whatever fails in them, change no value and leave no block of a dead file reachable, and
  neither does an eviction.

### Keys are apart

`KeysAlwaysSeparate` states `Separate`, which the run `algorithms` evaluates on samples,
for every store; `KeysAlwaysApart` puts it as that run's invariant, for any samples. It
assumes what the types of the code give: a name is a sequence of bytes from 0 to
`HIGH_BYTE` (`Name`), an id is a natural, a time is a signed integer of its width
(`Time`), and a store has finitely many of the first two (`Used`). A name may be empty,
begin another, hold the greatest byte, or be too long for its length word; the last gets
no key where the code length-prefixes it.

There is no state and no invariant here; the argument goes by kinds of keys.

- `KeysWritten` and `ExpiriesWritten`: every key that names an agent (all but those of
  vector nodes and their mappings, which are an id) is one shape, a word for the kind,
  the agent's name behind its length, and a rest (`AgentKey`); where a further name is
  not last in the key, it lies behind its own length (`Behind`).
- `AgentsApart` and `BehindRead`: what is behind a length is read back with the rest, so
  two keys of that shape are equal only when kind, agent and rest are. Without the length
  the keys of `a` + `bc` and `ab` + `c` would be one, which is the run's mutant.
- `PostKeys`, `ExpiryKeys`, `NamedKeys`, `DocKeys`, `AgentRecords`, `NodeKeys`: hence each
  kind has as many keys as things; `Families`: the first word tells the kinds apart.
- `AgentScanned` and `NamesScanned`: a scan of a prefix compares lengths before names.
  `RecordsRanged`: a range of an agent's records ends at the prefix with its last byte
  below the greatest counted up and what follows dropped, which is above every key with
  the prefix and not above any other agent's behind it. `TimesSort`: a range of expiries
  ends at the word of the next instant. At the last instant the addition saturates, and
  the property leaves that case out.

### What a server keeps

`ServersProofs` proves all three properties of the run `servers`, for any number of requests, agents and programs, and any limits and capacities.

- `RateBound`. `Counted` is the inductive part: an injection from the admitted requests
  that arrived within the window that ends now into the hits that are kept. The queue
  need not be sorted, since a request reads the clock before it takes the lock; what is
  dropped is older than the window for the request that drops it, and so for now.
  A window that has ended gets no new member (`RateBoundNext`).
- `WatchersTold`. `Pooled` says that all requests of an agent work on the Memory in the
  pool, `Removing` and `Announces` that whoever changes a memory had seen it and will
  announce it (two removals at once included), `InChannel` that a subscription is
  within its channel.
- `CacheWhole`. `OneName` says that no two names and no two writers of different names
  share a file, `Brings` and `InPlace` that what is renamed into place was written to
  its end by all who had it open, unless it is in `raced`.
- `ServersServe`: `AllSpec => Spec`, so that what is proved of `Serving` holds of a
  server from its start.

They assume `ServingAssumption` and `ServersAssumption`; that `Programs` is finite is
needed for a new inode to exist.

### What the memory index shows

`MemoryIndexProofs` proves all four properties of the run `memory_composition`, for any
agents, ids, times and lengths, any group and chunk sizes and any highest vector id. The
hypothesis of the theorems is that a batch that fails has written nothing
(`Faults` holds `"rejected"` at most): with `"unsynced"` or `"applied"` `LinksAgree` and
`AllocatorFresh` are false, as the findings above say, and so is `StatisticsAgree`: the
statistics that a later batch writes are computed without the document that the failed
one has left in the log, or a second memory takes the vector id of the first. They assume `MemoryIndexAssumption` and
`AbsentAssumption` (the marker of an absent key is no value of a key).

`IndexInv` is the inductive invariant of the first three. None is inductive by itself: what a
step writes is computed from what the process reads, from the allocator it holds in
memory, and from the list of what a call has still to visit. So `IndexInv` says that the
process reads what an opening would show, that records, mappings, nodes and the
allocator are typed (`Typed`), that every mapping belongs to a record (`Linked`), every
document to a mapping (`Documented`) and every expiry entry to a record (`Listed`), that
the allocator in memory is as good as the one on disk (`Numbered`), and what each call of
several batches has left to do (`Calls`): a purge has all remaining memories of its
agent on its list when it drops the registry entry, `rebuild_fts` has every record
without a document, and `reembed_missing_container` every record without a vector. For
each batch one lemma says what the store holds afterwards (`PutStore`, `ForgetStore`, ...)
and one that the parts of the invariant hold of it (`PutKeeps`, `ForgetKeeps`, ...);
`IndexStep` has one case per action.

`StatisticsAgree` is about sums, and `Total` is the library's fold over a set, whose order
is not known. It takes induction, though over subsets of a finite set only: the good
subsets are a set, and if one is not good a least one is not (`SubsetInduction`). So the
function the fold is defined by exists and is unique (`SumOver`, `SumsAgree`), any element
can be taken out first (`SumOne`), and sums over sets without a common element add up
(`SumSplit`). On top of `IndexInv` the invariant is `Counting`: every agent's statistics
count its documents and their terms (`Totalled`), and the records `rebuild_fts` has still
to visit have no document yet, or staging one would count it twice. That the new vector
ids of a put have none follows from `Documented` and `Below`; that a forgetting takes off
no more than is there, from `Totalled`: `saturating_sub` never saturates.

### A store opens and is whole

`StoreOpenProofs` proves `AlwaysOpens` and `ContainerWhole`, for any passphrases,
container entries and embedders and any number of data keys. They assume
`StoreAssumption`: a blank is no passphrase, and the embedder's entry and the memories
are no entries of the container.

`AlwaysOpens` speaks of keys in general, and a step can only be shown to keep it if one
knows which file of which image is sealed with what. `OpenInv` says it in three parts.
`Images`: every image a power loss may leave has what was acknowledged, at most one
embedder that has signed, and is `Sound` for the promised keys: its log and its file
carry the data key of its `crypto.meta`, that is wrapped under a promised key, and a log
without `crypto.meta` means that none was promised. `Behind` relates each image to what
the process sees: what an image has the process has seen under the same data key, and
before there is a log no image has another `crypto.meta`. That is why a new data key may
be made where no data is seen, though the images are several. `StorePhase` and `Phase`
say what holds at each step of an open and of a rotation: the key and data key of an open
process are those of the directory (`Held`), the container is whole (`Whole`), and the
temporary file about to be renamed has the data key under the new key. Each change of
the directory is one of three kinds, with a lemma each: one that may not reach the disk
(`Grown`), one that has (`Alone`), and one of a temporary file (`Scratched`).

### What the calls of an agent rely on

`AgentMemoryProofs` proves all six properties of the run `agent_memory` and `TypeOK`, for
any tasks, memories, importances, capacities and page sizes. They assume
`AgentMemoryAssumption` and `AbsentAssumption` (the marker of a missing memory is no
record).

The argument is rely and guarantee, because any number of tasks write between two
steps of a call. `Evolves` is what every step guarantees of the store (`StoreStep`, one
lemma per writing action, from which `ValidityOnlyCloses` follows): no memory comes
back, a start never changes, a validity only closes, and a closed one changes for an
invalidation only. `TaskOk` is what a call knows at each of its steps, and `Relies` shows
that it stays true under `Evolves`; so a step is looked at from its own task alone. A
recall knows that nothing it has found had ended when it began (`RecallOk`). A removal
knows which of the victims it has looked up are there still (`RemovalOk`), and `AnnouncedIn` that
whatever is gone without an event is in the hands of a task about to send it.
A pass of adaptive forgetting knows that whoever was active at its start and
is so now would be listed at its own time too (`PassOk`), that its heap is the best of
what was offered (`SelectOk`, `OfferKeepsBest`), and that of those it is past each has
survived or is being removed (`EvictOk`); with `PageIs` (a page has the next ids after the
cursor, and a short page all of them) this is why pages that shift under the pass skip
nobody. `CapacityReached` alone says nothing of the pages before the last, and
`BestSurvive` nothing of the page still to be offered.

### What the vector index keeps

`VectorIndexProofs` proves all four properties of the run `vector_lifecycle` and `TypeOK`,
for any ids, degrees, chunks and group sizes. As for the memory index, the hypothesis is
that a batch that fails has written nothing; with `"applied"` the third finding above is
the counterexample. They assume `VectorIndexAssumption` (ids are naturals, finitely many)
and `NoBlockAssumption` (the markers are no block and no metadata).

None of the four is inductive: what a step writes depends on the cache, on the plan so
far and on the metadata a pass carries. `IInv` adds that the cache agrees with the store
on what is live (`SameLife`, which a failed pass leaves true) and, as long as no pass has
failed, on every block (`InStep`); that the count in the handle and in the metadata is
exact at every batch (`Handle`, `MetaRight`); that a plan makes nothing live but ids of
its group, brings no tombstone back when it writes a new list for it, and keeps lists
without missing blocks (`PlanOk`, kept by `PlanAdds` for every choice pruning may make);
and that what a pass has still to write leaves live blocks that refer to live blocks only
(`Repaired`). The last is why `consolidate` may remove the tombstones: not that no list
refers to them now, which is false until the last repair is written, but that none will
when the purge begins.

### What agents know

`KnowledgeProofs` proves `FactsBounded`, `ImportSettles`, `BackupRestores` and
`PurgeOrder`, for any agents, answers of the language model, dumps and bounds, and
finitely many callers. They assume `KnowledgeAssumption`: what users remember has the
source `"user"`, as the facade's public calls give it (only `apply_extraction` passes
another one), and a dump has finitely many lines.

- `FactsBounded` is not inductive: a caller between the look for a fact and its write
  will add one whatever is there by then. `Counted` counts the two together: of each
  text, the valid facts and the calls past the look (`"near"`, `"put"`) are no more
  than the callers. A caller that joins the second has found none of the first
  (`CheckExactSteps`), one that writes moves from the second to the first
  (`PutFactSteps`), and whatever else happens only takes away: a purge, an end of
  validity, a crash, the clock, and an import, whose memories have a source of their
  own.
- `ImportSettles` is a fact about overlays (`OverTwice`): what a stopped import has
  written is part of what the whole import writes, with the same values, because the
  first line of an id is the first whatever prefix of the dump one looks at. The
  memories go first, in one batch, so a store that differs at all has them, another
  import has none to add, and nothing is left that could be too large (`ImportAgain`).
  An I/O error or a failing embedder is covered: the import then stops in one of
  `ImportStates`.
- `BackupRestores` needs that what an agent has can be listed and is accepted
  (`AllDumpable`): three finite tables, and memories of the four layers, which an
  import that was accepted leaves true. The order in which a dump lists them is not
  known, and does not matter: a list of a finite set has its elements and no others
  (`Listed`), so of each type the lines say the whole table and nothing else
  (`ExportRows`), and such lines give the table back, though an import takes only the
  first line of an id (`RowsBack`). The theorem says when a dump is
  accepted, with trust just when every weight in it is finite (`EdgeLinesFinite`,
  `EdgeLinesAre`), without trust just when besides no memory is procedural; and that an
  accepted one restores all, or nothing where the batch of its memories may be too
  large. That it restores all is claimed where the batch fits with `MaxDegree`
  neighbours for each vector (`ImportFits`), which is the most the code can stage.
- `PurgeOrder`: of the calls, only the last batch of a purge makes a graph smaller.

### Model-checked only

`CallReturns` is a liveness property and beyond the prover. The codecs, the searches
and the audits of `Algorithms` (`FormatsKept`, `FilesReadBack`, `CleanAuditRight`,
`RepairHeals`, `AuditTrusted`, `TraversalRight`, `RecallsRight`) are recursions over data. That `SstFile` reads back the
bytes it wrote (`FilesReadBack`) is checked on samples; what the blocks so read give is
proved above.

## Plan

Modelled: the engine and its promise, opening and keys, formats and files, reads,
audit and repair, the vector and memory indexes, the facade and its maintenance,
graph and knowledge, search, provisioning and the servers' shared state.

Later: the batch variants of the facade (`remember_batch`), and a restart of the server
while requests are under way.

## Not modelled

- Command line and bindings: they translate arguments and results of one call.
- `provision/llm.rs`: it asks the local servers which models they have and picks one
  that fits the machine; nothing is written.
- Ciphers, key derivation, the embedder's inference: taken as given.
- Distances and the quality of a vector search, which no invariant can state.
- Two processes on one store: the code asks for exclusive use and does not enforce it.
- Authentication, policies, routing and audit logs of the servers: mappings of one
  request without shared state.
- Benchmarks, the harness, fuzz targets, `xtask`.
