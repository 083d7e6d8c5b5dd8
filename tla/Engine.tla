-------------------------------- MODULE Engine --------------------------------
(***************************************************************************)
(* The single-writer LSM key-value engine of                               *)
(* crates/basemyai-engine/src/store: a write-ahead log (wal.rs), a         *)
(* memtable (memtable.rs), immutable sorted files (sst_block.rs), flush,   *)
(* full-merge compaction and recovery at open (engine.rs).                 *)
(*                                                                         *)
(* Every call is broken at each I/O of the code, so that the process may   *)
(* be killed, the machine may lose power, or the I/O may report an error   *)
(* between any two of them.  The data is abstracted to stamps: the n-th    *)
(* batch a client hands to the engine is ops[n], and what the log, the     *)
(* memtable and the files hold for a key is the number of the batch that   *)
(* wrote it (0 where they hold nothing).  Whether batch n put or deleted   *)
(* the key is read off ops[n], as the code reads it off Option<Value>.     *)
(***************************************************************************)
EXTENDS Integers, Sequences, FiniteSets

CONSTANTS
    Keys,              \* the keys clients use
    FlushThreshold,    \* EngineOptions::memtable_flush_threshold
    CompactThreshold,  \* EngineOptions::compaction_sst_threshold
    Faults,            \* which I/O may fail: "io" (any call returns an error
                       \* and has no effect), "short_write" (write_all leaves
                       \* part of a record), "last_short_write" (so, and
                       \* nothing is written after it), "unlink"
                       \* (remove_file fails)
    OrderedDir,        \* TRUE: the file system persists directory changes in
                       \* the order they are made, no later than the next
                       \* successful sync_all of a file; FALSE: sync_all of a
                       \* file says nothing of its directory entry
    NoFile,            \* an SST id with no file of that name
    MaxOps,            \* bound: batches handed to the engine
    MaxSsts            \* bound: SST ids

ASSUME EngineAssumption ==
    /\ FlushThreshold \in Nat /\ CompactThreshold \in Nat
    /\ MaxOps \in Nat /\ MaxSsts \in Nat
    /\ OrderedDir \in BOOLEAN
    /\ IsFiniteSet(Keys)

Ids == 0 .. MaxSsts - 1

\* What a memtable or an SST holds: for each key the stamp of its entry, 0 for
\* no entry.  A tombstone is the stamp of a batch that deletes the key.
Contents == [Keys -> Nat]
Empty    == [k \in Keys |-> 0]
File     == [data : Contents, synced : BOOLEAN]
Dir      == [Ids -> File \cup {NoFile}]

ASSUME NoFileAssumption == NoFile \notin File

\* The log is append-only and stamps grow, so a log is its set of records.
\* "torn" holds the stamps of records of which only a part was written.
Log      == [recs : SUBSET Nat, torn : SUBSET Nat]
EmptyLog == [recs |-> {}, torn |-> {}]

\* The log once record n, or only a part of it, is at its end.
Recorded(w, n) == [w EXCEPT !.recs = @ \cup {n}]
Torn(w, n)     == [w EXCEPT !.torn = @ \cup {n}]

\* A batch, as a function of the key: the last sub-operation of a key wins.
Batches  == {b \in [Keys -> {"put", "del", "none"}] : \E k \in Keys : b[k] # "none"}

VARIABLES
    ops,          \* history: the batches handed to the engine, in order
    acked,        \* history: the stamps of the batches that returned Ok
    wal,          \* wal.log, as a running process reads it back
    dir,          \* the *.sst files, by id
    disks,        \* the pairs of log and directory a power loss may leave
    tmp,          \* the *.sst.tmp file being written
    memtable,     \* Engine::memtable
    ssts,         \* Engine::ssts: the ids of the files the engine reads
    next_sst_id,  \* Engine::next_sst_id
    garbage,      \* compact(): the ids still to be removed (old_ssts)
    pc,           \* the next I/O of the call in progress
    job,          \* which function is writing tmp: "flush" or "compact"
    call,         \* the public function in progress
    todo          \* compact_now(): its own compact() is still to come

disk == <<wal, dir, disks>>
ram  == <<memtable, ssts, next_sst_id, garbage, tmp>>
vars == <<ops, acked, disk, ram, pc, job, call, todo>>

-----------------------------------------------------------------------------
(* Reading entries. *)

cur == Len(ops)                          \* the stamp of the call's batch

Deletes(n, k) == ops[n][k] = "del"       \* stamp n is a tombstone for k

Files(d)      == {i \in Ids : d[i] # NoFile}
Holding(d, I, k) == {i \in I : d[i].data[k] # 0}
Newest(S)     == CHOOSE i \in S : \A j \in S : j <= i

\* Batch n applied to a memtable.
Apply(m, n) == [k \in Keys |-> IF ops[n][k] = "none" THEN m[k] ELSE n]

\* (Faulty: the oldest file wins.)
MergeOldest(d, I) ==
    [k \in Keys |-> LET H == Holding(d, I, k)
                    IN IF H = {} THEN 0
                       ELSE d[CHOOSE i \in H : \A j \in H : i <= j].data[k]]

\* The entry the newest of the files I has for each key.
Merge(d, I) ==
    [k \in Keys |-> LET H == Holding(d, I, k)
                    IN IF H = {} THEN 0 ELSE d[Newest(H)].data[k]]

\* compact(): tombstones are filtered out of the merge.
DropTombstones(c) ==
    [k \in Keys |-> IF c[k] # 0 /\ Deletes(c[k], k) THEN 0 ELSE c[k]]

\* Wal::replay: the records before the first one that is not whole ...
Whole(w)    == {n \in w.recs : \A t \in w.torn : n < t}
\* ... applied in order: a key ends with its last record.
Replay(w) ==
    [k \in Keys |-> LET H == {n \in Whole(w) : ops[n][k] # "none"}
                    IN IF H = {} THEN 0 ELSE Newest(H)]

\* Engine::get: memtable first, then the files from the newest; the first entry
\* wins and a tombstone reads as absent.
Get(m, d, I) ==
    DropTombstones([k \in Keys |-> IF m[k] # 0 THEN m[k] ELSE Merge(d, I)[k]])

Touched(m) == {k \in Keys : m[k] # 0}    \* Memtable::len is its cardinality

-----------------------------------------------------------------------------
Init ==
    /\ ops = <<>> /\ acked = {}
    /\ wal = EmptyLog
    /\ dir = [i \in Ids |-> NoFile]
    /\ disks = {[wal |-> wal, dir |-> dir]}
    /\ tmp = NoFile
    /\ memtable = Empty /\ ssts = {} /\ next_sst_id = 0 /\ garbage = {}
    /\ pc = "closed" /\ job = "flush" /\ call = "none" /\ todo = FALSE

\* A change of the disk that is not yet synced, and sync_all of the log.
Unsynced == disks' = disks \cup {[wal |-> wal', dir |-> dir']}
Synced   ==
    disks' = IF OrderedDir THEN {[wal |-> wal, dir |-> dir]}
             ELSE {[wal |-> wal, dir |-> d.dir] : d \in disks}

\* The call returns to the client.
Return(ok) ==
    /\ pc' = "idle" /\ call' = "none" /\ todo' = FALSE /\ job' = "flush"
    /\ acked' = IF ok /\ call = "write" THEN acked \cup {cur} ELSE acked

\* The process is gone and its memory with it.  Temporary files stay behind and
\* are never read: scan_existing only looks at *.sst, write_new truncates.
Gone ==
    /\ pc' = "closed" /\ call' = "none" /\ todo' = FALSE /\ job' = "flush"
    /\ memtable' = Empty /\ ssts' = {} /\ next_sst_id' = 0 /\ garbage' = {}
    /\ tmp' = NoFile

-----------------------------------------------------------------------------
(* The calls. *)

Room(n) == next_sst_id + n <= MaxSsts    \* bound: ids the call may use

\* put, delete and apply_batch of a batch that is not empty.
Write(b) ==
    /\ pc = "idle" /\ cur < MaxOps /\ Room(2)
    /\ ops' = Append(ops, b)
    /\ pc' = "append" /\ call' = "write"
    /\ UNCHANGED <<acked, disk, ram, job, todo>>

\* flush(), and the flush of close(); a no-op on an empty memtable.
Flush ==
    /\ pc = "idle" /\ memtable # Empty /\ Room(2)
    /\ pc' = "write_tmp" /\ call' = "flush"
    /\ UNCHANGED <<ops, acked, disk, ram, job, todo>>

\* compact_now(): flush() if there is something to flush, then compact().
CompactNow ==
    /\ pc = "idle" /\ Room(3)
    /\ memtable # Empty \/ ssts # {}
    /\ pc' = "write_tmp" /\ call' = "compact_now"
    /\ IF memtable # Empty THEN job' = "flush"   /\ todo' = TRUE
                           ELSE job' = "compact" /\ todo' = FALSE
    /\ UNCHANGED <<ops, acked, disk, ram>>

-----------------------------------------------------------------------------
(* The log. *)

\* write_all of the record, then sync_all.
WalAppend ==
    /\ pc = "append"
    /\ wal' = Recorded(wal, cur)
    /\ dir' = dir
    /\ disks' = disks \cup {[wal |-> wal', dir |-> dir],
                            [wal |-> Torn(wal, cur), dir |-> dir]}
    /\ pc' = "sync"
    /\ UNCHANGED <<ops, acked, ram, job, call, todo>>

\* maybe_flush: a memtable at the threshold is flushed before the call returns.
MaybeFlush ==
    IF Cardinality(Touched(memtable')) >= FlushThreshold
    THEN pc' = "write_tmp" /\ UNCHANGED <<acked, job, call, todo>>
    ELSE Return(TRUE)

\* (Faulty: the memtable takes the batch and the call returns without sync_all.)
WalNoSync ==
    /\ pc = "sync"
    /\ memtable' = Apply(memtable, cur)
    /\ MaybeFlush
    /\ UNCHANGED <<ops, disk, ssts, next_sst_id, garbage, tmp>>

\* sync_all, then the memtable, then maybe_flush.
WalSync ==
    /\ pc = "sync"
    /\ Synced
    /\ memtable' = Apply(memtable, cur)
    /\ MaybeFlush
    /\ UNCHANGED <<ops, wal, dir, ssts, next_sst_id, garbage, tmp>>

-----------------------------------------------------------------------------
(* BlockSstFile::write_new, for flush() and for compact(). *)

\* (Faulty: a flush drops tombstones, as a compaction does.)
WriteTmpDropping ==
    /\ pc = "write_tmp"
    /\ tmp' = [data   |-> DropTombstones(IF job = "flush" THEN memtable
                                         ELSE Merge(dir, ssts)),
               synced |-> FALSE]
    /\ pc' = "sync_tmp"
    /\ UNCHANGED <<ops, acked, disk, memtable, ssts, next_sst_id, garbage,
                   job, call, todo>>

WriteTmp ==
    /\ pc = "write_tmp"
    /\ tmp' = [data   |-> IF job = "flush" THEN memtable
                          ELSE DropTombstones(Merge(dir, ssts)),
               synced |-> FALSE]
    /\ pc' = "sync_tmp"
    /\ UNCHANGED <<ops, acked, disk, memtable, ssts, next_sst_id, garbage,
                   job, call, todo>>

\* sync_all on the temporary file.
SyncTmp ==
    /\ pc = "sync_tmp"
    /\ tmp' = [tmp EXCEPT !.synced = TRUE]
    /\ pc' = "rename"
    /\ UNCHANGED <<ops, acked, disk, memtable, ssts, next_sst_id, garbage,
                   job, call, todo>>

\* fs::rename; compact() then adopts the merged file in place of the old ones.
Rename ==
    /\ pc = "rename"
    /\ dir' = [dir EXCEPT ![next_sst_id] = tmp]
    /\ wal' = wal
    /\ Unsynced
    /\ tmp' = NoFile
    /\ IF job = "flush"
       THEN pc' = "truncate" /\ UNCHANGED <<ssts, next_sst_id, garbage>>
       ELSE /\ pc' = "unlink"
            /\ ssts' = {next_sst_id} /\ garbage' = ssts
            /\ next_sst_id' = next_sst_id + 1
    /\ UNCHANGED <<ops, acked, memtable, job, call, todo>>

-----------------------------------------------------------------------------
(* The end of flush(): Wal::reset, then the new file joins the list. *)

Truncate ==
    /\ pc = "truncate"
    /\ wal' = EmptyLog
    /\ dir' = dir
    /\ Unsynced
    /\ pc' = "sync_truncate"
    /\ UNCHANGED <<ops, acked, ram, job, call, todo>>

\* Past the threshold flush() compacts; a compact_now that has not compacted yet
\* does; any other call returns.
AfterFlush ==
    LET full == Cardinality(ssts') > CompactThreshold
    IN \/ /\ full \/ todo
          /\ pc' = "write_tmp" /\ job' = "compact" /\ todo' = (full /\ todo)
          /\ UNCHANGED <<acked, call>>
       \/ ~full /\ ~todo /\ Return(TRUE)

\* (Faulty: the id of the new file stays the next id.)
SyncTruncateSameId ==
    /\ pc = "sync_truncate"
    /\ Synced
    /\ next_sst_id' = next_sst_id
    /\ ssts' = ssts \cup {next_sst_id}
    /\ memtable' = Empty
    /\ AfterFlush
    /\ UNCHANGED <<ops, wal, dir, garbage, tmp>>

\* (Faulty: the memtable is cleared, the new file is not listed.)
SyncTruncateForgetting ==
    /\ pc = "sync_truncate"
    /\ Synced
    /\ next_sst_id' = next_sst_id + 1
    /\ ssts' = ssts
    /\ memtable' = Empty
    /\ AfterFlush
    /\ UNCHANGED <<ops, wal, dir, garbage, tmp>>

\* sync_all; past the threshold, or for compact_now, compact() follows.
SyncTruncate ==
    /\ pc = "sync_truncate"
    /\ Synced
    /\ next_sst_id' = next_sst_id + 1
    /\ ssts' = ssts \cup {next_sst_id}
    /\ memtable' = Empty
    /\ AfterFlush
    /\ UNCHANGED <<ops, wal, dir, garbage, tmp>>

\* (Faulty: a file that was removed stays first in the list.)
UnlinkSameFile ==
    /\ pc = "unlink" /\ garbage # {}
    /\ LET old == CHOOSE i \in garbage : \A j \in garbage : i <= j
       IN dir' = [dir EXCEPT ![old] = NoFile]
    /\ wal' = wal
    /\ Unsynced
    /\ UNCHANGED <<ops, acked, ram, pc, job, call, todo>>

\* The old files are removed from the oldest; an error is ignored.
Unlink ==
    /\ pc = "unlink" /\ garbage # {}
    /\ LET old == CHOOSE i \in garbage : \A j \in garbage : i <= j
       IN /\ garbage' = garbage \ {old}
          /\ \/ dir' = [dir EXCEPT ![old] = NoFile]
             \/ "unlink" \in Faults /\ dir' = dir
    /\ wal' = wal
    /\ Unsynced
    /\ UNCHANGED <<ops, acked, memtable, ssts, next_sst_id, tmp, pc, job, call, todo>>

\* compact() returns; a compact_now whose flush compacted still runs its own.
CompactDone ==
    /\ pc = "unlink" /\ garbage = {}
    /\ IF todo THEN pc' = "write_tmp" /\ todo' = FALSE /\ UNCHANGED <<acked, job, call>>
               ELSE Return(TRUE)
    /\ UNCHANGED <<ops, disk, ram>>

-----------------------------------------------------------------------------
(* Errors.  Every `?` returns to the client and leaves the engine as it is. *)

IoError ==
    /\ "io" \in Faults
    /\ pc \in {"append", "sync", "write_tmp", "sync_tmp", "rename", "truncate",
               "sync_truncate"}
    /\ Return(FALSE)
    /\ tmp' = NoFile
    /\ UNCHANGED <<ops, disk, memtable, ssts, next_sst_id, garbage>>

\* write_all fails after part of the record is in the file; nothing cuts it off.
ShortWrite ==
    /\ \/ "short_write" \in Faults
       \/ "last_short_write" \in Faults /\ cur = MaxOps
    /\ pc = "append"
    /\ wal' = Torn(wal, cur)
    /\ dir' = dir
    /\ Unsynced
    /\ Return(FALSE)
    /\ UNCHANGED <<ops, ram>>

-----------------------------------------------------------------------------
(* The process dies; the machine stops; the store is opened again. *)

\* kill -9, a panic, or the engine dropped: the page cache survives.
Kill ==
    /\ pc # "closed"
    /\ \/ wal' = wal
       \/ pc = "append" /\ wal' = Torn(wal, cur)
    /\ dir' = dir
    /\ Unsynced
    /\ Gone
    /\ UNCHANGED <<ops, acked>>

PowerLoss ==
    /\ \E d \in disks : wal' = d.wal /\ dir' = d.dir
    /\ disks' = {[wal |-> wal', dir |-> dir']}
    /\ Gone
    /\ UNCHANGED <<ops, acked>>

\* scan_existing loads every *.sst (one whose content never reached the disk
\* fails the open: Durable says there is none).  Replay rebuilds the memtable; a
\* log that does not end with a whole record is cut (set_len) and synced.
Open ==
    /\ pc = "closed"
    /\ \A i \in Files(dir) : dir[i].synced
    /\ ssts' = Files(dir)
    /\ next_sst_id' = IF ssts' = {} THEN 0 ELSE Newest(ssts') + 1
    /\ memtable' = Replay(wal)
    /\ wal' = [recs |-> Whole(wal), torn |-> {}]
    /\ dir' = dir
    /\ Unsynced
    /\ pc' = IF wal' = wal THEN "idle" ELSE "sync_tail"
    /\ UNCHANGED <<ops, acked, garbage, tmp, job, call, todo>>

OpenSync ==
    /\ pc = "sync_tail"
    /\ Synced
    /\ pc' = "idle"
    /\ UNCHANGED <<ops, acked, wal, dir, ram, job, call, todo>>

OpenError ==
    /\ "io" \in Faults /\ pc = "sync_tail"
    /\ Gone
    /\ UNCHANGED <<ops, acked, disk>>

-----------------------------------------------------------------------------
EngineStep ==
    \/ WalAppend \/ WalSync \/ WriteTmp \/ SyncTmp \/ Rename \/ Truncate
    \/ SyncTruncate \/ Unlink \/ CompactDone \/ OpenSync

Next ==
    \/ \E b \in Batches : Write(b)
    \/ Flush \/ CompactNow
    \/ EngineStep
    \/ IoError \/ ShortWrite \/ OpenError
    \/ Kill \/ PowerLoss \/ Open

Spec == Init /\ [][Next]_vars

\* The process keeps executing the call it is in.
FairSpec == Spec /\ WF_vars(EngineStep)

-----------------------------------------------------------------------------
(* Properties. *)

Serving == pc \notin {"closed", "sync_tail"}     \* clients can call

\* Every variable has its type, through errors, crashes and reopenings: a key or
\* an id the engine holds is one that exists.
TypeOK ==
    /\ ops \in Seq(Batches) /\ acked \subseteq 1 .. Len(ops)
    /\ wal \in Log
    /\ dir \in Dir
    /\ \A d \in disks : d.wal \in Log /\ d.dir \in Dir
    /\ tmp \in File \cup {NoFile}
    /\ memtable \in Contents
    /\ ssts \subseteq Ids /\ garbage \subseteq Ids
    /\ next_sst_id \in 0 .. MaxSsts
    /\ pc \in {"closed", "sync_tail", "idle", "append", "sync", "write_tmp",
               "sync_tmp", "rename", "truncate", "sync_truncate", "unlink"}
    /\ job \in {"flush", "compact"}
    /\ call \in {"none", "write", "flush", "compact_now"}
    /\ todo \in BOOLEAN

\* The map that results from applying, in order, exactly the batches in S.
Outcome(S) ==
    [k \in Keys |-> LET T == {n \in S : ops[n][k] # "none"}
                    IN IF T = {} \/ Deletes(Newest(T), k) THEN 0 ELSE Newest(T)]

\* A view of the store that a client may be shown: every acknowledged batch,
\* and some of those whose call did not return Ok, each whole and in its place.
Explained(view) ==
    \E S \in SUBSET (1 .. Len(ops)) : acked \subseteq S /\ view = Outcome(S)

\* What the engine would read if it were opened on disk d.
Recovered(d) == Get(Replay(d.wal), d.dir, Files(d.dir))

\* Whatever a kill or a power loss leaves, at any instruction, opens, and shows
\* every batch that returned Ok, no part of a batch, and nothing older than the
\* last acknowledged write of a key: the durability and atomicity that
\* Engine::put and Engine::apply_batch promise.
Durable ==
    \A d \in disks :
        /\ \A i \in Files(d.dir) : d.dir[i].synced
        /\ \A n \in d.wal.recs : \A t \in d.wal.torn : n < t
        /\ Explained(Recovered(d))

\* The running engine, through errors and retries, reads an explained view too.
ReadsExplained == Serving => Explained(Get(memtable, dir, ssts))

\* The files the engine reads are whole and on disk, and none has the id the
\* next write_new will rename over.
LiveFiles ==
    /\ \A i \in ssts : dir[i] # NoFile /\ dir[i].synced /\ i < next_sst_id
    /\ garbage \cap ssts = {}

\* Flush, truncation, compaction and the removal of old files change nothing a
\* reader sees; only a batch reaching the memtable does.
MaintenanceInvisible ==
    [][Serving /\ Serving' /\ pc # "sync"
        => Get(memtable, dir, ssts)' = Get(memtable, dir, ssts)]_vars

\* A live file is immutable: no step rewrites it under the engine's readers.
LiveFilesImmutable ==
    [][\A i \in ssts \cap ssts' : dir'[i] = dir[i]]_vars

\* Every call returns, or the process is gone.
CallReturns == (pc \notin {"idle", "closed"}) ~> (pc \in {"idle", "closed"})

\* The engine implements the map its callers are promised.
Promise == INSTANCE DurableMap WITH
    up   <- Serving,
    view <- IF Serving THEN Get(memtable, dir, ssts) ELSE Empty

IsDurableMap == Promise!Spec

-----------------------------------------------------------------------------
(* What comments of the code say, which the code does not do. *)

\* Each key whose last write returned Ok shows that write.
ShowsLastWrites(view) ==
    \A k \in Keys :
        LET W == {n \in 1 .. Len(ops) : ops[n][k] # "none"}
        IN W # {} /\ Newest(W) \in acked
           => view[k] = IF Deletes(Newest(W), k) THEN 0 ELSE Newest(W)

\* engine.rs:673: "failing to remove an old (now redundant) file is a space
\* leak, not a correctness issue": what is on disk shows, once reopened, what
\* the engine shows.
OldFilesAreRedundant ==
    pc = "idle" => Recovered([wal |-> wal, dir |-> dir]) = Get(memtable, dir, ssts)

\* engine.rs:369: "Durable once this returns `Ok`": also after an earlier call
\* whose write_all failed half way.
OkIsDurable == ShowsLastWrites(Recovered([wal |-> wal, dir |-> dir]))
===============================================================================
