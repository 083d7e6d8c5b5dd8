----------------------------- MODULE EngineProofs -----------------------------
(***************************************************************************)
(* Theorems about Engine, for every value of its constants.                *)
(***************************************************************************)
EXTENDS Engine, FiniteSetTheorems, WellFoundedInduction, TLAPS

-----------------------------------------------------------------------------
(* The newest of a bounded set of ids or stamps. *)

\* A nonempty set of naturals has a least element.
LEMMA MinExists ==
    ASSUME NEW S \in SUBSET Nat, S # {}
    PROVE  \E i \in S : \A j \in S : i <= j
<1>1. PICK x \in S : \A y \in S : ~(<<y, x>> \in OpToRel(<, Nat))
  BY NatLessThanWellFounded, WFMin, Zenon
<1>2. \A y \in S : ~(y < x)
  BY <1>1 DEF OpToRel
<1>3. \A y \in S : x \in Nat /\ y \in Nat
  OBVIOUS
<1>4. \A y \in S : x <= y
  BY <1>2, <1>3
<1> QED BY <1>4

\* A nonempty set of naturals below n has a greatest element.
LEMMA MaxExists ==
    ASSUME NEW S, NEW n \in Nat, S \subseteq 0 .. n, S # {}
    PROVE  \E i \in S : \A j \in S : j <= i
<1> DEFINE T == {m \in Nat : \E i \in S : m = n - i}
<1>1. T # {}
  <2>1. PICK i \in S : TRUE
    OBVIOUS
  <2>2. n - i \in T
    OBVIOUS
  <2> QED BY <2>2
<1>2. PICK m \in T : \A l \in T : m <= l
  BY <1>1, MinExists
<1>3. PICK i \in S : m = n - i
  BY <1>2
<1>4. ASSUME NEW j \in S PROVE j <= i
  <2>1. n - j \in T
    OBVIOUS
  <2> QED BY <2>1, <1>2, <1>3
<1> QED BY <1>4

\* Newest(S) is what its name says.
LEMMA NewestIsMax ==
    ASSUME NEW S, NEW n \in Nat, S \subseteq 0 .. n, S # {}
    PROVE  Newest(S) \in S /\ \A j \in S : j <= Newest(S)
<1>1. \E i \in S : \A j \in S : j <= i
  BY MaxExists
<1> QED BY <1>1 DEF Newest

-----------------------------------------------------------------------------
(* The inductive invariant behind type correctness. *)

\* Which function is running where, and what it has in hand.
Phases ==
    /\ pc \in {"closed", "sync_tail", "idle"} => call = "none" /\ ~todo
    /\ pc \in {"append", "sync"} => call = "write" /\ ~todo
    /\ pc \in {"closed", "sync_tail", "idle", "append", "sync", "truncate",
               "sync_truncate"} => job = "flush"
    /\ pc = "unlink" => job = "compact"
    /\ pc \in {"sync_tmp", "rename"} => tmp \in File
    /\ pc = "rename" => tmp.synced
    /\ pc \in {"truncate", "sync_truncate"} =>
         dir[next_sst_id] # NoFile /\ dir[next_sst_id].synced
    /\ pc # "unlink" => garbage = {}
    /\ call = "write" => Len(ops) > 0

\* The ids a call still needs are there.
IdsLeft ==
    /\ pc \in {"append", "sync"} => next_sst_id + 2 <= MaxSsts
    /\ pc \in {"write_tmp", "sync_tmp", "rename", "truncate", "sync_truncate"} =>
         next_sst_id + (IF job = "flush" THEN 2 ELSE 1) + (IF todo THEN 1 ELSE 0)
            <= MaxSsts
    /\ pc = "unlink" /\ todo => next_sst_id + 1 <= MaxSsts

\* The log holds batches that were handed to the engine.
LogStamps == \A n \in wal.recs : n \in 1 .. Len(ops)
DiskStamps == \A d \in disks : \A n \in d.wal.recs : n \in 1 .. Len(ops)

IndInv == TypeOK /\ Phases /\ IdsLeft /\ LogStamps /\ DiskStamps /\ LiveFiles

-----------------------------------------------------------------------------
(* The helpers return contents of the right type. *)

\* The merge of files that exist is the contents of a file.
LEMMA MergeType ==
    ASSUME NEW d \in Dir, NEW I, I \subseteq Ids, \A i \in I : d[i] # NoFile
    PROVE  Merge(d, I) \in Contents
<1> SUFFICES ASSUME NEW k \in Keys PROVE Merge(d, I)[k] \in Nat
  BY DEF Merge, Contents
<1> DEFINE H == Holding(d, I, k)
<1>1. CASE H = {}
  BY <1>1 DEF Merge
<1>2. CASE H # {}
  <2>1. H \subseteq I
    BY DEF Holding
  <2>2. MaxSsts \in Nat /\ Ids \subseteq 0 .. MaxSsts
    BY EngineAssumption DEF Ids
  <2> HIDE DEF H
  <2>3. Newest(H) \in I
    BY <1>2, <2>1, <2>2, NewestIsMax
  <2>4. d[Newest(H)] \in File
    BY <2>3 DEF Dir
  <2> QED BY <1>2, <2>4 DEF Merge, File, Contents, H
<1> QED BY <1>1, <1>2

\* The replay of a log of submitted batches is the contents of a memtable.
LEMMA ReplayType ==
    ASSUME ops \in Seq(Batches), NEW w, w.recs \subseteq 1 .. Len(ops)
    PROVE  Replay(w) \in Contents
<1> SUFFICES ASSUME NEW k \in Keys PROVE Replay(w)[k] \in Nat
  BY DEF Replay, Contents
<1> DEFINE H == {n \in Whole(w) : ops[n][k] # "none"}
<1>1. CASE H = {}
  BY <1>1 DEF Replay
<1>2. CASE H # {}
  <2>1. PICK n \in Nat : H \subseteq 0 .. n
    <3>1. H \subseteq 0 .. Len(ops) /\ Len(ops) \in Nat
      BY DEF Whole
    <3> QED BY <3>1
  <2> HIDE DEF H
  <2>2. Newest(H) \in Nat
    <3>1. Newest(H) \in H
      BY <1>2, <2>1, NewestIsMax
    <3>2. Newest(H) \in 0 .. n
      BY <2>1, <3>1
    <3> QED BY <3>2
  <2> QED BY <1>2, <2>2 DEF Replay, H
<1> QED BY <1>1, <1>2

\* What is left of a merge without its tombstones is the contents of a file.
LEMMA DropType ==
    ASSUME NEW c \in Contents PROVE DropTombstones(c) \in Contents
BY DEF DropTombstones, Contents

\* A batch applied to a memtable gives a memtable.
LEMMA ApplyType ==
    ASSUME NEW m \in Contents, NEW n \in Nat PROVE Apply(m, n) \in Contents
BY DEF Apply, Contents

\* A log with a torn record is a log.
LEMMA TornType ==
    ASSUME NEW w \in Log, NEW n \in Nat
    PROVE  /\ Torn(w, n) \in Log
           /\ Torn(w, n).recs = w.recs /\ Torn(w, n).torn = w.torn \cup {n}
BY DEF Torn, Log

\* A log with one more record is a log.
LEMMA RecordedType ==
    ASSUME NEW w \in Log, NEW n \in Nat
    PROVE  /\ Recorded(w, n) \in Log
           /\ Recorded(w, n).recs = w.recs \cup {n} /\ Recorded(w, n).torn = w.torn
BY DEF Recorded, Log

\* The empty memtable is one.
LEMMA EmptyType == Empty \in Contents
BY DEF Empty, Contents

-----------------------------------------------------------------------------
(* Init and every step keep the invariant. *)

\* The closed, empty store the engine starts from satisfies the invariant.
LEMMA InitInd == Init => IndInv
<1> SUFFICES ASSUME Init PROVE IndInv
  OBVIOUS
<1> USE DEF Init
<1>1. TypeOK
  <2>1. dir \in Dir
    BY DEF Dir
  <2>2. wal \in Log
    BY DEF Log, EmptyLog
  <2>3. next_sst_id \in 0 .. MaxSsts
    BY EngineAssumption
  <2>4. ops \in Seq(Batches) /\ Len(ops) = 0
    OBVIOUS
  <2>5. \A d \in disks : d.wal \in Log /\ d.dir \in Dir
    BY <2>1, <2>2
  <2>6. acked \subseteq 1 .. Len(ops) /\ ssts \subseteq Ids /\ garbage \subseteq Ids
    OBVIOUS
  <2>7. tmp \in File \cup {NoFile} /\ memtable \in Contents
    BY EmptyType
  <2> QED BY <2>1, <2>2, <2>3, <2>4, <2>5, <2>6, <2>7 DEF TypeOK
<1>2. Phases /\ IdsLeft /\ LogStamps /\ DiskStamps /\ LiveFiles
  BY DEF Phases, IdsLeft, LogStamps, DiskStamps, LiveFiles, EmptyLog
<1> QED BY <1>1, <1>2 DEF IndInv

\* A change that is not synced adds what the disk is now to what it may become.
LEMMA UnsyncedAdds ==
    ASSUME Unsynced
    PROVE  \A d \in disks' : d \in disks \/ (d.wal = wal' /\ d.dir = dir')
BY DEF Unsynced

\* A sync only removes images the disk may have, or replaces their log by the current one.
LEMMA SyncedKeeps ==
    ASSUME Synced
    PROVE  \A d \in disks' :
              d.wal = wal /\ (d.dir = dir \/ \E e \in disks : d.dir = e.dir)
BY DEF Synced

\* A call that returns acknowledges no batch but its own.
LEMMA ReturnAcks ==
    ASSUME TypeOK, Phases, NEW ok, Return(ok) PROVE acked' \subseteq 1 .. Len(ops)
<1>1. Len(ops) \in Nat
  BY DEF TypeOK
<1>2. CASE call = "write"
  <2>1. Len(ops) \in 1 .. Len(ops)
    BY <1>1, <1>2 DEF Phases
  <2> QED BY <2>1 DEF Return, TypeOK, cur
<1>3. CASE call # "write"
  BY <1>3 DEF Return, TypeOK
<1> QED BY <1>2, <1>3

\* Each action of the engine keeps the invariant: a batch handed in,
LEMMA WriteInd ==
    ASSUME IndInv, NEW b \in Batches, Write(b) PROVE IndInv'
<1> USE DEF IndInv, Write, disk, ram
<1>1. ops' \in Seq(Batches) /\ Len(ops') = Len(ops) + 1 /\ Len(ops) \in Nat
  BY DEF TypeOK
<1>2. TypeOK'
  BY <1>1 DEF TypeOK
<1>3. Phases' /\ IdsLeft'
  BY <1>1 DEF Phases, IdsLeft, Room
<1>4. LogStamps' /\ DiskStamps'
  BY <1>1 DEF LogStamps, DiskStamps
<1>5. LiveFiles'
  BY DEF LiveFiles
<1> QED BY <1>2, <1>3, <1>4, <1>5

\* flush(),
LEMMA FlushInd == ASSUME IndInv, Flush PROVE IndInv'
<1> USE DEF IndInv, Flush, disk, ram
<1>1. TypeOK'
  BY DEF TypeOK
<1>2. Phases' /\ IdsLeft'
  BY EngineAssumption DEF Phases, IdsLeft, Room, TypeOK
<1>3. LogStamps' /\ DiskStamps' /\ LiveFiles'
  BY DEF LogStamps, DiskStamps, LiveFiles
<1> QED BY <1>1, <1>2, <1>3

\* compact_now(),
LEMMA CompactNowInd == ASSUME IndInv, CompactNow PROVE IndInv'
<1> USE DEF IndInv, CompactNow, disk, ram
<1>1. TypeOK'
  BY DEF TypeOK
<1>2. Phases' /\ IdsLeft'
  BY EngineAssumption DEF Phases, IdsLeft, Room, TypeOK
<1>3. LogStamps' /\ DiskStamps' /\ LiveFiles'
  BY DEF LogStamps, DiskStamps, LiveFiles
<1> QED BY <1>1, <1>2, <1>3

\* the record written to the log,
LEMMA WalAppendInd == ASSUME IndInv, WalAppend PROVE IndInv'
<1> USE DEF IndInv, WalAppend, ram, cur
<1>1. Len(ops) \in 1 .. Len(ops) /\ Len(ops) \in Nat
  BY DEF TypeOK, Phases
<1>2. wal' \in Log /\ Torn(wal, cur) \in Log
  BY <1>1, TornType, RecordedType DEF TypeOK
<1>3. TypeOK'
  <2>1. \A d \in disks' : d.wal \in Log /\ d.dir \in Dir
    BY <1>2 DEF TypeOK
  <2> QED BY <1>2, <2>1 DEF TypeOK
<1>4. Phases' /\ IdsLeft'
  BY DEF Phases, IdsLeft
<1>5. LogStamps' /\ DiskStamps'
  <2>1. wal'.recs = wal.recs \cup {cur} /\ Torn(wal, cur).recs = wal.recs
    BY <1>1, TornType, RecordedType DEF TypeOK
  <2> QED BY <1>1, <2>1 DEF LogStamps, DiskStamps
<1>6. LiveFiles'
  BY DEF LiveFiles
<1> QED BY <1>3, <1>4, <1>5, <1>6

\* the log synced and the batch applied,
LEMMA WalSyncInd == ASSUME IndInv, WalSync PROVE IndInv'
<1> USE DEF IndInv, WalSync, MaybeFlush, Return, cur
<1>1. Len(ops) \in 1 .. Len(ops) /\ Len(ops) \in Nat
  BY DEF TypeOK, Phases
<1>2. \A d \in disks' : d.wal = wal /\ (d.dir = dir \/ \E e \in disks : d.dir = e.dir)
  BY SyncedKeeps
<1>3. TypeOK'
  <2>1. memtable' \in Contents
    BY <1>1, ApplyType DEF TypeOK
  <2>2. \A d \in disks' : d.wal \in Log /\ d.dir \in Dir
    BY <1>2 DEF TypeOK
  <2> QED BY <1>1, <2>1, <2>2 DEF TypeOK
<1>4. Phases' /\ IdsLeft'
  BY EngineAssumption DEF Phases, IdsLeft, TypeOK
<1>5. LogStamps' /\ DiskStamps'
  BY <1>2 DEF LogStamps, DiskStamps
<1>6. LiveFiles'
  BY DEF LiveFiles
<1> QED BY <1>3, <1>4, <1>5, <1>6

\* the temporary file written,
LEMMA WriteTmpInd == ASSUME IndInv, WriteTmp PROVE IndInv'
<1> USE DEF IndInv, WriteTmp, disk
<1>1. tmp' \in File
  <2>1. Merge(dir, ssts) \in Contents
    BY MergeType DEF TypeOK, LiveFiles
  <2>2. DropTombstones(Merge(dir, ssts)) \in Contents /\ memtable \in Contents
    BY <2>1, DropType DEF TypeOK
  <2> QED BY <2>2 DEF File
<1>2. TypeOK'
  BY <1>1 DEF TypeOK
<1>3. Phases' /\ IdsLeft'
  BY <1>1 DEF Phases, IdsLeft
<1>4. LogStamps' /\ DiskStamps' /\ LiveFiles'
  BY DEF LogStamps, DiskStamps, LiveFiles
<1> QED BY <1>2, <1>3, <1>4

\* synced,
LEMMA SyncTmpInd == ASSUME IndInv, SyncTmp PROVE IndInv'
<1> USE DEF IndInv, SyncTmp, disk
<1>1. tmp' \in File /\ tmp'.synced
  BY DEF File, Phases
<1>2. TypeOK'
  BY <1>1 DEF TypeOK
<1>3. Phases' /\ IdsLeft'
  BY <1>1 DEF Phases, IdsLeft
<1>4. LogStamps' /\ DiskStamps' /\ LiveFiles'
  BY DEF LogStamps, DiskStamps, LiveFiles
<1> QED BY <1>2, <1>3, <1>4

\* and renamed, over no file the engine reads,
LEMMA RenameInd == ASSUME IndInv, Rename PROVE IndInv'
<1> USE DEF IndInv, Rename
<1>1. tmp \in File /\ tmp.synced /\ tmp # NoFile
  BY NoFileAssumption DEF Phases
<1>2. next_sst_id \in Nat /\ next_sst_id \in Ids /\ next_sst_id + 1 \in 0 .. MaxSsts
  BY EngineAssumption DEF IdsLeft, TypeOK, Ids
<1>3. dir' \in Dir /\ dir'[next_sst_id] = tmp
      /\ \A i \in Ids : i # next_sst_id => dir'[i] = dir[i]
  BY <1>1, <1>2 DEF TypeOK, Dir
<1>4. \A d \in disks' : d \in disks \/ (d.wal = wal /\ d.dir = dir')
  BY UnsyncedAdds
<1>5. TypeOK'
  <2>1. \A d \in disks' : d.wal \in Log /\ d.dir \in Dir
    BY <1>3, <1>4 DEF TypeOK
  <2>2. ssts' \subseteq Ids /\ garbage' \subseteq Ids /\ next_sst_id' \in 0 .. MaxSsts
    BY <1>2 DEF TypeOK
  <2> QED BY <1>3, <2>1, <2>2 DEF TypeOK
<1>6. Phases' /\ IdsLeft'
  <2>1. Phases'
    BY <1>1, <1>3 DEF Phases, TypeOK
  <2>2. IdsLeft'
    BY <1>2, EngineAssumption DEF IdsLeft, TypeOK
  <2> QED BY <2>1, <2>2
<1>7. LogStamps' /\ DiskStamps'
  BY <1>4 DEF LogStamps, DiskStamps
<1>8. LiveFiles'
  <2>1. \A i \in ssts : i \in Ids /\ i < next_sst_id
    BY DEF LiveFiles, TypeOK
  <2>2. CASE job = "flush"
    BY <1>1, <1>3, <2>1, <2>2 DEF LiveFiles
  <2>3. CASE job # "flush"
    <3>1. ssts' = {next_sst_id} /\ garbage' = ssts /\ next_sst_id' = next_sst_id + 1
      BY <2>3
    <3>2. garbage' \cap ssts' = {}
      BY <1>2, <2>1, <3>1
    <3>3. \A i \in ssts' : dir'[i] # NoFile /\ dir'[i].synced /\ i < next_sst_id'
      BY <1>1, <1>2, <1>3, <3>1
    <3> QED BY <3>2, <3>3 DEF LiveFiles
  <2> QED BY <2>2, <2>3
<1> QED BY <1>5, <1>6, <1>7, <1>8

\* the log truncated,
LEMMA TruncateInd == ASSUME IndInv, Truncate PROVE IndInv'
<1> USE DEF IndInv, Truncate, ram
<1>1. \A d \in disks' : d \in disks \/ (d.wal = EmptyLog /\ d.dir = dir)
  BY UnsyncedAdds
<1>2. EmptyLog \in Log /\ EmptyLog.recs = {}
  BY DEF EmptyLog, Log
<1>3. TypeOK'
  <2>1. \A d \in disks' : d.wal \in Log /\ d.dir \in Dir
    BY <1>1, <1>2 DEF TypeOK
  <2> QED BY <1>2, <2>1 DEF TypeOK
<1>4. Phases' /\ IdsLeft'
  BY DEF Phases, IdsLeft
<1>5. LogStamps' /\ DiskStamps'
  BY <1>1, <1>2 DEF LogStamps, DiskStamps
<1>6. LiveFiles'
  BY DEF LiveFiles
<1> QED BY <1>3, <1>4, <1>5, <1>6


\* the new file listed under the next id,
LEMMA SyncTruncateInd == ASSUME IndInv, SyncTruncate PROVE IndInv'
<1> USE DEF IndInv, SyncTruncate, AfterFlush, Return
<1>1. \A d \in disks' : d.wal = wal /\ (d.dir = dir \/ \E e \in disks : d.dir = e.dir)
  BY SyncedKeeps
<1>2. next_sst_id \in Nat /\ next_sst_id + 1 \in 0 .. MaxSsts
  BY EngineAssumption DEF IdsLeft, TypeOK, Phases
<1>3. dir[next_sst_id] # NoFile /\ dir[next_sst_id].synced /\ garbage = {}
  BY DEF Phases
<1>4. TypeOK'
  <2>1. \A d \in disks' : d.wal \in Log /\ d.dir \in Dir
    BY <1>1 DEF TypeOK
  <2>2. ssts' \subseteq Ids
    BY <1>2, EngineAssumption DEF TypeOK, Ids
  <2>3. acked' \subseteq 1 .. Len(ops)
    BY ReturnAcks DEF TypeOK
  <2> QED BY <1>2, <2>1, <2>2, <2>3, EmptyType DEF TypeOK
<1>5. Phases'
  BY <1>3 DEF Phases
<1>6. IdsLeft'
  <2>1. next_sst_id + (IF todo THEN 3 ELSE 2) <= MaxSsts /\ todo \in BOOLEAN
    BY EngineAssumption, <1>2 DEF IdsLeft, Phases, TypeOK
  <2>2. CASE todo
    BY <1>2, <2>1, <2>2, EngineAssumption DEF IdsLeft
  <2>3. CASE ~todo
    BY <1>2, <2>1, <2>3, EngineAssumption DEF IdsLeft
  <2> QED BY <2>1, <2>2, <2>3
<1>7. LogStamps' /\ DiskStamps'
  BY <1>1 DEF LogStamps, DiskStamps
<1>8. LiveFiles'
  BY <1>2, <1>3 DEF LiveFiles, TypeOK, Ids
<1> QED BY <1>4, <1>5, <1>6, <1>7, <1>8

\* old files removed, none of them live,
LEMMA UnlinkInd == ASSUME IndInv, Unlink PROVE IndInv'
<1> USE DEF IndInv, Unlink
<1> DEFINE old == CHOOSE i \in garbage : \A j \in garbage : i <= j
<1>1. old \in garbage
  <2>1. garbage \in SUBSET Nat
    BY DEF TypeOK, Ids
  <2>2. \E i \in garbage : \A j \in garbage : i <= j
    BY <2>1, MinExists
  <2> QED BY <2>2
<1> HIDE DEF old
<1>2. garbage' = garbage \ {old}
  BY DEF old
<1>3. dir' = [dir EXCEPT ![old] = NoFile] \/ dir' = dir
  BY DEF old
<1>4. dir' \in Dir /\ \A i \in ssts : dir'[i] = dir[i]
  BY <1>1, <1>3 DEF TypeOK, Dir, LiveFiles
<1>5. \A d \in disks' : d \in disks \/ (d.wal = wal /\ d.dir = dir')
  BY UnsyncedAdds
<1>6. TypeOK'
  <2>1. \A d \in disks' : d.wal \in Log /\ d.dir \in Dir
    BY <1>4, <1>5 DEF TypeOK
  <2> QED BY <1>2, <1>4, <2>1 DEF TypeOK
<1>7. Phases' /\ IdsLeft'
  BY DEF Phases, IdsLeft
<1>8. LogStamps' /\ DiskStamps'
  BY <1>5 DEF LogStamps, DiskStamps
<1>9. LiveFiles'
  BY <1>2, <1>4 DEF LiveFiles
<1> QED BY <1>6, <1>7, <1>8, <1>9

\* the end of a compaction,
LEMMA CompactDoneInd == ASSUME IndInv, CompactDone PROVE IndInv'
<1> USE DEF IndInv, CompactDone, Return, disk, ram
<1>1. TypeOK'
  <2>1. acked' \subseteq 1 .. Len(ops)
    BY ReturnAcks DEF TypeOK
  <2> QED BY <2>1 DEF TypeOK
<1>2. Phases' /\ IdsLeft'
  BY EngineAssumption DEF Phases, IdsLeft, TypeOK
<1>3. LogStamps' /\ DiskStamps' /\ LiveFiles'
  BY DEF LogStamps, DiskStamps, LiveFiles
<1> QED BY <1>1, <1>2, <1>3

\* an I/O error that returns to the caller,
LEMMA IoErrorInd == ASSUME IndInv, IoError PROVE IndInv'
<1> USE DEF IndInv, IoError, Return, disk
<1>1. TypeOK'
  BY DEF TypeOK
<1>2. Phases' /\ IdsLeft'
  BY DEF Phases, IdsLeft
<1>3. LogStamps' /\ DiskStamps' /\ LiveFiles'
  BY DEF LogStamps, DiskStamps, LiveFiles
<1> QED BY <1>1, <1>2, <1>3

\* a record written in part,
LEMMA ShortWriteInd == ASSUME IndInv, ShortWrite PROVE IndInv'
<1> USE DEF IndInv, ShortWrite, Return, ram
<1>1. wal' \in Log /\ wal'.recs = wal.recs
  BY TornType DEF TypeOK, cur
<1>2. \A d \in disks' : d \in disks \/ (d.wal = wal' /\ d.dir = dir)
  BY UnsyncedAdds
<1>3. TypeOK'
  <2>1. \A d \in disks' : d.wal \in Log /\ d.dir \in Dir
    BY <1>1, <1>2 DEF TypeOK
  <2> QED BY <1>1, <2>1 DEF TypeOK
<1>4. Phases' /\ IdsLeft'
  BY DEF Phases, IdsLeft
<1>5. LogStamps' /\ DiskStamps' /\ LiveFiles'
  BY <1>1, <1>2 DEF LogStamps, DiskStamps, LiveFiles
<1> QED BY <1>3, <1>4, <1>5

\* The memory of a process that is gone is well typed and lists no file.
LEMMA GoneRam ==
    ASSUME Gone
    PROVE  /\ memtable' \in Contents /\ ssts' = {} /\ garbage' = {}
           /\ tmp' = NoFile /\ next_sst_id' \in 0 .. MaxSsts
           /\ pc' = "closed" /\ call' = "none" /\ todo' = FALSE /\ job' = "flush"
BY EmptyType, EngineAssumption DEF Gone

\* The invariant outlives a kill,
LEMMA KillInd == ASSUME IndInv, Kill PROVE IndInv'
<1> USE DEF IndInv, Kill
<1>1. wal' \in Log /\ wal'.recs = wal.recs
  BY TornType DEF TypeOK, cur
<1>2. \A d \in disks' : d \in disks \/ (d.wal = wal' /\ d.dir = dir)
  BY UnsyncedAdds
<1>3. TypeOK'
  <2>1. \A d \in disks' : d.wal \in Log /\ d.dir \in Dir
    BY <1>1, <1>2 DEF TypeOK
  <2> QED BY <1>1, <2>1, GoneRam DEF TypeOK
<1>4. Phases' /\ IdsLeft'
  BY DEF Phases, IdsLeft, Gone
<1>5. LogStamps' /\ DiskStamps' /\ LiveFiles'
  BY <1>1, <1>2, GoneRam DEF LogStamps, DiskStamps, LiveFiles
<1> QED BY <1>3, <1>4, <1>5

\* a power loss, whichever image it leaves,
LEMMA PowerLossInd == ASSUME IndInv, PowerLoss PROVE IndInv'
<1> USE DEF IndInv, PowerLoss
<1>1. PICK e \in disks : wal' = e.wal /\ dir' = e.dir
  OBVIOUS
<1>2. \A d \in disks' : d.wal = wal' /\ d.dir = dir'
  OBVIOUS
<1>3. TypeOK'
  BY <1>1, <1>2, GoneRam DEF TypeOK
<1>4. Phases' /\ IdsLeft'
  BY DEF Phases, IdsLeft, Gone
<1>5. LogStamps' /\ DiskStamps' /\ LiveFiles'
  BY <1>1, <1>2, GoneRam DEF LogStamps, DiskStamps, LiveFiles
<1> QED BY <1>3, <1>4, <1>5

\* the opening of what was left,
LEMMA OpenInd == ASSUME IndInv, Open PROVE IndInv'
<1> USE DEF IndInv, Open
<1>1. MaxSsts \in Nat /\ Ids \subseteq 0 .. MaxSsts /\ \A i \in Ids : i < MaxSsts
  BY EngineAssumption DEF Ids
<1>2. ssts' \subseteq Ids
  BY DEF Files
<1>3. next_sst_id' \in 0 .. MaxSsts /\ \A i \in ssts' : i < next_sst_id'
  <2>1. CASE ssts' = {}
    BY <1>1, <2>1
  <2>2. CASE ssts' # {}
    <3>1. Newest(ssts') \in ssts' /\ \A j \in ssts' : j <= Newest(ssts')
      BY <1>1, <1>2, <2>2, NewestIsMax
    <3> QED BY <1>1, <1>2, <2>2, <3>1 DEF Ids
  <2> QED BY <2>1, <2>2
<1>4. wal' \in Log /\ wal'.recs \subseteq wal.recs
  BY DEF TypeOK, Log, Whole
<1>5. memtable' \in Contents
  BY ReplayType DEF TypeOK, LogStamps
<1>6. \A d \in disks' : d \in disks \/ (d.wal = wal' /\ d.dir = dir)
  BY UnsyncedAdds
<1>7. TypeOK'
  <2>1. \A d \in disks' : d.wal \in Log /\ d.dir \in Dir
    BY <1>4, <1>6 DEF TypeOK
  <2> QED BY <1>2, <1>3, <1>4, <1>5, <2>1 DEF TypeOK
<1>8. Phases' /\ IdsLeft'
  BY DEF Phases, IdsLeft
<1>9. LogStamps' /\ DiskStamps'
  BY <1>4, <1>6 DEF LogStamps, DiskStamps
<1>10. LiveFiles'
  BY <1>3 DEF LiveFiles, Files, Phases
<1> QED BY <1>7, <1>8, <1>9, <1>10

\* the sync of the log it cut,
LEMMA OpenSyncInd == ASSUME IndInv, OpenSync PROVE IndInv'
<1> USE DEF IndInv, OpenSync, ram
<1>1. \A d \in disks' : d.wal = wal /\ (d.dir = dir \/ \E e \in disks : d.dir = e.dir)
  BY SyncedKeeps
<1>2. TypeOK'
  <2>1. \A d \in disks' : d.wal \in Log /\ d.dir \in Dir
    BY <1>1 DEF TypeOK
  <2> QED BY <2>1 DEF TypeOK
<1>3. Phases' /\ IdsLeft'
  BY DEF Phases, IdsLeft
<1>4. LogStamps' /\ DiskStamps' /\ LiveFiles'
  BY <1>1 DEF LogStamps, DiskStamps, LiveFiles
<1> QED BY <1>2, <1>3, <1>4

\* and an opening that fails.
LEMMA OpenErrorInd == ASSUME IndInv, OpenError PROVE IndInv'
<1> USE DEF IndInv, OpenError, disk
<1>1. TypeOK'
  BY GoneRam DEF TypeOK
<1>2. Phases' /\ IdsLeft'
  BY DEF Phases, IdsLeft, Gone
<1>3. LogStamps' /\ DiskStamps' /\ LiveFiles'
  BY GoneRam DEF LogStamps, DiskStamps, LiveFiles
<1> QED BY <1>1, <1>2, <1>3

\* Nothing changes, and the invariant still holds.
LEMMA StutterInd == ASSUME IndInv, UNCHANGED vars PROVE IndInv'
BY DEF IndInv, TypeOK, Phases, IdsLeft, LogStamps, DiskStamps, LiveFiles, vars, disk, ram

\* Every step keeps the invariant.
LEMMA NextInd == IndInv /\ [Next]_vars => IndInv'
<1> SUFFICES ASSUME IndInv, [Next]_vars PROVE IndInv'
  OBVIOUS
<1>1. CASE \E b \in Batches : Write(b)
  BY <1>1, WriteInd
<1>2. CASE Flush \/ CompactNow
  BY <1>2, FlushInd, CompactNowInd
<1>3. CASE EngineStep
  BY <1>3, WalAppendInd, WalSyncInd, WriteTmpInd, SyncTmpInd, RenameInd, TruncateInd,
     SyncTruncateInd, UnlinkInd, CompactDoneInd, OpenSyncInd DEF EngineStep
<1>4. CASE IoError \/ ShortWrite \/ OpenError
  BY <1>4, IoErrorInd, ShortWriteInd, OpenErrorInd
<1>5. CASE Kill \/ PowerLoss \/ Open
  BY <1>5, KillInd, PowerLossInd, OpenInd
<1>6. CASE UNCHANGED vars
  BY <1>6, StutterInd
<1> QED BY <1>1, <1>2, <1>3, <1>4, <1>5, <1>6 DEF Next

-----------------------------------------------------------------------------
\* The inductive invariant holds in every state of every run.
THEOREM Invariance == Spec => []IndInv
<1>1. Init => IndInv
  BY InitInd
<1>2. IndInv /\ [Next]_vars => IndInv'
  BY NextInd
<1> QED BY <1>1, <1>2, PTL DEF Spec

\* Every variable keeps its type whatever I/O fails and whenever the process or
\* the machine stops.
THEOREM TypeCorrect == Spec => []TypeOK
<1>1. IndInv => TypeOK
  BY DEF IndInv
<1> QED BY <1>1, Invariance, PTL

\* The engine only ever reads whole files that exist, and write_new never
\* renames over one of them.
THEOREM LiveFilesSafe == Spec => []LiveFiles
<1>1. IndInv => LiveFiles
  BY DEF IndInv
<1> QED BY <1>1, Invariance, PTL

\* A file the engine reads before and after a step is the same file: a flush, a
\* compaction, an error or a crash never rewrites it.
THEOREM LiveFilesNeverRewritten == Spec => LiveFilesImmutable
<1> DEFINE Kept == \A i \in ssts \cap ssts' : dir'[i] = dir[i]
<1>1. ASSUME IndInv, Next PROVE Kept
  <2> USE <1>1 DEF IndInv
  <2>1. CASE (\E b \in Batches : Write(b)) \/ Flush \/ CompactNow
    BY <2>1 DEF Write, Flush, CompactNow, disk
  <2>2. CASE WalAppend \/ WalSync \/ Truncate \/ SyncTruncate \/ OpenSync
    BY <2>2 DEF WalAppend, WalSync, Truncate, SyncTruncate, OpenSync
  <2>3. CASE WriteTmp \/ SyncTmp \/ CompactDone
    BY <2>3 DEF WriteTmp, SyncTmp, CompactDone, disk
  <2>4. CASE Rename
    <3>1. \A i \in ssts : i \in Ids /\ i # next_sst_id
      BY DEF LiveFiles, TypeOK, Ids
    <3>2. \A i \in Ids : i # next_sst_id => dir'[i] = dir[i]
      BY <2>4 DEF Rename, TypeOK, Dir
    <3> QED BY <3>1, <3>2
  <2>5. CASE Unlink
    <3> DEFINE old == CHOOSE i \in garbage : \A j \in garbage : i <= j
    <3>1. old \in garbage
      <4>1. garbage \in SUBSET Nat /\ garbage # {}
        BY <2>5 DEF Unlink, TypeOK, Ids
      <4>2. \E i \in garbage : \A j \in garbage : i <= j
        BY <4>1, MinExists
      <4> QED BY <4>2
    <3>2. dir' = [dir EXCEPT ![old] = NoFile] \/ dir' = dir
      BY <2>5 DEF Unlink
    <3> HIDE DEF old
    <3> QED BY <3>1, <3>2 DEF TypeOK, Dir, LiveFiles
  <2>6. CASE IoError \/ ShortWrite \/ OpenError
    BY <2>6 DEF IoError, ShortWrite, OpenError, disk
  <2>7. CASE Kill \/ PowerLoss
    BY <2>7 DEF Kill, PowerLoss, Gone
  <2>8. CASE Open
    BY <2>8 DEF Open
  <2> QED BY <1>1, <2>1, <2>2, <2>3, <2>4, <2>5, <2>6, <2>7, <2>8 DEF Next, EngineStep
<1>2. ASSUME IndInv, UNCHANGED vars PROVE Kept
  BY <1>2 DEF vars, disk
<1>3. IndInv /\ [Next]_vars => [Kept]_vars
  BY <1>1, <1>2
<1> QED BY <1>3, Invariance, PTL DEF Spec, LiveFilesImmutable

(***************************************************************************)
(* What Engine keeps and shows: Durable, ReadsExplained,                   *)
(* MaintenanceInvisible, and that Engine implements DurableMap.            *)
(*                                                                         *)
(* A set of batches stands for each thing that holds entries.  The         *)
(* memtable is exactly the outcome, tombstones included, of a set M; the   *)
(* files the engine reads show the outcome of a set F, in which a          *)
(* compaction may have left out tombstones; the files of a disk image show *)
(* a set G, and its log holds a set.  Wherever one lies over another, what *)
(* is in the lower set and not in the upper one came before everything in  *)
(* the upper one.                                                          *)
(***************************************************************************)

Stamps == 1 .. Len(ops)

\* The batches of S that have an entry for k, and the last of them.
Wrote(S, k)  == {n \in S : ops[n][k] # "none"}
LastOf(S, k) == IF Wrote(S, k) = {} THEN 0 ELSE Newest(Wrote(S, k))

\* c has the last entry of every key.
Exact(c, S) == \A k \in Keys : c[k] = LastOf(S, k)

\* c has the last entry of every key, but that tombstones may be missing.
Gap(c, S, k) == c[k] = 0 /\ LastOf(S, k) # 0 /\ Deletes(LastOf(S, k), k)
Shows(c, S)  == \A k \in Keys : c[k] = LastOf(S, k) \/ Gap(c, S, k)

\* What A has and B has not came before all of B.
Before(A, B) == \A a \in A, b \in B : a \in B \/ a < b

\* m laid over r.
Over(m, r) == [k \in Keys |-> IF m[k] # 0 THEN m[k] ELSE r[k]]

-----------------------------------------------------------------------------
(* The last entry of a key. *)

\* LastOf(S, k) is 0 or the greatest batch of S with an entry for k.
LEMMA LastOfFacts ==
    ASSUME ops \in Seq(Batches), NEW S \in SUBSET Stamps, NEW k \in Keys
    PROVE  /\ LastOf(S, k) \in Nat
           /\ \/ Wrote(S, k) = {} /\ LastOf(S, k) = 0
              \/ LastOf(S, k) \in Wrote(S, k) /\ LastOf(S, k) > 0
           /\ \A n \in Wrote(S, k) : n <= LastOf(S, k)
<1> DEFINE T == Wrote(S, k)
<1>0. Len(ops) \in Nat
  OBVIOUS
<1>1. T \subseteq Stamps
  BY DEF Wrote
<1>4. \A n \in Stamps : n \in 0 .. Len(ops) /\ n \in Nat /\ n > 0
  BY <1>0 DEF Stamps
<1>2. CASE T = {}
  BY <1>2 DEF LastOf
<1>3. CASE T # {}
  <2> HIDE DEF T
  <2>1. Newest(T) \in T /\ \A n \in T : n <= Newest(T)
    BY <1>0, <1>1, <1>3, <1>4, NewestIsMax
  <2>2. Newest(T) \in Nat /\ Newest(T) > 0
    BY <1>1, <1>4, <2>1
  <2> QED BY <1>3, <2>1, <2>2 DEF LastOf, T
<1> QED BY <1>2, <1>3

\* The greatest batch of S with an entry for k is LastOf(S, k).
LEMMA LastOfIs ==
    ASSUME ops \in Seq(Batches), NEW S \in SUBSET Stamps, NEW k \in Keys,
           NEW n \in Wrote(S, k), \A m \in Wrote(S, k) : m <= n
    PROVE  LastOf(S, k) = n
<1>1. LastOf(S, k) \in Wrote(S, k) /\ n <= LastOf(S, k) /\ LastOf(S, k) <= n
  BY LastOfFacts
<1>2. n \in Nat /\ LastOf(S, k) \in Nat
  BY LastOfFacts DEF Wrote, Stamps
<1> QED BY <1>1, <1>2

\* Of two sets, one before the other, the last entry is that of the later one
\* where it has one.
LEMMA LastOfUnion ==
    ASSUME ops \in Seq(Batches), NEW A \in SUBSET Stamps, NEW B \in SUBSET Stamps,
           Before(A, B), NEW k \in Keys
    PROVE  LastOf(A \cup B, k) = IF LastOf(B, k) # 0 THEN LastOf(B, k) ELSE LastOf(A, k)
<1>1. Wrote(A \cup B, k) = Wrote(A, k) \cup Wrote(B, k)
  BY DEF Wrote
<1>2. A \cup B \in SUBSET Stamps
  OBVIOUS
<1>3. CASE LastOf(B, k) # 0
  <2>1. LastOf(B, k) \in Wrote(B, k) /\ \A n \in Wrote(B, k) : n <= LastOf(B, k)
    BY <1>3, LastOfFacts
  <2>2. ASSUME NEW n \in Wrote(A, k) PROVE n <= LastOf(B, k)
    <3>1. n \in A /\ LastOf(B, k) \in B /\ n \in Nat /\ LastOf(B, k) \in Nat
      BY <2>1, LastOfFacts DEF Wrote, Stamps
    <3>2. n \in B \/ n < LastOf(B, k)
      BY <3>1 DEF Before
    <3>3. n \in B => n \in Wrote(B, k)
      BY DEF Wrote
    <3> QED BY <2>1, <3>1, <3>2, <3>3
  <2>3. \A n \in Wrote(A \cup B, k) : n <= LastOf(B, k)
    BY <1>1, <2>1, <2>2
  <2> HIDE DEF Wrote
  <2> QED BY <1>1, <1>2, <1>3, <2>1, <2>3, LastOfIs
<1>4. CASE LastOf(B, k) = 0
  <2>1. Wrote(B, k) = {}
    BY <1>4, LastOfFacts
  <2>2. Wrote(A \cup B, k) = Wrote(A, k)
    BY <1>1, <2>1
  <2> QED BY <1>4, <2>2 DEF LastOf
<1> QED BY <1>3, <1>4

\* An exact memtable over files that show an earlier set shows both.
LEMMA OverShows ==
    ASSUME ops \in Seq(Batches), NEW A \in SUBSET Stamps, NEW B \in SUBSET Stamps,
           Before(A, B), NEW m, Exact(m, B), NEW r, Shows(r, A)
    PROVE  Shows(Over(m, r), A \cup B)
<1> SUFFICES ASSUME NEW k \in Keys
             PROVE  \/ Over(m, r)[k] = LastOf(A \cup B, k)
                    \/ Gap(Over(m, r), A \cup B, k)
  BY DEF Shows
<1>1. LastOf(A \cup B, k) = IF LastOf(B, k) # 0 THEN LastOf(B, k) ELSE LastOf(A, k)
  BY LastOfUnion
<1>2. m[k] = LastOf(B, k) /\ (r[k] = LastOf(A, k) \/ Gap(r, A, k))
  BY DEF Exact, Shows
<1>3. Over(m, r)[k] = IF m[k] # 0 THEN m[k] ELSE r[k]
  BY DEF Over
<1> QED BY <1>1, <1>2, <1>3 DEF Gap

\* A reader of files that show S sees the outcome of S.
LEMMA ShowsOutcome ==
    ASSUME ops \in Seq(Batches), NEW S \in SUBSET Stamps, NEW c, Shows(c, S)
    PROVE  DropTombstones(c) = Outcome(S)
<1> SUFFICES ASSUME NEW k \in Keys PROVE DropTombstones(c)[k] = Outcome(S)[k]
  BY DEF DropTombstones, Outcome
<1>1. Outcome(S)[k] = IF LastOf(S, k) = 0 \/ Deletes(LastOf(S, k), k) THEN 0 ELSE LastOf(S, k)
  <2>1. Outcome(S)[k] = IF Wrote(S, k) = {} \/ Deletes(Newest(Wrote(S, k)), k)
                        THEN 0 ELSE Newest(Wrote(S, k))
    BY DEF Outcome, Wrote
  <2>2. Wrote(S, k) = {} <=> LastOf(S, k) = 0
    BY LastOfFacts
  <2> QED BY <2>1, <2>2 DEF LastOf
<1>2. DropTombstones(c)[k] = IF c[k] # 0 /\ Deletes(c[k], k) THEN 0 ELSE c[k]
  BY DEF DropTombstones
<1>3. c[k] = LastOf(S, k) \/ Gap(c, S, k)
  BY DEF Shows
<1> QED BY <1>1, <1>2, <1>3 DEF Gap

\* The replay of a log without a torn record before a whole one is exact.
LEMMA ReplayExact ==
    ASSUME NEW w, \A n \in w.recs : \A t \in w.torn : n < t
    PROVE  Whole(w) = w.recs /\ Exact(Replay(w), w.recs)
<1>1. Whole(w) = w.recs
  BY DEF Whole
<1>2. \A k \in Keys : Replay(w)[k] = LastOf(w.recs, k)
  BY <1>1 DEF Replay, LastOf, Wrote
<1> QED BY <1>1, <1>2 DEF Exact

\* A batch applied to an exact memtable gives an exact memtable.
LEMMA ApplyExact ==
    ASSUME ops \in Seq(Batches), NEW M \in SUBSET Stamps, NEW m, Exact(m, M),
           NEW n \in Stamps, \A j \in M : j <= n
    PROVE  Exact(Apply(m, n), M \cup {n})
<1> SUFFICES ASSUME NEW k \in Keys PROVE Apply(m, n)[k] = LastOf(M \cup {n}, k)
  BY DEF Exact
<1>1. M \cup {n} \in SUBSET Stamps
  OBVIOUS
<1>2. CASE ops[n][k] = "none"
  <2>1. Wrote(M \cup {n}, k) = Wrote(M, k)
    BY <1>2 DEF Wrote
  <2> QED BY <1>2, <2>1 DEF Apply, Exact, LastOf
<1>3. CASE ops[n][k] # "none"
  <2>1. n \in Wrote(M \cup {n}, k)
    BY <1>3 DEF Wrote
  <2>2. \A j \in Wrote(M \cup {n}, k) : j <= n
    BY DEF Wrote, Stamps
  <2>3. LastOf(M \cup {n}, k) = n
    BY <1>1, <2>1, <2>2, LastOfIs
  <2> QED BY <1>3, <2>3 DEF Apply
<1> QED BY <1>2, <1>3

\* An empty memtable holds no batch: every batch has an entry.
LEMMA EmptyExact ==
    ASSUME ops \in Seq(Batches), NEW M \in SUBSET Stamps, Exact(Empty, M)
    PROVE  M = {}
<1> SUFFICES ASSUME NEW n \in M PROVE FALSE
  OBVIOUS
<1>1. ops[n] \in Batches
  BY DEF Stamps
<1>2. PICK k \in Keys : ops[n][k] # "none"
  BY <1>1 DEF Batches
<1>3. n \in Wrote(M, k)
  BY <1>2 DEF Wrote
<1>4. LastOf(M, k) # 0
  BY <1>3, LastOfFacts
<1> QED BY <1>4 DEF Exact, Empty

-----------------------------------------------------------------------------
(* The merge of files. *)

\* The merge has the entry of the newest file that has one.
LEMMA MergeFacts ==
    ASSUME NEW d, NEW I \in SUBSET Ids, NEW k \in Keys
    PROVE  \/ Merge(d, I)[k] = 0 /\ \A i \in I : d[i].data[k] = 0
           \/ \E i \in I : /\ d[i].data[k] # 0 /\ Merge(d, I)[k] = d[i].data[k]
                           /\ \A j \in I : j > i => d[j].data[k] = 0
<1> DEFINE H == Holding(d, I, k)
<1>1. Merge(d, I)[k] = IF H = {} THEN 0 ELSE d[Newest(H)].data[k]
  BY DEF Merge
<1>2. CASE H = {}
  BY <1>1, <1>2 DEF Holding
<1>3. CASE H # {}
  <2>1. H \subseteq I /\ Ids \subseteq 0 .. MaxSsts /\ MaxSsts \in Nat
    BY EngineAssumption DEF Holding, Ids
  <2>2. Newest(H) \in H /\ \A j \in H : j <= Newest(H)
    <3> HIDE DEF H
    <3>1. H \subseteq 0 .. MaxSsts
      BY <2>1
    <3> QED BY <1>3, <2>1, <3>1, NewestIsMax
  <2>3. Newest(H) \in I /\ d[Newest(H)].data[k] # 0
    BY <2>2 DEF Holding
  <2>4. ASSUME NEW j \in I, j > Newest(H) PROVE d[j].data[k] = 0
    <3>1. j \in Nat /\ Newest(H) \in Nat
      <4>1. j \in Ids /\ Newest(H) \in Ids
        BY <2>3
      <4> QED BY <4>1 DEF Ids
    <3>2. j \notin H
      BY <2>2, <2>4, <3>1
    <3> QED BY <3>2 DEF Holding
  <2> QED BY <1>1, <1>3, <2>3, <2>4
<1> QED BY <1>2, <1>3

\* A file newer than the others lies over their merge.
LEMMA MergeTop ==
    ASSUME NEW d, NEW I \in SUBSET Ids, NEW s \in Ids, \A i \in I : i < s
    PROVE  Merge(d, I \cup {s}) = Over(d[s].data, Merge(d, I))
<1> SUFFICES ASSUME NEW k \in Keys
             PROVE  Merge(d, I \cup {s})[k] = Over(d[s].data, Merge(d, I))[k]
  BY DEF Merge, Over
<1>1. Over(d[s].data, Merge(d, I))[k]
        = IF d[s].data[k] # 0 THEN d[s].data[k] ELSE Merge(d, I)[k]
  BY DEF Over
<1>2. \/ Merge(d, I)[k] = 0 /\ \A i \in I : d[i].data[k] = 0
      \/ \E i \in I : /\ d[i].data[k] # 0 /\ Merge(d, I)[k] = d[i].data[k]
                      /\ \A j \in I : j > i => d[j].data[k] = 0
  BY MergeFacts
<1>3. \/ Merge(d, I \cup {s})[k] = 0 /\ \A i \in I \cup {s} : d[i].data[k] = 0
      \/ \E i \in I \cup {s} : /\ d[i].data[k] # 0 /\ Merge(d, I \cup {s})[k] = d[i].data[k]
                               /\ \A j \in I \cup {s} : j > i => d[j].data[k] = 0
  BY MergeFacts
<1>4. \A i \in I \cup {s} : i \in Nat
  BY DEF Ids
<1> QED BY <1>1, <1>2, <1>3, <1>4

\* Without its oldest file, a merge keeps its entry of a key or has none.
LEMMA MergeWithoutOldest ==
    ASSUME NEW d, NEW I \in SUBSET Ids, NEW o \in I, \A i \in I : o <= i, NEW k \in Keys
    PROVE  Merge(d, I \ {o})[k] = 0 \/ Merge(d, I \ {o})[k] = Merge(d, I)[k]
<1>2. \/ Merge(d, I)[k] = 0 /\ \A i \in I : d[i].data[k] = 0
      \/ \E i \in I : /\ d[i].data[k] # 0 /\ Merge(d, I)[k] = d[i].data[k]
                      /\ \A j \in I : j > i => d[j].data[k] = 0
  BY MergeFacts
<1>3. \/ Merge(d, I \ {o})[k] = 0 /\ \A i \in I \ {o} : d[i].data[k] = 0
      \/ \E i \in I \ {o} : /\ d[i].data[k] # 0 /\ Merge(d, I \ {o})[k] = d[i].data[k]
                            /\ \A j \in I \ {o} : j > i => d[j].data[k] = 0
  BY MergeFacts
<1>4. \A i \in I : i \in Nat
  BY DEF Ids
<1> QED BY <1>2, <1>3, <1>4

\* Fewer files have no entry where more have none.
LEMMA MergeFewer ==
    ASSUME NEW d, NEW I \in SUBSET Ids, NEW J \in SUBSET I, NEW k \in Keys, Merge(d, I)[k] = 0
    PROVE  Merge(d, J)[k] = 0
<1>1. \A i \in I : d[i].data[k] = 0
  BY MergeFacts
<1>2. J \in SUBSET Ids
  OBVIOUS
<1> QED BY <1>1, <1>2, MergeFacts

\* The same files have the same merge.
LEMMA MergeSame ==
    ASSUME NEW d, NEW e, NEW I \in SUBSET Ids, \A i \in I : d[i] = e[i]
    PROVE  Merge(d, I) = Merge(e, I)
<1>1. \A k \in Keys : Holding(d, I, k) = Holding(e, I, k)
  BY DEF Holding
<1> SUFFICES ASSUME NEW k \in Keys PROVE Merge(d, I)[k] = Merge(e, I)[k]
  BY DEF Merge
<1> DEFINE H == Holding(d, I, k)
<1>2. /\ Merge(d, I)[k] = IF H = {} THEN 0 ELSE d[Newest(H)].data[k]
      /\ Merge(e, I)[k] = IF H = {} THEN 0 ELSE e[Newest(H)].data[k]
  BY <1>1 DEF Merge
<1>3. CASE H = {}
  BY <1>2, <1>3
<1>4. CASE H # {}
  <2>1. H \subseteq I /\ Ids \subseteq 0 .. MaxSsts /\ MaxSsts \in Nat
    BY EngineAssumption DEF Holding, Ids
  <2>2. Newest(H) \in H
    <3> HIDE DEF H
    <3>1. H \subseteq 0 .. MaxSsts
      BY <2>1
    <3> QED BY <1>4, <2>1, <3>1, NewestIsMax
  <2> QED BY <1>2, <1>4, <2>1, <2>2
<1> QED BY <1>3, <1>4

\* A compaction's file over the files it merged shows what they showed: where it
\* left out a tombstone, theirs is still there.
LEMMA OverDropped ==
    ASSUME NEW r, r = [k \in Keys |-> r[k]]
    PROVE  Over(DropTombstones(r), r) = r
BY DEF Over, DropTombstones

\* What is left without tombstones has none.
LEMMA DropTwice ==
    ASSUME NEW r PROVE DropTombstones(DropTombstones(r)) = DropTombstones(r)
BY DEF DropTombstones

\* Leaving out tombstones shows the same set.
LEMMA DropShows ==
    ASSUME NEW r, NEW S, ops \in Seq(Batches), S \in SUBSET Stamps, Shows(r, S)
    PROVE  Shows(DropTombstones(r), S)
<1> SUFFICES ASSUME NEW k \in Keys
             PROVE  DropTombstones(r)[k] = LastOf(S, k) \/ Gap(DropTombstones(r), S, k)
  BY DEF Shows
<1>1. DropTombstones(r)[k] = IF r[k] # 0 /\ Deletes(r[k], k) THEN 0 ELSE r[k]
  BY DEF DropTombstones
<1>2. r[k] = LastOf(S, k) \/ Gap(r, S, k)
  BY DEF Shows
<1> QED BY <1>1, <1>2 DEF Gap

-----------------------------------------------------------------------------
(* What is in hand between the steps of a flush or a compaction. *)

Flushing == job = "flush" /\ pc \in {"write_tmp", "sync_tmp", "rename", "truncate", "sync_truncate"}

InHand ==
    /\ pc \in {"sync_tmp", "rename"} =>
         tmp.data = IF job = "flush" THEN memtable ELSE DropTombstones(Merge(dir, ssts))
    /\ pc \in {"truncate", "sync_truncate"} => dir[next_sst_id].data = memtable
    /\ job = "compact" => memtable = Empty
    /\ Flushing => memtable # Empty
    /\ \A i \in ssts, j \in garbage : j < i

\* A batch leaves an entry in the memtable.
LEMMA ApplyNotEmpty ==
    ASSUME NEW n \in 1 .. Len(ops), ops \in Seq(Batches), NEW m PROVE Apply(m, n) # Empty
<1>1. PICK k \in Keys : ops[n][k] # "none"
  BY DEF Batches
<1>2. Apply(m, n)[k] = n /\ n # 0
  BY <1>1 DEF Apply
<1> QED BY <1>2 DEF Empty

\* The steps of the calls and of the log keep what is in hand.
LEMMA InHandCalls ==
    ASSUME IndInv, InHand,
           (\E b \in Batches : Write(b)) \/ Flush \/ CompactNow \/ WalAppend \/ WalSync
    PROVE  InHand'
<1> USE DEF InHand, Flushing
<1>1. CASE \E b \in Batches : Write(b)
  BY <1>1 DEF IndInv, Phases, Write, disk, ram
<1>2. CASE Flush
  BY <1>2 DEF IndInv, Phases, Flush, disk, ram
<1>3. CASE CompactNow
  BY <1>3 DEF IndInv, Phases, CompactNow, disk, ram
<1>4. CASE WalAppend
  BY <1>4 DEF IndInv, Phases, WalAppend, ram
<1>5. CASE WalSync
  <2>1. memtable' # Empty
    BY <1>5, ApplyNotEmpty DEF IndInv, TypeOK, Phases, WalSync, cur
  <2>2. pc' \in {"idle", "write_tmp"} /\ job' = "flush" /\ UNCHANGED <<ssts, garbage>>
    BY <1>5 DEF IndInv, Phases, WalSync, MaybeFlush, Return
  <2> QED BY <2>1, <2>2
<1> QED BY <1>1, <1>2, <1>3, <1>4, <1>5

\* So do the steps of a flush and of a compaction,
LEMMA InHandFiles ==
    ASSUME IndInv, InHand,
           WriteTmp \/ SyncTmp \/ Rename \/ Truncate \/ SyncTruncate \/ Unlink \/ CompactDone
    PROVE  InHand'
<1> USE DEF InHand, Flushing
<1>1. CASE WriteTmp
  <2>1. DropTombstones(Merge(dir, ssts))' = DropTombstones(Merge(dir, ssts))
    BY <1>1 DEF WriteTmp, DropTombstones, Merge, Holding, Deletes, disk
  <2>2. tmp'.data = IF job = "flush" THEN memtable ELSE DropTombstones(Merge(dir, ssts))
    BY <1>1 DEF WriteTmp
  <2> QED BY <1>1, <2>1, <2>2 DEF WriteTmp, disk
<1>2. CASE SyncTmp
  <2>1. DropTombstones(Merge(dir, ssts))' = DropTombstones(Merge(dir, ssts))
    BY <1>2 DEF SyncTmp, DropTombstones, Merge, Holding, Deletes, disk
  <2>2. tmp'.data = tmp.data
    BY <1>2 DEF SyncTmp, IndInv, Phases, File
  <2> QED BY <1>2, <2>1, <2>2 DEF SyncTmp, disk
<1>3. CASE Rename
  <2>1. next_sst_id \in Ids /\ tmp \in File
    BY <1>3, EngineAssumption DEF Rename, IndInv, TypeOK, Phases, IdsLeft, Ids
  <2>2. dir'[next_sst_id] = tmp
    BY <1>3, <2>1 DEF Rename, IndInv, TypeOK, Dir
  <2>3. \A i \in ssts : i < next_sst_id
    BY DEF IndInv, LiveFiles
  <2> QED BY <1>3, <2>2, <2>3 DEF Rename, IndInv, Phases
<1>4. CASE Truncate
  BY <1>4 DEF Truncate, IndInv, Phases, ram
<1>5. CASE SyncTruncate
  BY <1>5 DEF SyncTruncate, AfterFlush, Return, IndInv, Phases
<1>6. CASE Unlink
  BY <1>6 DEF Unlink, IndInv, Phases
<1>7. CASE CompactDone
  BY <1>7 DEF CompactDone, Return, IndInv, Phases, disk, ram
<1> QED BY <1>1, <1>2, <1>3, <1>4, <1>5, <1>6, <1>7

\* and errors, deaths and openings, after which nothing is in hand.
LEMMA InHandFaults ==
    ASSUME IndInv, InHand,
           IoError \/ ShortWrite \/ OpenError \/ Kill \/ PowerLoss \/ Open \/ OpenSync
    PROVE  InHand'
<1> USE DEF InHand, Flushing
<1>1. CASE IoError \/ ShortWrite
  BY <1>1 DEF IoError, ShortWrite, Return, IndInv, Phases, disk, ram
<1>2. CASE OpenError \/ Kill \/ PowerLoss
  BY <1>2 DEF OpenError, Kill, PowerLoss, Gone
<1>3. CASE Open
  BY <1>3 DEF Open, IndInv, Phases
<1>4. CASE OpenSync
  BY <1>4 DEF OpenSync, IndInv, Phases, ram
<1> QED BY <1>1, <1>2, <1>3, <1>4

\* Every step keeps what is in hand.
LEMMA InHandNext == IndInv /\ InHand /\ [Next]_vars => InHand'
<1> SUFFICES ASSUME IndInv, InHand, [Next]_vars PROVE InHand'
  OBVIOUS
<1>1. CASE Next
  BY <1>1, InHandCalls, InHandFiles, InHandFaults DEF Next, EngineStep
<1>2. CASE UNCHANGED vars
  <2>1. DropTombstones(Merge(dir, ssts))' = DropTombstones(Merge(dir, ssts))
    BY <1>2 DEF DropTombstones, Merge, Holding, Deletes, vars, disk, ram
  <2>2. UNCHANGED <<pc, job, tmp, memtable, dir, next_sst_id, ssts, garbage>>
    BY <1>2 DEF vars, disk, ram
  <2> QED BY <2>1, <2>2 DEF InHand, Flushing
<1> QED BY <1>1, <1>2

\* The store starts with nothing in hand.
LEMMA InHandInit == Init => InHand
BY DEF Init, InHand, Flushing

\* A temporary file holds what it was written from, and a renamed one the memtable,
\* through every state of a flush or a compaction.
THEOREM InHandAlways == Spec => []InHand
<1>1. Init => InHand
  BY InHandInit
<1>2. IndInv /\ InHand /\ [Next]_vars => InHand'
  BY InHandNext
<1> QED BY <1>1, <1>2, Invariance, PTL DEF Spec

-----------------------------------------------------------------------------
(* No entry is younger than the last batch handed in. *)

Known(c)    == \A k \in Keys : c[k] \in 0 .. Len(ops)
KnownDir(d) == \A i \in Ids : d[i] # NoFile => Known(d[i].data)

StampsKnown ==
    /\ Known(memtable)
    /\ tmp # NoFile => Known(tmp.data)
    /\ KnownDir(dir)
    /\ \A d \in disks : KnownDir(d.dir)

\* A merge of files that exist has no younger entry than they have.
LEMMA MergeKnown ==
    ASSUME ops \in Seq(Batches), NEW d, NEW I \in SUBSET Ids, KnownDir(d),
           \A i \in I : d[i] # NoFile
    PROVE  Known(Merge(d, I)) /\ Known(DropTombstones(Merge(d, I)))
<1>1. Len(ops) \in Nat
  OBVIOUS
<1>2. Known(Merge(d, I))
  BY <1>1, MergeFacts DEF Known, KnownDir
<1> QED BY <1>1, <1>2 DEF Known, DropTombstones

\* Nor has a replay.
LEMMA ReplayKnown ==
    ASSUME ops \in Seq(Batches), NEW w, w.recs \subseteq 1 .. Len(ops)
    PROVE  Known(Replay(w))
<1> SUFFICES ASSUME NEW k \in Keys PROVE Replay(w)[k] \in 0 .. Len(ops)
  BY DEF Known
<1>1. Whole(w) \in SUBSET Stamps
  BY DEF Whole, Stamps
<1>2. Replay(w)[k] = LastOf(Whole(w), k)
  BY DEF Replay, LastOf, Wrote
<1>3. LastOf(Whole(w), k) = 0 \/ LastOf(Whole(w), k) \in Stamps
  BY <1>1, LastOfFacts DEF Wrote
<1> QED BY <1>2, <1>3 DEF Stamps

\* The steps of the calls and of the log make no entry younger than their batch.
LEMMA StampsCalls ==
    ASSUME IndInv, StampsKnown,
           (\E b \in Batches : Write(b)) \/ Flush \/ CompactNow \/ WalAppend \/ WalSync
    PROVE  StampsKnown'
<1>0. Len(ops) \in Nat
  BY DEF IndInv, TypeOK
<1>1. CASE \E b \in Batches : Write(b)
  <2>1. Len(ops') = Len(ops) + 1
    BY <1>1 DEF Write, IndInv, TypeOK
  <2>2. UNCHANGED <<memtable, tmp, dir, disks>>
    BY <1>1 DEF Write, disk, ram
  <2> QED BY <1>0, <2>1, <2>2 DEF StampsKnown, Known, KnownDir
<1>2. CASE Flush \/ CompactNow
  BY <1>2 DEF Flush, CompactNow, disk, ram, StampsKnown, Known, KnownDir
<1>3. CASE WalAppend
  BY <1>3 DEF WalAppend, ram, StampsKnown, Known, KnownDir
<1>4. CASE WalSync
  <2>1. UNCHANGED <<ops, dir, tmp>> /\ memtable' = Apply(memtable, cur)
    BY <1>4 DEF WalSync
  <2>2. \A d \in disks' : d.dir = dir \/ \E e \in disks : d.dir = e.dir
    BY <1>4, SyncedKeeps DEF WalSync
  <2>3. \A k \in Keys : memtable'[k] \in 0 .. Len(ops)
    BY <1>0, <2>1 DEF Apply, cur, StampsKnown, Known
  <2> QED BY <2>1, <2>2, <2>3 DEF StampsKnown, Known, KnownDir
<1> QED BY <1>1, <1>2, <1>3, <1>4

\* A flush and a compaction write entries they read.
LEMMA StampsFiles ==
    ASSUME IndInv, StampsKnown,
           WriteTmp \/ SyncTmp \/ Rename \/ Truncate \/ SyncTruncate \/ Unlink \/ CompactDone
    PROVE  StampsKnown'
<1>0. Len(ops) \in Nat /\ ops \in Seq(Batches)
  BY DEF IndInv, TypeOK
<1>1. CASE WriteTmp
  <2>1. Known(DropTombstones(Merge(dir, ssts)))
    BY <1>0, MergeKnown DEF IndInv, TypeOK, LiveFiles, StampsKnown
  <2>2. \A k \in Keys : tmp'.data[k] \in 0 .. Len(ops)
    BY <1>1, <2>1 DEF WriteTmp, StampsKnown, Known
  <2>3. UNCHANGED <<ops, memtable, dir, disks>>
    BY <1>1 DEF WriteTmp, disk
  <2> QED BY <2>2, <2>3 DEF StampsKnown, Known, KnownDir
<1>2. CASE SyncTmp
  <2>1. tmp # NoFile /\ tmp'.data = tmp.data
    BY <1>2, NoFileAssumption DEF SyncTmp, IndInv, Phases, File
  <2>2. UNCHANGED <<ops, memtable, dir, disks>>
    BY <1>2 DEF SyncTmp, disk
  <2> QED BY <2>1, <2>2 DEF StampsKnown, Known, KnownDir
<1>3. CASE Rename
  <2>1. \A i \in Ids : dir'[i] = dir[i] \/ dir'[i] = tmp
    BY <1>3 DEF Rename, IndInv, TypeOK, Dir
  <2>2. tmp # NoFile /\ tmp' = NoFile /\ UNCHANGED <<ops, memtable>>
    BY <1>3, NoFileAssumption DEF Rename, IndInv, Phases
  <2>3. \A d \in disks' : d \in disks \/ d.dir = dir'
    BY <1>3, UnsyncedAdds DEF Rename
  <2> QED BY <2>1, <2>2, <2>3 DEF StampsKnown, Known, KnownDir
<1>4. CASE Truncate
  <2>1. \A d \in disks' : d \in disks \/ d.dir = dir'
    BY <1>4, UnsyncedAdds DEF Truncate
  <2> QED BY <1>4, <2>1 DEF Truncate, ram, StampsKnown, Known, KnownDir
<1>5. CASE SyncTruncate
  <2>1. \A d \in disks' : d.dir = dir \/ \E e \in disks : d.dir = e.dir
    BY <1>5, SyncedKeeps DEF SyncTruncate
  <2>2. \A k \in Keys : memtable'[k] \in 0 .. Len(ops)
    BY <1>0, <1>5 DEF SyncTruncate, Empty
  <2> QED BY <1>5, <2>1, <2>2 DEF SyncTruncate, StampsKnown, Known, KnownDir
<1>6. CASE Unlink
  <2>1. \A i \in Ids : dir'[i] = dir[i] \/ dir'[i] = NoFile
    BY <1>6 DEF Unlink, IndInv, TypeOK, Dir
  <2>2. \A d \in disks' : d \in disks \/ d.dir = dir'
    BY <1>6, UnsyncedAdds DEF Unlink
  <2> QED BY <1>6, <2>1, <2>2 DEF Unlink, StampsKnown, Known, KnownDir
<1>7. CASE CompactDone
  BY <1>7 DEF CompactDone, disk, ram, StampsKnown, Known, KnownDir
<1> QED BY <1>1, <1>2, <1>3, <1>4, <1>5, <1>6, <1>7

\* Errors, deaths and openings bring no entry from nowhere.
LEMMA StampsFaults ==
    ASSUME IndInv, StampsKnown,
           IoError \/ ShortWrite \/ OpenError \/ Kill \/ PowerLoss \/ Open \/ OpenSync
    PROVE  StampsKnown'
<1>0. Len(ops) \in Nat /\ ops \in Seq(Batches)
  BY DEF IndInv, TypeOK
<1>1. CASE IoError
  BY <1>1 DEF IoError, disk, StampsKnown, Known, KnownDir
<1>2. CASE ShortWrite
  <2>1. \A d \in disks' : d \in disks \/ d.dir = dir'
    BY <1>2, UnsyncedAdds DEF ShortWrite
  <2> QED BY <1>2, <2>1 DEF ShortWrite, ram, StampsKnown, Known, KnownDir
<1>3. CASE OpenError
  <2>1. \A k \in Keys : memtable'[k] \in 0 .. Len(ops)
    BY <1>0, <1>3 DEF OpenError, Gone, Empty
  <2> QED BY <1>3, <2>1 DEF OpenError, Gone, disk, StampsKnown, Known, KnownDir
<1>4. CASE Kill
  <2>1. \A k \in Keys : memtable'[k] \in 0 .. Len(ops)
    BY <1>0, <1>4 DEF Kill, Gone, Empty
  <2>2. \A d \in disks' : d \in disks \/ d.dir = dir'
    BY <1>4, UnsyncedAdds DEF Kill
  <2> QED BY <1>4, <2>1, <2>2 DEF Kill, Gone, StampsKnown, Known, KnownDir
<1>5. CASE PowerLoss
  <2>1. \A k \in Keys : memtable'[k] \in 0 .. Len(ops)
    BY <1>0, <1>5 DEF PowerLoss, Gone, Empty
  <2>2. KnownDir(dir') /\ \A d \in disks' : d.dir = dir'
    BY <1>5 DEF PowerLoss, StampsKnown
  <2> QED BY <1>5, <2>1, <2>2 DEF PowerLoss, Gone, StampsKnown, Known, KnownDir
<1>6. CASE Open
  <2>1. \A k \in Keys : memtable'[k] \in 0 .. Len(ops)
    BY <1>0, <1>6, ReplayKnown DEF Open, IndInv, LogStamps, Known
  <2>2. \A d \in disks' : d \in disks \/ d.dir = dir'
    BY <1>6, UnsyncedAdds DEF Open
  <2> QED BY <1>6, <2>1, <2>2 DEF Open, StampsKnown, Known, KnownDir
<1>7. CASE OpenSync
  <2>1. \A d \in disks' : d.dir = dir \/ \E e \in disks : d.dir = e.dir
    BY <1>7, SyncedKeeps DEF OpenSync
  <2> QED BY <1>7, <2>1 DEF OpenSync, ram, StampsKnown, Known, KnownDir
<1> QED BY <1>1, <1>2, <1>3, <1>4, <1>5, <1>6, <1>7

\* Nothing is younger than the last batch in any state of any run.
THEOREM StampsAlways == Spec => []StampsKnown
<1>1. Init => StampsKnown
  <2> SUFFICES ASSUME Init PROVE StampsKnown
    OBVIOUS
  <2>1. Len(ops) = 0
    BY DEF Init
  <2> QED BY <2>1 DEF Init, StampsKnown, Known, KnownDir, Empty
<1>2. IndInv /\ StampsKnown /\ [Next]_vars => StampsKnown'
  <2> SUFFICES ASSUME IndInv, StampsKnown, [Next]_vars PROVE StampsKnown'
    OBVIOUS
  <2>1. CASE Next
    BY <2>1, StampsCalls, StampsFiles, StampsFaults DEF Next, EngineStep
  <2>2. CASE UNCHANGED vars
    BY <2>2 DEF StampsKnown, Known, KnownDir, vars, disk, ram
  <2> QED BY <2>1, <2>2
<1> QED BY <1>1, <1>2, Invariance, PTL DEF Spec

-----------------------------------------------------------------------------
(* What a reader sees of the running engine. *)

\* The entry a reader of the engine meets first.
Top(k) == IF memtable[k] # 0 THEN memtable[k] ELSE Merge(dir, ssts)[k]

\* It reads what it meets, unless that is a tombstone.
LEMMA GetTop ==
    \A k \in Keys : Get(memtable, dir, ssts)[k]
                      = IF Top(k) # 0 /\ Deletes(Top(k), k) THEN 0 ELSE Top(k)
BY DEF Get, DropTombstones, Top

\* A step that leaves the memtable and the files the engine reads shows the same.
LEMMA SameFilesSameView ==
    ASSUME UNCHANGED <<ops, memtable, ssts>>, ssts \in SUBSET Ids,
           \A i \in ssts : dir'[i] = dir[i]
    PROVE  Get(memtable, dir, ssts)' = Get(memtable, dir, ssts)
<1>1. Merge(dir', ssts) = Merge(dir, ssts)
  BY MergeSame
<1> QED BY <1>1 DEF Get, DropTombstones, Deletes

\* A new batch changes no entry a reader meets.
LEMMA WriteSameView ==
    ASSUME IndInv, StampsKnown, NEW b \in Batches, Write(b)
    PROVE  Get(memtable, dir, ssts)' = Get(memtable, dir, ssts)
<1>1. ops \in Seq(Batches) /\ Len(ops) \in Nat /\ ssts \in SUBSET Ids
  BY DEF IndInv, TypeOK
<1>2. UNCHANGED <<memtable, dir, ssts>> /\ ops' = Append(ops, b)
  BY DEF Write, disk, ram
<1>3. \A n \in 1 .. Len(ops) : ops'[n] = ops[n]
  BY <1>1, <1>2
<1>4. Merge(dir, ssts)' = Merge(dir, ssts)
  BY <1>2 DEF Merge, Holding
<1>5. Known(Merge(dir, ssts))
  BY <1>1, MergeKnown DEF IndInv, LiveFiles, StampsKnown
<1>6. ASSUME NEW k \in Keys
      PROVE  Top(k) = 0 \/ Deletes(Top(k), k)' = Deletes(Top(k), k)
  <2>1. Top(k) \in 0 .. Len(ops)
    BY <1>5 DEF Top, StampsKnown, Known
  <2>2. Top(k)' = Top(k)
    BY <1>2, <1>4 DEF Top
  <2>3. CASE Top(k) = 0
    BY <2>3
  <2>4. CASE Top(k) # 0
    <3>1. ops'[Top(k)] = ops[Top(k)]
      BY <1>1, <1>3, <2>1, <2>4
    <3> QED BY <2>2, <3>1 DEF Deletes
  <2> QED BY <2>3, <2>4
<1> QED BY <1>2, <1>4, <1>6 DEF Get, DropTombstones, Top

\* A compaction's file shows what the files it replaces showed,
LEMMA RenameSameView ==
    ASSUME IndInv, InHand, Rename
    PROVE  Get(memtable, dir, ssts)' = Get(memtable, dir, ssts)
<1>1. /\ ssts \in SUBSET Ids /\ next_sst_id \in Ids /\ \A i \in ssts : i < next_sst_id
      /\ dir'[next_sst_id] = tmp /\ \A i \in Ids : i # next_sst_id => dir'[i] = dir[i]
  <2>1. next_sst_id \in Ids
    BY EngineAssumption DEF Rename, IndInv, TypeOK, IdsLeft, Ids
  <2> QED BY <2>1 DEF Rename, IndInv, TypeOK, LiveFiles, Dir
<1>2. UNCHANGED <<ops, memtable>>
  BY DEF Rename
<1>3. CASE job = "flush"
  <2>1. ssts' = ssts /\ \A i \in ssts : dir'[i] = dir[i]
    <3>1. ssts' = ssts
      BY <1>3 DEF Rename
    <3>2. \A i \in ssts : i \in Ids /\ i # next_sst_id
      BY <1>1 DEF Ids
    <3> QED BY <1>1, <3>1, <3>2
  <2> QED BY <1>1, <1>2, <2>1, SameFilesSameView
<1>4. CASE job # "flush"
  <2>1. ssts' = {} \cup {next_sst_id} /\ memtable = Empty
    BY <1>4 DEF Rename, IndInv, TypeOK, InHand
  <2>2. Merge(dir', {} \cup {next_sst_id}) = Over(dir'[next_sst_id].data, Merge(dir', {}))
    BY <1>1, MergeTop
  <2>3. \A k \in Keys : Merge(dir', {})[k] = 0
    BY MergeFacts
  <2>4. tmp.data = DropTombstones(Merge(dir, ssts))
    BY <1>4 DEF InHand, Rename
  <2>5. ASSUME NEW k \in Keys
        PROVE  Merge(dir, ssts)'[k] = DropTombstones(Merge(dir, ssts))[k]
    <3>1. Merge(dir, ssts)' = Over(DropTombstones(Merge(dir, ssts)), Merge(dir', {}))
      BY <1>1, <2>1, <2>2, <2>4
    <3> QED BY <2>3, <3>1 DEF Over
  <2>6. \A k \in Keys : memtable[k] = 0 /\ memtable'[k] = 0
    BY <1>2, <2>1 DEF Empty
  <2> QED BY <1>2, <2>5, <2>6 DEF Get, DropTombstones, Deletes
<1> QED BY <1>3, <1>4

\* and a flushed file what the memtable showed.
LEMMA SyncTruncateSameView ==
    ASSUME IndInv, InHand, SyncTruncate
    PROVE  Get(memtable, dir, ssts)' = Get(memtable, dir, ssts)
<1>1. ssts \in SUBSET Ids /\ next_sst_id \in Ids /\ \A i \in ssts : i < next_sst_id
  <2>1. next_sst_id \in Ids
    BY EngineAssumption DEF SyncTruncate, IndInv, TypeOK, Phases, IdsLeft, Ids
  <2> QED BY <2>1 DEF IndInv, TypeOK, LiveFiles
<1>2. UNCHANGED <<ops, dir>> /\ ssts' = ssts \cup {next_sst_id} /\ memtable' = Empty
  BY DEF SyncTruncate
<1>3. dir[next_sst_id].data = memtable
  BY DEF SyncTruncate, InHand
<1>4. Merge(dir, ssts)' = Over(memtable, Merge(dir, ssts))
  BY <1>1, <1>2, <1>3, MergeTop
<1>5. \A k \in Keys : memtable'[k] = 0
  BY <1>2 DEF Empty
<1> QED BY <1>2, <1>4, <1>5 DEF Get, DropTombstones, Deletes, Over

\* Nothing but a batch that reaches the memtable, or a death or an opening, changes
\* what a reader sees.
LEMMA SameView ==
    ASSUME IndInv, InHand, StampsKnown, [Next]_vars, Serving, Serving', pc # "sync"
    PROVE  Get(memtable, dir, ssts)' = Get(memtable, dir, ssts)
<1>0. ssts \in SUBSET Ids
  BY DEF IndInv, TypeOK
<1>1. CASE \E b \in Batches : Write(b)
  BY <1>1, WriteSameView
<1>2. CASE Rename
  BY <1>2, RenameSameView
<1>3. CASE SyncTruncate
  BY <1>3, SyncTruncateSameView
<1>4. CASE Flush \/ CompactNow \/ WriteTmp \/ SyncTmp \/ CompactDone \/ WalAppend \/ Truncate
           \/ IoError \/ ShortWrite
  <2>1. UNCHANGED <<ops, memtable, ssts, dir>>
    BY <1>4 DEF Flush, CompactNow, WriteTmp, SyncTmp, CompactDone, WalAppend, Truncate,
                IoError, ShortWrite, disk, ram
  <2> QED BY <1>0, <2>1, SameFilesSameView
<1>5. CASE Unlink
  <2>1. garbage \in SUBSET Nat /\ garbage # {}
    BY <1>5 DEF Unlink, IndInv, TypeOK, Ids
  <2>2. \E i \in garbage : \A j \in garbage : i <= j
    BY <2>1, MinExists
  <2>3. PICK o \in garbage : dir' = [dir EXCEPT ![o] = NoFile] \/ dir' = dir
    BY <1>5, <2>2 DEF Unlink
  <2>4. \A i \in ssts : dir'[i] = dir[i]
    BY <2>3 DEF IndInv, LiveFiles, TypeOK, Dir
  <2>5. UNCHANGED <<ops, memtable, ssts>>
    BY <1>5 DEF Unlink
  <2> QED BY <1>0, <2>4, <2>5, SameFilesSameView
<1>6. CASE OpenError \/ Kill \/ PowerLoss \/ Open \/ OpenSync
  BY <1>6 DEF OpenError, Kill, PowerLoss, Open, OpenSync, Gone, Serving
<1>7. CASE WalSync
  BY <1>7 DEF WalSync
<1>8. CASE UNCHANGED vars
  BY <1>0, <1>8, SameFilesSameView DEF vars, disk, ram
<1> QED BY <1>1, <1>2, <1>3, <1>4, <1>5, <1>6, <1>7, <1>8 DEF Next, EngineStep

\* Flush, truncation, compaction and the removal of old files change nothing a
\* reader sees, whatever fails on the way.
THEOREM MaintenanceNeverSeen == Spec => MaintenanceInvisible
<1>1. IndInv /\ InHand /\ StampsKnown /\ [Next]_vars
        => [Serving /\ Serving' /\ pc # "sync"
              => Get(memtable, dir, ssts)' = Get(memtable, dir, ssts)]_vars
  BY SameView
<1> QED BY <1>1, Invariance, InHandAlways, StampsAlways, PTL DEF Spec, MaintenanceInvisible

-----------------------------------------------------------------------------
(* The invariant behind durability, where a record is not left half        *)
(* written under later ones, old files can be removed, and directory       *)
(* changes reach the disk in order.  Without any of the three acknowledged *)
(* batches are lost (run engine_short_write, and README).                  *)

Dependable == OrderedDir /\ "short_write" \notin Faults /\ "unlink" \notin Faults

\* The batches that must outlive anything: those acknowledged, and the one of the
\* call in progress once its record is synced.
Promised == acked \cup IF call = "write" /\ pc \notin {"append", "sync"} THEN {cur} ELSE {}

\* The log in use is one of those the disk may hold; nothing is appended to a log
\* that ends with a torn record.
LogKnown ==
    /\ [wal |-> wal, dir |-> dir] \in disks
    /\ pc # "closed" => (wal.torn = {} \/ (cur = MaxOps /\ pc # "append"))
    /\ pc = "append" => cur \notin wal.recs
    /\ pc = "sync" => cur \in wal.recs

\* The files there are: those the engine reads, those it is removing, and at most
\* the one a flush that failed left under the next id, while its entries are still
\* in the memtable.
FilesKnown ==
    pc # "closed" =>
        /\ ssts \cup garbage \subseteq Files(dir)
        /\ Files(dir) \subseteq ssts \cup garbage \cup {next_sst_id}
        /\ memtable = Empty => Files(dir) = ssts \cup garbage

\* The log w and the directory e, found at opening, hold all that was promised.
ImageOK(w, e) ==
    /\ \A i \in Files(e) : e[i].synced
    /\ \A n \in w.recs : \A t \in w.torn : n < t
    /\ \E G \in SUBSET Stamps :
          /\ Shows(Merge(e, Files(e)), G)
          /\ Before(G, w.recs)
          /\ Promised \subseteq G \cup w.recs

Images == \A d \in disks : ImageOK(d.wal, d.dir)

\* The memtable holds M and the files F, with or without those being removed.
Holds(F, M) ==
    /\ Exact(memtable, M)
    /\ Shows(Merge(dir, ssts), F) /\ Shows(Merge(dir, ssts \cup garbage), F)
    /\ Before(F, M) /\ Before(F \cup M, wal.recs)
    /\ Promised \subseteq F \cup M

RunHolds == pc # "closed" => \E F \in SUBSET Stamps : \E M \in SUBSET Stamps : Holds(F, M)

DurInv == LogKnown /\ FilesKnown /\ Images /\ RunHolds

-----------------------------------------------------------------------------
(* What a step leaves as it was. *)

\* Batches are only added.
OpsKept == /\ Len(ops) \in Nat /\ Len(ops') \in Nat /\ Len(ops) <= Len(ops')
           /\ \A n \in 1 .. Len(ops) : ops'[n] = ops[n]

\* No step changes or removes a batch that was handed in.
LEMMA NextOpsKept == ASSUME IndInv, [Next]_vars PROVE OpsKept
<1>1. ops \in Seq(Batches) /\ Len(ops) \in Nat
  BY DEF IndInv, TypeOK
<1>2. CASE \E b \in Batches : Write(b)
  BY <1>1, <1>2 DEF Write, OpsKept
<1>3. CASE ops' = ops
  BY <1>1, <1>3 DEF OpsKept
<1> QED BY <1>2, <1>3 DEF Next, EngineStep, Flush, CompactNow, WalAppend, WalSync, WriteTmp,
     SyncTmp, Rename, Truncate, SyncTruncate, Unlink, CompactDone, OpenSync, IoError,
     ShortWrite, OpenError, Kill, PowerLoss, Open, vars

\* A set of batches keeps its outcome when a batch is added.
LEMMA LastOfKept ==
    ASSUME OpsKept, ops \in Seq(Batches), NEW S \in SUBSET Stamps, NEW k \in Keys
    PROVE  /\ LastOf(S, k)' = LastOf(S, k)
           /\ LastOf(S, k) # 0 => Deletes(LastOf(S, k), k)' = Deletes(LastOf(S, k), k)
<1>1. Wrote(S, k)' = Wrote(S, k)
  BY DEF Wrote, Stamps, OpsKept
<1>2. LastOf(S, k)' = LastOf(S, k)
  BY <1>1 DEF LastOf
<1>3. LastOf(S, k) # 0 => LastOf(S, k) \in 1 .. Len(ops)
  BY LastOfFacts DEF Wrote, Stamps
<1> QED BY <1>2, <1>3 DEF Deletes, OpsKept

\* What shows a set of batches, or is exact, stays so.
LEMMA OutcomeKept ==
    ASSUME OpsKept, ops \in Seq(Batches), NEW S \in SUBSET Stamps, NEW c
    PROVE  /\ S \in SUBSET Stamps'
           /\ Shows(c, S) => Shows(c, S)'
           /\ Exact(c, S) => Exact(c, S)'
<1>1. S \in SUBSET Stamps'
  BY DEF Stamps, OpsKept
<1>2. \A k \in Keys : /\ LastOf(S, k)' = LastOf(S, k)
                      /\ LastOf(S, k) # 0 => Deletes(LastOf(S, k), k)' = Deletes(LastOf(S, k), k)
  BY LastOfKept
<1> QED BY <1>1, <1>2 DEF Shows, Exact, Gap

\* An image that held what was promised still does.
LEMMA ImageKept ==
    ASSUME OpsKept, ops \in Seq(Batches), Promised' \subseteq Promised,
           NEW w, NEW e, ImageOK(w, e)
    PROVE  ImageOK(w, e)'
<1>1. PICK G \in SUBSET Stamps : /\ Shows(Merge(e, Files(e)), G) /\ Before(G, w.recs)
                                 /\ Promised \subseteq G \cup w.recs
  BY DEF ImageOK
<1>2. G \in SUBSET Stamps' /\ Shows(Merge(e, Files(e)), G)'
  BY <1>1, OutcomeKept
<1>3. Promised' \subseteq G \cup w.recs
  BY <1>1
<1> QED BY <1>1, <1>2, <1>3 DEF ImageOK

\* What is promised are batches that were handed in.
LEMMA PromisedStamps == ASSUME IndInv PROVE Promised \subseteq Stamps
<1>1. acked \subseteq Stamps /\ Len(ops) \in Nat
  BY DEF IndInv, TypeOK, Stamps
<1>2. CASE call = "write"
  <2>1. cur \in Stamps
    BY <1>1, <1>2 DEF IndInv, Phases, cur, Stamps
  <2> QED BY <1>1, <2>1 DEF Promised
<1>3. CASE call # "write"
  BY <1>1, <1>3 DEF Promised
<1> QED BY <1>2, <1>3

\* Only the sync of the log promises more.
LEMMA PromisedKept ==
    ASSUME IndInv, [Next]_vars, ~WalSync PROVE Promised' \subseteq Promised
<1> USE DEF IndInv, Phases, Promised, cur
<1>1. CASE \E b \in Batches : Write(b)
  BY <1>1 DEF Write
<1>2. CASE Flush \/ CompactNow \/ WalAppend \/ WriteTmp \/ SyncTmp \/ Rename \/ Truncate \/ Unlink
  BY <1>2 DEF Flush, CompactNow, WalAppend, WriteTmp, SyncTmp, Rename, Truncate, Unlink
<1>3. CASE SyncTruncate \/ CompactDone
  BY <1>3 DEF SyncTruncate, AfterFlush, CompactDone, Return
<1>4. CASE IoError \/ ShortWrite
  BY <1>4 DEF IoError, ShortWrite, Return
<1>5. CASE OpenError \/ Kill \/ PowerLoss
  BY <1>5 DEF OpenError, Kill, PowerLoss, Gone
<1>6. CASE Open \/ OpenSync
  BY <1>6 DEF Open, OpenSync
<1>7. CASE UNCHANGED vars
  BY <1>7 DEF vars
<1> QED BY <1>1, <1>2, <1>3, <1>4, <1>5, <1>6, <1>7 DEF Next, EngineStep

-----------------------------------------------------------------------------
(* The log and the files. *)

\* A log is appended to only where it is whole, and recorded batches are in it.
LEMMA LogKnownNext ==
    ASSUME Dependable, IndInv, LogKnown, [Next]_vars PROVE LogKnown'
<1> USE DEF LogKnown, IndInv, Phases, cur
<1>1. Len(ops) \in Nat /\ \A n \in wal.recs : n \in 1 .. Len(ops)
  BY DEF TypeOK, LogStamps
<1>2. CASE \E b \in Batches : Write(b)
  <2>1. Len(ops') = Len(ops) + 1 /\ UNCHANGED <<wal, dir, disks>> /\ pc' = "append"
    BY <1>2 DEF Write, disk, TypeOK
  <2>2. Len(ops') \notin wal.recs
    BY <1>1, <2>1
  <2>3. wal.torn = {}
    BY <1>2, EngineAssumption DEF Write
  <2> QED BY <2>1, <2>2, <2>3
<1>3. CASE Flush \/ CompactNow
  BY <1>3 DEF Flush, CompactNow, disk
<1>4. CASE WalAppend
  <2>1. wal' = Recorded(wal, Len(ops)) /\ dir' = dir /\ pc' = "sync" /\ ops' = ops
    BY <1>4 DEF WalAppend
  <2>2. wal'.recs = wal.recs \cup {Len(ops)} /\ wal'.torn = wal.torn
    BY <1>1, <2>1, RecordedType DEF TypeOK
  <2>3. [wal |-> wal', dir |-> dir'] \in disks'
    BY <1>4 DEF WalAppend
  <2> QED BY <1>4, <2>1, <2>2, <2>3 DEF WalAppend
<1>5. CASE WalSync \/ SyncTruncate \/ OpenSync
  <2>1. disks' = {[wal |-> wal, dir |-> dir]} /\ UNCHANGED <<wal, dir, ops>>
    BY <1>5 DEF WalSync, SyncTruncate, OpenSync, Synced, Dependable
  <2>2. pc' \in {"idle", "write_tmp"} /\ pc # "closed"
    BY <1>5 DEF WalSync, SyncTruncate, OpenSync, MaybeFlush, AfterFlush, Return
  <2> QED BY <2>1, <2>2
<1>6. CASE WriteTmp \/ SyncTmp \/ CompactDone \/ IoError
  <2>1. UNCHANGED <<wal, dir, disks, ops>>
    BY <1>6 DEF WriteTmp, SyncTmp, CompactDone, IoError, disk
  <2>2. pc' \in {"sync_tmp", "rename", "write_tmp", "idle"} /\ pc # "closed"
    BY <1>6 DEF WriteTmp, SyncTmp, CompactDone, IoError, Return
  <2> QED BY <2>1, <2>2
<1>7. CASE Rename \/ Unlink
  <2>1. wal' = wal /\ ops' = ops /\ [wal |-> wal', dir |-> dir'] \in disks'
    BY <1>7 DEF Rename, Unlink, Unsynced
  <2>2. pc' \in {"truncate", "unlink"} /\ pc # "closed"
    BY <1>7 DEF Rename, Unlink
  <2> QED BY <2>1, <2>2
<1>8. CASE Truncate
  BY <1>8 DEF Truncate, Unsynced, EmptyLog
<1>9. CASE ShortWrite
  <2>1. Len(ops) = MaxOps /\ ops' = ops
    BY <1>9 DEF ShortWrite, Dependable
  <2> QED BY <1>9, <2>1 DEF ShortWrite, Unsynced, Return
<1>10. CASE Kill \/ PowerLoss \/ OpenError
  <2>1. pc' = "closed"
    BY <1>10 DEF Kill, PowerLoss, OpenError, Gone
  <2>2. [wal |-> wal', dir |-> dir'] \in disks'
    BY <1>10 DEF Kill, PowerLoss, OpenError, Unsynced, disk
  <2> QED BY <2>1, <2>2
<1>11. CASE Open
  BY <1>11 DEF Open, Unsynced
<1>12. CASE UNCHANGED vars
  BY <1>12 DEF vars, disk
<1> QED BY <1>2, <1>3, <1>4, <1>5, <1>6, <1>7, <1>8, <1>9, <1>10, <1>11, <1>12 DEF Next, EngineStep

\* What a rename leaves: the new file over those the engine reads.
LEMMA RenameMerges ==
    ASSUME IndInv, InHand, FilesKnown, Rename
    PROVE  /\ Files(dir') = ssts \cup {next_sst_id} /\ garbage = {}
           /\ Merge(dir', ssts) = Merge(dir, ssts)
           /\ Merge(dir', ssts \cup {next_sst_id})
                = IF job = "flush" THEN Over(memtable, Merge(dir, ssts)) ELSE Merge(dir, ssts)
           /\ job # "flush" =>
                /\ memtable = Empty
                /\ Merge(dir', {next_sst_id}) = DropTombstones(Merge(dir, ssts))
<1>1. next_sst_id \in Ids /\ ssts \in SUBSET Ids /\ \A i \in ssts : i < next_sst_id
  <2>1. next_sst_id \in Ids
    BY EngineAssumption DEF Rename, IndInv, TypeOK, IdsLeft, Ids
  <2> QED BY <2>1 DEF IndInv, TypeOK, LiveFiles
<1>2. /\ tmp # NoFile /\ dir'[next_sst_id] = tmp
      /\ \A i \in Ids : i # next_sst_id => dir'[i] = dir[i]
  BY <1>1, NoFileAssumption DEF Rename, IndInv, TypeOK, Phases, Dir
<1>3. \A i \in ssts : i # next_sst_id
  BY <1>1 DEF Ids
<1>4. garbage = {} /\ pc = "rename"
  BY DEF Rename, IndInv, Phases
<1>5. Files(dir') = ssts \cup {next_sst_id}
  <2>1. ssts \subseteq Files(dir) /\ Files(dir) \subseteq ssts \cup {next_sst_id}
    BY <1>4 DEF FilesKnown
  <2> QED BY <1>1, <1>2, <1>3, <2>1 DEF Files
<1>6. Merge(dir', ssts) = Merge(dir, ssts)
  BY <1>1, <1>2, <1>3, MergeSame
<1>7. Merge(dir', ssts \cup {next_sst_id}) = Over(tmp.data, Merge(dir, ssts))
  BY <1>1, <1>2, <1>6, MergeTop
<1>8. CASE job = "flush"
  BY <1>4, <1>5, <1>6, <1>7, <1>8 DEF InHand
<1>9. CASE job # "flush"
  <2>1. tmp.data = DropTombstones(Merge(dir, ssts)) /\ memtable = Empty
    BY <1>4, <1>9 DEF InHand, IndInv, TypeOK
  <2>2. Merge(dir, ssts) = [k \in Keys |-> Merge(dir, ssts)[k]]
    BY DEF Merge
  <2>3. Over(tmp.data, Merge(dir, ssts)) = Merge(dir, ssts)
    BY <2>1, <2>2, OverDropped
  <2>4. Merge(dir', {} \cup {next_sst_id}) = Over(tmp.data, Merge(dir', {}))
    BY <1>1, <1>2, MergeTop
  <2>5. \A k \in Keys : Merge(dir', {})[k] = 0
    BY MergeFacts
  <2>6. Over(tmp.data, Merge(dir', {})) = DropTombstones(Merge(dir, ssts))
    BY <2>1, <2>5 DEF Over, DropTombstones
  <2> QED BY <1>4, <1>5, <1>6, <1>7, <1>9, <2>1, <2>3, <2>4, <2>6
<1> QED BY <1>8, <1>9

\* What the removal of an old file leaves.
LEMMA UnlinkLeaves ==
    ASSUME Dependable, IndInv, InHand, FilesKnown, Unlink
    PROVE  \E old \in garbage :
              /\ garbage' = garbage \ {old} /\ ssts' = ssts
              /\ old \notin ssts /\ \A i \in ssts \cup garbage : old <= i
              /\ Files(dir) = ssts \cup garbage
              /\ Files(dir') = (ssts \cup garbage) \ {old}
              /\ \A i \in Files(dir') : dir'[i] = dir[i]
<1>1. garbage \in SUBSET Nat /\ garbage \in SUBSET Ids /\ garbage # {} /\ ssts \in SUBSET Nat
  BY DEF Unlink, IndInv, TypeOK, Ids
<1>2. \E i \in garbage : \A j \in garbage : i <= j
  BY <1>1, MinExists
<1>3. PICK old \in garbage : /\ \A j \in garbage : old <= j
                             /\ garbage' = garbage \ {old} /\ ssts' = ssts
                             /\ dir' = [dir EXCEPT ![old] = NoFile]
  BY <1>2 DEF Unlink, Dependable
<1>4. \A i \in ssts : old < i
  BY DEF InHand
<1>5. \A i \in ssts \cup garbage : old <= i
  BY <1>1, <1>3, <1>4
<1>6. old \notin ssts
  BY <1>1, <1>4
<1>7. Files(dir) = ssts \cup garbage
  BY DEF Unlink, IndInv, Phases, InHand, FilesKnown
<1>8. dir'[old] = NoFile /\ \A i \in Ids : i # old => dir'[i] = dir[i]
  BY <1>1, <1>3 DEF IndInv, TypeOK, Dir
<1>9. Files(dir') = (ssts \cup garbage) \ {old}
  BY <1>1, <1>7, <1>8 DEF Files
<1>10. \A i \in Files(dir') : dir'[i] = dir[i]
  BY <1>8, <1>9 DEF Files
<1> QED BY <1>3, <1>5, <1>6, <1>7, <1>9, <1>10

\* No other files appear.
LEMMA FilesKnownNext ==
    ASSUME Dependable, IndInv, InHand, FilesKnown, [Next]_vars PROVE FilesKnown'
<1> USE DEF FilesKnown
<1>1. CASE (\E b \in Batches : Write(b)) \/ Flush \/ CompactNow \/ WalAppend \/ WriteTmp
           \/ SyncTmp \/ Truncate \/ CompactDone \/ OpenSync \/ IoError \/ ShortWrite
  <2>1. UNCHANGED <<memtable, dir, ssts, garbage, next_sst_id>> /\ pc # "closed"
    BY <1>1 DEF Write, Flush, CompactNow, WalAppend, WriteTmp, SyncTmp, Truncate, CompactDone,
                OpenSync, IoError, ShortWrite, disk, ram
  <2> QED BY <2>1
<1>2. CASE WalSync
  <2>1. memtable' # Empty
    BY <1>2, ApplyNotEmpty DEF IndInv, TypeOK, Phases, WalSync, cur
  <2>2. UNCHANGED <<dir, ssts, garbage, next_sst_id>> /\ pc # "closed"
    BY <1>2 DEF WalSync
  <2> QED BY <2>1, <2>2
<1>3. CASE Rename
  <2>1. Files(dir') = ssts \cup {next_sst_id} /\ garbage = {}
    BY <1>3, RenameMerges
  <2>2. CASE job = "flush"
    <3>1. UNCHANGED <<ssts, garbage, next_sst_id, memtable>> /\ memtable # Empty
      BY <1>3, <2>2 DEF Rename, InHand, Flushing
    <3> QED BY <2>1, <3>1
  <2>3. CASE job # "flush"
    BY <1>3, <2>1, <2>3 DEF Rename
  <2> QED BY <2>2, <2>3
<1>4. CASE SyncTruncate
  <2>1. garbage = {} /\ Files(dir) = ssts \cup {next_sst_id}
    <3>1. next_sst_id \in Ids
      BY <1>4, EngineAssumption DEF SyncTruncate, IndInv, TypeOK, Phases, IdsLeft, Ids
    <3>2. garbage = {} /\ next_sst_id \in Files(dir)
      BY <1>4, <3>1 DEF SyncTruncate, IndInv, Phases, Files
    <3> QED BY <1>4, <3>2 DEF SyncTruncate
  <2> QED BY <1>4, <2>1 DEF SyncTruncate
<1>5. CASE Unlink
  <2>1. PICK old \in garbage : /\ garbage' = garbage \ {old} /\ ssts' = ssts /\ old \notin ssts
                               /\ Files(dir') = (ssts \cup garbage) \ {old}
    BY <1>5, UnlinkLeaves
  <2> QED BY <2>1
<1>6. CASE OpenError \/ Kill \/ PowerLoss
  BY <1>6 DEF OpenError, Kill, PowerLoss, Gone
<1>7. CASE Open
  BY <1>7 DEF Open, IndInv, Phases
<1>8. CASE UNCHANGED vars
  BY <1>8 DEF vars, disk, ram
<1> QED BY <1>1, <1>2, <1>3, <1>4, <1>5, <1>6, <1>7, <1>8 DEF Next, EngineStep

-----------------------------------------------------------------------------
(* The images of the disk. *)

\* The current files, if the log were empty, and the current log over them.
LEMMA CurrentImage ==
    ASSUME LogKnown, Images PROVE ImageOK(wal, dir)
BY DEF LogKnown, Images

\* A torn record after the whole ones changes nothing that is recovered.
LEMMA TornImage ==
    ASSUME NEW w \in Log, NEW e, NEW n \in Nat, ImageOK(w, e), \A m \in w.recs : m < n
    PROVE  ImageOK(Torn(w, n), e)
<1>1. Torn(w, n).recs = w.recs /\ Torn(w, n).torn = w.torn \cup {n}
  BY TornType
<1> QED BY <1>1 DEF ImageOK

\* Images stay good when only good ones join them.
LEMMA ImagesJoin ==
    ASSUME OpsKept, ops \in Seq(Batches), Promised' \subseteq Promised, Images,
           \A d \in disks' : d \in disks \/ ImageOK(d.wal, d.dir) \/ ImageOK(d.wal, d.dir)'
    PROVE  Images'
<1> SUFFICES ASSUME NEW d \in disks' PROVE ImageOK(d.wal, d.dir)'
  BY DEF Images
<1>1. CASE ImageOK(d.wal, d.dir)'
  BY <1>1
<1>2. CASE d \in disks \/ ImageOK(d.wal, d.dir)
  <2>1. ImageOK(d.wal, d.dir)
    BY <1>2 DEF Images
  <2> QED BY <2>1, ImageKept
<1> QED BY <1>1, <1>2

\* The record is written: with it the log holds one batch more, after all others.
LEMMA ImagesWalAppend ==
    ASSUME IndInv, LogKnown, Images, WalAppend PROVE Images'
<1>1. /\ ops \in Seq(Batches) /\ Len(ops) \in Nat /\ cur \in Stamps /\ cur = Len(ops)
      /\ OpsKept /\ Promised' \subseteq Promised
  <2>1. ops \in Seq(Batches) /\ Len(ops) \in Nat /\ cur \in Stamps /\ cur = Len(ops)
    BY DEF WalAppend, IndInv, TypeOK, Phases, Stamps, cur
  <2>2. [Next]_vars /\ ~WalSync
    BY DEF WalAppend, WalSync, Next, EngineStep
  <2> QED BY <2>1, <2>2, NextOpsKept, PromisedKept
<1>2. wal \in Log /\ wal.torn = {} /\ \A n \in wal.recs : n \in Nat /\ n < cur
  <2>1. \A n \in wal.recs : n \in Stamps /\ n # cur
    BY DEF WalAppend, LogKnown, IndInv, LogStamps, Stamps
  <2>2. \A n \in wal.recs : n \in Nat /\ n < cur
    BY <1>1, <2>1 DEF Stamps
  <2> QED BY <2>2 DEF WalAppend, LogKnown, IndInv, TypeOK
<1>3. ImageOK(wal, dir)
  BY CurrentImage
<1>4. ImageOK(Torn(wal, cur), dir)
  BY <1>1, <1>2, <1>3, TornImage
<1>5. ImageOK(Recorded(wal, cur), dir)
  <2>1. Recorded(wal, cur).recs = wal.recs \cup {cur} /\ Recorded(wal, cur).torn = {}
    BY <1>1, <1>2, RecordedType
  <2>2. PICK G \in SUBSET Stamps : /\ Shows(Merge(dir, Files(dir)), G) /\ Before(G, wal.recs)
                                   /\ Promised \subseteq G \cup wal.recs
    BY <1>3 DEF ImageOK
  <2>3. Before(G, wal.recs \cup {cur})
    <3>1. \A n \in G : n = cur \/ n < cur
      BY <1>1, <2>2 DEF Stamps
    <3> QED BY <2>2, <3>1 DEF Before
  <2>4. Promised \subseteq G \cup (wal.recs \cup {cur})
    BY <2>2
  <2> QED BY <1>3, <2>1, <2>2, <2>3, <2>4 DEF ImageOK
<1>6. disks' = disks \cup {[wal |-> Recorded(wal, cur), dir |-> dir],
                           [wal |-> Torn(wal, cur), dir |-> dir]}
  BY DEF WalAppend
<1> QED BY <1>1, <1>4, <1>5, <1>6, ImagesJoin

\* The log is synced: the one image left has the batch in its log.
LEMMA ImagesWalSync ==
    ASSUME Dependable, IndInv, LogKnown, Images, WalSync PROVE Images'
<1>1. UNCHANGED <<ops, wal, dir>> /\ disks' = {[wal |-> wal, dir |-> dir]} /\ cur \in wal.recs
  BY DEF WalSync, Synced, Dependable, LogKnown
<1>2. Promised' \subseteq Promised \cup {cur}
  BY DEF WalSync, MaybeFlush, Return, Promised, IndInv, Phases, cur
<1>3. ImageOK(wal, dir)
  BY CurrentImage
<1>4. ops \in Seq(Batches) /\ OpsKept
  BY <1>1 DEF IndInv, TypeOK, OpsKept
<1>5. PICK G \in SUBSET Stamps : /\ Shows(Merge(dir, Files(dir)), G) /\ Before(G, wal.recs)
                                 /\ Promised \subseteq G \cup wal.recs
  BY <1>3 DEF ImageOK
<1>6. G \in SUBSET Stamps' /\ Shows(Merge(dir, Files(dir)), G)'
  BY <1>1, <1>4, <1>5, OutcomeKept
<1>7. Promised' \subseteq G \cup wal.recs
  BY <1>1, <1>2, <1>5
<1>8. ImageOK(wal, dir)'
  BY <1>1, <1>3, <1>5, <1>6, <1>7 DEF ImageOK
<1> QED BY <1>1, <1>8 DEF Images

\* A renamed file: a flush adds the memtable to the files, a compaction adds nothing.
LEMMA ImagesRename ==
    ASSUME IndInv, InHand, FilesKnown, LogKnown, Images, RunHolds, Rename PROVE Images'
<1>1. ops \in Seq(Batches) /\ OpsKept /\ Promised' \subseteq Promised /\ UNCHANGED <<ops, wal>>
  <2>1. [Next]_vars /\ ~WalSync
    BY DEF Rename, WalSync, Next, EngineStep
  <2> QED BY <2>1, NextOpsKept, PromisedKept DEF IndInv, TypeOK, Rename
<1>2. PICK F \in SUBSET Stamps, M \in SUBSET Stamps : Holds(F, M)
  BY DEF RunHolds, Rename
<1>3. ImageOK(wal, dir)
  BY CurrentImage
<1>4. \A i \in Files(dir') : dir'[i].synced
  <2>1. \A i \in Ids : dir'[i] = dir[i] \/ dir'[i] = tmp
    BY DEF Rename, IndInv, TypeOK, Dir
  <2> QED BY <1>3, <2>1 DEF ImageOK, Files, Rename, IndInv, Phases
<1>5. Shows(Merge(dir', Files(dir')), F \cup M)
  <2>1. CASE job = "flush"
    <3>1. Merge(dir', Files(dir')) = Over(memtable, Merge(dir, ssts))
      BY <2>1, RenameMerges
    <3> QED BY <1>1, <1>2, <3>1, OverShows DEF Holds
  <2>2. CASE job # "flush"
    <3>1. Merge(dir', Files(dir')) = Merge(dir, ssts) /\ memtable = Empty
      BY <2>2, RenameMerges
    <3>2. M = {}
      BY <1>1, <1>2, <3>1, EmptyExact DEF Holds
    <3> QED BY <1>2, <3>1, <3>2 DEF Holds
  <2> QED BY <2>1, <2>2
<1>6. ImageOK(wal, dir')
  <2>1. F \cup M \in SUBSET Stamps
    OBVIOUS
  <2> QED BY <1>2, <1>3, <1>4, <1>5, <2>1 DEF ImageOK, Holds
<1>7. \A d \in disks' : d \in disks \/ (d.wal = wal' /\ d.dir = dir')
  BY UnsyncedAdds DEF Rename
<1>8. \A d \in disks' : d \in disks \/ ImageOK(d.wal, d.dir)
  BY <1>1, <1>6, <1>7
<1> QED BY <1>1, <1>8, ImagesJoin

\* An emptied log: the files alone hold everything.
LEMMA ImagesTruncate ==
    ASSUME IndInv, InHand, FilesKnown, LogKnown, Images, RunHolds, Truncate PROVE Images'
<1>1. ops \in Seq(Batches) /\ OpsKept /\ Promised' \subseteq Promised
  <2>1. [Next]_vars /\ ~WalSync
    BY DEF Truncate, WalSync, Next, EngineStep
  <2> QED BY <2>1, NextOpsKept, PromisedKept DEF IndInv, TypeOK
<1>2. PICK F \in SUBSET Stamps, M \in SUBSET Stamps : Holds(F, M)
  BY DEF RunHolds, Truncate
<1>3. /\ next_sst_id \in Ids /\ ssts \in SUBSET Ids /\ \A i \in ssts : i < next_sst_id
      /\ Files(dir) = ssts \cup {next_sst_id} /\ dir[next_sst_id].data = memtable
  <2>1. next_sst_id \in Ids
    BY EngineAssumption DEF Truncate, IndInv, TypeOK, Phases, IdsLeft, Ids
  <2>2. garbage = {} /\ next_sst_id \in Files(dir)
    BY <2>1 DEF Truncate, IndInv, Phases, Files
  <2> QED BY <2>1, <2>2 DEF Truncate, IndInv, TypeOK, LiveFiles, InHand, FilesKnown
<1>4. Shows(Merge(dir, Files(dir)), F \cup M)
  <2>1. Merge(dir, Files(dir)) = Over(memtable, Merge(dir, ssts))
    BY <1>3, MergeTop
  <2> QED BY <1>1, <1>2, <2>1, OverShows DEF Holds
<1>5. ImageOK(EmptyLog, dir)
  <2>1. F \cup M \in SUBSET Stamps /\ EmptyLog.recs = {} /\ EmptyLog.torn = {}
    BY DEF EmptyLog
  <2>2. Before(F \cup M, EmptyLog.recs) /\ Promised \subseteq (F \cup M) \cup EmptyLog.recs
    BY <1>2, <2>1 DEF Before, Holds
  <2>3. \A i \in Files(dir) : dir[i].synced
    BY CurrentImage DEF ImageOK
  <2> QED BY <1>4, <2>1, <2>2, <2>3 DEF ImageOK
<1>6. \A d \in disks' : d \in disks \/ (d.wal = EmptyLog /\ d.dir = dir)
  BY UnsyncedAdds DEF Truncate
<1>7. \A d \in disks' : d \in disks \/ ImageOK(d.wal, d.dir)
  BY <1>5, <1>6
<1> QED BY <1>1, <1>7, ImagesJoin

\* The files left when the oldest of the old ones is gone show what they all showed:
\* where it alone had an entry for a key, the new file left out a tombstone.
LEMMA UnlinkShows ==
    ASSUME Dependable, IndInv, InHand, FilesKnown, Unlink,
           NEW F \in SUBSET Stamps, NEW M, Holds(F, M)
    PROVE  Shows(Merge(dir', Files(dir')), F) /\ Shows(Merge(dir', ssts), F)
<1> DEFINE All == ssts \cup garbage
<1>1. PICK old \in garbage : /\ old \notin ssts /\ \A i \in All : old <= i
                             /\ Files(dir') = All \ {old}
                             /\ \A i \in Files(dir') : dir'[i] = dir[i]
  BY UnlinkLeaves
<1>2. All \in SUBSET Ids /\ old \in All /\ ssts \in SUBSET (All \ {old})
  BY <1>1 DEF IndInv, TypeOK
<1>3. Merge(dir', All \ {old}) = Merge(dir, All \ {old}) /\ Merge(dir', ssts) = Merge(dir, ssts)
  <2>1. All \ {old} \in SUBSET Ids /\ ssts \in SUBSET Ids
    BY <1>2
  <2> QED BY <1>1, <1>2, <2>1, MergeSame
<1>4. ASSUME NEW k \in Keys
      PROVE  Merge(dir, All \ {old})[k] = LastOf(F, k) \/ Gap(Merge(dir, All \ {old}), F, k)
  <2>1. Merge(dir, All \ {old})[k] = 0 \/ Merge(dir, All \ {old})[k] = Merge(dir, All)[k]
    BY <1>1, <1>2, MergeWithoutOldest
  <2>2. CASE Merge(dir, All \ {old})[k] = 0
    <3>1. Merge(dir, ssts)[k] = 0
      <4>1. All \ {old} \in SUBSET Ids
        BY <1>2
      <4> QED BY <1>2, <2>2, <4>1, MergeFewer
    <3>2. Merge(dir, ssts)[k] = LastOf(F, k) \/ Gap(Merge(dir, ssts), F, k)
      BY DEF Holds, Shows
    <3> QED BY <2>2, <3>1, <3>2 DEF Gap
  <2>3. CASE Merge(dir, All \ {old})[k] = Merge(dir, All)[k]
    <3>1. Merge(dir, All)[k] = LastOf(F, k) \/ Gap(Merge(dir, All), F, k)
      BY DEF Holds, Shows
    <3> QED BY <2>3, <3>1 DEF Gap
  <2> QED BY <2>1, <2>2, <2>3
<1>5. Shows(Merge(dir', Files(dir')), F)
  BY <1>1, <1>3, <1>4 DEF Shows
<1>6. Shows(Merge(dir', ssts), F)
  BY <1>3 DEF Holds
<1> QED BY <1>5, <1>6

\* An old file removed.
LEMMA ImagesUnlink ==
    ASSUME Dependable, IndInv, InHand, FilesKnown, LogKnown, Images, RunHolds, Unlink
    PROVE  Images'
<1>1. ops \in Seq(Batches) /\ OpsKept /\ Promised' \subseteq Promised /\ UNCHANGED <<ops, wal>>
  <2>1. [Next]_vars /\ ~WalSync
    BY DEF Unlink, WalSync, Next, EngineStep
  <2> QED BY <2>1, NextOpsKept, PromisedKept DEF IndInv, TypeOK, Unlink
<1>2. PICK F \in SUBSET Stamps, M \in SUBSET Stamps : Holds(F, M)
  BY DEF RunHolds, Unlink
<1>3. Shows(Merge(dir', Files(dir')), F)
  BY <1>2, UnlinkShows
<1>4. M = {}
  <2>1. memtable = Empty
    BY DEF Unlink, IndInv, Phases, InHand
  <2> QED BY <1>1, <1>2, <2>1, EmptyExact DEF Holds
<1>5. \A i \in Files(dir') : dir'[i].synced
  <2>1. \A i \in Files(dir') : i \in Files(dir) /\ dir'[i] = dir[i]
    BY UnlinkLeaves
  <2> QED BY <2>1, CurrentImage DEF ImageOK
<1>6. ImageOK(wal, dir')
  <2>1. \A n \in wal.recs : \A t \in wal.torn : n < t
    BY CurrentImage DEF ImageOK
  <2> QED BY <1>2, <1>3, <1>4, <1>5, <2>1 DEF ImageOK, Holds
<1>7. \A d \in disks' : d \in disks \/ (d.wal = wal' /\ d.dir = dir')
  BY UnsyncedAdds DEF Unlink
<1>8. \A d \in disks' : d \in disks \/ ImageOK(d.wal, d.dir)
  BY <1>1, <1>6, <1>7
<1> QED BY <1>1, <1>8, ImagesJoin

\* A record cut short, by an error or a kill, and the cut that an opening makes.
LEMMA ImagesLog ==
    ASSUME IndInv, LogKnown, Images, ShortWrite \/ Kill \/ Open PROVE Images'
<1>1. ops \in Seq(Batches) /\ Len(ops) \in Nat /\ OpsKept /\ Promised' \subseteq Promised
  <2>1. [Next]_vars /\ ~WalSync
    <3>1. ~WalSync
      BY DEF ShortWrite, Kill, Open, Gone, WalSync, MaybeFlush, Return
    <3> QED BY <3>1 DEF Next
  <2> QED BY <2>1, NextOpsKept, PromisedKept DEF IndInv, TypeOK
<1>2. ImageOK(wal, dir) /\ wal \in Log
  BY CurrentImage DEF IndInv, TypeOK
<1>3. pc = "append" => ImageOK(Torn(wal, cur), dir)
  <2>1. pc = "append" => \A n \in wal.recs : n < cur
    <3>1. \A n \in wal.recs : n \in 1 .. Len(ops)
      BY DEF IndInv, LogStamps
    <3> QED BY <1>1, <3>1 DEF LogKnown, cur
  <2> QED BY <1>1, <1>2, <2>1, TornImage DEF cur
<1>4. CASE ShortWrite \/ Kill
  <2>1. \A d \in disks' : d \in disks \/ (d.wal = wal' /\ d.dir = dir)
    BY <1>4, UnsyncedAdds DEF ShortWrite, Kill
  <2>2. ImageOK(wal', dir)
    BY <1>2, <1>3, <1>4 DEF ShortWrite, Kill
  <2>3. \A d \in disks' : d \in disks \/ ImageOK(d.wal, d.dir)
    BY <2>1, <2>2
  <2> QED BY <1>1, <2>3, ImagesJoin
<1>5. CASE Open
  <2>1. wal'.recs = wal.recs /\ wal'.torn = {}
    <3>1. Whole(wal) = wal.recs
      BY <1>2, ReplayExact DEF ImageOK
    <3> QED BY <1>5, <3>1 DEF Open
  <2>2. ImageOK(wal', dir)
    BY <1>2, <2>1 DEF ImageOK
  <2>3. \A d \in disks' : d \in disks \/ (d.wal = wal' /\ d.dir = dir)
    BY <1>5, UnsyncedAdds DEF Open
  <2>4. \A d \in disks' : d \in disks \/ ImageOK(d.wal, d.dir)
    BY <2>2, <2>3
  <2> QED BY <1>1, <2>4, ImagesJoin
<1> QED BY <1>4, <1>5

\* Every step leaves only images that hold what was promised.
LEMMA ImagesNext ==
    ASSUME Dependable, IndInv, InHand, FilesKnown, LogKnown, Images, RunHolds, [Next]_vars
    PROVE  Images'
<1>1. CASE WalSync
  BY <1>1, ImagesWalSync
<1>2. CASE WalAppend \/ Rename \/ Truncate \/ Unlink \/ ShortWrite \/ Kill \/ Open
  BY <1>2, ImagesWalAppend, ImagesRename, ImagesTruncate, ImagesUnlink, ImagesLog
<1>3. CASE ~WalSync /\ disks' \subseteq disks
  <2>1. OpsKept /\ Promised' \subseteq Promised /\ ops \in Seq(Batches)
    BY <1>3, NextOpsKept, PromisedKept DEF IndInv, TypeOK
  <2>2. \A d \in disks' : d \in disks
    BY <1>3
  <2> QED BY <2>1, <2>2, ImagesJoin
<1>4. SyncTruncate \/ OpenSync => disks' \subseteq disks /\ ~WalSync
  BY DEF SyncTruncate, OpenSync, WalSync, Synced, Dependable, LogKnown
<1>5. CASE PowerLoss
  <2>1. PICK e \in disks : wal' = e.wal /\ dir' = e.dir
    BY <1>5 DEF PowerLoss
  <2>2. \A d \in disks' : ImageOK(d.wal, d.dir)
    BY <1>5, <2>1 DEF PowerLoss, Images
  <2>3. ~WalSync
    BY <1>5 DEF PowerLoss, Gone, WalSync, MaybeFlush, Return
  <2>4. OpsKept /\ Promised' \subseteq Promised /\ ops \in Seq(Batches)
    BY <2>3, NextOpsKept, PromisedKept DEF IndInv, TypeOK
  <2> QED BY <2>2, <2>4, ImagesJoin
<1>6. UNCHANGED vars \/ (\E b \in Batches : Write(b)) \/ Flush \/ CompactNow \/ WriteTmp \/ SyncTmp
      \/ CompactDone \/ IoError \/ OpenError => disks' \subseteq disks
  BY DEF vars, disk, Write, Flush, CompactNow, WriteTmp, SyncTmp, CompactDone, IoError, OpenError
<1> QED BY <1>1, <1>2, <1>3, <1>4, <1>5, <1>6 DEF Next, EngineStep

-----------------------------------------------------------------------------
(* What the running engine holds. *)

\* Two sets that fit what the memtable and the files became.
LEMMA RunHoldsWith ==
    ASSUME ops' = ops, NEW F \in SUBSET Stamps, NEW M \in SUBSET Stamps,
           Exact(memtable', M), Shows(Merge(dir', ssts'), F),
           Shows(Merge(dir', ssts' \cup garbage'), F),
           Before(F, M), Before(F \cup M, wal'.recs), Promised' \subseteq F \cup M
    PROVE  RunHolds'
<1>1. \A S, k : Wrote(S, k)' = Wrote(S, k) /\ LastOf(S, k)' = LastOf(S, k)
  BY DEF Wrote, LastOf
<1>2. Exact(memtable, M)'
  BY <1>1 DEF Exact
<1>3. Shows(Merge(dir, ssts), F)' /\ Shows(Merge(dir, ssts \cup garbage), F)'
  BY <1>1 DEF Shows, Gap, Deletes
<1>4. Holds(F, M)'
  BY <1>2, <1>3 DEF Holds, Before
<1>5. F \in SUBSET Stamps' /\ M \in SUBSET Stamps'
  BY DEF Stamps
<1> QED BY <1>4, <1>5 DEF RunHolds

\* The steps of the log: the batch in progress joins what the memtable may hold when
\* its record is written, and is in it when the record is synced.
LEMMA RunHoldsLog ==
    ASSUME IndInv, LogKnown, RunHolds, WalAppend \/ WalSync PROVE RunHolds'
<1>1. /\ ops \in Seq(Batches) /\ Len(ops) \in Nat /\ cur \in Stamps /\ cur = Len(ops)
      /\ UNCHANGED <<ops, dir, ssts, garbage>>
      /\ pc # "closed"
  BY DEF WalAppend, WalSync, IndInv, TypeOK, Phases, Stamps, cur, ram
<1>2. PICK F \in SUBSET Stamps, M \in SUBSET Stamps : Holds(F, M)
  BY <1>1 DEF RunHolds
<1>3. \A n \in Stamps : n \in Nat /\ n <= cur
  BY <1>1 DEF Stamps
<1>4. wal.recs \subseteq Stamps
  BY DEF IndInv, LogStamps, Stamps
<1>5. CASE WalAppend
  <2>1. wal'.recs = wal.recs \cup {cur} /\ memtable' = memtable
    <3>1. wal \in Log /\ cur \in Nat
      BY <1>1 DEF IndInv, TypeOK
    <3> QED BY <1>5, <3>1, RecordedType DEF WalAppend, ram
  <2>2. Promised' \subseteq Promised
    BY <1>5 DEF WalAppend, Promised, IndInv, Phases, cur
  <2>3. Before(F \cup M, wal'.recs)
    BY <1>1, <1>2, <1>3, <2>1 DEF Before, Holds
  <2> QED BY <1>1, <1>2, <2>1, <2>2, <2>3, RunHoldsWith DEF Holds
<1>6. CASE WalSync
  <2>1. /\ wal' = wal /\ memtable' = Apply(memtable, cur) /\ cur \in wal.recs
        /\ Promised' \subseteq Promised \cup {cur}
    BY <1>6 DEF WalSync, LogKnown, MaybeFlush, Return, Promised, IndInv, Phases, cur
  <2>2. Exact(memtable', M \cup {cur})
    BY <1>1, <1>2, <1>3, <2>1, ApplyExact DEF Holds
  <2>3. Before(F, M \cup {cur})
    BY <1>1, <1>2, <1>3 DEF Before, Holds
  <2>4. Before(F \cup (M \cup {cur}), wal'.recs)
    BY <1>2, <2>1 DEF Before, Holds
  <2>5. M \cup {cur} \in SUBSET Stamps /\ Promised' \subseteq F \cup (M \cup {cur})
    BY <1>1, <1>2, <2>1 DEF Holds
  <2> QED BY <1>1, <1>2, <2>2, <2>3, <2>4, <2>5, RunHoldsWith DEF Holds
<1> QED BY <1>5, <1>6

\* The end of a flush: the log is emptied, and the memtable's batches are in the files.
LEMMA RunHoldsFlushed ==
    ASSUME IndInv, InHand, RunHolds, Truncate \/ SyncTruncate PROVE RunHolds'
<1>1. ops \in Seq(Batches) /\ UNCHANGED <<ops, dir>> /\ pc # "closed" /\ Promised' \subseteq Promised
  <2>1. [Next]_vars /\ ~WalSync
    BY DEF Truncate, SyncTruncate, WalSync, Next, EngineStep
  <2> QED BY <2>1, PromisedKept DEF Truncate, SyncTruncate, IndInv, TypeOK
<1>2. PICK F \in SUBSET Stamps, M \in SUBSET Stamps : Holds(F, M)
  BY <1>1 DEF RunHolds
<1>3. CASE Truncate
  <2>1. wal'.recs = {} /\ UNCHANGED <<memtable, ssts, garbage>>
    BY <1>3 DEF Truncate, EmptyLog, ram
  <2>2. Before(F \cup M, wal'.recs)
    BY <2>1 DEF Before
  <2> QED BY <1>1, <1>2, <2>1, <2>2, RunHoldsWith DEF Holds
<1>4. CASE SyncTruncate
  <2>1. /\ ssts \in SUBSET Ids /\ next_sst_id \in Ids /\ \A i \in ssts : i < next_sst_id
        /\ dir[next_sst_id].data = memtable /\ garbage = {}
    <3>1. next_sst_id \in Ids
      BY <1>4, EngineAssumption DEF SyncTruncate, IndInv, TypeOK, Phases, IdsLeft, Ids
    <3> QED BY <1>4, <3>1 DEF SyncTruncate, IndInv, TypeOK, Phases, LiveFiles, InHand
  <2>2. /\ ssts' = ssts \cup {next_sst_id} /\ garbage' = {} /\ memtable' = Empty
        /\ wal' = wal
    BY <1>4, <2>1 DEF SyncTruncate
  <2>3. Merge(dir', ssts') = Over(memtable, Merge(dir, ssts))
    BY <1>1, <2>1, <2>2, MergeTop
  <2>4. Shows(Merge(dir', ssts'), F \cup M)
    BY <1>1, <1>2, <2>3, OverShows DEF Holds
  <2>5. ssts' \cup garbage' = ssts'
    BY <2>2
  <2>6. Exact(memtable', {})
    BY <2>2 DEF Exact, Empty, LastOf, Wrote
  <2>7. Before(F \cup M, {}) /\ Before((F \cup M) \cup {}, wal'.recs)
    BY <1>2, <2>2 DEF Before, Holds
  <2>8. F \cup M \in SUBSET Stamps /\ {} \in SUBSET Stamps /\ Promised' \subseteq (F \cup M) \cup {}
    BY <1>1, <1>2 DEF Holds
  <2> QED BY <1>1, <2>4, <2>5, <2>6, <2>7, <2>8, RunHoldsWith
<1> QED BY <1>3, <1>4

\* A renamed file: the engine reads what it read.
LEMMA RunHoldsRename ==
    ASSUME IndInv, InHand, FilesKnown, RunHolds, Rename PROVE RunHolds'
<1>1. ops \in Seq(Batches) /\ UNCHANGED <<ops, wal, memtable>> /\ pc # "closed" /\ Promised' \subseteq Promised
  <2>1. [Next]_vars /\ ~WalSync
    BY DEF Rename, WalSync, Next, EngineStep
  <2> QED BY <2>1, PromisedKept DEF Rename, IndInv, TypeOK
<1>2. PICK F \in SUBSET Stamps, M \in SUBSET Stamps : Holds(F, M)
  BY <1>1 DEF RunHolds
<1>3. /\ ssts \in SUBSET Ids /\ next_sst_id \in Ids /\ \A i \in ssts : i < next_sst_id
      /\ dir'[next_sst_id] = tmp /\ \A i \in Ids : i # next_sst_id => dir'[i] = dir[i]
      /\ garbage = {}
  <2>1. next_sst_id \in Ids
    BY EngineAssumption DEF Rename, IndInv, TypeOK, IdsLeft, Ids
  <2> QED BY <2>1 DEF Rename, IndInv, TypeOK, LiveFiles, Dir, Phases
<1>4. CASE job = "flush"
  <2>1. UNCHANGED <<ssts, garbage>>
    BY <1>4 DEF Rename
  <2>2. Merge(dir', ssts) = Merge(dir, ssts) /\ ssts \cup garbage = ssts
    <3>1. \A i \in ssts : dir'[i] = dir[i]
      <4>1. \A i \in ssts : i \in Ids /\ i # next_sst_id
        BY <1>3 DEF Ids
      <4> QED BY <1>3, <4>1
    <3> QED BY <1>3, <3>1, MergeSame
  <2> QED BY <1>1, <1>2, <2>1, <2>2, RunHoldsWith DEF Holds
<1>5. CASE job # "flush"
  <2>1. ssts' = {} \cup {next_sst_id} /\ garbage' = ssts /\ memtable = Empty
    BY <1>5 DEF Rename, IndInv, TypeOK, InHand
  <2>2. M = {}
    BY <1>1, <1>2, <2>1, EmptyExact DEF Holds
  <2>3. Shows(Merge(dir', ssts'), F)
    <3>1. Merge(dir', ssts') = Over(dir'[next_sst_id].data, Merge(dir', {}))
      BY <1>3, <2>1, MergeTop
    <3>2. \A k \in Keys : Merge(dir', {})[k] = 0
      BY MergeFacts
    <3>3. tmp.data = DropTombstones(Merge(dir, ssts))
      BY <1>5 DEF InHand, Rename
    <3>4. \A k \in Keys : Merge(dir', ssts')[k] = DropTombstones(Merge(dir, ssts))[k]
      BY <1>3, <3>1, <3>2, <3>3 DEF Over
    <3>5. Shows(DropTombstones(Merge(dir, ssts)), F)
      BY <1>1, <1>2, DropShows DEF Holds
    <3> QED BY <3>4, <3>5 DEF Shows, Gap
  <2>4. Shows(Merge(dir', ssts' \cup garbage'), F)
    <3>1. Merge(dir', Files(dir')) = Merge(dir, ssts)
      BY <1>5, RenameMerges
    <3>2. Files(dir') = ssts' \cup garbage'
      <4>1. Files(dir') = Files(dir) \cup {next_sst_id}
        <5>1. tmp \in File /\ tmp # NoFile /\ next_sst_id \in Ids
          BY <1>3, NoFileAssumption DEF Rename, IndInv, Phases
        <5> QED BY <1>3, <5>1 DEF Files
      <4>2. Files(dir) = ssts
        BY <1>1, <1>3, <2>1 DEF FilesKnown
      <4> QED BY <2>1, <4>1, <4>2
    <3> QED BY <1>2, <3>1, <3>2 DEF Holds
  <2> QED BY <1>1, <1>2, <2>1, <2>3, <2>4, RunHoldsWith DEF Holds
<1> QED BY <1>4, <1>5

\* An old file removed.
LEMMA RunHoldsUnlink ==
    ASSUME Dependable, IndInv, InHand, FilesKnown, RunHolds, Unlink PROVE RunHolds'
<1>1. ops \in Seq(Batches) /\ UNCHANGED <<ops, wal, memtable>> /\ pc # "closed" /\ Promised' \subseteq Promised
  <2>1. [Next]_vars /\ ~WalSync
    BY DEF Unlink, WalSync, Next, EngineStep
  <2> QED BY <2>1, PromisedKept DEF Unlink, IndInv, TypeOK
<1>2. PICK F \in SUBSET Stamps, M \in SUBSET Stamps : Holds(F, M)
  BY <1>1 DEF RunHolds
<1>3. Shows(Merge(dir', Files(dir')), F) /\ Shows(Merge(dir', ssts), F)
  BY <1>2, UnlinkShows
<1>4. ssts' = ssts /\ Files(dir') = ssts' \cup garbage'
  BY UnlinkLeaves
<1> QED BY <1>1, <1>2, <1>3, <1>4, RunHoldsWith DEF Holds

\* An opening: the log is replayed over the files that are there.
LEMMA RunHoldsOpen ==
    ASSUME IndInv, LogKnown, Images, Open PROVE RunHolds'
<1>1. /\ ops \in Seq(Batches) /\ UNCHANGED <<ops, dir, garbage>> /\ garbage = {}
      /\ Promised' \subseteq Promised /\ ssts' = Files(dir) /\ memtable' = Replay(wal)
      /\ wal'.recs = Whole(wal)
  <2>1. [Next]_vars /\ ~WalSync
    BY DEF Open, WalSync, Next
  <2> QED BY <2>1, PromisedKept DEF Open, IndInv, TypeOK, Phases
<1>2. ImageOK(wal, dir)
  BY CurrentImage
<1>3. PICK G \in SUBSET Stamps : /\ Shows(Merge(dir, Files(dir)), G) /\ Before(G, wal.recs)
                                 /\ Promised \subseteq G \cup wal.recs
  BY <1>2 DEF ImageOK
<1>4. Whole(wal) = wal.recs /\ Exact(Replay(wal), wal.recs)
  BY <1>2, ReplayExact DEF ImageOK
<1>5. wal.recs \in SUBSET Stamps
  BY DEF IndInv, LogStamps, Stamps
<1>6. ssts' \cup garbage' = ssts'
  BY <1>1
<1>7. Before(G \cup wal.recs, wal'.recs)
  BY <1>1, <1>3, <1>4 DEF Before
<1> QED BY <1>1, <1>3, <1>4, <1>5, <1>6, <1>7, RunHoldsWith

\* Every step.
LEMMA RunHoldsNext ==
    ASSUME Dependable, IndInv, InHand, DurInv, [Next]_vars PROVE RunHolds'
<1> USE DEF DurInv
<1>1. CASE WalAppend \/ WalSync \/ Truncate \/ SyncTruncate \/ Rename \/ Unlink \/ Open
  BY <1>1, RunHoldsLog, RunHoldsFlushed, RunHoldsRename, RunHoldsUnlink, RunHoldsOpen
<1>2. CASE OpenError \/ Kill \/ PowerLoss
  BY <1>2 DEF OpenError, Kill, PowerLoss, Gone, RunHolds
<1>3. CASE \E b \in Batches : Write(b)
  <2>1. UNCHANGED <<dir, wal, memtable, ssts, garbage>> /\ pc # "closed" /\ ~WalSync
    BY <1>3 DEF Write, WalSync, disk, ram
  <2>2. ops \in Seq(Batches) /\ OpsKept /\ Promised' \subseteq Promised
    BY <2>1, NextOpsKept, PromisedKept DEF IndInv, TypeOK
  <2>3. PICK F \in SUBSET Stamps, M \in SUBSET Stamps : Holds(F, M)
    BY <2>1 DEF RunHolds
  <2>4. F \in SUBSET Stamps' /\ M \in SUBSET Stamps'
    BY <2>2, OutcomeKept
  <2>5. Exact(memtable, M)'
    <3>1. Exact(memtable', M)
      BY <2>1, <2>3 DEF Holds
    <3>2. \A k \in Keys : LastOf(M, k)' = LastOf(M, k)
      BY <2>2, LastOfKept
    <3> QED BY <3>1, <3>2 DEF Exact
  <2>6. \A k \in Keys : /\ LastOf(F, k)' = LastOf(F, k)
                        /\ LastOf(F, k) # 0 => Deletes(LastOf(F, k), k)' = Deletes(LastOf(F, k), k)
    BY <2>2, LastOfKept
  <2>7. Shows(Merge(dir, ssts), F)' /\ Shows(Merge(dir, ssts \cup garbage), F)'
    <3>1. Merge(dir, ssts)' = Merge(dir, ssts) /\ Merge(dir, ssts \cup garbage)' = Merge(dir, ssts \cup garbage)
      BY <2>1 DEF Merge, Holding
    <3>2. Shows(Merge(dir, ssts), F) /\ Shows(Merge(dir, ssts \cup garbage), F)
      BY <2>3 DEF Holds
    <3> QED BY <2>6, <3>1, <3>2 DEF Shows, Gap
  <2>8. Holds(F, M)'
    BY <2>1, <2>2, <2>3, <2>5, <2>7 DEF Holds, Before
  <2> QED BY <2>4, <2>8 DEF RunHolds
<1>4. CASE ~WalSync /\ (Flush \/ CompactNow \/ WriteTmp \/ SyncTmp \/ CompactDone \/ OpenSync
                         \/ IoError \/ UNCHANGED vars)
  <2>1. UNCHANGED <<ops, dir, wal, memtable, ssts, garbage>> /\ (pc' # "closed" => pc # "closed")
    BY <1>4 DEF Flush, CompactNow, WriteTmp, SyncTmp, CompactDone, OpenSync, IoError,
                disk, ram, vars
  <2>2. Promised' \subseteq Promised
    BY <1>4, PromisedKept
  <2>3. ASSUME pc # "closed" PROVE RunHolds'
    <3>1. PICK F \in SUBSET Stamps, M \in SUBSET Stamps : Holds(F, M)
      BY <2>3 DEF RunHolds
    <3> QED BY <2>1, <2>2, <3>1, RunHoldsWith DEF Holds
  <2> QED BY <2>1, <2>3 DEF RunHolds
<1>5. CASE ShortWrite
  <2>1. UNCHANGED <<ops, dir, memtable, ssts, garbage>> /\ wal'.recs = wal.recs /\ pc # "closed" /\ ~WalSync
    <3>1. wal \in Log /\ cur \in Nat
      BY DEF IndInv, TypeOK, cur
    <3>2. wal' = Torn(wal, cur)
      BY <1>5 DEF ShortWrite
    <3> QED BY <1>5, <3>1, <3>2, TornType DEF ShortWrite, WalSync, ram
  <2>2. Promised' \subseteq Promised
    BY <2>1, PromisedKept
  <2>3. PICK F \in SUBSET Stamps, M \in SUBSET Stamps : Holds(F, M)
    BY <2>1 DEF RunHolds
  <2> QED BY <2>1, <2>2, <2>3, RunHoldsWith DEF Holds
<1> QED BY <1>1, <1>2, <1>3, <1>4, <1>5 DEF Next, EngineStep

-----------------------------------------------------------------------------
(* Durability. *)

\* An engine that was never opened has promised nothing.
LEMMA DurInvInit == Init => DurInv
<1> SUFFICES ASSUME Init PROVE DurInv
  OBVIOUS
<1>1. /\ wal = EmptyLog /\ disks = {[wal |-> wal, dir |-> dir]} /\ pc = "closed" /\ call = "none"
      /\ Files(dir) = {} /\ acked = {}
  BY DEF Init, Files
<1>2. LogKnown /\ FilesKnown /\ RunHolds
  BY <1>1 DEF LogKnown, FilesKnown, RunHolds
<1>3. ImageOK(wal, dir)
  <2>1. Shows(Merge(dir, Files(dir)), {})
    <3>1. \A k \in Keys : Merge(dir, Files(dir))[k] = 0
      BY <1>1, MergeFacts
    <3> QED BY <3>1 DEF Shows, LastOf, Wrote
  <2>2. Before({}, wal.recs) /\ Promised \subseteq {} \cup wal.recs /\ wal.recs = {}
    BY <1>1 DEF Before, Promised, EmptyLog
  <2>3. {} \in SUBSET Stamps
    OBVIOUS
  <2> QED BY <1>1, <2>1, <2>2, <2>3 DEF ImageOK
<1> QED BY <1>1, <1>2, <1>3 DEF DurInv, Images

\* The invariant behind durability holds throughout.
THEOREM DurInvAlways == ASSUME Dependable PROVE Spec => []DurInv
<1>1. Init => DurInv
  BY DurInvInit
<1>2. IndInv /\ InHand /\ DurInv /\ [Next]_vars => DurInv'
  BY LogKnownNext, FilesKnownNext, ImagesNext, RunHoldsNext DEF DurInv
<1> QED BY <1>1, <1>2, Invariance, InHandAlways, PTL DEF Spec

\* A reader that lays an exact memtable over files that show an earlier set sees the
\* outcome of both.
LEMMA GetOutcome ==
    ASSUME ops \in Seq(Batches), NEW A \in SUBSET Stamps, NEW B \in SUBSET Stamps,
           Before(A, B), NEW m, Exact(m, B), NEW d, NEW I, Shows(Merge(d, I), A)
    PROVE  Get(m, d, I) = Outcome(A \cup B)
<1>1. Shows(Over(m, Merge(d, I)), A \cup B)
  BY OverShows
<1>2. Get(m, d, I) = DropTombstones(Over(m, Merge(d, I)))
  BY DEF Get, Over
<1> QED BY <1>1, <1>2, ShowsOutcome

\* What a death leaves, at any instruction, opens and shows every acknowledged batch.
THEOREM DurableAlways == ASSUME Dependable PROVE Spec => []Durable
<1>1. IndInv /\ DurInv => Durable
  <2> SUFFICES ASSUME IndInv, DurInv, NEW d \in disks
               PROVE  /\ \A i \in Files(d.dir) : d.dir[i].synced
                      /\ \A n \in d.wal.recs : \A t \in d.wal.torn : n < t
                      /\ Explained(Recovered(d))
    BY DEF Durable
  <2>1. ops \in Seq(Batches) /\ d.wal.recs \in SUBSET Stamps
    BY DEF IndInv, TypeOK, DiskStamps, Stamps
  <2>2. ImageOK(d.wal, d.dir)
    BY DEF DurInv, Images
  <2>3. PICK G \in SUBSET Stamps : /\ Shows(Merge(d.dir, Files(d.dir)), G) /\ Before(G, d.wal.recs)
                                   /\ Promised \subseteq G \cup d.wal.recs
    BY <2>2 DEF ImageOK
  <2>4. Exact(Replay(d.wal), d.wal.recs)
    BY <2>2, ReplayExact DEF ImageOK
  <2>5. Recovered(d) = Outcome(G \cup d.wal.recs)
    BY <2>1, <2>3, <2>4, GetOutcome DEF Recovered
  <2>6. acked \subseteq G \cup d.wal.recs /\ G \cup d.wal.recs \in SUBSET Stamps
    BY <2>1, <2>3 DEF Promised
  <2> QED BY <2>2, <2>5, <2>6 DEF ImageOK, Explained, Stamps
<1> QED BY <1>1, DurInvAlways, Invariance, PTL

\* What the running engine shows is explained by the batches promised.
ViewPromised ==
    pc # "closed" => \E S \in SUBSET Stamps :
                        Promised \subseteq S /\ Get(memtable, dir, ssts) = Outcome(S)

\* It follows from what the memtable and the files hold.
LEMMA ViewExplained == IndInv /\ RunHolds => ViewPromised
<1> SUFFICES ASSUME IndInv, RunHolds, pc # "closed"
             PROVE  \E S \in SUBSET Stamps :
                       Promised \subseteq S /\ Get(memtable, dir, ssts) = Outcome(S)
  BY DEF ViewPromised
<1>1. PICK F \in SUBSET Stamps, M \in SUBSET Stamps : Holds(F, M)
  BY DEF RunHolds
<1>2. Get(memtable, dir, ssts) = Outcome(F \cup M)
  BY <1>1, GetOutcome DEF Holds, IndInv, TypeOK
<1>3. F \cup M \in SUBSET Stamps /\ Promised \subseteq F \cup M
  BY <1>1 DEF Holds
<1> QED BY <1>2, <1>3

\* Through errors and retries, the running engine shows every acknowledged batch, and
\* each batch whole and in its place.
THEOREM ReadsExplainedAlways == ASSUME Dependable PROVE Spec => []ReadsExplained
<1>1. IndInv /\ DurInv => ReadsExplained
  <2> SUFFICES ASSUME IndInv, DurInv, Serving PROVE Explained(Get(memtable, dir, ssts))
    BY DEF ReadsExplained
  <2>1. PICK S \in SUBSET Stamps : Promised \subseteq S /\ Get(memtable, dir, ssts) = Outcome(S)
    BY ViewExplained DEF DurInv, Serving, ViewPromised
  <2> QED BY <2>1 DEF Explained, Stamps, Promised
<1> QED BY <1>1, DurInvAlways, Invariance, PTL

-----------------------------------------------------------------------------
(* The engine implements the map its callers are promised. *)

\* Both maps have the same outcome of a set of batches.
LEMMA SameOutcome == \A S : Promise!Outcome(S) = Outcome(S)
BY DEF Promise!Outcome, Promise!Latest, Outcome, Deletes, Newest

\* A batch that the memtable takes shows.
LEMMA SyncShows ==
    ASSUME IndInv, WalSync PROVE Promise!Show
<1>1. /\ UNCHANGED <<ops, dir, ssts>> /\ memtable' = Apply(memtable, cur)
      /\ acked' = acked \/ acked' = acked \cup {cur}
      /\ cur \in Stamps /\ cur > 0 /\ cur = Len(ops) /\ ops[cur] \in Batches
  BY DEF WalSync, MaybeFlush, Return, IndInv, TypeOK, Phases, cur, Stamps
<1>2. Serving /\ Serving'
  BY DEF WalSync, MaybeFlush, Return, Serving
<1>3. Get(memtable, dir, ssts)' = Promise!Applied
  <2>1. Merge(dir, ssts)' = Merge(dir, ssts)
    BY <1>1 DEF Merge, Holding
  <2>2. ASSUME NEW k \in Keys
        PROVE  Get(memtable, dir, ssts)'[k]
                 = CASE ops[cur][k] = "none" -> Get(memtable, dir, ssts)[k]
                     [] ops[cur][k] = "del"  -> 0
                     [] ops[cur][k] = "put"  -> cur
    <3>1. ops[cur][k] \in {"put", "del", "none"}
      BY <1>1 DEF Batches
    <3>2. Get(memtable, dir, ssts)[k] = IF Top(k) # 0 /\ ops[Top(k)][k] = "del" THEN 0 ELSE Top(k)
      BY GetTop DEF Deletes
    <3>3. Get(memtable, dir, ssts)'[k]
            = IF Top(k)' # 0 /\ ops[Top(k)'][k] = "del" THEN 0 ELSE Top(k)'
      BY <1>1, GetTop DEF Get, DropTombstones, Deletes, Top
    <3>4. Top(k)' = IF ops[cur][k] = "none" THEN Top(k) ELSE cur
      BY <1>1, <2>1 DEF Top, Apply
    <3>5. CASE ops[cur][k] = "none"
      BY <3>2, <3>3, <3>4, <3>5
    <3>6. CASE ops[cur][k] = "del"
      BY <3>3, <3>4, <3>6, <1>1
    <3>7. CASE ops[cur][k] = "put"
      BY <3>3, <3>4, <3>7, <1>1
    <3> QED BY <3>1, <3>5, <3>6, <3>7
  <2>3. Get(memtable, dir, ssts)' = [k \in Keys |-> Get(memtable, dir, ssts)'[k]]
    BY DEF Get, DropTombstones
  <2> QED BY <1>2, <2>2, <2>3 DEF Promise!Applied, Promise!last, cur
<1> QED BY <1>1, <1>2, <1>3 DEF Promise!Show, Promise!last, cur

\* A call that returns Ok after its flush or compaction acknowledges a batch that is
\* promised already.
LEMMA LateAcks ==
    ASSUME IndInv, [Next]_vars, ~WalSync, ~(\E b \in Batches : Write(b))
    PROVE  /\ ops' = ops
           /\ \/ acked' = acked
              \/ acked' = acked \cup {cur} /\ cur \in Promised /\ Serving /\ pc # "sync"
<1>1. CASE SyncTruncate \/ CompactDone
  BY <1>1 DEF SyncTruncate, AfterFlush, CompactDone, Return, Promised, Serving
<1>2. CASE IoError \/ ShortWrite
  BY <1>2 DEF IoError, ShortWrite, Return
<1>3. CASE Flush \/ CompactNow \/ WalAppend \/ WriteTmp \/ SyncTmp \/ Rename \/ Truncate \/ Unlink
           \/ OpenError \/ Kill \/ PowerLoss \/ Open \/ OpenSync \/ UNCHANGED vars
  BY <1>3 DEF Flush, CompactNow, WalAppend, WriteTmp, SyncTmp, Rename, Truncate, Unlink,
              OpenError, Kill, PowerLoss, Open, OpenSync, vars
<1> QED BY <1>1, <1>2, <1>3 DEF Next, EngineStep

\* The promised map already shows a promised batch that is the last one handed in.
LEMMA PromisedIsApplied ==
    ASSUME IndInv, ViewPromised, Serving, cur \in Promised
    PROVE  /\ cur \in Nat /\ cur > 0
           /\ Get(memtable, dir, ssts) = Promise!Applied
<1>1. ops \in Seq(Batches) /\ cur \in Stamps /\ Len(ops) \in Nat
  BY PromisedStamps DEF IndInv, TypeOK
<1>2. ops[cur] \in Batches
  BY <1>1 DEF Stamps
<1>3. PICK S \in SUBSET Stamps : Promised \subseteq S /\ Get(memtable, dir, ssts) = Outcome(S)
  BY DEF ViewPromised, Serving
<1>4. ASSUME NEW k \in Keys
      PROVE  Outcome(S)[k]
               = CASE ops[cur][k] = "none" -> Outcome(S)[k]
                   [] ops[cur][k] = "del"  -> 0
                   [] ops[cur][k] = "put"  -> cur
  <2>1. ops[cur][k] \in {"put", "del", "none"}
    BY <1>2 DEF Batches
  <2>2. CASE ops[cur][k] = "none"
    BY <2>2
  <2>3. CASE ops[cur][k] # "none"
    <3>1. cur \in Wrote(S, k) /\ \A n \in Wrote(S, k) : n <= cur
      BY <1>1, <1>3, <2>3 DEF Wrote, Stamps, cur
    <3>2. LastOf(S, k) = cur
      BY <1>1, <3>1, LastOfIs
    <3>3. Outcome(S)[k] = IF ops[cur][k] = "del" THEN 0 ELSE cur
      BY <3>1, <3>2 DEF Outcome, LastOf, Wrote, Deletes
    <3> QED BY <2>1, <2>3, <3>3
  <2> QED BY <2>2, <2>3
<1>5. Outcome(S) = [k \in Keys |-> Outcome(S)[k]]
  BY DEF Outcome
<1>6. Get(memtable, dir, ssts) = Promise!Applied
  BY <1>3, <1>4, <1>5 DEF Promise!Applied, Promise!last, cur
<1> QED BY <1>1, <1>6 DEF Stamps

\* Every step of the engine is a step of the map or leaves it as it was.
LEMMA RefinesNext ==
    ASSUME IndInv, InHand, StampsKnown, ViewPromised, ViewPromised', [Next]_vars
    PROVE  [Promise!Next]_(Promise!vars)
<1>1. CASE \E b \in Batches : Write(b)
  <2>1. PICK b \in Batches : Write(b)
    BY <1>1
  <2>2. Serving /\ Serving' /\ ops' = Append(ops, b) /\ acked' = acked
    BY <2>1 DEF Write, Serving
  <2>3. Get(memtable, dir, ssts)' = Get(memtable, dir, ssts)
    BY <2>1, WriteSameView
  <2>4. Promise!Submit
    BY <2>2, <2>3 DEF Promise!Submit, Promise!Batches, Batches
  <2> QED BY <2>4 DEF Promise!Next
<1>2. CASE WalSync
  BY <1>2, SyncShows DEF Promise!Next
<1>3. CASE ~WalSync /\ ~(\E b \in Batches : Write(b))
  <2>1. /\ ops' = ops
        /\ \/ acked' = acked
           \/ acked' = acked \cup {cur} /\ cur \in Promised /\ Serving /\ pc # "sync"
    BY <1>3, LateAcks
  <2>2. CASE Serving /\ Serving'
    <3>1. Get(memtable, dir, ssts)' = Get(memtable, dir, ssts)
      <4>1. CASE pc # "sync"
        BY <2>2, <4>1, SameView
      <4>2. CASE pc = "sync"
        <5>1. IoError \/ UNCHANGED vars
          BY <1>3, <2>2, <4>2 DEF Next, EngineStep, Flush, CompactNow, WalAppend, WriteTmp, SyncTmp,
             Rename, Truncate, SyncTruncate, Unlink, CompactDone, OpenSync, ShortWrite, OpenError,
             Kill, PowerLoss, Open, Gone, Serving
        <5>2. UNCHANGED <<ops, memtable, dir, ssts>>
          BY <5>1 DEF IoError, disk, ram, vars
        <5>3. ssts \in SUBSET Ids
          BY DEF IndInv, TypeOK
        <5> QED BY <5>2, <5>3, SameFilesSameView
      <4> QED BY <4>1, <4>2
    <3>2. CASE acked' = acked
      BY <2>1, <2>2, <3>1, <3>2 DEF Promise!vars
    <3>3. CASE acked' # acked
      <4>1. Promise!Ack
        BY <2>1, <2>2, <3>1, <3>3, PromisedIsApplied DEF Promise!Ack, Promise!last, cur
      <4> QED BY <4>1 DEF Promise!Next
    <3> QED BY <3>2, <3>3
  <2>3. CASE Serving /\ ~Serving'
    <3>1. Kill \/ PowerLoss
      BY <1>3, <2>3 DEF Next, EngineStep, Flush, CompactNow, WalAppend, WriteTmp, SyncTmp, Rename,
         Truncate, SyncTruncate, AfterFlush, Return, Unlink, CompactDone, OpenSync, ShortWrite,
         IoError, OpenError, Open, Serving, vars
    <3>2. acked' = acked
      BY <3>1 DEF Kill, PowerLoss
    <3>3. Promise!Down
      BY <2>1, <2>3, <3>2 DEF Promise!Down, Promise!Nothing, Empty
    <3> QED BY <3>3 DEF Promise!Next
  <2>4. CASE ~Serving /\ Serving'
    <3>1. acked' = acked
      BY <2>1, <2>4
    <3>2. PICK S \in SUBSET Stamps' : Promised' \subseteq S /\ Get(memtable, dir, ssts)' = Outcome(S)'
      BY <2>4 DEF ViewPromised, Serving
    <3>3. /\ S \in SUBSET (1 .. Len(ops)) /\ acked \subseteq S
          /\ Get(memtable, dir, ssts)' = Promise!Outcome(S)
      <4>1. Outcome(S)' = Outcome(S)
        BY <2>1 DEF Outcome, Deletes
      <4> QED BY <2>1, <3>1, <3>2, <4>1, SameOutcome DEF Stamps, Promised
    <3>4. Promise!Reopen
      BY <2>1, <2>4, <3>1, <3>3 DEF Promise!Reopen, Promise!last
    <3> QED BY <3>4 DEF Promise!Next
  <2>5. CASE ~Serving /\ ~Serving'
    <3>1. acked' = acked
      BY <2>1, <2>5
    <3>2. Serving' = Serving
      BY <2>5 DEF Serving
    <3> QED BY <2>1, <2>5, <3>1, <3>2 DEF Promise!vars, Empty
  <2> QED BY <2>2, <2>3, <2>4, <2>5
<1> QED BY <1>1, <1>2, <1>3

\* The engine implements the map of DurableMap, step by step: an acknowledged batch is in
\* it for ever, a failed or interrupted one is in it whole or not at all.
THEOREM EngineIsDurableMap == ASSUME Dependable PROVE Spec => IsDurableMap
<1>1. Init => Promise!Init
  BY DEF Init, Promise!Init, Promise!Nothing, Serving, Empty
<1>2. IndInv /\ InHand /\ StampsKnown /\ ViewPromised /\ ViewPromised' /\ [Next]_vars
        => [Promise!Next]_(Promise!vars)
  BY RefinesNext
<1>3. IndInv /\ DurInv => ViewPromised
  BY ViewExplained DEF DurInv
<1> QED BY <1>1, <1>2, <1>3, Invariance, InHandAlways, StampsAlways, DurInvAlways, PTL
        DEF Spec, IsDurableMap, Promise!Spec
===============================================================================
