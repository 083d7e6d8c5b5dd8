----------------------------- MODULE VerifyFiles -----------------------------
(***************************************************************************)
(* The audit of a store's files (store/verify.rs) beside the open that     *)
(* will meet them (store/engine.rs).  An image is a directory: the words   *)
(* of store.meta, crypto.meta and the log, <<>> where the file is not      *)
(* there; its SST files in the order of their ids; and what else lies      *)
(* about.                                                                  *)
(***************************************************************************)
EXTENDS SstFile, TLC

Log == INSTANCE WalFormat WITH MAX_BATCH_OPS <- 2

STORE_FORMAT_VERSION == 2

Issue(kind, file) == {<<kind, file>>}

(* ------------------------------ the files ------------------------------ *)
(* Names the engine does not write, and what a crash leaves: warnings.     *)
Inventory(img) ==
    UNION {CASE s = "tmp" -> Issue("OrphanTmpFile", s)
             [] OTHER -> Issue("UnknownFile", s) : s \in img.strays}

Empty(img) == img.wal = None /\ img.ssts = <<>>

(* load_meta: the data key, under the key of the user.                     *)
LoadMeta(words, user) ==
    LET m == DecodeCryptoMeta(words)
        dek == OpenWith(<<user, m.value.salt>>, WrapAad(m.value), m.value.wrap_nonce, m.value.wrapped_dek)
    IN IF ~m.ok THEN Refused("CryptoMetaCorrupt")
       ELSE IF dek = None THEN Refused("WrongEncryptionKey")
       ELSE IF Len(dek[1]) # 1 THEN Refused("CryptoMetaCorrupt")
       ELSE Got(Some(Read(dek[1][1])))

CreateMetaWords(user, salt, nonce, dek) ==
    LET m == [salt |-> salt, wrap_nonce |-> nonce, wrapped_dek |-> <<>>]
    IN EncodeCryptoMeta([m EXCEPT !.wrapped_dek = SealWith(<<user, salt>>, WrapAad(m), nonce, <<Num(dek)>>)])

(* The key the rest is read with: <<>> for a plaintext store.              *)
Unlocked(img, user) ==
    IF img.crypto = None
    THEN IF user = None THEN Got(None) ELSE Refused("PlaintextStoreKeySupplied")
    ELSE IF user = None THEN Refused("MissingEncryptionKey")
    ELSE LoadMeta(img.crypto[1], user[1])

(* ------------------------------ the open ------------------------------- *)
SstsOf(img, key) == [i \in DOMAIN img.ssts |-> Load(img.ssts[i].file, img.ssts[i].id, key)]

StoreMetaFails(img) ==
    LET meta == DecodeStoreMeta(img.meta[1])
    IN IF img.meta = None THEN ~Empty(img)
       ELSE ~meta.ok \/ meta.value.store_format_version # STORE_FORMAT_VERSION

(* open_inner on a store that is there: the first refusal ends it; the     *)
(* torn tail of the log is cut off.                                        *)
Opened(key, ssts, log) ==
    IF \E i \in DOMAIN ssts : ~ssts[i].ok THEN Refused("sst")
    ELSE IF ~log.result.ok THEN Refused("wal")
    ELSE Got([key |-> key, ssts |-> [i \in DOMAIN ssts |-> ssts[i].value], memtable |-> log.result.value])

OpenUnlocked(img, key) ==
    IF ~key.ok THEN key
    ELSE Opened(key.value, SstsOf(img, key.value),
                Log!Replay(IF img.wal = None THEN <<>> ELSE img.wal[1], key.value))

Open(img, user) ==
    IF StoreMetaFails(img) THEN Refused("store.meta")
    ELSE IF img.crypto = None /\ user # None /\ Empty(img) THEN Got([key |-> None, ssts |-> <<>>, memtable |-> <<>>])
    ELSE OpenUnlocked(img, Unlocked(img, user))

(* The log's records as entries, a delete as a tombstone.                  *)
AsEntries(records) ==
    [i \in DOMAIN records |->
       [key |-> records[i].key,
        value |-> IF records[i].op = Log!DELETE THEN None
                  ELSE Some([j \in DOMAIN records[i].value[1] |-> Read(records[i].value[1][j])])]]

(* get: the memtable, then the files from the newest; the first that has   *)
(* the key answers.  A block that cannot be read fails the read.           *)
Newest(answers) ==
    LET having == {i \in DOMAIN answers : ~answers[i].ok \/ answers[i].value # None}
        newest == CHOOSE i \in having : \A j \in having : j <= i
    IN IF having = {} THEN Got(None)
       ELSE IF ~answers[newest].ok THEN answers[newest]
       ELSE Got(answers[newest].value[1])

Serve(store, key) ==
    LET recent == Latest(AsEntries(store.memtable))
    IN IF key \in DOMAIN recent THEN Got(recent[key])
       ELSE Newest([i \in DOMAIN store.ssts |-> SstGet(store.ssts[i], key)])

(* ------------------------------ the audit ------------------------------ *)
(* check_sst_layout: the spans the index lists follow one another from the *)
(* header on and stay in the file; keys ascend in a block and from one to  *)
(* the next.                                                               *)
SstLayout(sst, file) ==
    LET index == sst.index
        End(i) == IF i = 0 THEN 7 ELSE index[i].offset + index[i].len
    IN UNION {IF index[i].offset # End(i - 1) THEN Issue("SstBlockLayout", file) ELSE {} : i \in DOMAIN index}
       \cup UNION {IF End(i) > Len(sst.file) THEN Issue("SstBlockLayout", file) ELSE {} : i \in DOMAIN index}
       \cup UNION {IF Less(index[i].last_key, index[i].first_key)
                      \/ \E j \in DOMAIN index : j = i - 1 /\ AtMost(index[i].first_key, index[j].last_key)
                   THEN Issue("SstKeyOrder", file) ELSE {} : i \in DOMAIN index}

OutOfOrder(block) == \E i \in 1..Len(block) - 1 : AtMost(block[i + 1].key, block[i].key)

(* (Faulty: the bloom filter is taken as it is.)                           *)
SstBlocksNoBloom(sst, file) ==
    UNION {LET block == ReadAndVerifyBlock(sst, no)
           IN IF ~block.ok THEN Issue("SstDataBlockCorrupt", file)
              ELSE (IF OutOfOrder(block.value) THEN Issue("SstKeyOrder", file) ELSE {})
                   \cup (IF AsU32(Tombstones(block.value)) # sst.index[no].tombstone_count
                         THEN Issue("SstMetadataMismatch", file) ELSE {}) : no \in DOMAIN sst.index}

(* check_sst_blocks: every block is read; it is in order, has the          *)
(* tombstones its index entry says, and none of its keys is missed by the  *)
(* bloom filter.                                                           *)
SstBlocks(sst, file) ==
    UNION {LET block == ReadAndVerifyBlock(sst, no)
           IN IF ~block.ok THEN Issue("SstDataBlockCorrupt", file)
              ELSE (IF OutOfOrder(block.value) THEN Issue("SstKeyOrder", file) ELSE {})
                   \cup (IF AsU32(Tombstones(block.value)) # sst.index[no].tombstone_count
                         THEN Issue("SstMetadataMismatch", file) ELSE {})
                   \cup (IF \E i \in DOMAIN block.value : ~BloomContains(sst.bloom, block.value[i].key)
                         THEN Issue("SstBloomFalseNegative", file) ELSE {}) : no \in DOMAIN sst.index}

(* The merged view: later files over earlier ones, and the log over them.  *)
Merged(ssts, records) ==
    Latest(FlattenSeq([i \in DOMAIN ssts |-> IF ssts[i].ok THEN SstEntries(ssts[i].value) ELSE <<>>])
           \o AsEntries(records))

Report(errors, warnings, view) == Got([errors |-> errors, warnings |-> warnings, view |-> view])

AuditWal(img, key) ==
    IF img.wal = None THEN Got([records |-> <<>>, torn_tail |-> 0]) ELSE Log!ScanLog(img.wal[1], key)

AuditSst(sst, file, mode) ==
    IF ~sst.ok THEN Issue("SstCorrupt", file)
    ELSE SstLayout(sst.value, file) \cup (IF mode = "Quick" THEN {} ELSE SstBlocks(sst.value, file))

(* The part of verify_store after store.meta and crypto.meta.              *)
\* The merged view is only made of files without errors.
Audited(img, mode, wal, ssts, errors) ==
    LET torn == wal.ok /\ wal.value.torn_tail > 0
        skipped == mode = "FullLogical" /\ errors # {}
    IN Report(errors,
              Inventory(img) \cup (IF torn THEN Issue("WalTornTail", "wal.log") ELSE {})
                             \cup (IF skipped THEN Issue("LogicalChecksSkipped", "store") ELSE {}),
              IF mode = "FullLogical" /\ ~skipped THEN Some(Merged(ssts, wal.value.records)) ELSE None)

AuditRead(img, mode, found, wal, ssts) ==
    Audited(img, mode, wal, ssts,
            found \cup (IF wal.ok THEN {} ELSE Issue("WalCorrupt", "wal.log"))
                  \cup UNION {AuditSst(ssts[i], img.ssts[i].id, mode) : i \in DOMAIN ssts})

AuditFiles(img, key, mode, found) == AuditRead(img, mode, found, AuditWal(img, key), SstsOf(img, key))

(* verify_store: a damaged store.meta is an error and the audit goes on;   *)
(* an unknown version or a damaged crypto.meta ends it; a key that does    *)
(* not fit is no report at all.                                            *)
VerifyUnlocked(img, mode, found, key) ==
    IF key.ok THEN AuditFiles(img, key.value, mode, found)
    ELSE IF key.why = "CryptoMetaCorrupt"
    THEN Report(found \cup Issue("CryptoMetaCorrupt", "crypto.meta"), Inventory(img), None)
    ELSE key

VerifyStore(img, user, mode) ==
    LET meta == DecodeStoreMeta(img.meta[1])
        damaged == IF meta.ok THEN {} ELSE Issue("StoreMetaCorrupt", "store.meta")
    IN IF img.meta = None
       THEN Report(IF Empty(img) THEN {} ELSE Issue("StoreFormatUnsupported", "store.meta"), Inventory(img), None)
       ELSE IF meta.ok /\ meta.value.store_format_version # STORE_FORMAT_VERSION
       THEN Report(Issue("StoreFormatUnsupported", "store.meta"), Inventory(img), None)
       ELSE VerifyUnlocked(img, mode, damaged, Unlocked(img, user))

(* ------------------------------ promises ------------------------------- *)
(* What a store was given: SST files of entries, and a log of records.     *)
Sealing(dek) == IF dek = 0 THEN None ELSE Some(dek)
Written(s) ==
    [meta |-> Some(EncodeStoreMeta([store_format_version |-> STORE_FORMAT_VERSION])),
     crypto |-> IF s.dek = 0 THEN None ELSE Some(CreateMetaWords(s.user[1], 5, 6, s.dek)),
     wal |-> Some(FlattenSeq([i \in DOMAIN s.log |->
                Log!Append1(Sealing(s.dek), i, IF s.log[i].value = None THEN Log!DELETE ELSE Log!PUT, s.log[i].key,
                            IF s.log[i].value = None THEN None ELSE Some(Nums(s.log[i].value[1])))])),
     ssts |-> [i \in DOMAIN s.files |-> [id |-> i, file |-> WriteNew(i, s.files[i], s.block_size, Sealing(s.dek))]],
     strays |-> s.strays]

ValueOf(view, k) == IF k \in DOMAIN view THEN view[k] ELSE None
Given(s, n) == Latest(FlattenSeq(s.files) \o SubSeq(s.log, 1, n))

Words(f) == {[f EXCEPT ![i] = Num(Read(@) + 1)] : i \in DOMAIN f}
        \cup {SubSeq(f, 1, n) : n \in 0..Len(f) - 1}
Files1(img, i) == {[img EXCEPT !.ssts[i].file = f] : f \in Words(img.ssts[i].file)}

(* One word changed, one file cut short, or one of the single files lost.  *)
Damaged(img) ==
    {[img EXCEPT !.meta = None], [img EXCEPT !.crypto = None], [img EXCEPT !.wal = None]}
    \cup {[img EXCEPT !.meta = Some(f)] : f \in Words(img.meta[1])}
    \cup {[img EXCEPT !.wal = Some(f)] : f \in Words(img.wal[1])}
    \cup (IF img.crypto = None THEN {} ELSE {[img EXCEPT !.crypto = Some(f)] : f \in Words(img.crypto[1])})
    \cup UNION {Files1(img, i) : i \in DOMAIN img.ssts}

(* An SST file whose sections are each intact and do not fit together: the *)
(* index or the bloom filter of another file, or spans put elsewhere.      *)
Reindexed(file, index, bloom) ==
    LET f == DecodeSstFooter(SubSeq(file, Len(file) - 8, Len(file))).value
        i == EncodeSstBlockIndex(index)
        b == EncodeSstBloomFilter(bloom)
    IN SubSeq(file, 1, f.index_offset) \o i \o b
       \o EncodeSstFooter([f EXCEPT !.index_len = Len(i), !.bloom_offset = f.index_offset + Len(i),
                                    !.bloom_len = Len(b), !.block_count = Len(index)])

Indexes(index) ==
    {index, Reverse(index)}
    \cup {[index EXCEPT ![i].tombstone_count = @ + 1] : i \in DOMAIN index}
    \cup {[index EXCEPT ![i] = index[j]] : i, j \in DOMAIN index}
Misfits(file, sst) == {Reindexed(file, x, b) : x \in Indexes(sst.index), b \in {sst.bloom, BloomOver(<<>>)}}

(* What an audit says of a store can be relied on.  Without errors, even a *)
(* quick one, the store opens.  Without errors, a full one saw what the    *)
(* store will answer, and that is what the store was given, but for the    *)
(* last records of the log.                                                *)
Trusts(quick, full, store, meta, s, keys) ==
    /\ quick.ok => (quick.value.errors = {} => store.ok)
    /\ full.ok /\ full.value.errors = {} /\ meta # None =>
         /\ \A k \in keys : Serve(store.value, k) = Got(ValueOf(full.value.view[1], k))
         /\ \E n \in 0..Len(s.log) : \A k \in keys : ValueOf(full.value.view[1], k) = ValueOf(Given(s, n), k)
Trusted(img, user, s, keys) ==
    Trusts(VerifyStore(img, user, "Quick"), VerifyStore(img, user, "FullLogical"), Open(img, user), img.meta, s, keys)

Misfit(img) ==
    UNION {{[img EXCEPT !.ssts[i].file = f] : f \in Misfits(img.ssts[i].file, Load(img.ssts[i].file, i, None).value)}
             : i \in DOMAIN img.ssts}
Complete(report, s, keys) ==
    report.errors = {} /\ \A k \in keys : ValueOf(report.view[1], k) = ValueOf(Given(s, Len(s.log)), k)
AllTrusted(img, s, keys) ==
    /\ Complete(VerifyStore(img, s.user, "FullLogical").value, s, keys)
    /\ \A bad \in {img} \cup Damaged(img) \cup (IF s.dek # 0 THEN {} ELSE Misfit(img)) :
         Trusted(bad, s.user, s, keys)
AuditTrusted(s, keys) == AllTrusted(Written(s), s, keys)
=============================================================================
