----------------------------- MODULE WalFormat ------------------------------
(***************************************************************************)
(* The records of the write-ahead log (format/wal.rs), the envelope one is *)
(* sealed in when the store is encrypted (format/crypto.rs), and the       *)
(* reading of a whole log (store/wal.rs).  A decoder here has three        *)
(* answers: a record and the words it takes, an error, or Torn: the log    *)
(* ends inside the record, which only a crash in an append leaves behind.  *)
(***************************************************************************)
EXTENDS Wire, Widths

CONSTANT MAX_BATCH_OPS
ASSUME BatchAssumption == MAX_BATCH_OPS \in Nat

RECORD == 201
ENVELOPE == 202
PUT == 1
DELETE == 2
BATCH == 3

Torn == [ok |-> TRUE, value |-> None]
Whole(record, words) == Got(Some([record |-> record, words |-> words]))

ValueOf(op, val) == IF op = DELETE THEN None ELSE Some(val)
Payload(value) == IF value = None THEN <<>> ELSE value[1]

(* ------------------------------- batches ------------------------------- *)
(* No encoder here refuses a length: each is written "as u32".             *)
EncodeSubOp(e) == 
    Nums(<<e.op, AsU32(Len(e.key)), AsU32(Len(Payload(e.value)))>> \o e.key \o Payload(e.value))

EncodeBatch(ops) ==
    <<Num(AsU32(Len(ops)))>> \o FlattenSeq([i \in DOMAIN ops |-> EncodeSubOp(ops[i])])

DecodeSubOp(buf, c) ==
    IF Len(buf) < c.at + 3 THEN Stopped(c, "truncated header")
    ELSE LET op == Read(buf[c.at + 1])
             klen == Read(buf[c.at + 2])
             vlen == Read(buf[c.at + 3])
             key == Reads(buf, c.at + 3, klen)
             val == Reads(buf, c.at + 3 + klen, vlen)
         IN IF op \notin {PUT, DELETE} THEN Stopped(c, "op")
            ELSE IF Len(buf) < c.at + 3 + klen + vlen THEN Stopped(c, "truncated body")
            ELSE IF op = DELETE /\ vlen # 0 THEN Stopped(c, "delete with a value")
            ELSE ReadEntry(c, 3 + klen + vlen, [op |-> op, key |-> key, value |-> ValueOf(op, val)])

DecodeBatch(buf) ==
    LET One(c) == DecodeSubOp(buf, c)
        Step(c, i) == IF c.why # "" THEN c ELSE One(c)
        count == Read(buf[1])
        c == FoldLeft(Step, [at |-> 1, out |-> <<>>, why |-> ""], [i \in 1..count |-> i])
    IN IF Len(buf) < 1 THEN Refused("length")
       ELSE IF count > MAX_BATCH_OPS THEN Refused("count")
       ELSE IF c.why # "" THEN Refused(c.why)
       ELSE IF c.at # Len(buf) THEN Refused("trailing")
       ELSE Got(c.out)

(* ------------------------------- records ------------------------------- *)
(* The value of a batch is its encoded operations, so values are words.    *)
EncodeRecord(op, key, value) ==
    Checked(Nums(<<RECORD, 2, op, AsU32(Len(key)), AsU32(Len(Payload(value)))>> \o key) \o Payload(value))

(* The lengths are believed before the checksum is looked at: a record     *)
(* that ends past the end of the log is a torn one whatever it holds.      *)
DecodeRecord(buf) ==
    LET op == Read(buf[3])
        klen == Read(buf[4])
        vlen == Read(buf[5])
        body == 5 + klen + vlen
        key == Reads(buf, 5, klen)
        val == SubSeq(buf, 6 + klen, body)
    IN IF Len(buf) < 5 THEN Torn
       ELSE IF Read(buf[1]) # RECORD THEN Refused("magic")
       ELSE IF Read(buf[2]) # 2 THEN Refused("version")
       ELSE IF op \notin {PUT, DELETE, BATCH} THEN Refused("op")
       ELSE IF Len(buf) < body + 1 THEN Torn
       ELSE IF op = DELETE /\ vlen # 0 THEN Refused("delete with a value")
       ELSE IF op = BATCH /\ klen # 0 THEN Refused("batch with a key")
       ELSE IF buf[body + 1] # crc32(SubSeq(buf, 1, body)) THEN Refused("checksum")
       ELSE Whole([op |-> op, key |-> key, value |-> ValueOf(op, val)], body + 1)

(* ------------------------------ envelopes ------------------------------ *)
WalEnvelopeAad == <<ENVELOPE, 1>>
EncodeWalEnvelope(nonce, ct) == Nums(<<ENVELOPE, 1, nonce, AsU32(Len(ct))>>) \o ct

(* As many words as the magic has are needed to look at it, and the whole  *)
(* header to look at the version.                                          *)
DecodeWalEnvelope(buf) ==
    LET end == 4 + Read(buf[4])
    IN IF Len(buf) < 1 THEN Torn
       ELSE IF Read(buf[1]) # ENVELOPE THEN Refused("magic")
       ELSE IF Len(buf) < 4 THEN Torn
       ELSE IF Read(buf[2]) # 1 THEN Refused("version")
       ELSE IF Len(buf) < end THEN Torn
       ELSE Whole([nonce |-> Read(buf[3]), ciphertext |-> SubSeq(buf, 5, end)], end)

(* ------------------------------- the log ------------------------------- *)
(* "key" is None for a plaintext store.                                    *)
WriteRecord(key, nonce, words) ==
    IF key = None THEN words
    ELSE EncodeWalEnvelope(nonce, SealWith(key, WalEnvelopeAad, nonce, words))

Append1(key, nonce, op, k, value) == WriteRecord(key, nonce, EncodeRecord(op, k, value))

(* A batch above the bound is refused before anything is written.          *)
AppendBatch(key, nonce, ops) ==
    IF Len(ops) > MAX_BATCH_OPS THEN Refused("batch too large")
    ELSE Got(WriteRecord(key, nonce, EncodeRecord(BATCH, <<>>, Some(EncodeBatch(ops)))))

(* Inside an authenticated envelope there is exactly one record: a torn    *)
(* one there is damage.                                                    *)
DecodeNext(buf, key) ==
    IF key = None THEN DecodeRecord(buf)
    ELSE LET env == DecodeWalEnvelope(buf)
             e == env.value[1]
             text == OpenWith(key, WalEnvelopeAad, e.record.nonce, e.record.ciphertext)
             inner == DecodeRecord(text[1])
         IN IF ~env.ok \/ env = Torn THEN env
            ELSE IF text = None THEN Refused("authentication")
            ELSE IF inner.ok /\ inner # Torn /\ inner.value[1].words = Len(text[1])
                 THEN Whole(inner.value[1].record, e.words)
                 ELSE Refused("not one record")

AsRecords(ops) == [i \in DOMAIN ops |-> [op |-> ops[i].op, key |-> ops[i].key,
                     value |-> IF ops[i].value = None THEN None ELSE Some(Nums(ops[i].value[1]))]]

(* scan_readonly: the records of the log up to its end or its torn tail;   *)
(* any other damage refuses the whole log.                                 *)
RECURSIVE ScanFrom(_, _, _)
ScanFrom(buf, key, s) ==
    LET next == DecodeNext(SubSeq(buf, s.at + 1, Len(buf)), key)
        r == next.value[1].record
        batch == DecodeBatch(Payload(r.value))
        records == IF r.op = BATCH THEN AsRecords(batch.value) ELSE <<r>>
    IN IF s.at >= Len(buf) \/ next = Torn
       THEN Got([records |-> s.out, at |-> s.at, torn_tail |-> Len(buf) - s.at])
       ELSE IF ~next.ok THEN next
       ELSE IF r.op = BATCH /\ ~batch.ok THEN batch
       ELSE ScanFrom(buf, key, [at |-> s.at + next.value[1].words, out |-> s.out \o records])
ScanLog(buf, key) == ScanFrom(buf, key, [at |-> 0, out |-> <<>>])

(* Faulty: the torn tail stays in the file the next append extends.        *)
ReplayKeepsTail(buf, key) ==
    LET scan == ScanLog(buf, key)
    IN [result |-> IF scan.ok THEN Got(scan.value.records) ELSE scan, file |-> buf]

(* replay: the same reading, and the torn tail is cut off the file.        *)
Replayed(buf, scan) ==
    IF ~scan.ok THEN [result |-> scan, file |-> buf]
    ELSE [result |-> Got(scan.value.records), file |-> SubSeq(buf, 1, scan.value.at)]
Replay(buf, key) == Replayed(buf, ScanLog(buf, key))
=============================================================================
