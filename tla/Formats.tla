------------------------------ MODULE Formats -------------------------------
(***************************************************************************)
(* The persisted formats together: what their codecs promise one another,  *)
(* what the reading of a log promises, and format.lock, the list of        *)
(* formats a build is checked against (format/lock.rs).                    *)
(***************************************************************************)
EXTENDS IndexFormats, WalFormat

Sst == INSTANCE SstFormat

CONSTANTS
    CodecSamples,   \* values to encode: a sequence of [codec, value]
    LogSamples,     \* logs: a sequence of [key, appends]
    LockSamples     \* lock files: a sequence of [specs, lock]

(* ------------------------------- codecs -------------------------------- *)
Encode(codec, v) ==
    CASE codec = "SstHeader" -> Got(Sst!EncodeSstHeader(v))
      [] codec = "SstDataBlock" -> Got(Sst!EncodeSstDataBlock(v))
      [] codec = "SstBlockIndex" -> Got(Sst!EncodeSstBlockIndex(v))
      [] codec = "SstBloomFilter" -> Got(Sst!EncodeSstBloomFilter(v))
      [] codec = "SstFooter" -> Got(Sst!EncodeSstFooter(v))
      [] codec = "StoreMeta" -> Got(Sst!EncodeStoreMeta(v))
      [] codec = "CryptoMeta" -> Got(Sst!EncodeCryptoMeta(v))
      [] codec = "MemoryRecord" -> EncodeMemoryRecord(v)
      [] codec = "MemoryVecMap" -> EncodeVecMap(v)
      [] codec = "MemoryIndexMeta" -> EncodeMemoryIndexMeta(v)
      [] codec = "FtsDocTerms" -> EncodeDocTerms(v)
      [] codec = "FtsPosting" -> EncodePosting(v)
      [] codec = "FtsStats" -> EncodeStats(v)
      [] codec = "GraphEntity" -> EncodeEntity(v)
      [] codec = "GraphEdge" -> EncodeEdge(v)
      [] codec = "VectorNode" -> EncodeNode(v)
      [] codec = "VectorIndexMeta" -> EncodeVectorMeta(v)

Decode(codec, buf) ==
    CASE codec = "SstHeader" -> Sst!DecodeSstHeader(buf)
      [] codec = "SstDataBlock" -> Sst!DecodeSstDataBlock(buf)
      [] codec = "SstBlockIndex" -> Sst!DecodeSstBlockIndex(buf)
      [] codec = "SstBloomFilter" -> Sst!DecodeSstBloomFilter(buf)
      [] codec = "SstFooter" -> Sst!DecodeSstFooter(buf)
      [] codec = "StoreMeta" -> Sst!DecodeStoreMeta(buf)
      [] codec = "CryptoMeta" -> Sst!DecodeCryptoMeta(buf)
      [] codec = "MemoryRecord" -> DecodeMemoryRecord(buf)
      [] codec = "MemoryVecMap" -> DecodeVecMap(buf)
      [] codec = "MemoryIndexMeta" -> DecodeMemoryIndexMeta(buf)
      [] codec = "FtsDocTerms" -> DecodeDocTerms(buf)
      [] codec = "FtsPosting" -> DecodePosting(buf)
      [] codec = "FtsStats" -> DecodeStats(buf)
      [] codec = "GraphEntity" -> DecodeEntity(buf)
      [] codec = "GraphEdge" -> DecodeEdge(buf)
      [] codec = "VectorNode" -> DecodeNode(buf)
      [] codec = "VectorIndexMeta" -> DecodeVectorMeta(buf)

(* Numbers written over a word: its neighbours, and the least ones.  In a  *)
(* log also the largest length, which ends past the logs that fit.         *)
Others(word) == {Num(n) : n \in {0, 1, 2, Read(word) + 1, Read(word) - 1} \ {-1}} \ {word}
LogOthers(word) == Others(word) \cup {Num(U32)}

(* The text a checksum covers, and a text under a checksum of its own: a   *)
(* footer has its magic once more behind it.                               *)
Covered(codec, buf) == IF codec = "SstFooter" THEN Front(Front(buf)) ELSE Front(buf)
Resealed(codec, text) ==
    IF codec = "SstFooter" THEN Append(Checked(text), Num(Sst!FOOTER)) ELSE Checked(text)

(* What some decoders read past on purpose: the value of a tombstone, and  *)
(* the numbers an absent valid_until and an absent entry point leave.      *)
Lenient == {"SstDataBlock", "MemoryRecord", "GraphEntity", "GraphEdge", "VectorIndexMeta"}

(* A text under a right checksum is refused or is what some value encodes  *)
(* to; a lenient decoder gives a value that at least reads back.           *)
Reencodes(codec, buf, d, e) ==
    /\ e.ok
    /\ Decode(codec, e.value) = d
    /\ codec \notin Lenient => e.value = buf
    /\ codec \in Lenient => Len(e.value) <= Len(buf)
Canonical(codec, buf) ==
    LET d == Decode(codec, buf) IN d.ok => Reencodes(codec, buf, d, Encode(codec, d.value))

(* What is encoded decodes to itself and nothing else does: a text cut     *)
(* short, a word changed or a word too many is refused, and under a        *)
(* checksum made to match only the text of another value is accepted,      *)
(* whatever its length fields say.  What its length fields cannot hold is  *)
(* refused by every encoder but those that cut the length and say nothing; *)
(* what comes of that is up to the file around it.                         *)
Unchecked == {"SstDataBlock", "SstBlockIndex", "SstBloomFilter", "CryptoMeta"}
Changed(words) ==
    {Append(words, Num(0))} \cup {SubSeq(words, 1, n) : n \in 0..Len(words) - 1}
    \cup UNION {{[words EXCEPT ![i] = w] : w \in Others(words[i])} : i \in DOMAIN words}
EncodedExact(codec, v, fits, e) ==
    /\ e.ok = (fits \/ codec \in Unchecked)
    /\ fits => /\ Decode(codec, e.value) = Got(v)
               /\ \A bad \in Changed(e.value) : ~Decode(codec, bad).ok
               /\ \A text \in Changed(Covered(codec, e.value)) : Canonical(codec, Resealed(codec, text))
CodecExact(codec, v, fits) == EncodedExact(codec, v, fits, Encode(codec, v))

(* --------------------------------- logs -------------------------------- *)
(* An append is one operation or a batch, a sequence of operations.        *)
AppendedWords(key, n, a) ==
    IF a.batch THEN AppendBatch(key, n, a.ops).value
    ELSE Append1(key, n, a.ops[1].op, a.ops[1].key,
                 IF a.ops[1].value = None THEN None ELSE Some(Nums(a.ops[1].value[1])))

Accepted(log) == SelectSeq(log.appends, LAMBDA a : ~a.batch \/ AppendBatch(log.key, 0, a.ops).ok)
Ends(log, n) == Len(FlattenSeq([i \in 1..n |-> AppendedWords(log.key, i, Accepted(log)[i])]))
LogWords(log) == FlattenSeq([i \in DOMAIN Accepted(log) |-> AppendedWords(log.key, i, Accepted(log)[i])])
LogRecords(log, n) == FlattenSeq([i \in 1..n |-> AsRecords(Accepted(log)[i].ops)])

(* The fields of four bytes hold every length of an append.                *)
Holds(a, key) ==
    /\ \A i \in DOMAIN a.ops : Len(a.ops[i].key) <= U32 /\ Len(Payload(a.ops[i].value)) <= U32
    /\ a.batch => Len(EncodeBatch(a.ops)) <= U32
    /\ key # None => Len(AppendedWords(None, 0, a)) + 1 <= U32
Fitting(log) ==
    Max({n \in 0..Len(Accepted(log)) : \A i \in 1..n : Holds(Accepted(log)[i], log.key)})

(* How many appends are whole in the first p words.                        *)
WholeAt(log, p) ==
    CHOOSE n \in 0..Len(Accepted(log)) :
        Ends(log, n) <= p /\ (n = Len(Accepted(log)) \/ Ends(log, n + 1) > p)
ReplaysTo(log, buf, n, fits, r) ==
    /\ fits => r.result.ok
    /\ r.result.ok => r.result = Got(LogRecords(log, n)) /\ r.file = SubSeq(buf, 1, Ends(log, n))
BeginsWith(all, scan) == scan.ok => IsPrefix(scan.value.records, all)

CutsAndChanges(log, buf, all, fit) ==
    /\ \A p \in 0..Len(buf) :
          ReplaysTo(log, buf, WholeAt(log, p), p <= fit, Replay(SubSeq(buf, 1, p), log.key))
    /\ \A i \in DOMAIN buf : \A w \in LogOthers(buf[i]) :
          BeginsWith(all, ScanLog([buf EXCEPT ![i] = w], log.key))
(* A log cut anywhere replays to the operations of the appends that are    *)
(* whole in it, a batch as one, and keeps just those; what was refused for *)
(* its size left no trace.  From an append on whose lengths do not fit     *)
(* their fields, the log may be refused instead, with all that is before   *)
(* and behind it.  A word changed anywhere never yields an operation that  *)
(* was not appended, nor one after a missing one.                          *)
LogReadsBack(log) ==
    CutsAndChanges(log, LogWords(log), LogRecords(log, Len(Accepted(log))), Ends(log, Fitting(log)))

(* ------------------------------ format.lock ---------------------------- *)
(* The specs of a build: [name, version, fields].  A line of the lock has  *)
(* the name, the version and a hash of all three.                          *)
LockLine(s) == [name |-> s.name, version |-> s.version, hash |-> s]

(* Faulty: a line whose format is gone is not looked for.                  *)
VerifyFileKnown(lock, specs) ==
    {[kind |-> "missing", name |-> s.name] :
        s \in {s \in specs : \A i \in DOMAIN lock : lock[i].name # s.name}}
    \cup
    {[kind |-> "diverged", name |-> s.name] :
        s \in {s \in specs : \E i \in DOMAIN lock : lock[i].name = s.name /\ lock[i].hash # s}}

VerifyFile(lock, specs) ==
    {[kind |-> "missing", name |-> s.name] :
        s \in {s \in specs : \A i \in DOMAIN lock : lock[i].name # s.name}}
    \cup
    {[kind |-> "diverged", name |-> s.name] :
        s \in {s \in specs :
                 \E i \in DOMAIN lock :
                    /\ lock[i].name = s.name
                    /\ \A j \in 1..(i - 1) : lock[j].name # s.name
                    /\ lock[i].version # s.version \/ lock[i].hash # s}}
    \cup
    {[kind |-> "stale", name |-> lock[i].name] :
        i \in {i \in DOMAIN lock : \A s \in specs : s.name # lock[i].name}}

(* The lock of a build passes that build and no build with a format more,  *)
(* less or different, whichever way around.                                *)
LockReportsDrift(sample) ==
    LET lock == [i \in DOMAIN sample.lock |-> LockLine(sample.lock[i])]
        locked == {sample.lock[i] : i \in DOMAIN sample.lock}
    IN (VerifyFile(lock, sample.specs) = {}) <=> (locked = sample.specs)
=============================================================================
