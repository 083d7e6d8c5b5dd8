------------------------------ MODULE SstFile -------------------------------
(***************************************************************************)
(* An SST file as bytes (store/sst_block.rs): what write_new puts in it,   *)
(* in the clear or sealed section by section, and what load and the reads  *)
(* of its blocks check before they believe it.                             *)
(***************************************************************************)
EXTENDS SstReads, SstFormat

BITS_PER_KEY == 10
NUM_HASHES == 2         \* seven in the code
MIN_BITS == 64

(* ---------------------------- bloom filter ----------------------------- *)
(* Double hashing; any two hashes of a key will do, the second one odd.    *)
Hash(key, factor) == FoldLeft(LAMBDA h, byte : (h * factor + byte + 1) % 1009, 7, key)
BitOf(key, i, num_bits) == (Hash(key, 31) + i * (2 * Hash(key, 17) + 1)) % num_bits
KeyBits(key, num_bits) == {BitOf(key, i, num_bits) : i \in 0..(NUM_HASHES - 1)}

AtLeast(a, b) == IF a >= b THEN a ELSE b

BloomOver(keys) ==
    LET num_bits == 8 * Bytes(AtLeast(BITS_PER_KEY * Len(keys), MIN_BITS))
        set == UNION {KeyBits(keys[i], num_bits) : i \in DOMAIN keys}
        Byte(j) == FoldLeft(LAMBDA sum, b : sum + (IF 8 * (j - 1) + b \in set THEN 2 ^ b ELSE 0),
                            0, [b \in 1..8 |-> b - 1])
    IN [num_bits |-> num_bits, num_hashes |-> NUM_HASHES, bits |-> [j \in 1..Bytes(num_bits) |-> Byte(j)]]

BloomContains(filter, key) ==
    \A bit \in KeyBits(key, filter.num_bits) : (filter.bits[(bit \div 8) + 1] \div 2 ^ (bit % 8)) % 2 = 1

(* ------------------------------ sections ------------------------------- *)
(* "key" is None for a plaintext store; nonces are fresh in the code and   *)
(* play no part here.                                                      *)
SealSection(key, plain, id, section, no) ==
    IF key = None THEN plain
    ELSE EncodeEncryptedSstBlock(0, SealWith(key, EncryptedSstBlockAad(id, section, no), 0, plain))

OpenSection(key, words, id, section, no) ==
    IF key = None THEN Got(words)
    ELSE LET env == DecodeEncryptedSstBlock(words)
             text == OpenWith(key, EncryptedSstBlockAad(id, section, no), env.value.nonce, env.value.ciphertext)
         IN IF ~env.ok THEN env
            ELSE IF text = None THEN Refused("authentication")
            ELSE Got(text[1])

(* ------------------------------- writing ------------------------------- *)
(* The index, the bloom filter and the footer behind the data blocks, which *)
(* are believed to end at "at".                                            *)
Trailer(id, key, blocks, at, index, bloom) ==
    index \o bloom \o
    SealSection(key, EncodeSstFooter([index_offset |-> at, index_len |-> AsU32(Len(index)),
                                      bloom_offset |-> at + Len(index), bloom_len |-> AsU32(Len(bloom)),
                                      block_count |-> AsU32(Len(blocks))]), id, SectionFooter, 0)

(* Entries one after the other, and the run they make: of two with one key *)
(* the later counts.                                                       *)
InOrder(run) ==
    LET At(i) == CHOOSE k \in DOMAIN run : Cardinality({l \in DOMAIN run : Less(l, k)}) = i - 1
    IN [i \in 1..Cardinality(DOMAIN run) |-> [key |-> At(i), value |-> run[At(i)]]]
Latest(entries) == Overlay([i \in DOMAIN entries |-> [k \in {entries[i].key} |-> entries[i].value]])

Tombstones(entries) == Len(SelectSeq(entries, LAMBDA e : e.value = None))

(* A block's place is counted in the lengths as the index has them.        *)
IndexOver(blocks, sealed) ==
    LET len == [i \in DOMAIN sealed |-> AsU32(Len(sealed[i]))]
        Offset(i) == FoldLeft(LAMBDA at, n : at + n, 7, SubSeq(len, 1, i - 1))
    IN [i \in DOMAIN blocks |->
          [Routing(blocks[i]) EXCEPT !.entry_count = AsU32(@), !.tombstone_count = AsU32(@)]
          @@ [offset |-> Offset(i), len |-> len[i]]]
EndOf(index) == IF index = <<>> THEN 7 ELSE Last(index).offset + Last(index).len

SealedBlocks(id, blocks, key) ==
    [i \in DOMAIN blocks |-> SealSection(key, EncodeSstDataBlock(InOrder(blocks[i])), id, Data, i - 1)]
SealedIndex(id, index, key) == SealSection(key, EncodeSstBlockIndex(index), id, SectionIndex, 0)
SealedBloom(id, entries, key) ==
    SealSection(key, EncodeSstBloomFilter(BloomOver([i \in DOMAIN entries |-> entries[i].key])), id, SectionBloom, 0)

WriteSections(id, entries, key, blocks, sealed) ==
    LET index == IndexOver(blocks, sealed)
    IN FlattenSeq(sealed) \o
       Trailer(id, key, blocks, EndOf(index), SealedIndex(id, index, key), SealedBloom(id, entries, key))

WriteNew(id, entries, block_size, key) ==
    LET blocks == Blocks(Latest(entries), block_size)
    IN EncodeSstHeader([sst_id |-> id, block_size |-> block_size, entry_count |-> Len(entries), dim |-> 0])
       \o WriteSections(id, entries, key, blocks, SealedBlocks(id, blocks, key))

(* ------------------------------- reading ------------------------------- *)
(* read_exact fails past the end of the file.                              *)
ReadSpan(file, offset, len) ==
    IF offset + len > Len(file) THEN Refused("read") ELSE Got(SubSeq(file, offset + 1, offset + len))

SumEntries(index) == FoldLeft(LAMBDA n, e : n + e.entry_count, 0, index)

OpenAt(key, file, offset, len, id, section, no) ==
    LET raw == ReadSpan(file, offset, len)
    IN IF raw.ok THEN OpenSection(key, raw.value, id, section, no) ELSE raw

(* The decoded value of an opened section.                                 *)
Decoded(opened, D(_)) == IF opened.ok THEN D(opened.value) ELSE opened

(* The sections the header and the footer lead to.                         *)
Sections(file, id, key, header, f, i, b) ==
    IF ~i.ok THEN i
    ELSE IF ~b.ok THEN b
    ELSE IF AsU32(Len(i.value)) # f.block_count THEN Refused("block_count")
    ELSE IF SumEntries(i.value) # header.entry_count THEN Refused("entry_count")
    ELSE Got([id |-> id, index |-> i.value, bloom |-> b.value, file |-> file, key |-> key])

Body(file, id, key, header, f) ==
    IF ~f.ok THEN f
    ELSE Sections(file, id, key, header, f.value,
           Decoded(OpenAt(key, file, f.value.index_offset, f.value.index_len, id, SectionIndex, 0),
                   DecodeSstBlockIndex),
           Decoded(OpenAt(key, file, f.value.bloom_offset, f.value.bloom_len, id, SectionBloom, 0),
                   DecodeSstBloomFilter))

Load(file, id, key) ==
    LET header == DecodeSstHeader(SubSeq(file, 1, 7))
        flen == IF key = None THEN 9 ELSE EncryptedSstBlockSealedLen(9)
    IN IF Len(file) < 7 THEN Refused("header length")
       ELSE IF ~header.ok THEN header
       ELSE IF header.value.sst_id # id THEN Refused("sst_id")
       ELSE IF Len(file) < flen THEN Refused("footer length")
       ELSE Body(file, id, key, header.value,
              Decoded(OpenAt(key, file, Len(file) - flen, flen, id, SectionFooter, 0), DecodeSstFooter))

(* A block is what its entry of the index says.                            *)
Verified(d, e) ==
    IF ~d.ok THEN d
    ELSE IF d.value = <<>> THEN Refused("empty block")
    ELSE IF d.value[1].key # e.first_key \/ Last(d.value).key # e.last_key THEN Refused("first/last key")
    ELSE IF Len(d.value) # e.entry_count THEN Refused("entry_count")
    ELSE d

ReadAndVerifyBlock(sst, no) ==
    LET e == sst.index[no]
    IN Verified(Decoded(OpenAt(sst.key, sst.file, e.offset, e.len, sst.id, Data, no - 1), DecodeSstDataBlock), e)

(* A point read: bloom filter, route, one block.                           *)
HitIn(block, key) == IF block.ok THEN Got(Hit(Latest(block.value), key)) ELSE block
SstGet(sst, key) ==
    LET no == Route(sst.index, key)
    IN IF ~BloomContains(sst.bloom, key) \/ no = 0 THEN Got(None) ELSE HitIn(ReadAndVerifyBlock(sst, no), key)

Readable(sst) == \A no \in DOMAIN sst.index : ReadAndVerifyBlock(sst, no).ok
BlocksOf(sst) ==
    [index |-> sst.index, blocks |-> [no \in DOMAIN sst.index |-> Latest(ReadAndVerifyBlock(sst, no).value)]]
SstEntries(sst) == FlattenSeq([no \in DOMAIN sst.index |-> ReadAndVerifyBlock(sst, no).value])

(* ------------------------------ promises ------------------------------- *)
(* The fields of four bytes hold every length a file has.                  *)
SectionsFit(entries, sealed, index, bloom) ==
    /\ \A i \in DOMAIN entries :
          /\ Len(entries[i].key) <= U32
          /\ entries[i].value # None => Len(entries[i].value[1]) <= U32
    /\ \A i \in DOMAIN sealed : Len(sealed[i]) <= U32
    /\ Len(index) <= U32 /\ Len(bloom) <= U32
Fits(entries, block_size, id, key) ==
    LET blocks == Blocks(Latest(entries), block_size)
        sealed == SealedBlocks(id, blocks, key)
    IN SectionsFit(entries, sealed, SealedIndex(id, IndexOver(blocks, sealed), key), SealedBloom(id, entries, key))

InFile(entries, key) == Hit(Latest(entries), key)

(* Every read of a file that was written agrees with the entries it was    *)
(* written with: points, prefixes, ranges and limited ranges, which end at *)
(* a block and say so when they leave blocks of the range unread.          *)
RangesAgree(read, run, keys, limits) ==
    /\ AllEntries(read) = run
    /\ \A p \in keys : EntriesWithPrefix(read, p) = WithPrefix(run, p)
    /\ \A a, z \in keys :
         LET wanted == WithRange(run, a, z)
         IN /\ EntriesWithRange(read, a, z) = wanted
            /\ \A n \in limits :
                 LET r == EntriesWithRangeLimited(read, a, z, n)
                     first == {k \in DOMAIN wanted : \E l \in DOMAIN r.out : AtMost(k, l)}
                 IN /\ r.out = Restrict(wanted, first)
                    /\ r.truncated => Cardinality(first) >= n
                    /\ n > 0 /\ ~r.truncated => r.out = wanted

OpenedAgrees(opened, entries, keys, limits) ==
    /\ opened.ok
    /\ SstEntries(opened.value) = entries
    /\ \A k \in keys : SstGet(opened.value, k) = Got(InFile(entries, k))
    /\ RangesAgree(BlocksOf(opened.value), Latest(entries), keys, limits)

ReadsAgree(entries, block_size, id, key, keys, limits) ==
    OpenedAgrees(Load(WriteNew(id, entries, block_size, key), id, key), entries, keys, limits)

(* A file with one word changed, or one block put where another was, is    *)
(* refused by the reads it bears on or read rightly; under a key so is a   *)
(* block of another file.                                                  *)
ReadsRightly(opened, entries, keys) ==
    opened.ok =>
      /\ Readable(opened.value) => SstEntries(opened.value) = entries
      /\ \A k \in keys : LET r == SstGet(opened.value, k) IN r.ok => r.value = InFile(entries, k)

Tolerates(bad, entries, id, key, keys) == ReadsRightly(Load(bad, id, key), entries, keys)

Honest(entries, block_size, id, key, keys) ==
    Tolerates(WriteNew(id, entries, block_size, key), entries, id, key, keys)

Spliced(file, e, by) ==
    SubSeq(file, 1, e.offset) \o by \o SubSeq(file, e.offset + Len(by) + 1, Len(file))

Damages(file, index, file2, index2, key) ==
    LET Span(f, e) == SubSeq(f, e.offset + 1, e.offset + e.len)
    IN {[file EXCEPT ![i] = Num(Read(@) + 1)] : i \in DOMAIN file}
       \cup {Spliced(file, index[i], Span(file, index[j])) : i, j \in DOMAIN index}
       \cup (IF key = None THEN {}
             ELSE {Spliced(file, index[i], Span(file2, index2[j])) : i \in DOMAIN index, j \in DOMAIN index2})

DamageSeenIn(file, file2, entries, id, key, keys) ==
    \A bad \in Damages(file, Load(file, id, key).value.index, file2, Load(file2, id + 1, key).value.index, key) :
      Tolerates(bad, entries, id, key, keys)

DamageSeen(entries, other, block_size, id, key, keys) ==
    DamageSeenIn(WriteNew(id, entries, block_size, key), WriteNew(id + 1, other, block_size, key),
                 entries, id, key, keys)
=============================================================================
