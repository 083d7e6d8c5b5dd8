----------------------------- MODULE SstFormat ------------------------------
(***************************************************************************)
(* The sections of an SST file (format/sst_block.rs), the envelope they    *)
(* are sealed in when the store is encrypted (format/crypto.rs), and the   *)
(* two plain files store.meta and crypto.meta.  No encoder here refuses a  *)
(* length: each is written "as u32".                                       *)
(***************************************************************************)
EXTENDS Wire, Widths

HEADER == 101
BLOCK == 102
INDEX == 103
BLOOM == 104
FOOTER == 105
STORE_META == 106
CRYPTO_META == 107
SST_ENVELOPE == 108

PUT == 1
TOMBSTONE == 2

(* ------------------------------- header -------------------------------- *)
EncodeSstHeader(h) == Checked(Nums(<<HEADER, 2, h.sst_id, h.block_size, h.entry_count, h.dim>>))

DecodeSstHeader(buf) ==
    LET why == Opening(buf, Len(buf) = 7, HEADER, 2)
        f == Reads(buf, 2, 4)
    IN IF why # "" THEN Refused(why)
       ELSE IF f[2] = 0 THEN Refused("block_size")
       ELSE Got([sst_id |-> f[1], block_size |-> f[2], entry_count |-> f[3], dim |-> f[4]])

(* ----------------------------- data block ------------------------------ *)
(* An entry is a key and an optional value; none is a tombstone.           *)
EncodeEntry(e) ==
    LET val == IF e.value = None THEN <<>> ELSE e.value[1]
        op == IF e.value = None THEN TOMBSTONE ELSE PUT
    IN Nums(<<op, AsU32(Len(e.key)), AsU32(Len(val))>> \o e.key \o val)

EncodeSstDataBlock(es) ==
    Checked(Nums(<<BLOCK, 1, AsU32(Len(es))>>) \o FlattenSeq([i \in DOMAIN es |-> EncodeEntry(es[i])]))

(* A tombstone that declares a value is accepted and its value skipped.    *)
DecodeEntry(buf, end, c) ==
    IF c.at + 3 > end THEN Stopped(c, "truncated header")
    ELSE LET op == Read(buf[c.at + 1])
             klen == Read(buf[c.at + 2])
             vlen == Read(buf[c.at + 3])
             key == Reads(buf, c.at + 3, klen)
             val == Reads(buf, c.at + 3 + klen, vlen)
         IN IF op \notin {PUT, TOMBSTONE} THEN Stopped(c, "op")
            ELSE IF c.at + 3 + klen + vlen > end THEN Stopped(c, "truncated body")
            ELSE ReadEntry(c, 3 + klen + vlen,
                           [key |-> key, value |-> IF op = PUT THEN Some(val) ELSE None])

DecodeSstDataBlock(buf) ==
    LET why == Opening(buf, Len(buf) >= 4, BLOCK, 1)
        end == Len(buf) - 1
        One(c) == DecodeEntry(buf, end, c)
    IN IF why # "" THEN Refused(why) ELSE Entries(One, Read(buf[3]), 3, end, 3)

(* ----------------------------- block index ----------------------------- *)
EncodeIndexEntry(e) ==
    Nums(<<AsU32(Len(e.first_key))>> \o e.first_key \o <<AsU32(Len(e.last_key))>> \o e.last_key
         \o <<e.offset, e.len, e.entry_count, e.tombstone_count>>)

EncodeSstBlockIndex(es) ==
    Checked(Nums(<<INDEX, 2, AsU32(Len(es))>>) \o FlattenSeq([i \in DOMAIN es |-> EncodeIndexEntry(es[i])]))

DecodeIndexEntry(buf, end, c) ==
    IF c.at + 1 > end THEN Stopped(c, "first_key_len")
    ELSE LET n1 == Read(buf[c.at + 1])
             p2 == c.at + 1 + n1
         IN IF p2 > end THEN Stopped(c, "first_key")
            ELSE IF p2 + 1 > end THEN Stopped(c, "last_key_len")
            ELSE LET n2 == Read(buf[p2 + 1])
                     p3 == p2 + 1 + n2
                     f == Reads(buf, p3, 4)
                 IN IF p3 > end THEN Stopped(c, "last_key")
                    ELSE IF p3 + 4 > end THEN Stopped(c, "counts")
                    ELSE ReadEntry(c, p3 + 4 - c.at,
                             [first_key |-> Reads(buf, c.at + 1, n1), last_key |-> Reads(buf, p2 + 1, n2),
                              offset |-> f[1], len |-> f[2], entry_count |-> f[3], tombstone_count |-> f[4]])

DecodeSstBlockIndex(buf) ==
    LET why == Opening(buf, Len(buf) >= 4, INDEX, 2)
        end == Len(buf) - 1
        One(c) == DecodeIndexEntry(buf, end, c)
    IN IF why # "" THEN Refused(why) ELSE Entries(One, Read(buf[3]), 3, end, 6)

(* ---------------------------- bloom filter ----------------------------- *)
(* bits is kept as bytes of eight; bits_len is checked against num_bits    *)
(* and against the words that are there.                                   *)
Bytes(bits) == (bits + 7) \div 8

EncodeSstBloomFilter(f) ==
    Checked(Nums(<<BLOOM, 1, f.num_bits, f.num_hashes, AsU32(Len(f.bits))>> \o f.bits))

DecodeSstBloomFilter(buf) ==
    LET why == Opening(buf, Len(buf) >= 6, BLOOM, 1)
        n == Len(buf) - 6
        f == Reads(buf, 2, 3)
    IN IF why # "" THEN Refused(why)
       ELSE IF f[3] # Bytes(f[1]) \/ f[3] # n THEN Refused("bits_len")
       ELSE Got([num_bits |-> f[1], num_hashes |-> f[2], bits |-> Reads(buf, 5, n)])

(* ------------------------------- footer -------------------------------- *)
EncodeSstFooter(f) ==
    Append(Checked(Nums(<<FOOTER, 1, f.index_offset, f.index_len, f.bloom_offset, f.bloom_len, f.block_count>>)),
           Num(FOOTER))

DecodeSstFooter(buf) ==
    LET why == Opening(Front(buf), TRUE, FOOTER, 1)
        f == Reads(buf, 2, 5)
    IN IF Len(buf) # 9 THEN Refused("length")
       ELSE IF Read(Last(buf)) # FOOTER THEN Refused("footer_magic")
       ELSE IF why # "" THEN Refused(why)
       ELSE Got([index_offset |-> f[1], index_len |-> f[2], bloom_offset |-> f[3],
                 bloom_len |-> f[4], block_count |-> f[5]])

(* ---------------------- store.meta and crypto.meta --------------------- *)
(* The version of store.meta is not checked here but by the open.          *)
EncodeStoreMeta(m) == Checked(Nums(<<STORE_META, m.store_format_version>>))

DecodeStoreMeta(buf) ==
    LET why == Opening(buf, Len(buf) = 3, STORE_META, Read(buf[2]))
    IN IF why # "" THEN Refused(why) ELSE Got([store_format_version |-> Read(buf[2])])

EncodeCryptoMeta(m) ==
    Checked(Nums(<<CRYPTO_META, 1, m.salt, m.wrap_nonce, AsU32(Len(m.wrapped_dek))>>) \o m.wrapped_dek)

DecodeCryptoMeta(buf) ==
    LET why == Opening(buf, Len(buf) >= 6, CRYPTO_META, 1)
        n == Len(buf) - 6
    IN IF why # "" THEN Refused(why)
       ELSE IF Read(buf[5]) # n THEN Refused("wrapped_len")
       ELSE Got([salt |-> Read(buf[3]), wrap_nonce |-> Read(buf[4]), wrapped_dek |-> SubSeq(buf, 6, 5 + n)])

(* The salt is authenticated when the data key is unwrapped.               *)
WrapAad(m) == <<CRYPTO_META, 1, m.salt>>

(* -------------------------- sealed sections ---------------------------- *)
Data == "data"
SectionIndex == "index"
SectionBloom == "bloom"
SectionFooter == "footer"

(* Faulty: the file a section belongs to is left out of the seal.          *)
AnyFileAad(id, section, no) == <<SST_ENVELOPE, 1, section, no>>

(* The place a section was written at is authenticated with it.            *)
EncryptedSstBlockAad(id, section, no) == <<SST_ENVELOPE, 1, id, section, no>>

EncodeEncryptedSstBlock(nonce, ct) == Nums(<<SST_ENVELOPE, 1, nonce, AsU32(Len(ct))>>) \o ct
EncryptedSstBlockSealedLen(n) == 4 + n + 1

DecodeEncryptedSstBlock(buf) ==
    IF Len(buf) < 4 THEN Refused("length")
    ELSE IF Read(buf[1]) # SST_ENVELOPE THEN Refused("magic")
    ELSE IF Read(buf[2]) # 1 THEN Refused("version")
    ELSE IF Read(buf[4]) # Len(buf) - 4 THEN Refused("ct_len")
    ELSE Got([nonce |-> Read(buf[3]), ciphertext |-> SubSeq(buf, 5, Len(buf))])
=============================================================================
