-------------------------------- MODULE Wire --------------------------------
(***************************************************************************)
(* What every codec of the engine is written with.  A buffer is a sequence *)
(* of words: a field of fixed width is one word, and so is each byte of a  *)
(* key or of a value.  A word carries a number, or the checksum of the     *)
(* words before it, or one word of a sealed text; reading a word that      *)
(* carries no number as one yields a number too large for any buffer.      *)
(* The decoders do the same arithmetic on positions as the code, so a      *)
(* field that lies about a length is met where the code meets it.          *)
(***************************************************************************)
EXTENDS Integers, Sequences, SequencesExt, FiniteSets

Num(n) == [n |-> n]
Nums(s) == [i \in DOMAIN s |-> Num(s[i])]

Unreadable == 9999
Read(word) == IF "n" \in DOMAIN word THEN word.n ELSE Unreadable
Reads(buf, at, n) == [i \in 1..n |-> Read(buf[at + i])]

(* The answers of a decoder, and optional values. *)
Got(v) == [ok |-> TRUE, value |-> v]
Refused(why) == [ok |-> FALSE, why |-> why]
None == <<>>
Some(v) == <<v>>

(* checksum.rs: the checksum identifies the words it is taken over; that   *)
(* two different texts may share one is left out.                          *)
crc32(words) == [crc |-> words]
Checked(words) == Append(words, crc32(words))

(* The checks every decoder makes first and in this order: the length, the *)
(* trailing checksum, the magic and the version.  "" lets it go on.        *)
Opening(buf, lengthOk, magic, version) ==
    IF ~lengthOk THEN "length"
    ELSE IF Last(buf) # crc32(Front(buf)) THEN "checksum"
    ELSE IF Read(buf[1]) # magic THEN "magic"
    ELSE IF Read(buf[2]) # version THEN "version"
    ELSE ""

(* A decoder of counted entries goes through its buffer with a cursor: the *)
(* words consumed, the entries read and the reason it stopped, if any.     *)
Stopped(c, why) == [c EXCEPT !.why = why]
ReadEntry(c, words, entry) == [c EXCEPT !.at = @ + words, !.out = Append(@, entry)]

(* The entries a buffer of "body" words before its checksum declares:      *)
(* count is bounded by what the buffer could hold before the first read,   *)
(* and nothing may be left after the last.                                 *)
Entries(One(_), count, from, end, minLen) ==
    IF count > (end - from) \div minLen THEN Refused("count")
    ELSE LET Step(c, i) == IF c.why # "" THEN c ELSE One(c)
             c == FoldLeft(Step, [at |-> from, out |-> <<>>, why |-> ""], [i \in 1..count |-> i])
         IN IF c.why # "" THEN Refused(c.why)
            ELSE IF c.at # end THEN Refused("trailing")
            ELSE Got(c.out)

(* valid_until is a flag and a number: the number is 0 and is not read     *)
(* when the flag is 0.                                                     *)
Until(v) == IF v = None THEN <<0, 0>> ELSE <<1, v[1]>>
ReadUntil(flag, n) == IF flag = 1 THEN Some(n) ELSE None

(* crypto.rs, seal and open: a sealed text has one word more than the text *)
(* (its tag), and opens only whole, under the key and the associated data  *)
(* it was sealed with.                                                     *)
SealWith(key, aad, nonce, text) ==
    [i \in 1..Len(text) + 1 |-> [ct |-> text, key |-> key, aad |-> aad, nonce |-> nonce, i |-> i]]
OpenWith(key, aad, nonce, ct) ==
    IF /\ ct # <<>>
       /\ "ct" \in DOMAIN ct[1]
       /\ ct = SealWith(key, aad, nonce, ct[1].ct)
    THEN Some(ct[1].ct)
    ELSE None
=============================================================================
