----------------------------- MODULE Algorithms -----------------------------
(***************************************************************************)
(* The pure parts of the system, checked against what they promise over    *)
(* bounded inputs.  A behaviour picks one case after another; the          *)
(* properties are about the case at hand.                                  *)
(***************************************************************************)
EXTENDS Formats, KeyCases

CONSTANTS
    FtsNames, MetaNames  \* names the audit's text can be misread by

File == INSTANCE SstFile
Audit == INSTANCE VerifyLogical
Disk == INSTANCE VerifyFiles

CONSTANTS
    SstSamples,     \* files: a sequence of [entries, other, block_size, key]
    SstKeys,        \* the keys they are read at
    SstLimits,      \* the limits of their limited reads
    StoreSamples,   \* stores: a sequence of [kv, others, agents, terms]
    HealthySamples, \* stores as the program leaves them
    ImageSamples,   \* a sequence of [files, log, block_size, dek, user, strays]
    GraphSamples,   \* graphs: a sequence of [writes, nodes, depths, times]
    Forever,
    RecallSamples,  \* a sequence of [store, agent, query, ks, times]
    MAX_TERMS, OVERSAMPLE, RRF_K

Search == INSTANCE GraphSearch
Recall == INSTANCE Retrieval

Idle == [kind |-> "none", i |-> 0]

Init == input = Idle

Pick(kind, samples) ==
    /\ input = Idle
    /\ \E i \in DOMAIN samples : input' = [kind |-> kind, i |-> i]

Done == input # Idle /\ input' = Idle

Next ==
    \/ Pick("codec", CodecSamples)
    \/ Pick("log", LogSamples)
    \/ Pick("lock", LockSamples)
    \/ Pick("sst", SstSamples)
    \/ Pick("store", StoreSamples)
    \/ Pick("healthy", HealthySamples)
    \/ Pick("image", ImageSamples)
    \/ Pick("keys", KeySamples)
    \/ Pick("graph", GraphSamples)
    \/ Pick("recall", RecallSamples)
    \/ Done

Spec == Init /\ [][Next]_input

(* A value that fits is decoded as it was encoded, one that does not is    *)
(* refused by every index codec, and a text no value encodes to is refused *)
(* by all; and format.lock tells every format that was added, dropped or   *)
(* changed (format/).                                                      *)
FormatsKept ==
    /\ input.kind = "codec" =>
          LET s == CodecSamples[input.i] IN CodecExact(s.codec, s.value, s.fits)
    /\ input.kind = "lock" => LockReportsDrift(LockSamples[input.i])

(* The log is read back as it was appended, cut anywhere it is read up to  *)
(* there, and damaged it is refused or read up to the damage; every read   *)
(* of an SST file agrees with the entries it was written with, and a       *)
(* damaged one is refused or read rightly.  With a length its field does   *)
(* not hold, which no writer refuses, a log or a file is at worst refused  *)
(* when it is read: it never reads as other data (store/wal.rs,            *)
(* sst_block.rs).                                                          *)
FilesReadBack ==
    /\ input.kind = "log" => LogReadsBack(LogSamples[input.i])
    /\ input.kind = "sst" =>
          LET s == SstSamples[input.i]
          IN /\ File!Fits(s.entries, s.block_size, 1, s.key) =>
                   /\ File!ReadsAgree(s.entries, s.block_size, 1, s.key, SstKeys, SstLimits)
                   /\ File!DamageSeen(s.entries, s.other, s.block_size, 1, s.key, SstKeys)
             /\ File!Honest(s.entries, s.block_size, 1, s.key, SstKeys)

(* Where the audit of the indexes finds nothing, the searches answer with  *)
(* an agent's own memories, all of them, and the next vector id is new:    *)
(* whichever key was lost or changed (store/verify_logical.rs).            *)
CleanAuditRight ==
    input.kind = "store" =>
        LET s == StoreSamples[input.i] IN Audit!CleanMeansRight(s.kv, s.others, s.agents, s.terms)

(* A repair leaves what cannot be derived as it was, and where it is       *)
(* applied no error but what it asks to embed again and what the plan took *)
(* for the damage of an index by its name (store/repair.rs).               *)
RepairHeals ==
    input.kind = "store" =>
        LET s == StoreSamples[input.i] IN Audit!Repairs(s.kv, s.others, s.agents, s.terms)

(* Without errors in its audit, a store opens and answers with what the    *)
(* audit saw, whatever one damage its files had (store/verify.rs).         *)
AuditTrusted ==
    input.kind = "image" => Disk!AuditTrusted(ImageSamples[input.i], SstKeys)

(* A traversal answers the visible entities within its depth, each at the  *)
(* length of the shortest path of visible edges, however the edges are     *)
(* listed and in whichever order they were written (graph/traverse.rs).    *)
TraversalRight ==
    input.kind = "graph" =>
        LET s == GraphSamples[input.i] IN Search!TraversalRight(s.writes, s.nodes, s.depths, s.times)

(* A recall answers memories of its agent that are valid, of the layers it *)
(* may show: the nearest, those that share a word with the query whatever  *)
(* its case and accents, and of both rankings the best of their fusion     *)
(* (storage/native_store, idx/fts/persistent.rs, retrieval.rs).            *)
RecallsRight ==
    input.kind = "recall" =>
        LET s == RecallSamples[input.i]
        IN \A k \in s.ks, now \in s.times, o \in [procedural : BOOLEAN, exclude_imported : BOOLEAN] :
              Recall!SearchRight(s.store, s.agent, s.query, k, now, o)

(* verify.rs:123: IdxKeyMalformed is "a foreign or corrupted key the       *)
(* engine's own writers never produce": a store as they leave it has none. *)
NoFalseAlarm ==
    input.kind = "healthy" => Audit!CheckLogical(HealthySamples[input.i]).errors = {}
=============================================================================
