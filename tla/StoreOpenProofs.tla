--------------------------- MODULE StoreOpenProofs ---------------------------
(***************************************************************************)
(* Theorems about StoreOpen, for every value of its constants: whatever    *)
(* stops a store from being created, opened, written to or rotated, it     *)
(* opens afterwards and is whole.                                          *)
(***************************************************************************)
EXTENDS StoreOpen, TLAPS

-----------------------------------------------------------------------------
(* The invariant. *)

Things == Names \cup {Datum} \cup {Named(m) : m \in Models} \cup {Memory(m) : m \in Models}
File   == [dek : Nat, has : SUBSET Things]
Meta   == [key : Passphrases \cup {Blank}, dek : Nat]

\* What a file of an image is: not there, or with something of S in it.
Optional(f, S) == f # None => f = Some(f[1]) /\ f[1] \in S

Shape(s, t, c, u, w, f) ==
    [store : {s}, storeTmp : {t}, crypto : {c}, cryptoTmp : {u}, wal : {w}, sst : {f}]

Image(d) ==
    /\ d \in Shape(d.store, d.storeTmp, d.crypto, d.cryptoTmp, d.wal, d.sst)
    /\ Optional(d.wal, File) /\ Optional(d.sst, File)
    /\ Optional(d.crypto, Meta) /\ Optional(d.cryptoTmp, Meta)

\* The data key an image is sealed with.
Dek(d) == IF d.crypto = None THEN 0 ELSE d.crypto[1].dek

\* An image of a store that is not foreign, and that one of the keys O opens.
Sound(d, O) ==
    /\ d.store \in {"none", "ok"}
    /\ d.wal # None => d.store = "ok" /\ d.wal[1].dek = Dek(d)
    /\ d.sst # None => d.wal # None /\ d.sst[1].dek = Dek(d)
    /\ d.crypto # None => d.crypto[1].key \in O \ {Blank} /\ d.crypto[1].dek # 0
    /\ d.crypto = None /\ d.wal # None => NoKey \in O

\* One embedder at most has signed, and only its memories are there.
OneModel(d) ==
    /\ \A m, n \in Models : {Named(m), Named(n)} \subseteq Entries(d) => m = n
    /\ \A m \in Models : Memory(m) \in Entries(d) => Named(m) \in Entries(d)

\* What image d has, its successor e has too; no key changes before there is a log.
Behind(d, e) ==
    /\ d.crypto # None => e.crypto # None /\ d.crypto[1].dek = e.crypto[1].dek
    /\ d.wal # None => e.wal # None
    /\ e.wal = None => d.crypto \in {None, e.crypto}

Images ==
    /\ dir \in disks
    /\ \A d \in disks : /\ Image(d) /\ acked \subseteq Entries(d) /\ OneModel(d)
                        /\ Behind(d, dir)
                        /\ owners # {} => Sound(d, owners)
    /\ owners = {} => disks = {dir} /\ dir.wal # None /\ dir.store # "ok"

\* The keys the process has are those of the directory.
Held ==
    /\ dek = Dek(dir)
    /\ key = IF dir.crypto = None THEN NoKey ELSE dir.crypto[1].key

\* The container is whole, and the embedder has signed.
Whole ==
    /\ dir.wal # None /\ Names \subseteq Entries(dir)
    /\ model # None => Named(model[1]) \in Entries(dir)

StorePhase ==
    /\ pc \in {"store_tmp", "store_sync", "store_rename"} => dir.store = "none"
    /\ pc \in {"store_sync", "store_rename"} => dir.storeTmp = "ok"
    /\ pc \in {"closed", "store", "store_tmp", "store_sync", "store_rename"} \/ dir.store = "ok"
    /\ pc \in {"closed", "store"} \/ owners # {}

Phase ==
    /\ pc \in {"closed", "store", "store_tmp", "store_sync", "store_rename", "crypto",
               "crypto_tmp", "crypto_sync", "crypto_rename", "scan", "container", "contract", "idle"}
    /\ key \in Keys /\ dek \in Nat /\ deks \in Nat
    /\ keyfile \in {None, Some(Blank)} \cup NewKeys
    /\ model \in {None} \cup {Some(m) : m \in Models}
    /\ pc \notin {"crypto_tmp", "crypto_sync", "crypto_rename", "contract", "idle"} => model = None
    /\ pc \in {"closed", "store", "store_tmp", "store_sync", "store_rename", "crypto"} => dek = 0
    /\ pc \in {"crypto_tmp", "crypto_sync", "crypto_rename"} =>
          /\ next \in Passphrases \cap owners /\ dek # 0
          /\ dir.crypto = None => next = key /\ dir.wal = None /\ model = None
          /\ dir.crypto # None => Held /\ Whole
    /\ pc \notin {"crypto_tmp", "crypto_sync", "crypto_rename"} => next = NoKey
    /\ pc \in {"crypto_sync", "crypto_rename"} => dir.cryptoTmp = Some(Wrap(next, dek))
    /\ pc \in {"scan", "container", "contract", "idle"} => Held
    /\ pc = "container" => dir.wal # None
    /\ pc = "contract" => dir.wal # None /\ Names \subseteq Entries(dir) /\ model # None
    /\ pc = "idle" => Whole

OpenInv == Images /\ StorePhase /\ Phase

-----------------------------------------------------------------------------
(* Images. *)

\* What is in an image, and what is in it after a file was written.
LEMMA Fields ==
    ASSUME NEW d, NEW s, NEW t, NEW c, NEW u, NEW w, NEW f, d \in Shape(s, t, c, u, w, f)
    PROVE  /\ d.store = s /\ d.storeTmp = t /\ d.crypto = c /\ d.cryptoTmp = u /\ d.wal = w /\ d.sst = f
           /\ \A x : [d EXCEPT !.storeTmp = x] \in Shape(s, x, c, u, w, f)
           /\ \A x : [d EXCEPT !.cryptoTmp = x] \in Shape(s, t, c, x, w, f)
           /\ \A x : [d EXCEPT !.wal = x] \in Shape(s, t, c, u, x, f)
           /\ \A x, y : [d EXCEPT !.store = x, !.storeTmp = y] \in Shape(x, y, c, u, w, f)
           /\ \A x, y : [d EXCEPT !.crypto = x, !.cryptoTmp = y] \in Shape(s, t, x, y, w, f)
           /\ \A x, y : [d EXCEPT !.sst = x, !.wal = y] \in Shape(s, t, c, u, y, x)
<1> USE DEF Shape
<1>1. d.store = s /\ d.storeTmp = t /\ d.crypto = c /\ d.cryptoTmp = u /\ d.wal = w /\ d.sst = f
  OBVIOUS
<1>2. \A x : [d EXCEPT !.storeTmp = x] \in Shape(s, x, c, u, w, f)
  OBVIOUS
<1>3. \A x : [d EXCEPT !.cryptoTmp = x] \in Shape(s, t, c, x, w, f)
  OBVIOUS
<1>4. \A x : [d EXCEPT !.wal = x] \in Shape(s, t, c, u, x, f)
  OBVIOUS
<1>5. \A x, y : [d EXCEPT !.store = x, !.storeTmp = y] \in Shape(x, y, c, u, w, f)
  OBVIOUS
<1>6. \A x, y : [d EXCEPT !.crypto = x, !.cryptoTmp = y] \in Shape(s, t, x, y, w, f)
  OBVIOUS
<1>7. \A x, y : [d EXCEPT !.sst = x, !.wal = y] \in Shape(s, t, c, u, y, x)
  OBVIOUS
<1> HIDE DEF Shape
<1> QED BY <1>1, <1>2, <1>3, <1>4, <1>5, <1>6, <1>7

\* An image with what is known to be in it.
LEMMA Shaped ==
    ASSUME NEW d, NEW s, NEW t, NEW c, NEW u, NEW w, NEW f, d \in Shape(s, t, c, u, w, f),
           Optional(w, File), Optional(f, File), Optional(c, Meta), Optional(u, Meta)
    PROVE  /\ Image(d)
           /\ d.store = s /\ d.storeTmp = t /\ d.crypto = c /\ d.cryptoTmp = u /\ d.wal = w /\ d.sst = f
<1>1. d.store = s /\ d.storeTmp = t /\ d.crypto = c /\ d.cryptoTmp = u /\ d.wal = w /\ d.sst = f
  BY DEF Shape
<1>2. d \in Shape(d.store, d.storeTmp, d.crypto, d.cryptoTmp, d.wal, d.sst)
  BY <1>1
<1>3. Optional(d.wal, File) /\ Optional(d.sst, File) /\ Optional(d.crypto, Meta) /\ Optional(d.cryptoTmp, Meta)
  BY <1>1
<1> QED BY <1>1, <1>2, <1>3 DEF Image

\* An image and what its files are.
Made(d, s, t, c, u, w, f) ==
    /\ Image(d)
    /\ d.store = s /\ d.storeTmp = t /\ d.crypto = c /\ d.cryptoTmp = u /\ d.wal = w /\ d.sst = f

\* An image after store.meta.tmp was written.
LEMMA StoreTmpWritten ==
    ASSUME NEW d, Image(d), NEW x, NEW e, e = [d EXCEPT !.storeTmp = x]
    PROVE  Made(e, d.store, x, d.crypto, d.cryptoTmp, d.wal, d.sst)
<1>1. /\ d \in Shape(d.store, d.storeTmp, d.crypto, d.cryptoTmp, d.wal, d.sst)
      /\ Optional(d.wal, File) /\ Optional(d.sst, File)
      /\ Optional(d.crypto, Meta) /\ Optional(d.cryptoTmp, Meta)
  BY DEF Image
<1>2. e \in Shape(d.store, x, d.crypto, d.cryptoTmp, d.wal, d.sst)
  BY <1>1, Fields
<1> QED BY <1>1, <1>2, Shaped DEF Made
\* An image after crypto.meta.tmp was written.
LEMMA MetaTmpWritten ==
    ASSUME NEW d, Image(d), NEW x, NEW e, e = [d EXCEPT !.cryptoTmp = x], Optional(x, Meta)
    PROVE  Made(e, d.store, d.storeTmp, d.crypto, x, d.wal, d.sst)
<1>1. /\ d \in Shape(d.store, d.storeTmp, d.crypto, d.cryptoTmp, d.wal, d.sst)
      /\ Optional(d.wal, File) /\ Optional(d.sst, File)
      /\ Optional(d.crypto, Meta) /\ Optional(d.cryptoTmp, Meta)
  BY DEF Image
<1>2. e \in Shape(d.store, d.storeTmp, d.crypto, x, d.wal, d.sst)
  BY <1>1, Fields
<1> QED BY <1>1, <1>2, Shaped DEF Made
\* An image after its log was written.
LEMMA LogWritten ==
    ASSUME NEW d, Image(d), NEW x, NEW e, e = [d EXCEPT !.wal = x], Optional(x, File)
    PROVE  Made(e, d.store, d.storeTmp, d.crypto, d.cryptoTmp, x, d.sst)
<1>1. /\ d \in Shape(d.store, d.storeTmp, d.crypto, d.cryptoTmp, d.wal, d.sst)
      /\ Optional(d.wal, File) /\ Optional(d.sst, File)
      /\ Optional(d.crypto, Meta) /\ Optional(d.cryptoTmp, Meta)
  BY DEF Image
<1>2. e \in Shape(d.store, d.storeTmp, d.crypto, d.cryptoTmp, x, d.sst)
  BY <1>1, Fields
<1> QED BY <1>1, <1>2, Shaped DEF Made
\* An image after store.meta.tmp was renamed.
LEMMA StoreRenamed ==
    ASSUME NEW d, Image(d), NEW x, NEW y, NEW e, e = [d EXCEPT !.store = x, !.storeTmp = y]
    PROVE  Made(e, x, y, d.crypto, d.cryptoTmp, d.wal, d.sst)
<1>1. /\ d \in Shape(d.store, d.storeTmp, d.crypto, d.cryptoTmp, d.wal, d.sst)
      /\ Optional(d.wal, File) /\ Optional(d.sst, File)
      /\ Optional(d.crypto, Meta) /\ Optional(d.cryptoTmp, Meta)
  BY DEF Image
<1>2. e \in Shape(x, y, d.crypto, d.cryptoTmp, d.wal, d.sst)
  BY <1>1, Fields
<1> QED BY <1>1, <1>2, Shaped DEF Made
\* An image after crypto.meta.tmp was renamed.
LEMMA MetaRenamed ==
    ASSUME NEW d, Image(d), NEW x, NEW y, NEW e, e = [d EXCEPT !.crypto = x, !.cryptoTmp = y], Optional(x, Meta), Optional(y, Meta)
    PROVE  Made(e, d.store, d.storeTmp, x, y, d.wal, d.sst)
<1>1. /\ d \in Shape(d.store, d.storeTmp, d.crypto, d.cryptoTmp, d.wal, d.sst)
      /\ Optional(d.wal, File) /\ Optional(d.sst, File)
      /\ Optional(d.crypto, Meta) /\ Optional(d.cryptoTmp, Meta)
  BY DEF Image
<1>2. e \in Shape(d.store, d.storeTmp, x, y, d.wal, d.sst)
  BY <1>1, Fields
<1> QED BY <1>1, <1>2, Shaped DEF Made
\* An image after a flush.
LEMMA TableWritten ==
    ASSUME NEW d, Image(d), NEW x, NEW y, NEW e, e = [d EXCEPT !.sst = x, !.wal = y], Optional(x, File), Optional(y, File)
    PROVE  Made(e, d.store, d.storeTmp, d.crypto, d.cryptoTmp, y, x)
<1>1. /\ d \in Shape(d.store, d.storeTmp, d.crypto, d.cryptoTmp, d.wal, d.sst)
      /\ Optional(d.wal, File) /\ Optional(d.sst, File)
      /\ Optional(d.crypto, Meta) /\ Optional(d.cryptoTmp, Meta)
  BY DEF Image
<1>2. e \in Shape(d.store, d.storeTmp, d.crypto, d.cryptoTmp, y, x)
  BY <1>1, Fields
<1> QED BY <1>1, <1>2, Shaped DEF Made

\* What a store holds depends on its log and its files only, and so does what is said of it.
LEMMA SameData ==
    ASSUME NEW d, NEW e, e.wal = d.wal, e.sst = d.sst
    PROVE  Entries(e) = Entries(d) /\ (OneModel(d) => OneModel(e))
BY DEF Entries, OneModel

\* A file that is there.
LEMMA There ==
    ASSUME NEW h, NEW e
    PROVE  /\ Some([dek |-> e, has |-> h]) # None
           /\ Some([dek |-> e, has |-> h])[1].has = h /\ Some([dek |-> e, has |-> h])[1].dek = e
           /\ Content(Some([dek |-> e, has |-> h])) = h
BY DEF Some, None, Content

-----------------------------------------------------------------------------
(* Steps. *)

\* A step that leaves the directory and the promises alone.
LEMMA Stays ==
    ASSUME Images, UNCHANGED <<dir, disks, acked, owners>>
    PROVE  Images'
BY DEF Images, Sound, Dek, OneModel, Behind, Entries, Content, Image

\* The process ends, or refuses the store.
LEMMA Refused ==
    ASSUME OpenInv, Kept, Refuse
    PROVE  OpenInv'
<1>1. Images'
  BY Stays DEF OpenInv, Kept, Refuse
<1>2. StorePhase'
  BY DEF OpenInv, StorePhase, Refuse, Kept
<1>3. Phase'
  BY DEF OpenInv, Phase, Refuse, Keys
<1> QED BY <1>1, <1>2, <1>3 DEF OpenInv

\* Images that differ in their temporary files only.
LEMMA Alike ==
    ASSUME NEW d, NEW e, e.store = d.store, e.crypto = d.crypto, e.wal = d.wal, e.sst = d.sst
    PROVE  /\ Entries(e) = Entries(d) /\ Dek(e) = Dek(d)
           /\ OneModel(d) => OneModel(e)
           /\ \A O : Sound(d, O) => Sound(e, O)
           /\ \A x : /\ Behind(x, d) => Behind(x, e)
                     /\ Behind(d, x) => Behind(e, x)
<1>1. Entries(e) = Entries(d) /\ (OneModel(d) => OneModel(e))
  BY SameData
<1>2. Dek(e) = Dek(d)
  BY DEF Dek
<1>3. \A O : Sound(d, O) => Sound(e, O)
  BY <1>2 DEF Sound
<1>4. \A x : /\ Behind(x, d) => Behind(x, e)
             /\ Behind(d, x) => Behind(e, x)
  BY DEF Behind
<1> QED BY <1>1, <1>2, <1>3, <1>4

\* An image d among those of a store that is now e.
Fits(d, e, O, A) ==
    /\ Image(d) /\ A \subseteq Entries(d) /\ OneModel(d) /\ Behind(d, e)
    /\ O # {} => Sound(d, O)

\* What Images says of them.
LEMMA AllFit ==
    /\ Images => dir \in disks /\ \A d \in disks : Fits(d, dir, owners, acked)
    /\ dir \in disks /\ (\A d \in disks : Fits(d, dir, owners, acked)) /\ owners # {} => Images
BY DEF Fits, Images

\* A change that may or may not reach the disk.
LEMMA Grown ==
    ASSUME Images, owners' # {}, NEW e, disks' \subseteq disks \cup {dir', e}, dir' \in disks',
           Fits(dir', dir', owners', acked'), Fits(e, dir', owners', acked'),
           \A d \in disks : Fits(d, dir, owners, acked) => Fits(d, dir', owners', acked')
    PROVE  Images'
<1>1. \A d \in disks' : Fits(d, dir', owners', acked')
  BY AllFit
<1>2. (\A d \in disks' : Fits(d, dir', owners', acked')) /\ dir' \in disks' /\ owners' # {} => Images'
  BY DEF Fits, Images
<1> QED BY <1>1, <1>2

\* A change that has reached the disk.
LEMMA Alone ==
    ASSUME disks' = {dir'}, Image(dir'), acked' \subseteq Entries(dir'), OneModel(dir'),
           owners' # {} => Sound(dir', owners'),
           owners' = {} => dir'.wal # None /\ dir'.store # "ok"
    PROVE  Images'
<1>1. Behind(dir', dir')
  BY DEF Behind
<1> QED BY <1>1 DEF Images

\* A sync of the directory as the process sees it.
LEMMA Synced ==
    ASSUME Images, Sync, acked' = acked, owners' # {} => Sound(dir, owners'), owners' = {} => owners = {}
    PROVE  Images'
<1>1. dir' = dir /\ disks' = {dir'}
  BY DEF Sync
<1>2. /\ Image(dir) /\ acked \subseteq Entries(dir) /\ OneModel(dir)
      /\ owners = {} => dir.wal # None /\ dir.store # "ok"
  BY DEF Images
<1> QED BY <1>1, <1>2, Alone

\* A temporary file is written, or a part of it.
LEMMA Scratched ==
    ASSUME Images, owners # {}, owners' = owners, acked' = acked,
           NEW e, disks' = disks \cup {dir', e}, Image(dir'), Image(e),
           dir'.store = dir.store, dir'.crypto = dir.crypto, dir'.wal = dir.wal, dir'.sst = dir.sst,
           e.store = dir.store, e.crypto = dir.crypto, e.wal = dir.wal, e.sst = dir.sst
    PROVE  Images'
<1>1. Fits(dir, dir, owners, acked)
  BY AllFit
<1>2. \A x : Fits(x, dir, owners, acked) => Fits(x, dir', owners, acked)
  BY Alike DEF Fits
<1>3. Fits(dir', dir', owners, acked)
  BY <1>1, Alike DEF Fits
<1>4. Fits(e, dir', owners, acked)
  BY <1>1, <1>2, Alike DEF Fits
<1>5. disks' \subseteq disks \cup {dir', e} /\ dir' \in disks'
  OBVIOUS
<1> QED BY <1>2, <1>3, <1>4, <1>5, Grown

-----------------------------------------------------------------------------
(* Opening. *)

\* The steps before crypto.meta.
LEMMA CheckStoreMetaStep == ASSUME OpenInv, CheckStoreMeta PROVE OpenInv'
<1>1. pc = "store" /\ Kept
  BY DEF CheckStoreMeta
<1>2. CASE dir.store = "ok" /\ Goto("crypto")
  <2>1. owners # {}
    BY <1>2 DEF OpenInv, Images
  <2>2. Images'
    BY <1>1, <1>2, Stays DEF OpenInv, Goto, Kept
  <2>3. StorePhase'
    BY <1>1, <1>2, <2>1 DEF StorePhase, Goto, Kept
  <2>4. Phase'
    BY <1>1, <1>2 DEF OpenInv, Phase, Goto, Kept
  <2> QED BY <2>2, <2>3, <2>4 DEF OpenInv
<1>3. CASE dir.store = "none" /\ ~Holds(dir) /\ Goto("store_tmp")
  <2>1. owners # {}
    BY <1>3 DEF OpenInv, Images, Holds
  <2>2. Images'
    BY <1>1, <1>3, Stays DEF OpenInv, Goto, Kept
  <2>3. StorePhase'
    BY <1>1, <1>3, <2>1 DEF StorePhase, Goto, Kept
  <2>4. Phase'
    BY <1>1, <1>3 DEF OpenInv, Phase, Goto, Kept
  <2> QED BY <2>2, <2>3, <2>4 DEF OpenInv
<1>4. CASE Refuse
  BY <1>1, <1>4, Refused
<1> QED BY <1>2, <1>3, <1>4 DEF CheckStoreMeta

\* tmp, fsync and rename of store.meta.
LEMMA WriteStoreTmpStep == ASSUME OpenInv, WriteStoreTmp PROVE OpenInv'
<1>1. /\ pc = "store_tmp" /\ Goto("store_sync") /\ owners # {} /\ Images
  BY DEF WriteStoreTmp, OpenInv, StorePhase
<1>2. PICK e : e = [dir EXCEPT !.storeTmp = Torn] /\ disks' = disks \cup {dir', e}
  BY DEF WriteStoreTmp
<1>3. Image(dir)
  BY <1>1 DEF Images
<1>4. Made(dir', dir.store, "ok", dir.crypto, dir.cryptoTmp, dir.wal, dir.sst)
  <2>1. dir' = [dir EXCEPT !.storeTmp = "ok"]
    BY DEF WriteStoreTmp
  <2> QED BY ONLY <2>1, <1>3, StoreTmpWritten, Zenon
<1>5. Made(e, dir.store, Torn, dir.crypto, dir.cryptoTmp, dir.wal, dir.sst)
  BY ONLY <1>2, <1>3, StoreTmpWritten, Zenon
<1>6. acked' = acked /\ owners' = owners
  BY <1>1 DEF Goto
<1>7. Images'
  BY <1>1, <1>2, <1>4, <1>5, <1>6, Scratched DEF Made
<1>8. StorePhase'
  BY <1>1, <1>4 DEF OpenInv, StorePhase, Goto, Made
<1>9. Phase'
  <2>1. pc' = "store_sync" /\ UNCHANGED <<key, next, dek, model, deks, keyfile, acked, owners>>
    BY <1>1 DEF Goto
  <2> QED BY <1>1, <2>1 DEF OpenInv, Phase
<1> QED BY <1>7, <1>8, <1>9 DEF OpenInv

\* The fsync of store.meta.tmp leaves one image.
LEMMA SyncStoreTmpStep == ASSUME OpenInv, SyncStoreTmp PROVE OpenInv'
<1>1. pc = "store_sync" /\ Goto("store_rename") /\ Sync /\ dir' = dir /\ owners # {}
  BY DEF SyncStoreTmp, Sync, OpenInv, StorePhase
<1>2. Images'
  BY <1>1, Synced DEF OpenInv, Images, Goto
<1>3. StorePhase'
  BY <1>1 DEF OpenInv, StorePhase, Goto
<1>4. Phase'
  BY <1>1 DEF OpenInv, Phase, Goto
<1> QED BY <1>2, <1>3, <1>4 DEF OpenInv

\* The rename of store.meta.tmp, which the disk may not have yet.
LEMMA RenameStoreStep == ASSUME OpenInv, RenameStore PROVE OpenInv'
<1>1. /\ pc = "store_rename" /\ Goto("crypto") /\ owners # {} /\ Images
      /\ dir.storeTmp = "ok" /\ disks' = disks \cup {dir'}
      /\ dir' = [dir EXCEPT !.store = "ok", !.storeTmp = "none"]
  BY DEF RenameStore, OpenInv, StorePhase, Change
<1>2. Fits(dir, dir, owners, acked) /\ Image(dir)
  BY <1>1, AllFit DEF Fits
<1>3. Made(dir', "ok", "none", dir.crypto, dir.cryptoTmp, dir.wal, dir.sst)
  BY ONLY <1>1, <1>2, StoreRenamed, Zenon
<1>4. /\ dir'.store = "ok" /\ dir'.crypto = dir.crypto /\ dir'.wal = dir.wal /\ dir'.sst = dir.sst
       /\ Image(dir')
  BY <1>3 DEF Made
<1>5. acked' = acked /\ owners' = owners
  BY <1>1 DEF Goto
<1>6. \A d : Fits(d, dir, owners, acked) => Fits(d, dir', owners, acked)
  BY <1>4 DEF Fits, Behind
<1>7. Entries(dir') = Entries(dir) /\ (OneModel(dir) => OneModel(dir'))
  BY <1>4, SameData
<1>8. Sound(dir, owners) => Sound(dir', owners)
  BY <1>4 DEF Sound, Dek
<1>9. Fits(dir', dir', owners, acked)
  BY <1>1, <1>2, <1>4, <1>7, <1>8 DEF Fits, Behind
<1>10. Images'
  BY <1>1, <1>5, <1>6, <1>9, Grown
<1>11. StorePhase'
  BY <1>1, <1>4, <1>5 DEF StorePhase, Goto
<1>12. Phase'
  BY <1>1 DEF OpenInv, Phase, Goto
<1> QED BY <1>10, <1>11, <1>12 DEF OpenInv

\* A sealed store is opened with its key.
LEMMA OpenMetaStep == ASSUME OpenInv, OpenMeta PROVE OpenInv'
<1>1. pc = "crypto" /\ dir.crypto # None /\ Kept /\ Images /\ StorePhase /\ Phase
  BY DEF OpenMeta, OpenInv
<1>2. CASE /\ dir.crypto[1].key = key
           /\ dek' = dir.crypto[1].dek /\ pc' = "scan"
           /\ UNCHANGED <<key, next, model, deks, keyfile, acked, owners>>
  <2>1. Images'
    BY <1>1, <1>2, Stays DEF Kept
  <2>2. StorePhase'
    BY <1>1, <1>2 DEF StorePhase, Kept
  <2>3. dir.crypto[1].dek \in Nat
    BY <1>1 DEF Images, Image, Optional, Meta
  <2>4. Held'
    BY <1>1, <1>2 DEF Held, Dek, Kept
  <2>5. Phase'
    BY <1>1, <1>2, <2>3, <2>4 DEF Phase, Kept
  <2> QED BY <2>1, <2>2, <2>5 DEF OpenInv
<1>3. CASE Refuse
  BY <1>1, <1>3, Refused
<1> QED BY <1>2, <1>3 DEF OpenMeta

\* A plain store is opened without a key.
LEMMA OpenPlainStep == ASSUME OpenInv, OpenPlain PROVE OpenInv'
<1>1. /\ pc = "crypto" /\ key = NoKey /\ dir.crypto = None /\ Kept /\ Goto("scan")
      /\ Images /\ StorePhase /\ Phase
  BY DEF OpenPlain, OpenInv
<1>2. Images'
  BY <1>1, Stays DEF Kept, Goto
<1>3. StorePhase'
  BY <1>1 DEF StorePhase, Kept, Goto
<1>4. Held'
  BY <1>1 DEF Held, Dek, Kept, Goto, Phase
<1>5. Phase'
  BY <1>1, <1>4 DEF Phase, Kept, Goto
<1> QED BY <1>2, <1>3, <1>5 DEF OpenInv

\* Where there is no log no image has anything, and no other crypto.meta.
LEMMA NothingYet ==
    ASSUME Images, owners # {}, dir.wal = None, NEW d \in disks
    PROVE  d.wal = None /\ d.sst = None /\ d.crypto \in {None, dir.crypto} /\ acked = {}
BY DEF Images, Behind, Sound, Entries, Content

\* A new data key, for the key the process was given: nothing is promised to another.
LEMMA CreateMetaStep == ASSUME OpenInv, CreateMeta PROVE OpenInv'
<1>1. /\ pc = "crypto" /\ key # NoKey /\ dir.crypto = None /\ dir.wal = None
      /\ owners # {} /\ dir' = dir /\ disks' = disks
      /\ Images /\ StorePhase /\ Phase
  BY DEF CreateMeta, OpenInv, Holds, Kept, StorePhase
<1>2. /\ deks' = deks + 1 /\ dek' = deks + 1 /\ next' = key /\ pc' = "crypto_tmp" /\ owners' = {key}
      /\ UNCHANGED <<key, model, keyfile, acked>>
  BY DEF CreateMeta, NewDek
<1>3. \A d \in disks : Sound(d, {key})
  BY <1>1, NothingYet DEF Sound, Images
<1>4. Images'
  <2>1. \A d \in disks : Image(d) /\ acked \subseteq Entries(d) /\ OneModel(d) /\ Behind(d, dir)
    BY <1>1 DEF Images
  <2>2. \A d \in disks : Fits(d, dir', owners', acked')
    BY <1>1, <1>2, <1>3, <2>1 DEF Fits
  <2>3. dir' \in disks'
    BY <1>1 DEF Images
  <2> QED BY <1>1, <1>2, <2>2, <2>3 DEF Fits, Images
<1>5. StorePhase'
  BY <1>1, <1>2 DEF StorePhase
<1>6. key \in Passphrases /\ deks \in Nat
  BY <1>1 DEF Phase, Keys
<1>7. Phase'
  BY <1>1, <1>2, <1>6 DEF Phase
<1> QED BY <1>4, <1>5, <1>7 DEF OpenInv

\* A crypto.meta, whole or torn.
LEMMA Wrapped ==
    ASSUME NEW k \in Passphrases \cup {Blank}, NEW e \in Nat
    PROVE  /\ Some(Wrap(k, e)) # None /\ Optional(Some(Wrap(k, e)), Meta)
           /\ Some(Wrap(k, e))[1].key = k /\ Some(Wrap(k, e))[1].dek = e
<1>1. Wrap(k, e) \in Meta /\ Wrap(k, e).key = k /\ Wrap(k, e).dek = e
  BY DEF Wrap, Meta
<1>2. Some(Wrap(k, e)) # None /\ Some(Wrap(k, e))[1] = Wrap(k, e)
  BY DEF Some, None
<1> QED BY <1>1, <1>2 DEF Optional

\* tmp, fsync and rename of crypto.meta: the data key stays, its wrapping changes.
LEMMA WriteMetaTmpStep == ASSUME OpenInv, WriteMetaTmp PROVE OpenInv'
<1>1. /\ pc = "crypto_tmp" /\ Goto("crypto_sync") /\ owners # {} /\ Images /\ StorePhase /\ Phase
      /\ next \in Passphrases /\ dek \in Nat
  BY DEF WriteMetaTmp, OpenInv, StorePhase, Phase
<1>2. PICK e : e = [dir EXCEPT !.cryptoTmp = Some(TornWrap)] /\ disks' = disks \cup {dir', e}
  BY DEF WriteMetaTmp
<1>3. Image(dir)
  BY <1>1 DEF Images
<1>4. Optional(Some(Wrap(next, dek)), Meta) /\ Optional(Some(TornWrap), Meta)
  BY <1>1, Wrapped DEF TornWrap
<1>5. Made(dir', dir.store, dir.storeTmp, dir.crypto, Some(Wrap(next, dek)), dir.wal, dir.sst)
  <2>1. dir' = [dir EXCEPT !.cryptoTmp = Some(Wrap(next, dek))]
    BY DEF WriteMetaTmp
  <2> QED BY ONLY <2>1, <1>3, <1>4, MetaTmpWritten, Zenon
<1>6. Made(e, dir.store, dir.storeTmp, dir.crypto, Some(TornWrap), dir.wal, dir.sst)
  BY ONLY <1>2, <1>3, <1>4, MetaTmpWritten, Zenon
<1>7. /\ dir'.store = dir.store /\ dir'.crypto = dir.crypto /\ dir'.wal = dir.wal /\ dir'.sst = dir.sst
      /\ dir'.cryptoTmp = Some(Wrap(next, dek))
      /\ pc' = "crypto_sync" /\ UNCHANGED <<key, next, dek, model, deks, keyfile, acked, owners>>
  BY <1>1, <1>5 DEF Goto, Made
<1>8. Images'
  BY <1>1, <1>2, <1>5, <1>6, <1>7, Scratched DEF Made
<1>9. StorePhase'
  BY <1>1, <1>7 DEF StorePhase
<1>10. Held => Held'
  BY <1>7 DEF Held, Dek
<1>11. Whole => Whole'
  BY <1>7, SameData DEF Whole
<1>12. Phase'
  BY <1>1, <1>7, <1>10, <1>11 DEF Phase
<1> QED BY <1>8, <1>9, <1>12 DEF OpenInv

\* The key of a sealed store that is open is a user's.
LEMMA Users ==
    ASSUME Images, owners # {}, dir.crypto # None
    PROVE  dir.crypto[1].key \in Passphrases
BY DEF Images, Sound, Image, Optional, Meta

\* The fsync of crypto.meta.tmp: from here the old key or the new one opens the store.
LEMMA SyncMetaTmpStep == ASSUME OpenInv, SyncMetaTmp PROVE OpenInv'
<1>1. /\ pc = "crypto_sync" /\ pc' = "crypto_rename" /\ Sync /\ dir' = dir
      /\ owners' = Owners /\ UNCHANGED <<key, next, dek, model, deks, keyfile, acked>>
      /\ owners # {} /\ Images /\ StorePhase /\ Phase
  BY DEF SyncMetaTmp, OpenInv, StorePhase, Sync
<1>2. /\ next \in Passphrases /\ (dir.crypto = None => next = key /\ dir.wal = None)
      /\ (dir.crypto # None => Held)
  BY <1>1 DEF Phase
<1>3. key \in Passphrases
  BY <1>1, <1>2, Users DEF Held
<1>4. owners' = {key, next}
  BY <1>1, <1>2, <1>3, StoreAssumption DEF Owners
<1>5. Sound(dir, owners)
  BY <1>1 DEF Images
<1>6. Sound(dir, owners')
  BY <1>2, <1>3, <1>4, <1>5, StoreAssumption DEF Sound, Held
<1>7. Images'
  BY <1>1, <1>4, <1>6, Synced
<1>8. StorePhase'
  BY <1>1, <1>4 DEF StorePhase
<1>9. (Held => Held') /\ (Whole => Whole')
  BY <1>1 DEF Held, Whole, Dek, Entries
<1>10. Phase'
  BY <1>1, <1>4, <1>9 DEF Phase
<1> QED BY <1>7, <1>8, <1>10 DEF OpenInv

\* The rename of crypto.meta.tmp: the data key under the new key.
LEMMA RenameMetaStep == ASSUME OpenInv, RenameMeta PROVE OpenInv'
<1>1. /\ pc = "crypto_rename" /\ dir.cryptoTmp = Some(Wrap(next, dek))
      /\ disks' = disks \cup {dir'}
      /\ dir' = [dir EXCEPT !.crypto = Some(Wrap(next, dek)), !.cryptoTmp = None]
      /\ pc' = IF dir.crypto = None THEN "scan" ELSE "idle"
      /\ key' = next /\ next' = NoKey
      /\ UNCHANGED <<dek, model, deks, keyfile, acked, owners>>
      /\ Images /\ StorePhase /\ Phase /\ owners # {}
  BY DEF RenameMeta, OpenInv, Change, Phase, StorePhase
<1>2. /\ next \in Passphrases \cap owners /\ dek \in Nat /\ dek # 0
      /\ dir.crypto = None => dir.wal = None /\ model = None
      /\ dir.crypto # None => Held /\ Whole
  BY <1>1 DEF Phase
<1>3. Optional(Some(Wrap(next, dek)), Meta) /\ Optional(None, Meta)
  BY <1>2, Wrapped DEF Optional
<1>4. Fits(dir, dir, owners, acked) /\ Image(dir)
  BY <1>1, AllFit DEF Fits
<1>5. Made(dir', dir.store, dir.storeTmp, Some(Wrap(next, dek)), None, dir.wal, dir.sst)
  BY ONLY <1>1, <1>3, <1>4, MetaRenamed, Zenon
<1>6. /\ dir'.store = dir.store /\ dir'.wal = dir.wal /\ dir'.sst = dir.sst /\ Image(dir')
      /\ dir'.crypto # None /\ dir'.crypto[1].key = next /\ dir'.crypto[1].dek = dek
      /\ Dek(dir') = dek
  BY <1>2, <1>5, Wrapped DEF Made, Dek
<1>7. dir.wal # None => dir.crypto # None /\ Dek(dir) = dek
  BY <1>2 DEF Held
<1>8. Entries(dir') = Entries(dir) /\ (OneModel(dir) => OneModel(dir'))
  BY <1>6, SameData
<1>9. Sound(dir', owners)
  <2>1. Sound(dir, owners)
    BY <1>1, <1>4 DEF Fits
  <2>2. next # Blank
    BY <1>2, StoreAssumption
  <2> QED BY <1>2, <1>6, <1>7, <2>1, <2>2 DEF Sound
<1>10. Fits(dir', dir', owners, acked)
  BY <1>4, <1>6, <1>8, <1>9 DEF Fits, Behind
<1>11. ASSUME NEW d \in disks, Fits(d, dir, owners, acked)
       PROVE  Fits(d, dir', owners, acked)
  <2>1. dir.crypto # None => dir.wal # None /\ dir.crypto[1].dek = dek
    BY <1>2 DEF Held, Whole, Dek
  <2>2. Behind(d, dir')
    BY <1>6, <1>11, <2>1 DEF Fits, Behind
  <2> QED BY <1>11, <2>2 DEF Fits
<1>12. Images'
  BY <1>1, <1>10, <1>11, Grown
<1>13. StorePhase'
  BY <1>1, <1>6 DEF StorePhase
<1>14. Held'
  BY <1>1, <1>6 DEF Held
<1>15. Whole => Whole'
  BY <1>1, <1>6, <1>8 DEF Whole
<1>16. Phase'
  <2>1. CASE dir.crypto = None
    BY <1>1, <1>2, <1>14, <2>1 DEF Phase, Keys
  <2>2. CASE dir.crypto # None
    BY <1>1, <1>2, <1>14, <1>15, <2>2 DEF Phase, Keys
  <2> QED BY <2>1, <2>2
<1> QED BY <1>12, <1>13, <1>16 DEF OpenInv

\* The log is created only where no image has one.
LEMMA ScanStep == ASSUME OpenInv, Scan PROVE OpenInv'
<1>1. pc = "scan" /\ owners # {} /\ Held /\ dir.store = "ok" /\ Images /\ StorePhase /\ Phase
  BY DEF Scan, OpenInv, StorePhase, Phase
<1>2. CASE Kept /\ Refuse
  BY <1>2, Refused
<1>3. CASE dir.wal # None /\ Kept /\ Goto("container")
  <2>1. Images'
    BY <1>1, <1>3, Stays DEF Kept, Goto
  <2>2. StorePhase'
    BY <1>1, <1>3 DEF StorePhase, Kept, Goto
  <2>3. Phase'
    BY <1>1, <1>3 DEF Phase, Held, Kept, Goto
  <2> QED BY <2>1, <2>2, <2>3 DEF OpenInv
<1>4. CASE /\ dir.wal = None /\ Change([dir EXCEPT !.wal = Some([dek |-> dek, has |-> {}])])
           /\ pc' = "container" /\ owners' = IF dir.sst = None THEN {key} ELSE owners
           /\ UNCHANGED <<key, next, dek, model, deks, keyfile, acked>>
  <2> DEFINE w == Some([dek |-> dek, has |-> {}])
  <2>1. w # None /\ w[1].dek = dek /\ Content(w) = {}
    BY There
  <2>2. Optional(w, File)
    <3>1. dek \in Nat
      BY <1>1 DEF Phase
    <3>2. [dek |-> dek, has |-> {}] \in File
      BY <3>1 DEF File
    <3> QED BY <3>2 DEF Optional, Some
  <2>3. dir' = [dir EXCEPT !.wal = w] /\ disks' = disks \cup {dir'}
    BY <1>4 DEF Change
  <2> HIDE DEF w
  <2>4. Image(dir) /\ dir \in disks
    BY <1>1 DEF Images
  <2>5. Made(dir', dir.store, dir.storeTmp, dir.crypto, dir.cryptoTmp, w, dir.sst)
    BY ONLY <2>2, <2>3, <2>4, LogWritten, Zenon
  <2>6. \A d \in disks : d.wal = None /\ d.sst = None /\ d.crypto \in {None, dir.crypto} /\ acked = {}
    BY <1>1, <1>4, NothingYet
  <2>7. owners' = {key} /\ acked' = {}
    BY <1>4, <2>4, <2>6
  <2>8. /\ dir'.store = "ok" /\ dir'.crypto = dir.crypto /\ dir'.wal = w /\ dir'.sst = None
        /\ Image(dir') /\ Dek(dir') = Dek(dir)
    BY <1>1, <2>4, <2>5, <2>6 DEF Made, Dek
  <2>9. Sound(dir, owners)
    BY <1>1, <2>4 DEF Images
  <2>10. Sound(dir', {key})
    BY <1>1, <2>1, <2>8, <2>9 DEF Sound, Held
  <2>11. Entries(dir') = {}
    BY <2>1, <2>8 DEF Entries, Content
  <2>12. Fits(dir', dir', {key}, {})
    BY <2>8, <2>10, <2>11 DEF Fits, Behind, OneModel
  <2>13. ASSUME NEW d \in disks, Fits(d, dir, owners, acked)
         PROVE  Fits(d, dir', {key}, {})
    <3>1. Sound(d, owners) /\ d.wal = None /\ d.sst = None /\ d.crypto \in {None, dir.crypto}
      BY <1>1, <2>6, <2>13 DEF Fits
    <3>2. Sound(d, {key})
      BY <1>1, <3>1 DEF Sound, Held
    <3>3. Behind(d, dir')
      BY <2>8, <2>1, <2>13, <3>1 DEF Fits, Behind
    <3> QED BY <2>13, <3>2, <3>3 DEF Fits
  <2>14. Images'
    <3>1. owners' # {} /\ disks' \subseteq disks \cup {dir', dir'} /\ dir' \in disks'
      BY <2>3, <2>7
    <3> QED BY <1>1, <2>7, <2>12, <2>13, <3>1, Grown
  <2>15. StorePhase'
    BY <1>4, <2>7, <2>8 DEF StorePhase
  <2>16. Held'
    BY <1>1, <1>4, <2>8 DEF Held
  <2>17. Phase'
    BY <1>1, <1>4, <2>1, <2>8, <2>16 DEF Phase
  <2> QED BY <2>14, <2>15, <2>17 DEF OpenInv
<1> QED BY <1>2, <1>3, <1>4 DEF Scan

-----------------------------------------------------------------------------
(* Writing. *)

\* What may be put: an entry that is no embedder's, the name of the first
\* embedder, or a memory of the one that has signed.
MayPut(name) ==
    \/ name \in Names
    \/ \E m \in Models : name = Named(m) /\ Signed = {}
    \/ \E m \in Models : name = Memory(m) /\ Named(m) \in Entries(dir)

\* A put leaves the store to one embedder.
LEMMA PutOneModel ==
    ASSUME OneModel(dir), NEW name, MayPut(name), Entries(dir') = Entries(dir) \cup {name}
    PROVE  OneModel(dir') /\ name \in Things
<1>1. \A m, n : Named(m) # Memory(n) /\ (Named(m) = Named(n) => m = n) /\ (Memory(m) = Memory(n) => m = n)
  BY DEF Named, Memory
<1>2. \A m \in Models : Named(m) \notin Names /\ Memory(m) \notin Names
  BY StoreAssumption
<1>3. name \in Things
  BY DEF MayPut, Things
<1>4. CASE name \in Names
  BY <1>2, <1>3, <1>4 DEF OneModel
<1>5. ASSUME NEW m \in Models, name = Named(m), Signed = {}
      PROVE  OneModel(dir')
  <2>1. \A n \in Models : Named(n) \notin Entries(dir)
    BY <1>5 DEF Signed
  <2>2. \A n \in Models : Named(n) \in Entries(dir') => n = m
    BY <1>1, <1>5, <2>1
  <2>3. \A n \in Models : Memory(n) \notin Entries(dir')
    BY <1>1, <1>5, <2>1 DEF OneModel
  <2> QED BY <2>2, <2>3 DEF OneModel
<1>6. ASSUME NEW m \in Models, name = Memory(m), Named(m) \in Entries(dir)
      PROVE  OneModel(dir')
  <2>1. \A n \in Models : Named(n) \in Entries(dir') <=> Named(n) \in Entries(dir)
    BY <1>1, <1>6
  <2>2. \A n \in Models : Memory(n) \in Entries(dir') => Memory(n) \in Entries(dir) \/ n = m
    BY <1>1, <1>6
  <2> QED BY <1>6, <2>1, <2>2 DEF OneModel
<1> QED BY <1>3, <1>4, <1>5, <1>6 DEF MayPut

\* The keys of an open store, once it is synced.
LEMMA OneOwner ==
    ASSUME Images, owners # {}, Held, key \in Keys, next = NoKey
    PROVE  Owners = {key} /\ (dir.crypto # None => key \in Passphrases)
<1>1. dir.crypto # None => key \in Passphrases
  BY Users DEF Held
<1> QED BY <1>1 DEF Owners, Keys

\* A put, synced or not.
LEMMA PutStep ==
    ASSUME Images, StorePhase, Held, owners # {}, dir.wal # None, dek \in Nat, key \in Keys, next = NoKey,
           NEW name, MayPut(name), Put(name)
    PROVE  /\ Images' /\ owners' # {} /\ deks' = deks /\ keyfile' = keyfile
           /\ dir'.store = dir.store /\ dir'.storeTmp = dir.storeTmp /\ dir'.crypto = dir.crypto
           /\ dir'.wal # None /\ Entries(dir') = Entries(dir) \cup {name}
<1>1. Image(dir) /\ dir \in disks /\ OneModel(dir) /\ acked \subseteq Entries(dir) /\ Sound(dir, owners)
  BY DEF Images
<1>2. dir.wal[1].has \subseteq Things /\ Content(dir.wal) = dir.wal[1].has
  BY <1>1 DEF Image, Optional, File, Content
<1>3. name \in Things
  BY DEF MayPut, Things
<1> DEFINE h == dir.wal[1].has \cup {name}
           w == Some([dek |-> dek, has |-> h])
<1>4. w # None /\ w[1].dek = dek /\ Content(w) = h
  BY There
<1>5. Optional(w, File)
  <2>1. [dek |-> dek, has |-> h] \in File
    BY <1>2, <1>3 DEF File
  <2> QED BY <2>1 DEF Optional, Some
<1>6. dir' = [dir EXCEPT !.wal = w]
  BY DEF Put
<1> HIDE DEF w
<1>7. Made(dir', dir.store, dir.storeTmp, dir.crypto, dir.cryptoTmp, w, dir.sst)
  BY ONLY <1>1, <1>5, <1>6, LogWritten, Zenon
<1>8. /\ dir'.store = dir.store /\ dir'.storeTmp = dir.storeTmp /\ dir'.crypto = dir.crypto
      /\ dir'.wal = w /\ dir'.sst = dir.sst /\ Image(dir') /\ Dek(dir') = Dek(dir)
  BY <1>7 DEF Made, Dek
<1>9. Entries(dir') = Entries(dir) \cup {name}
  BY <1>2, <1>4, <1>8 DEF Entries
<1>10. OneModel(dir')
  BY <1>1, <1>9, PutOneModel
<1>11. \A O : Sound(dir, O) => Sound(dir', O)
  BY <1>4, <1>8 DEF Sound, Held
<1>12. CASE disks' = {dir'} /\ acked' = acked \cup {name} /\ owners' = Owners
  <2>1. owners' = {key}
    BY <1>12, OneOwner
  <2>2. Sound(dir, {key})
    BY <1>1 DEF Sound, Held
  <2>3. acked' \subseteq Entries(dir')
    BY <1>1, <1>9, <1>12
  <2>4. Images'
    BY <1>8, <1>10, <1>11, <1>12, <2>1, <2>2, <2>3, Alone
  <2> QED BY <1>4, <1>8, <1>9, <2>1, <2>4 DEF Put
<1>13. CASE disks' = disks \cup {dir'} /\ UNCHANGED <<acked, owners>>
  <2>1. Fits(dir', dir', owners, acked)
    BY <1>1, <1>8, <1>9, <1>10, <1>11 DEF Fits, Behind
  <2>2. \A d : Fits(d, dir, owners, acked) => Fits(d, dir', owners, acked)
    BY <1>4, <1>8 DEF Fits, Behind
  <2>3. disks' \subseteq disks \cup {dir', dir'} /\ dir' \in disks'
    BY <1>13
  <2>4. Images'
    BY <1>13, <2>1, <2>2, <2>3, Grown
  <2> QED BY <1>4, <1>8, <1>9, <1>13, <2>4 DEF Put
<1> QED BY <1>12, <1>13 DEF Put

\* What a put leaves of the rest: the store is dropped, or goes on.
LEMMA PutDropped ==
    ASSUME OpenInv, NEW name, MayPut(name), Put(name), Dropped, pc \in {"container", "idle"}
    PROVE  OpenInv'
<1>1. Images /\ StorePhase /\ Phase /\ Held /\ owners # {} /\ dir.wal # None /\ dek \in Nat /\ key \in Keys /\ next = NoKey
  BY DEF OpenInv, StorePhase, Phase, Whole
<1>2. Images' /\ deks' = deks /\ keyfile' = keyfile
  BY <1>1, PutStep
<1>3. StorePhase'
  BY DEF StorePhase, Dropped
<1>4. Phase'
  BY <1>1, <1>2 DEF Phase, Dropped, Keys
<1> QED BY <1>2, <1>3, <1>4 DEF OpenInv

\* The entries of the container, one put at a time.
LEMMA ContainerStep == ASSUME OpenInv, Container PROVE OpenInv'
<1>1. /\ pc = "container" /\ Images /\ StorePhase /\ Phase /\ Held /\ owners # {} /\ dir.wal # None
      /\ dek \in Nat /\ key \in Keys /\ next = NoKey /\ model = None
  BY DEF Container, OpenInv, StorePhase, Phase
<1>2. CASE Names \ Entries(dir) = {} /\ Kept /\ Goto("idle")
  <2>1. Images'
    BY <1>1, <1>2, Stays DEF Kept, Goto
  <2>2. StorePhase'
    BY <1>1, <1>2 DEF StorePhase, Kept, Goto
  <2>3. Held' /\ Whole'
    BY <1>1, <1>2 DEF Held, Whole, Kept, Goto
  <2>4. Phase'
    BY <1>1, <1>2, <2>3 DEF Phase, Kept, Goto
  <2> QED BY <2>1, <2>2, <2>4 DEF OpenInv
<1>3. ASSUME NEW name \in Names, Put(name), Dropped
      PROVE  OpenInv'
  BY <1>1, <1>3, PutDropped DEF MayPut
<1>4. ASSUME NEW name \in Names, Put(name), UNCHANGED proc
      PROVE  OpenInv'
  <2>1. MayPut(name)
    BY DEF MayPut
  <2>2. /\ Images' /\ owners' # {} /\ deks' = deks /\ keyfile' = keyfile
        /\ dir'.store = dir.store /\ dir'.crypto = dir.crypto /\ dir'.wal # None
    BY <1>1, <1>4, <2>1, PutStep
  <2>3. UNCHANGED <<pc, key, next, dek, model>>
    BY <1>4 DEF proc
  <2>4. StorePhase'
    BY <1>1, <2>2, <2>3 DEF StorePhase
  <2>5. Held'
    BY <1>1, <2>2, <2>3 DEF Held, Dek
  <2>6. Phase'
    BY <1>1, <2>2, <2>3, <2>5 DEF Phase
  <2> QED BY <2>2, <2>4, <2>6 DEF OpenInv
<1>5. CASE Names \ Entries(dir) # {}
  <2>1. PICK name \in Names : Put(name) /\ IF acked' = acked THEN Dropped ELSE UNCHANGED proc
    <3>1. (CHOOSE n \in Names \ Entries(dir) : TRUE) \in Names
      BY <1>5
    <3> QED BY <1>5, <3>1 DEF Container
  <2> QED BY <1>3, <1>4, <2>1
<1> QED BY <1>2, <1>5 DEF Container

\* The first embedder signs only where none has.
LEMMA EnsureModelStep == ASSUME OpenInv, NEW m \in Models, EnsureModel(m) PROVE OpenInv'
<1>1. /\ pc = "idle" /\ Images /\ StorePhase /\ Phase /\ Held /\ Whole /\ owners # {} /\ dir.wal # None
      /\ dek \in Nat /\ key \in Keys /\ next = NoKey
  BY DEF EnsureModel, OpenInv, StorePhase, Phase, Whole
<1>2. Some(m) # None
  BY DEF Some, None
<1>3. CASE /\ Kept /\ pc' = "contract" /\ model' = Some(m)
           /\ UNCHANGED <<key, next, dek, deks, keyfile, acked, owners>>
  <2>1. Images'
    BY <1>1, <1>3, Stays DEF Kept
  <2>2. StorePhase'
    BY <1>1, <1>3 DEF StorePhase, Kept
  <2>3. Held' /\ Names \subseteq Entries(dir)'
    BY <1>1, <1>3 DEF Held, Whole, Kept
  <2>4. Phase'
    BY <1>1, <1>2, <1>3, <2>3 DEF Phase, Kept
  <2> QED BY <2>1, <2>2, <2>4 DEF OpenInv
<1>4. CASE Signed = {} /\ Put(Named(m)) /\ Dropped
  BY <1>1, <1>4, PutDropped DEF MayPut
<1>5. CASE Signed = {} /\ Put(Named(m)) /\ pc' = "contract" /\ model' = Some(m) /\ UNCHANGED <<key, next, dek>>
  <2>1. MayPut(Named(m))
    BY <1>5 DEF MayPut
  <2>2. /\ Images' /\ owners' # {} /\ deks' = deks /\ keyfile' = keyfile
        /\ dir'.store = dir.store /\ dir'.crypto = dir.crypto /\ dir'.wal # None
        /\ Entries(dir') = Entries(dir) \cup {Named(m)}
    BY <1>1, <1>5, <2>1, PutStep
  <2>3. StorePhase'
    BY <1>1, <1>5, <2>2 DEF StorePhase
  <2>4. Held' /\ Names \subseteq Entries(dir')
    BY <1>1, <1>5, <2>2 DEF Held, Dek, Whole
  <2>5. Phase'
    BY <1>1, <1>2, <1>5, <2>2, <2>4 DEF Phase
  <2> QED BY <2>2, <2>3, <2>5 DEF OpenInv
<1> QED BY <1>3, <1>4, <1>5 DEF EnsureModel

\* An embedder that has not signed is turned away.
LEMMA CheckContractStep == ASSUME OpenInv, CheckContract PROVE OpenInv'
<1>1. pc = "contract" /\ Kept /\ Images /\ StorePhase /\ Phase
  BY DEF CheckContract, OpenInv
<1>2. CASE model[1] \in Signed /\ Goto("idle")
  <2>1. Images'
    BY <1>1, <1>2, Stays DEF Kept, Goto
  <2>2. StorePhase'
    BY <1>1, <1>2 DEF StorePhase, Kept, Goto
  <2>3. Whole' /\ Held'
    BY <1>1, <1>2 DEF Phase, Whole, Held, Signed, Kept, Goto
  <2>4. Phase'
    BY <1>1, <1>2, <2>3 DEF Phase, Kept, Goto
  <2> QED BY <2>1, <2>2, <2>4 DEF OpenInv
<1>3. CASE Refuse
  BY <1>1, <1>3, Refused
<1> QED BY <1>2, <1>3 DEF CheckContract

\* A memory is put by the embedder that has signed.
LEMMA ClientStep == ASSUME OpenInv, Client PROVE OpenInv'
<1>1. /\ pc = "idle" /\ Images /\ StorePhase /\ Phase /\ Held /\ Whole /\ owners # {} /\ dir.wal # None
      /\ dek \in Nat /\ key \in Keys /\ next = NoKey /\ model # None
      /\ Put(Memory(model[1])) /\ UNCHANGED <<pc, key, next, dek, model>>
  BY DEF Client, OpenInv, StorePhase, Phase, Whole, proc
<1>2. model[1] \in Models
  BY <1>1 DEF Phase, Some
<1>3. MayPut(Memory(model[1]))
  BY <1>1, <1>2 DEF MayPut, Whole
<1>4. /\ Images' /\ owners' # {} /\ deks' = deks /\ keyfile' = keyfile
      /\ dir'.store = dir.store /\ dir'.crypto = dir.crypto /\ dir'.wal # None
      /\ Entries(dir') = Entries(dir) \cup {Memory(model[1])}
  BY <1>1, <1>3, PutStep
<1>5. StorePhase'
  BY <1>1, <1>4 DEF StorePhase
<1>6. Held' /\ Whole'
  BY <1>1, <1>4 DEF Held, Dek, Whole
<1>7. Phase'
  BY <1>1, <1>4, <1>6 DEF Phase
<1> QED BY <1>4, <1>5, <1>7 DEF OpenInv

\* A flush moves what the store holds, and seals it with the same data key.
LEMMA FlushStep == ASSUME OpenInv, Flush PROVE OpenInv'
<1>1. /\ pc = "idle" /\ Images /\ StorePhase /\ Phase /\ Held /\ Whole /\ owners # {} /\ dir.wal # None
      /\ dek \in Nat /\ key \in Keys /\ next = NoKey
      /\ disks' = {dir'} /\ owners' = Owners /\ UNCHANGED <<pc, key, next, dek, model, deks, keyfile, acked>>
  BY DEF Flush, OpenInv, StorePhase, Phase, Whole, proc
<1>2. Image(dir) /\ dir \in disks /\ OneModel(dir) /\ acked \subseteq Entries(dir) /\ Sound(dir, owners)
  BY <1>1 DEF Images
<1>3. Entries(dir) \subseteq Things
  BY <1>2 DEF Image, Optional, File, Entries, Content
<1> DEFINE w == Some([dek |-> dek, has |-> {}])
           f == Some([dek |-> dek, has |-> Entries(dir)])
<1>4. /\ w # None /\ w[1].dek = dek /\ Content(w) = {}
      /\ f # None /\ f[1].dek = dek /\ Content(f) = Entries(dir)
  BY There
<1>5. Optional(w, File) /\ Optional(f, File)
  <2>1. [dek |-> dek, has |-> {}] \in File /\ [dek |-> dek, has |-> Entries(dir)] \in File
    BY <1>1, <1>3 DEF File
  <2> QED BY <2>1 DEF Optional, Some
<1>6. dir' = [dir EXCEPT !.sst = f, !.wal = w]
  BY DEF Flush
<1> HIDE DEF w, f
<1>7. Made(dir', dir.store, dir.storeTmp, dir.crypto, dir.cryptoTmp, w, f)
  BY ONLY <1>2, <1>5, <1>6, TableWritten, Zenon
<1>8. /\ dir'.store = dir.store /\ dir'.crypto = dir.crypto /\ dir'.wal = w /\ dir'.sst = f
      /\ Image(dir') /\ Dek(dir') = Dek(dir)
  BY <1>7 DEF Made, Dek
<1>9. Entries(dir') = Entries(dir)
  BY <1>4, <1>8 DEF Entries
<1>10. OneModel(dir')
  BY <1>2, <1>9 DEF OneModel
<1>11. owners' = {key}
  BY <1>1, OneOwner
<1>12. Sound(dir', {key})
  BY <1>1, <1>2, <1>4, <1>8 DEF Sound, Held
<1>13. Images'
  BY <1>1, <1>2, <1>8, <1>9, <1>10, <1>11, <1>12, Alone
<1>14. StorePhase'
  BY <1>1, <1>8, <1>11 DEF StorePhase
<1>15. Held' /\ Whole'
  BY <1>1, <1>4, <1>8, <1>9 DEF Held, Whole
<1>16. Phase'
  BY <1>1, <1>15 DEF Phase
<1> QED BY <1>13, <1>14, <1>16 DEF OpenInv

-----------------------------------------------------------------------------
(* Keys. *)

\* The first of one source.
LEMMA FirstOfOne ==
    ASSUME NEW x, NEW S
    PROVE  First(<<x>>, S) = IF x \notin S THEN x ELSE None
<1>1. \A i : i \in DOMAIN <<x>> <=> i = 1
  OBVIOUS
<1>2. <<x>>[1] = x
  OBVIOUS
<1>3. CASE x \notin S
  <2>1. {i \in DOMAIN <<x>> : <<x>>[i] \notin S} = {1}
    BY <1>1, <1>2, <1>3
  <2>2. (CHOOSE i \in {1} : \A j \in {1} : i <= j) = 1
    OBVIOUS
  <2> QED BY <1>2, <1>3, <2>1, <2>2 DEF First
<1>4. CASE x \in S
  <2>1. {i \in DOMAIN <<x>> : <<x>>[i] \notin S} = {}
    BY <1>1, <1>2, <1>4
  <2> QED BY <1>4, <2>1 DEF First
<1> QED BY <1>3, <1>4

\* What a command resolves is a user's key.
LEMMA Resolved ==
    ASSUME NEW env \in {None, Some(Blank)} \cup NewKeys, keyfile \in {None, Some(Blank)} \cup NewKeys,
           Resolve(<<env>>, <<keyfile>>) # None
    PROVE  Resolve(<<env>>, <<keyfile>>) \in NewKeys
<1>1. First(<<env>>, {None, Some(Blank)}) \in {None} \cup NewKeys
  BY FirstOfOne
<1>2. First(<<keyfile>>, {None}) \in {None, Some(Blank)} \cup NewKeys
  BY FirstOfOne
<1> QED BY <1>1, <1>2 DEF Resolve, Given

\* What an environment may name.
LEMMA NewKeysAre == \A k \in NewKeys : k[1] \in Passphrases
<1>1. \A v : Some(v)[1] = v
  BY DEF Some
<1> QED BY <1>1 DEF NewKeys

\* config key generate leaves the store alone.
LEMMA GenerateKeyStep ==
    ASSUME OpenInv, NEW k \in Passphrases, NEW force \in BOOLEAN, GenerateKey(k, force)
    PROVE  OpenInv'
<1>1. /\ keyfile' \in {None, Some(Blank)} \cup NewKeys
      /\ UNCHANGED <<dir, disks, pc, key, next, dek, model, deks, acked, owners>>
  BY DEF GenerateKey, PersistKey, NewKeys, proc
<1>2. Images'
  BY <1>1, Stays DEF OpenInv
<1>3. StorePhase'
  BY <1>1 DEF OpenInv, StorePhase
<1>4. (Held => Held') /\ (Whole => Whole')
  BY <1>1 DEF Held, Whole
<1>5. Phase'
  BY <1>1, <1>4 DEF OpenInv, Phase
<1> QED BY <1>2, <1>3, <1>5 DEF OpenInv

\* A process starts with a key, given or resolved.
LEMMA StartStep == ASSUME OpenInv, NEW k \in Keys, Start(k) PROVE OpenInv'
<1>1. /\ pc = "closed" /\ pc' = "store" /\ key' = k
      /\ UNCHANGED <<dir, disks, next, dek, model, deks, keyfile, acked, owners>>
  BY DEF Start
<1>2. Images'
  BY <1>1, Stays DEF OpenInv
<1>3. StorePhase'
  BY <1>1 DEF OpenInv, StorePhase
<1>4. Phase'
  BY <1>1 DEF OpenInv, Phase
<1> QED BY <1>2, <1>3, <1>4 DEF OpenInv

\* The key of a command, taken from the environment or from the key file.
LEMMA StartCommandStep ==
    ASSUME OpenInv, NEW env \in {None, Some(Blank)} \cup NewKeys, StartCommand(env) PROVE OpenInv'
<1>1. keyfile \in {None, Some(Blank)} \cup NewKeys
  BY DEF OpenInv, Phase
<1>2. Resolve(<<env>>, <<keyfile>>)[1] \in Keys /\ Start(Resolve(<<env>>, <<keyfile>>)[1])
  BY <1>1, Resolved, NewKeysAre DEF StartCommand, Keys
<1> QED BY <1>2, StartStep

\* A rotation promises the new key as well.
LEMMA StartRotateStep == ASSUME OpenInv, NEW k \in Passphrases, StartRotate(k) PROVE OpenInv'
<1>1. /\ pc = "idle" /\ dek # 0 /\ next' = k /\ pc' = "crypto_tmp" /\ owners' = owners \cup {k}
      /\ dir' = dir /\ disks' = disks /\ UNCHANGED <<key, dek, model, deks, keyfile, acked>>
      /\ Images /\ StorePhase /\ Phase /\ owners # {} /\ Held /\ Whole
  BY DEF StartRotate, Kept, OpenInv, StorePhase, Phase
<1>2. dir.crypto # None
  BY <1>1 DEF Held, Dek
<1>3. \A d : Sound(d, owners) => Sound(d, owners')
  BY <1>1 DEF Sound
<1>4. \A d \in disks : Fits(d, dir, owners, acked) => Fits(d, dir', owners', acked')
  BY <1>1, <1>3 DEF Fits
<1>5. Fits(dir', dir', owners', acked') /\ dir' \in disks'
  BY <1>1, <1>4, AllFit
<1>6. Images'
  BY <1>1, <1>4, <1>5, Grown
<1>7. StorePhase'
  BY <1>1 DEF StorePhase
<1>8. Held' /\ Whole'
  BY <1>1 DEF Held, Whole
<1>9. Phase'
  BY <1>1, <1>2, <1>8 DEF Phase
<1> QED BY <1>6, <1>7, <1>9 DEF OpenInv

\* rotate-key takes the key it is given or the one it resolves.
LEMMA RotateCommandStep ==
    ASSUME OpenInv, NEW new \in {None} \cup NewKeys, NEW env \in {None} \cup NewKeys, RotateCommand(new, env)
    PROVE  OpenInv'
<1>1. keyfile \in {None, Some(Blank)} \cup NewKeys
  BY DEF OpenInv, Phase
<1>2. CASE new # None
  <2>1. new[1] \in Passphrases /\ StartRotate(new[1])
    BY <1>2, NewKeysAre DEF RotateCommand
  <2> QED BY <2>1, StartRotateStep
<1>3. CASE new = None
  <2>1. Resolve(<<env>>, <<keyfile>>) # None /\ StartRotate(Resolve(<<env>>, <<keyfile>>)[1])
    BY <1>3 DEF RotateCommand
  <2>2. Resolve(<<env>>, <<keyfile>>)[1] \in Passphrases
    BY <1>1, <2>1, Resolved, NewKeysAre
  <2> QED BY <2>1, <2>2, StartRotateStep
<1> QED BY <1>2, <1>3

-----------------------------------------------------------------------------
(* Failures. *)

\* A rotation that fails leaves the store open under the key it was opened with.
LEMMA IoErrorStep == ASSUME OpenInv, IoError PROVE OpenInv'
<1>1. /\ pc \in {"store_tmp", "store_sync", "store_rename", "crypto_tmp", "crypto_sync", "crypto_rename"}
      /\ Kept /\ Images /\ StorePhase /\ Phase
  BY DEF IoError, OpenInv
<1>2. CASE /\ next # NoKey /\ dir.crypto # None /\ pc' = "idle" /\ next' = NoKey
           /\ UNCHANGED <<key, dek, model, deks, keyfile, acked, owners>>
  <2>1. Images'
    BY <1>1, <1>2, Stays DEF Kept
  <2>2. pc \in {"crypto_tmp", "crypto_sync", "crypto_rename"} /\ Held /\ Whole
    BY <1>1, <1>2 DEF Phase
  <2>3. StorePhase'
    BY <1>1, <1>2, <2>2 DEF StorePhase, Kept
  <2>4. Held' /\ Whole'
    BY <1>1, <1>2, <2>2 DEF Held, Whole, Kept
  <2>5. Phase'
    BY <1>1, <1>2, <2>2, <2>4 DEF Phase, Kept
  <2> QED BY <2>1, <2>3, <2>5 DEF OpenInv
<1>3. CASE Refuse
  BY <1>1, <1>3, Refused
<1> QED BY <1>1, <1>2, <1>3 DEF IoError

\* A power loss leaves one of the images.
LEMMA PowerLossStep == ASSUME OpenInv, PowerLoss PROVE OpenInv'
<1>1. dir' \in disks /\ disks' = {dir'} /\ Refuse /\ Images /\ StorePhase /\ Phase
  BY DEF PowerLoss, OpenInv
<1>2. Fits(dir', dir, owners, acked)
  BY <1>1 DEF Images, Fits
<1>3. owners = {} => dir'.wal # None /\ dir'.store # "ok"
  BY <1>1 DEF Images
<1>4. acked' = acked /\ owners' = owners
  BY <1>1 DEF Refuse
<1>5. Images'
  BY <1>1, <1>2, <1>3, <1>4, Alone DEF Fits
<1>6. StorePhase'
  BY <1>1 DEF Refuse, StorePhase
<1>7. Phase'
  BY <1>1 DEF Refuse, Phase, Keys
<1> QED BY <1>5, <1>6, <1>7 DEF OpenInv

-----------------------------------------------------------------------------
(* The theorems. *)

\* The directories a store may be opened in.
LEMMA FoundAre ==
    ASSUME NEW d \in Found
    PROVE  /\ Image(d) /\ d.sst = None /\ d.crypto = None
           /\ d = Fresh => d.wal = None /\ d.store = "none" /\ Entries(d) = {}
           /\ d # Fresh => /\ d.wal # None /\ d.wal[1].dek = 0 /\ Entries(d) = {Datum} /\ Content(d.wal) = {Datum}
                           /\ d.store \in {"none", "other", "ok"}
<1> DEFINE w == Some([dek |-> 0, has |-> {Datum}])
<1>1. w # None /\ w[1].dek = 0 /\ Content(w) = {Datum}
  BY There
<1>2. Optional(w, File) /\ Optional(None, File) /\ Optional(None, Meta)
  <2>1. [dek |-> 0, has |-> {Datum}] \in File
    BY DEF File, Things
  <2> QED BY <2>1 DEF Optional, Some
<1> HIDE DEF w
<1>3. Made(Fresh, "none", "none", None, None, None, None)
  <2>1. Fresh \in Shape("none", "none", None, None, None, None)
    BY DEF Fresh, Shape
  <2> QED BY <1>2, <2>1, Shaped DEF Made
<1>4. Made(Old, "none", "none", None, None, w, None)
  <2>1. Old = [Fresh EXCEPT !.wal = w]
    BY DEF Old, w
  <2>2. Made(Old, Fresh.store, Fresh.storeTmp, Fresh.crypto, Fresh.cryptoTmp, w, Fresh.sst)
    <3>1. Image(Fresh)
      BY <1>3 DEF Made
    <3> QED BY ONLY <3>1, <1>2, <2>1, LogWritten, Zenon
  <2> QED BY <1>3, <2>2 DEF Made
<1>5. ASSUME NEW s, d = [Old EXCEPT !.store = s]
      PROVE  Made(d, s, "none", None, None, w, None)
  <2>1. Old \in Shape("none", "none", None, None, w, None)
    BY <1>4 DEF Made, Image
  <2>2. d \in Shape(s, "none", None, None, w, None)
    BY <1>5, <2>1 DEF Shape
  <2> QED BY <1>1, <1>2, <2>2, Shaped DEF Made
<1>6. d = Fresh \/ \E s \in {"none", "other", "ok"} : Made(d, s, "none", None, None, w, None)
  <2>1. d = Fresh \/ d = Old \/ d = [Old EXCEPT !.store = "other"] \/ d = [Old EXCEPT !.store = "ok"]
    BY ONLY DEF Found
  <2> QED BY <1>4, <1>5, <2>1
<1>7. Content(None) = {}
  BY DEF Content
<1>8. CASE d = Fresh
  BY <1>3, <1>7, <1>8 DEF Made, Entries
<1>9. ASSUME NEW s \in {"none", "other", "ok"}, Made(d, s, "none", None, None, w, None)
      PROVE  d # Fresh /\ d.wal # None
  BY <1>1, <1>3, <1>9 DEF Made
<1> QED BY <1>1, <1>6, <1>7, <1>8, <1>9 DEF Made, Entries

\* OpenInv is inductive.
LEMMA InitOpen == Init => OpenInv
<1> SUFFICES ASSUME Init PROVE OpenInv
  OBVIOUS
<1>1. /\ dir \in Found /\ disks = {dir} /\ pc = "closed" /\ key = NoKey /\ next = NoKey /\ dek = 0
      /\ model = None /\ deks = 0 /\ keyfile = None /\ acked = Content(dir.wal)
      /\ owners = IF dir = Fresh THEN Keys ELSE IF dir.store = "ok" THEN {NoKey} ELSE {}
  BY DEF Init
<1>2. NoKey \in Keys
  BY DEF Keys
<1>3. /\ Image(dir) /\ dir.sst = None /\ dir.crypto = None
      /\ dir = Fresh => dir.wal = None /\ dir.store = "none" /\ Entries(dir) = {}
      /\ dir # Fresh => /\ dir.wal # None /\ dir.wal[1].dek = 0 /\ Entries(dir) = {Datum} /\ Content(dir.wal) = {Datum}
                        /\ dir.store \in {"none", "other", "ok"}
  BY <1>1, FoundAre
<1>4. Content(None) = {}
  BY DEF Content
<1>5. acked \subseteq Entries(dir)
  BY <1>1, <1>3, <1>4
<1>6. OneModel(dir)
  BY <1>3, StoreAssumption DEF OneModel
<1>7. owners # {} => Sound(dir, owners)
  BY <1>1, <1>2, <1>3 DEF Sound, Dek
<1>8. owners = {} => dir.wal # None /\ dir.store # "ok"
  BY <1>1, <1>2, <1>3
<1>9. Behind(dir, dir)
  BY DEF Behind
<1>10. Images
  BY <1>1, <1>3, <1>5, <1>6, <1>7, <1>8, <1>9 DEF Images
<1>11. StorePhase
  BY <1>1 DEF StorePhase
<1>12. Phase
  BY <1>1, <1>2 DEF Phase
<1> QED BY <1>10, <1>11, <1>12 DEF OpenInv

\* The steps of an open and of a rotation.
LEMMA OpenStepKeeps == ASSUME OpenInv, OpenStep PROVE OpenInv'
<1>1. CASE CheckStoreMeta
  BY <1>1, CheckStoreMetaStep
<1>2. CASE WriteStoreTmp
  BY <1>2, WriteStoreTmpStep
<1>3. CASE SyncStoreTmp
  BY <1>3, SyncStoreTmpStep
<1>4. CASE RenameStore
  BY <1>4, RenameStoreStep
<1>5. CASE OpenMeta
  BY <1>5, OpenMetaStep
<1>6. CASE MissingKey
  BY <1>6, Refused DEF MissingKey
<1>7. CASE PlainSupplied
  BY <1>7, Refused DEF PlainSupplied
<1>8. CASE OpenPlain
  BY <1>8, OpenPlainStep
<1>9. CASE CreateMeta
  BY <1>9, CreateMetaStep
<1>10. CASE WriteMetaTmp
  BY <1>10, WriteMetaTmpStep
<1>11. CASE SyncMetaTmp
  BY <1>11, SyncMetaTmpStep
<1>12. CASE RenameMeta
  BY <1>12, RenameMetaStep
<1>13. CASE Scan
  BY <1>13, ScanStep
<1>14. CASE Container
  BY <1>14, ContainerStep
<1>15. CASE CheckContract
  BY <1>15, CheckContractStep
<1> QED BY <1>1, <1>2, <1>3, <1>4, <1>5, <1>6, <1>7, <1>8, <1>9, <1>10, <1>11, <1>12, <1>13, <1>14, <1>15
        DEF OpenStep

\* Every step keeps OpenInv.
LEMMA NextOpen == OpenInv /\ [Next]_vars => OpenInv'
<1> SUFFICES ASSUME OpenInv, [Next]_vars PROVE OpenInv'
  OBVIOUS
<1>1. ASSUME NEW k \in Passphrases, NEW force \in BOOLEAN, GenerateKey(k, force) PROVE OpenInv'
  BY <1>1, GenerateKeyStep
<1>2. ASSUME NEW env \in {None, Some(Blank)} \cup NewKeys, StartCommand(env) PROVE OpenInv'
  BY <1>2, StartCommandStep
<1>3. CASE StartPlain
  BY <1>3, StartStep DEF StartPlain, Keys
<1>4. CASE OpenStep
  BY <1>4, OpenStepKeeps
<1>5. ASSUME NEW m \in Models, EnsureModel(m) PROVE OpenInv'
  BY <1>5, EnsureModelStep
<1>6. CASE Client
  BY <1>6, ClientStep
<1>7. CASE Flush
  BY <1>7, FlushStep
<1>8. ASSUME NEW new \in {None} \cup NewKeys, NEW env \in {None} \cup NewKeys, RotateCommand(new, env) PROVE OpenInv'
  BY <1>8, RotateCommandStep
<1>9. CASE Close \/ Kill
  BY <1>9, Refused DEF Close, Kill
<1>10. CASE IoError
  BY <1>10, IoErrorStep
<1>11. CASE PowerLoss
  BY <1>11, PowerLossStep
<1>12. CASE UNCHANGED vars
  <2>1. UNCHANGED <<dir, disks, pc, key, next, dek, model, deks, keyfile, acked, owners>>
    BY <1>12 DEF vars, proc
  <2>2. Images'
    BY <2>1, Stays DEF OpenInv
  <2>3. StorePhase'
    BY <2>1 DEF OpenInv, StorePhase
  <2>4. (Held => Held') /\ (Whole => Whole')
    BY <2>1 DEF Held, Whole
  <2>5. Phase'
    BY <2>1, <2>4 DEF OpenInv, Phase
  <2> QED BY <2>2, <2>3, <2>5 DEF OpenInv
<1> QED BY <1>1, <1>2, <1>3, <1>4, <1>5, <1>6, <1>7, <1>8, <1>9, <1>10, <1>11, <1>12 DEF Next

\* Whatever a process does with the directory and whatever stops it, every
\* image a power loss may leave is one that a promised key opens, and the
\* process holds the keys of the directory (Engine::open_inner, rotate_key).
THEOREM OpenInvariance == Spec => []OpenInv
<1>1. Init => OpenInv
  BY InitOpen
<1>2. OpenInv /\ [Next]_vars => OpenInv'
  BY NextOpen
<1> QED BY <1>1, <1>2, PTL DEF Spec

\* A sound image opens with one of its keys.
LEMMA SoundOpens ==
    ASSUME NEW d, NEW O, O # {}, Sound(d, O)
    PROVE  \E k \in O : OpensWith(d, k)
<1>1. d.store = "ok" \/ (d.store = "none" /\ ~Holds(d))
  BY DEF Sound, Holds
<1>2. ASSUME NEW e, \A f \in {d.wal, d.sst} \ {None} : f[1].dek = e
      PROVE  SealedWith(d, e)
  BY <1>2 DEF SealedWith
<1>3. SealedWith(d, Dek(d))
  <2>1. \A f \in {d.wal, d.sst} \ {None} : f[1].dek = Dek(d)
    BY DEF Sound
  <2> QED BY <1>2, <2>1
<1>4. CASE d.crypto # None
  <2>1. d.crypto[1].key \in O /\ d.crypto[1].key # Blank
    BY <1>4 DEF Sound
  <2>2. d.crypto[1] # TornWrap
    BY <2>1 DEF TornWrap, Wrap
  <2>3. SealedWith(d, d.crypto[1].dek)
    BY <1>3, <1>4 DEF Dek
  <2>4. OpensWith(d, d.crypto[1].key)
    BY <1>1, <1>4, <2>2, <2>3 DEF OpensWith
  <2> QED BY <2>1, <2>4
<1>5. CASE d.crypto = None /\ d.wal # None
  <2>1. NoKey \in O
    BY <1>5 DEF Sound
  <2>2. SealedWith(d, 0)
    BY <1>3, <1>5 DEF Dek
  <2>3. OpensWith(d, NoKey)
    BY <1>1, <1>5, <2>2 DEF OpensWith
  <2> QED BY <2>1, <2>3
<1>6. CASE d.crypto = None /\ d.wal = None
  <2>1. d.sst = None /\ ~Holds(d)
    BY <1>6 DEF Sound, Holds
  <2>2. SealedWith(d, 0)
    BY <1>6, <2>1 DEF SealedWith
  <2>3. PICK k \in O : TRUE
    OBVIOUS
  <2>4. OpensWith(d, k)
    BY <1>1, <1>6, <2>1, <2>2 DEF OpensWith
  <2> QED BY <2>4
<1> QED BY <1>4, <1>5, <1>6

\* Whatever power loss, kill or I/O error comes while a store is created,
\* written to or rotated, what was acknowledged is there and one of the keys
\* it was promised to opens it (tmp, fsync and rename in store/mod.rs and crypto.rs).
THEOREM AlwaysOpensAlways == Spec => []AlwaysOpens
<1>1. OpenInv => AlwaysOpens
  <2> SUFFICES ASSUME OpenInv, NEW d \in disks \cup {dir}
               PROVE  acked \subseteq Entries(d) /\ (owners = {} \/ \E k \in owners : OpensWith(d, k))
    BY DEF AlwaysOpens
  <2>1. acked \subseteq Entries(d) /\ (owners # {} => Sound(d, owners))
    BY DEF OpenInv, Images
  <2> QED BY <2>1, SoundOpens
<1> QED BY <1>1, OpenInvariance, PTL

\* A store that is open has all the entries of its container, and no image of
\* it has a vector of an embedder other than the one it names
\* (ensure_container_meta, ensure_embedding_contract).
THEOREM ContainerAlwaysWhole == Spec => []ContainerWhole
<1>1. OpenInv => ContainerWhole
  <2> SUFFICES ASSUME OpenInv PROVE ContainerWhole
    OBVIOUS
  <2>1. pc = "idle" => Names \subseteq Entries(dir)
    BY DEF OpenInv, Phase, Whole
  <2>2. \A d \in disks \cup {dir} : OneModel(d)
    BY DEF OpenInv, Images
  <2> QED BY <2>1, <2>2 DEF ContainerWhole, OneModel
<1> QED BY <1>1, OpenInvariance, PTL
=============================================================================
