------------------------------ MODULE StoreOpen ------------------------------
(***************************************************************************)
(* The life of a store's directory around its data (Engine::open_inner,    *)
(* check_or_create_store_meta, rotate_key; crypto.rs; the container's      *)
(* entries of native_store/mod.rs) and the key a command opens it with     *)
(* (basemyai-core, storage/key.rs).  Engine models the log and the files:  *)
(* here they are what is in them and the key that content is sealed with.  *)
(***************************************************************************)
EXTENDS Naturals, Sequences

CONSTANTS
    Passphrases,        \* user keys
    Blank,              \* a key of blanks, trimmed to nothing
    NoKey,              \* opened without a key (builds with test-util)
    Names,              \* the container's entries
    Models, Fitting,    \* the embedders, and those of the container's dimension
    Datum,              \* what an earlier client wrote
    MaxDeks             \* bound: data keys ever generated

Named(m) == <<"model", m>>      \* the entry embedding_model_id
Memory(m) == <<"memory", m>>    \* a memory whose vector m made

ASSUME StoreAssumption ==
    /\ {Blank, NoKey} \cap Passphrases = {} /\ Blank # NoKey
    /\ Datum \notin Names /\ MaxDeks \in Nat /\ Fitting \subseteq Models
    /\ \A m \in Models : {Named(m), Memory(m)} \cap (Names \cup {Datum}) = {}

VARIABLES
    dir,        \* what the process sees of the directory
    disks,      \* what a power loss may leave of it
    pc, key,    \* the process, and the key it was given
    next,       \* the key it is rotating to, or NoKey
    dek,        \* the data key it holds; 0 when the store is plain
    model,      \* the embedder of the Memory that is open on it
    deks,       \* data keys generated so far
    keyfile,    \* ~/.basemyai/key
    acked,      \* entries acknowledged
    owners      \* keys one of which must open it; none where the store is foreign

proc == <<pc, key, next, dek, model>>
vars == <<dir, disks, proc, deks, keyfile, acked, owners>>

None == <<>>
Some(v) == <<v>>
Keys == Passphrases \cup {NoKey}

(* --------------------------- the directory ----------------------------- *)
Torn == "torn"                          \* a metadata file that is not whole
Wrap(k, d) == [key |-> k, dek |-> d]    \* crypto.meta: d wrapped under k
TornWrap == Wrap(Blank, 0)

Fresh == [store |-> "none", storeTmp |-> "none", crypto |-> None, cryptoTmp |-> None,
          wal |-> None, sst |-> None]
Holds(d) == d.wal # None \/ d.sst # None
Content(file) == IF file = None THEN {} ELSE file[1].has
SealedWith(d, k) == \A f \in {d.wal, d.sst} \ {None} : f[1].has # {} => f[1].dek = k

(* What is found where a store is opened: nothing, a store of the first    *)
(* generation (no store.meta), one of a later one, or a plain store.       *)
Old == [Fresh EXCEPT !.wal = Some([dek |-> 0, has |-> {Datum}])]
Found == {Fresh, Old, [Old EXCEPT !.store = "other"], [Old EXCEPT !.store = "ok"]}

Init ==
    /\ dir \in Found /\ disks = {dir}
    /\ pc = "closed" /\ key = NoKey /\ next = NoKey /\ dek = 0 /\ model = None /\ deks = 0
    /\ keyfile = None
    /\ acked = Content(dir.wal)
    /\ owners = IF dir = Fresh THEN Keys ELSE IF dir.store = "ok" THEN {NoKey} ELSE {}

(* A change is seen at once and reaches the disk by the next sync, which   *)
(* takes every earlier change with it: the names of files change on disk   *)
(* in the order they were changed in (a journaled file system).            *)
Change(d) == dir' = d /\ disks' = disks \cup {d}
Sync == dir' = dir /\ disks' = {dir}
Owners == IF key = NoKey THEN {NoKey} ELSE {key, next} \ {NoKey}
Kept == UNCHANGED <<dir, disks>>

(* ------------------------------- the key ------------------------------- *)
(* EncryptionKey::resolve: the first source that names a key; a file that  *)
(* is named or mounted and has no key in it is an error, not a reason to   *)
(* look further.                                                           *)
Given(source) == source \notin {None, Some(Blank)}
First(sources, skipped) ==
    LET I == {i \in DOMAIN sources : sources[i] \notin skipped}
    IN IF I = {} THEN None ELSE sources[CHOOSE i \in I : \A j \in I : i <= j]

Resolve(direct, files) ==
    LET set == First(direct, {None, Some(Blank)})
        named == First(files, {None})
    IN IF set # None THEN set ELSE IF Given(named) THEN named ELSE None

(* config key generate: the file is emptied, then written; it is never     *)
(* replaced without --force.                                               *)
PersistKey(k, force) ==
    /\ keyfile = None \/ force
    /\ keyfile' \in {Some(k), Some(Blank)}      \* killed before the write
GenerateKey(k, force) ==
    /\ pc = "closed" /\ PersistKey(k, force)
    /\ UNCHANGED <<dir, disks, proc, deks, acked, owners>>

(* -------------------------------- open --------------------------------- *)
Refuse ==
    /\ pc' = "closed" /\ key' = NoKey /\ next' = NoKey /\ dek' = 0 /\ model' = None
    /\ UNCHANGED <<deks, keyfile, acked, owners>>
Goto(step) == pc' = step /\ UNCHANGED <<key, next, dek, model, deks, keyfile, acked, owners>>

(* A command takes its key from the sources (an explicit or environment    *)
(* one, then the files); a test build may open without a key.              *)
Start(k) == pc = "closed" /\ pc' = "store" /\ key' = k
            /\ UNCHANGED <<dir, disks, next, dek, model, deks, keyfile, acked, owners>>
StartCommand(env) ==
    LET k == Resolve(<<env>>, <<keyfile>>)
    IN k # None /\ Start(k[1])
StartPlain == Start(NoKey)

CheckStoreMeta ==
    /\ pc = "store" /\ Kept
    /\ IF dir.store = "ok" THEN Goto("crypto")
       ELSE IF dir.store = "none" /\ ~Holds(dir) THEN Goto("store_tmp")
       ELSE Refuse

(* tmp, fsync, rename, for store.meta and for crypto.meta.                 *)
WriteStoreTmp ==
    /\ pc = "store_tmp" /\ Goto("store_sync")
    /\ dir' = [dir EXCEPT !.storeTmp = "ok"]
    /\ disks' = disks \cup {dir', [dir EXCEPT !.storeTmp = Torn]}
SyncStoreTmp == pc = "store_sync" /\ Goto("store_rename") /\ Sync
RenameStore ==
    /\ pc = "store_rename" /\ Goto("crypto")
    /\ Change([dir EXCEPT !.store = dir.storeTmp, !.storeTmp = "none"])

NewDek == deks' = deks + 1 /\ dek' = deks'

\* crypto.meta makes the store a sealed one: with it a key is needed, and the
\* right one; without it a key makes a new store only where no data is.
OpenMeta ==
    /\ pc = "crypto" /\ key # NoKey /\ dir.crypto # None /\ Kept
    /\ IF dir.crypto[1] # TornWrap /\ dir.crypto[1].key = key
       THEN /\ dek' = dir.crypto[1].dek /\ pc' = "scan"
            /\ UNCHANGED <<key, next, model, deks, keyfile, acked, owners>>
       ELSE Refuse
MissingKey == pc = "crypto" /\ key = NoKey /\ dir.crypto # None /\ Kept /\ Refuse
PlainSupplied == pc = "crypto" /\ key # NoKey /\ dir.crypto = None /\ Holds(dir) /\ Kept /\ Refuse
OpenPlain == pc = "crypto" /\ key = NoKey /\ dir.crypto = None /\ Kept /\ Goto("scan")
CreateMeta ==
    /\ pc = "crypto" /\ key # NoKey /\ dir.crypto = None /\ ~Holds(dir)
    /\ deks < MaxDeks
    /\ NewDek /\ next' = key /\ pc' = "crypto_tmp"
    /\ owners' = {key}
    /\ Kept /\ UNCHANGED <<key, model, keyfile, acked>>

\* write_meta: the data key of the process wrapped under the key to come.
WriteMetaTmp ==
    /\ pc = "crypto_tmp" /\ Goto("crypto_sync")
    /\ dir' = [dir EXCEPT !.cryptoTmp = Some(Wrap(next, dek))]
    /\ disks' = disks \cup {dir', [dir EXCEPT !.cryptoTmp = Some(TornWrap)]}
SyncMetaTmp ==
    /\ pc = "crypto_sync" /\ pc' = "crypto_rename" /\ Sync
    /\ owners' = Owners
    /\ UNCHANGED <<key, next, dek, model, deks, keyfile, acked>>
RenameMeta ==
    /\ pc = "crypto_rename"
    /\ Change([dir EXCEPT !.crypto = dir.cryptoTmp, !.cryptoTmp = None])
    /\ pc' = IF dir.crypto = None THEN "scan" ELSE "idle"
    /\ key' = next /\ next' = NoKey
    /\ UNCHANGED <<dek, model, deks, keyfile, acked, owners>>

(* scan_existing opens every file under the data key, the log is created   *)
(* where there is none and replayed; what is sealed with another fails.    *)
Scan ==
    /\ pc = "scan"
    /\ IF ~SealedWith(dir, dek) THEN Kept /\ Refuse
       ELSE IF dir.wal # None THEN Kept /\ Goto("container")
       ELSE /\ Change([dir EXCEPT !.wal = Some([dek |-> dek, has |-> {}])])
            /\ pc' = "container" /\ owners' = IF dir.sst = None THEN {key} ELSE owners
            /\ UNCHANGED <<key, next, dek, model, deks, keyfile, acked>>

(* ------------------------------ an open store -------------------------- *)
Entries(d) == Content(d.wal) \cup Content(d.sst)

(* A put: one record in the log, synced before it is acknowledged.         *)
Put(name) ==
    /\ dir' = [dir EXCEPT !.wal = Some([dek |-> dek, has |-> @[1].has \cup {name}])]
    /\ \/ disks' = {dir'} /\ acked' = acked \cup {name} /\ owners' = Owners
       \/ disks' = disks \cup {dir'} /\ UNCHANGED <<acked, owners>>  \* sync fails
    /\ UNCHANGED <<deks, keyfile>>

\* The store is dropped: what opens it returns the error of a put.
Dropped == pc' = "closed" /\ key' = NoKey /\ next' = NoKey /\ dek' = 0 /\ model' = None

\* (Faulty: the entries are written only where there is none yet.)
ContainerFirstTime ==
    /\ pc = "container"
    /\ IF Entries(dir) \cap Names # {} THEN Kept /\ Goto("idle")
       ELSE Put(CHOOSE n \in Names : TRUE) /\ UNCHANGED proc

\* ensure_container_meta: each entry that is not there is put, one by one.
Container ==
    /\ pc = "container"
    /\ LET missing == Names \ Entries(dir)
       IN IF missing = {} THEN Kept /\ Goto("idle")
          ELSE /\ Put(CHOOSE n \in missing : TRUE)
               /\ IF acked' = acked THEN Dropped ELSE UNCHANGED proc

(* ensure_embedding_contract, where a Memory is opened on the store: the   *)
(* first embedder signs (meta_ensure),                                     *)
Signed == {m \in Models : Named(m) \in Entries(dir)}
EnsureModel(m) ==
    /\ pc = "idle" /\ model = None
    /\ IF Signed # {}
       THEN Kept /\ pc' = "contract" /\ model' = Some(m)
            /\ UNCHANGED <<key, next, dek, deks, keyfile, acked, owners>>
       ELSE /\ Put(Named(m))
            /\ IF acked' = acked THEN Dropped
               ELSE pc' = "contract" /\ model' = Some(m) /\ UNCHANGED <<key, next, dek>>

\* (Faulty: only the dimension is compared.)
CheckDimension ==
    /\ pc = "contract" /\ Kept
    /\ IF model[1] \in Fitting THEN Goto("idle") ELSE Refuse

\* and another embedder, or one of another dimension, is turned away.
CheckContract ==
    /\ pc = "contract" /\ Kept
    /\ IF model[1] \in Signed \cap Fitting THEN Goto("idle") ELSE Refuse

Client ==
    /\ pc = "idle" /\ model # None /\ Put(Memory(model[1])) /\ UNCHANGED proc

\* A flush: the file first, then the log is emptied (Engine has the steps).
Flush ==
    /\ pc = "idle" /\ Content(dir.wal) # {}
    /\ dir' = [dir EXCEPT !.sst = Some([dek |-> dek, has |-> Entries(dir)]),
                          !.wal = Some([dek |-> dek, has |-> {}])]
    /\ disks' = {dir'} /\ owners' = Owners
    /\ UNCHANGED <<proc, deks, keyfile, acked>>

\* (Faulty: a new data key is made on the way.)
StartRotateAnew(k) ==
    /\ pc = "idle" /\ dek # 0 /\ deks < MaxDeks
    /\ next' = k /\ pc' = "crypto_tmp" /\ NewDek
    /\ owners' = owners \cup {k}
    /\ Kept /\ UNCHANGED <<key, model, keyfile, acked>>

\* rotate_key, refused on a plain store.
StartRotate(k) ==
    /\ pc = "idle" /\ dek # 0
    /\ next' = k /\ pc' = "crypto_tmp"
    /\ owners' = owners \cup {k}
    /\ Kept /\ UNCHANGED <<key, dek, model, deks, keyfile, acked>>

\* rotate-key: to the key it is given, as it is, or to the one it resolves.
RotateCommand(given, env) ==
    LET k == IF given # None THEN given ELSE Resolve(<<env>>, <<keyfile>>)
    IN k # None /\ StartRotate(k[1])

Close == pc = "idle" /\ Kept /\ Refuse

(* ------------------------------- failures ------------------------------ *)
(* An I/O error: an open fails, a rotation returns to the open store under *)
(* the data key it holds.                                                  *)
IoError ==
    /\ pc \in {"store_tmp", "store_sync", "store_rename", "crypto_tmp", "crypto_sync", "crypto_rename"}
    /\ Kept
    /\ IF next # NoKey /\ dir.crypto # None
       THEN pc' = "idle" /\ next' = NoKey /\ UNCHANGED <<key, dek, model, deks, keyfile, acked, owners>>
       ELSE Refuse

Kill == pc # "closed" /\ Kept /\ Refuse
PowerLoss ==
    /\ dir' \in disks /\ disks' = {dir'}
    /\ Refuse

OpenStep ==
    \/ CheckStoreMeta \/ WriteStoreTmp \/ SyncStoreTmp \/ RenameStore
    \/ OpenMeta \/ MissingKey \/ PlainSupplied \/ OpenPlain \/ CreateMeta
    \/ WriteMetaTmp \/ SyncMetaTmp \/ RenameMeta
    \/ Scan \/ Container \/ CheckContract

NewKeys == {Some(k) : k \in Passphrases}

Next ==
    \/ \E k \in Passphrases, force \in BOOLEAN : GenerateKey(k, force)
    \/ \E env \in {None, Some(Blank)} \cup NewKeys : StartCommand(env)
    \/ StartPlain
    \/ OpenStep
    \/ \E m \in Models : EnsureModel(m)
    \/ Client \/ Flush
    \/ \E new \in {None} \cup NewKeys, env \in {None} \cup NewKeys : RotateCommand(new, env)
    \/ Close
    \/ IoError \/ Kill \/ PowerLoss

Spec == Init /\ [][Next]_vars

(* ----------------------------- properties ------------------------------ *)
(* What opening an image with a key leads to, all steps taken.             *)
OpensWith(d, k) ==
    /\ d.store = "ok" \/ (d.store = "none" /\ ~Holds(d))
    /\ CASE d.crypto # None -> d.crypto[1].key = k /\ d.crypto[1] # TornWrap /\ SealedWith(d, d.crypto[1].dek)
         [] d.crypto = None /\ k # NoKey -> ~Holds(d)
         [] OTHER -> SealedWith(d, 0)

(* Whatever power loss or kill comes, while a store is created, written to *)
(* or rotated: what was acknowledged is still there and opens with the key *)
(* it was made with, or after a rotation that is not on disk yet with the  *)
(* old or the new one; a store that is half made can be made again.        *)
AlwaysOpens ==
    \A d \in disks \cup {dir} :
        /\ acked \subseteq Entries(d)
        /\ owners = {} \/ \E k \in owners : OpensWith(d, k)

(* A store that was opened has all the entries of its container, also when *)
(* an earlier open was stopped between two of them; and whatever embedders *)
(* it was opened with, and wherever that was stopped, all its vectors are  *)
(* of the one embedder it names.                                           *)
ContainerWhole ==
    /\ pc = "idle" => Names \subseteq Entries(dir)
    /\ \A d \in disks \cup {dir}, m \in Models :
          Memory(m) \in Entries(d) => \A n \in Models : Named(n) \in Entries(d) <=> n = m
=============================================================================
