--------------------------- MODULE AgentMemoryProofs ---------------------------
(***************************************************************************)
(* Theorems about AgentMemory, for any tasks, memories, capacities and     *)
(* page sizes: what each call relies on of what the others do between two  *)
(* of its steps, and what holds because of it.                             *)
(***************************************************************************)
EXTENDS AgentMemory, FiniteSetTheorems, WellFoundedInduction, TLAPS

-----------------------------------------------------------------------------
(* The invariant.  What is said of a task's call is said of a clock c,     *)
(* memories m and ids b that were given, those of now or of the next state.*)

PresentIn(m)   == {i \in Ids : m[i] # Absent}
ActiveIn(m, t) == {i \in PresentIn(m) : ValidAt(m[i], t)}

\* Memory i is gone, or its validity has ended at t.
EndedIn(m, i, t) == m[i] # Absent => m[i].until # Forever /\ m[i].until <= t

StoreOk(c, m, b) ==
    /\ c \in Times /\ m \in [Ids -> Record \cup {Absent}]
    /\ \A i \in PresentIn(m) : m[i].from <= c
    /\ PresentIn(m) \subseteq b /\ b \subseteq Ids

Has(l, fields) == fields \subseteq DOMAIN l

Recalls   == {"search", "rank_vector", "rank_keyword", "hydrate", "touch"}
Selecting == {"select", "offer", "selected"}
Removals  == {"layer_of", "remove", "emit"}

\* A recall has found nothing of what had ended when it began.
RecallOk(l, c, m, b) ==
    /\ Has(l, {"at", "now", "since"}) /\ l.now \in 0 .. c
    /\ l.since \subseteq b /\ \A i \in l.since : EndedIn(m, i, l.now)
    /\ l.at \in {"rank_keyword", "hydrate", "touch"} =>
          Has(l, {"ids"}) /\ l.ids \cap l.since = {}

\* A pass of adaptive forgetting: who was active when it began and is still, is
\* so at its own time.
PassOk(l, c, m, b) ==
    /\ Has(l, {"at", "now", "capacity", "cursor", "started"})
    /\ l.now \in 0 .. c /\ l.capacity \in Nat /\ l.cursor \in Nat
    /\ l.started \subseteq b /\ l.started \cap ActiveIn(m, c) \subseteq ActiveIn(m, l.now)

Candidates == [id : Ids, importance : Int, recency : Int]

\* The heap is the best of what was offered; the rest of the page is none of that.
Best(heap, offered, capacity) ==
    /\ IsFiniteSet(heap) /\ heap \subseteq offered
    /\ \/ heap = offered /\ Cardinality(heap) <= capacity
       \/ /\ Cardinality(heap) = capacity
          /\ \A c \in offered \ heap : \A s \in heap : Stronger(s, c)

SelectOk(l) ==
    /\ Has(l, {"heap", "offered", "page", "short"})
    /\ l.offered \cup l.page \subseteq Candidates
    /\ \A c \in l.offered \cup l.page : c.id <= l.cursor
    /\ \A c, d \in l.offered \cup l.page : c.id = d.id => c = d
    /\ l.at = "offer" => l.offered \cap l.page = {}
    /\ Best(l.heap, l.offered, l.capacity)

\* Whom a pass that removes has spared so far, or is about to remove.
Seen(l) == l.survivors \cup (IF l.at \in {"layer_of", "remove"} THEN l.victims ELSE {})

\* Of those active since it began, whoever it is past is spared or removed.
EvictOk(l, c, m) ==
    /\ Has(l, {"survivors"}) /\ IsFiniteSet(l.survivors) /\ Cardinality(l.survivors) <= l.capacity
    /\ \A i \in l.started \cap ActiveIn(m, c) : i <= l.cursor \/ (l.at # "evict" /\ l.last) => i \in Seen(l)

\* A removal knows which of its victims are still there.
RemovalOk(l, c, m, b) ==
    /\ Has(l, {"at", "job", "victims", "left", "existing", "last"})
    /\ l.job \in {"forget", "evict", "collect"} /\ l.last \in BOOLEAN /\ (l.job = "forget" => l.last)
    /\ l.victims \subseteq b /\ l.left \cup l.existing \subseteq l.victims
    /\ l.at = "layer_of" => (l.victims \ l.left) \cap PresentIn(m) \subseteq l.existing
    /\ l.at = "remove"   => l.victims \cap PresentIn(m) \subseteq l.existing
    /\ l.at = "emit"     => l.victims \cap PresentIn(m) = {}
    /\ l.job = "collect" => /\ Has(l, {"now", "cursor"}) /\ l.now \in 0 .. c
                            /\ l.victims \cap ActiveIn(m, c) = {}

TaskOk(l, c, m, b) ==
    /\ l.at \in {"idle", "put", "invalidate", "evict", "collect"} \cup Recalls \cup Selecting \cup Removals
    /\ Has(l, {"at"})
    /\ l.at = "put" => Has(l, {"now"}) /\ l.now \in 0 .. c
    /\ l.at = "invalidate" => Has(l, {"id", "start"}) /\ l.id \in b /\ l.start \in 0 .. c
    /\ l.at \in Recalls => RecallOk(l, c, m, b)
    /\ l.at \in Selecting => PassOk(l, c, m, b) /\ SelectOk(l)
    /\ l.at = "evict" \/ (l.at \in Removals /\ l.job = "evict") => PassOk(l, c, m, b) /\ EvictOk(l, c, m)
    /\ l.at \in Removals => RemovalOk(l, c, m, b)
    /\ l.at = "collect" => Has(l, {"at", "now", "cursor"}) /\ l.now \in 0 .. c

\* What is gone was announced, or will be by a task that knows of it.
AnnouncedIn(m, b, f, s, loc) ==
    /\ f \subseteq b /\ s \subseteq b /\ f \cap PresentIn(m) = {}
    /\ \A i \in b \ PresentIn(m) :
          i \in f \cup s \/ \E p \in Tasks : loc[p].at = "emit" /\ i \in loc[p].existing

MemInv ==
    /\ StoreOk(clock, mem, born)
    /\ local = [p \in Tasks |-> local[p]]
    /\ \A p \in Tasks : TaskOk(local[p], clock, mem, born)
    /\ AnnouncedIn(mem, born, forgotten, silent, local)

\* What a task relies on of the steps of the others: no memory comes back, a
\* validity only closes, and but for those of R none that is closed is changed.
Evolves(c, m, b, d, n, e, R) ==
    /\ c <= d /\ b \subseteq e
    /\ \A i \in b : n[i] # Absent =>
          /\ m[i] # Absent /\ n[i].from = m[i].from
          /\ n[i].until = m[i].until \/ (n[i].until # Forever /\ n[i].until <= d)
          /\ i \in R \/ m[i].until = Forever \/ n[i].until = m[i].until

-----------------------------------------------------------------------------
(* Pages. *)

\* A nonempty set of naturals has a least element.
LEMMA LeastExists ==
    ASSUME NEW S \in SUBSET Nat, S # {}
    PROVE  \E i \in S : \A j \in S : i <= j
<1>1. PICK x \in S : \A y \in S : ~(<<y, x>> \in OpToRel(<, Nat))
  BY NatLessThanWellFounded, WFMin, Zenon
<1>2. \A y \in S : ~(y < x)
  BY <1>1 DEF OpToRel
<1>3. \A y \in S : x \in Nat /\ y \in Nat
  OBVIOUS
<1>4. \A y \in S : x <= y
  BY <1>2, <1>3
<1> QED BY <1>4

\* A nonempty set of ids has a greatest element.
LEMMA GreatestIs ==
    ASSUME NEW P \in SUBSET Ids, P # {}
    PROVE  Greatest(P) \in P /\ \A j \in P : j <= Greatest(P)
<1> DEFINE T == {k \in Nat : NumIds - k \in P}
<1>1. PICK i \in P : TRUE
  OBVIOUS
<1>2. i \in 1 .. NumIds /\ NumIds \in Nat
  BY AgentMemoryAssumption DEF Ids
<1>3. NumIds - i \in T
  <2>1. NumIds - i \in Nat /\ NumIds - (NumIds - i) = i
    BY <1>2
  <2> QED BY <1>1, <2>1
<1>4. PICK k \in T : \A h \in T : k <= h
  <2>1. T \in SUBSET Nat /\ T # {}
    BY <1>3
  <2> HIDE DEF T
  <2> QED BY <2>1, LeastExists
<1>5. \A j \in P : j <= NumIds - k
  <2> TAKE j \in P
  <2>1. j \in 1 .. NumIds
    BY DEF Ids
  <2>2. NumIds - j \in T
    <3>1. NumIds - j \in Nat /\ NumIds - (NumIds - j) = j
      BY <1>2, <2>1
    <3> QED BY <3>1
  <2>3. k <= NumIds - j /\ k \in Nat
    BY <1>4, <2>2
  <2> QED BY <1>2, <2>1, <2>3
<1>6. \E x \in P : \A j \in P : j <= x
  BY <1>4, <1>5
<1> QED BY <1>6 DEF Greatest

\* A page has the next of S after the cursor, and all of them if it is short.
LEMMA PageIs ==
    ASSUME NEW S \in SUBSET Ids, NEW cursor \in Nat, NEW P, P = Page(S, cursor)
    PROVE  /\ P \subseteq S /\ \A i \in P : i > cursor
           /\ P # {} => /\ Greatest(P) \in P /\ \A i \in P : i <= Greatest(P)
                        /\ \A i \in S : i > cursor /\ i <= Greatest(P) => i \in P
           /\ Cardinality(P) < PageSize => \A i \in S : i > cursor => i \in P
<1> DEFINE rest == {i \in S : i > cursor}
           Below(i) == {j \in rest : j < i}
<1>1. P = {i \in rest : Cardinality(Below(i)) < PageSize}
  BY DEF Page
<1>2. PageSize \in Nat /\ Ids \subseteq Nat /\ IsFiniteSet(Ids)
  BY AgentMemoryAssumption, FS_Interval DEF Ids
<1>3. IsFiniteSet(rest) /\ rest \subseteq Nat
  BY <1>2, FS_Subset
<1>4. \A i : IsFiniteSet(Below(i)) /\ Cardinality(Below(i)) \in Nat
  BY <1>3, FS_Subset, FS_CardinalityType
<1>5. P \subseteq S /\ P \subseteq rest /\ \A i \in P : i > cursor
  BY <1>1
<1>6. ASSUME P # {}
      PROVE  /\ Greatest(P) \in P /\ \A i \in P : i <= Greatest(P)
             /\ \A i \in S : i > cursor /\ i <= Greatest(P) => i \in P
  <2>1. Greatest(P) \in P /\ \A i \in P : i <= Greatest(P)
    BY <1>5, <1>6, GreatestIs
  <2>2. ASSUME NEW i \in S, i > cursor, i <= Greatest(P) PROVE i \in P
    <3>1. Below(i) \subseteq Below(Greatest(P))
      BY <1>2, <1>3, <1>5, <2>1, <2>2
    <3>2. Cardinality(Below(i)) <= Cardinality(Below(Greatest(P)))
      BY <1>4, <3>1, FS_Subset
    <3>3. Cardinality(Below(Greatest(P))) < PageSize
      BY <1>1, <2>1
    <3>4. Cardinality(Below(i)) < PageSize
      BY <1>2, <1>4, <3>2, <3>3
    <3>5. i \in rest
      BY <2>2
    <3> HIDE DEF rest, Below
    <3> QED BY <1>1, <3>4, <3>5
  <2> QED BY <2>1, <2>2
<1>7. ASSUME Cardinality(P) < PageSize, NEW x \in rest, x \notin P
      PROVE  FALSE
  <2>1. PICK i \in rest \ P : \A j \in rest \ P : i <= j
    BY <1>3, <1>7, LeastExists
  <2>2. Below(i) \subseteq P
    BY <1>3, <2>1
  <2>3. IsFiniteSet(P) /\ Cardinality(P) \in Nat
    BY <1>3, <1>5, FS_Subset, FS_CardinalityType
  <2> HIDE DEF rest, Below
  <2>4. Cardinality(Below(i)) <= Cardinality(P)
    BY <2>2, <2>3, FS_Subset
  <2>5. Cardinality(Below(i)) < PageSize
    BY <1>2, <1>4, <1>7, <2>3, <2>4
  <2> QED BY <1>1, <2>1, <2>5
<1>8. Cardinality(P) < PageSize => \A i \in S : i > cursor => i \in P
  BY <1>7
<1> HIDE DEF rest, Below
<1> QED BY ONLY <1>5, <1>6, <1>8

-----------------------------------------------------------------------------
(* What a task relies on. *)

\* The records have their types.
LEMMA Records ==
    ASSUME NEW c, NEW m, NEW b, StoreOk(c, m, b), NEW i \in PresentIn(m)
    PROVE  /\ m[i].from \in Int /\ m[i].from <= c /\ c \in Int /\ i \in b /\ i \in Ids
           /\ m[i].until = Forever \/ m[i].until \in Int
           /\ m[i].importance \in Int /\ m[i].access \in Int
<1>1. m[i] \in Record
  BY DEF StoreOk, PresentIn
<1>2. m[i].from \in Times /\ m[i].until \in Times \cup {Forever} /\ m[i].importance \in Importances /\ m[i].access \in Times
  BY <1>1 DEF Record
<1>3. Times \subseteq Int /\ Importances \subseteq Int
  BY AgentMemoryAssumption DEF Times
<1>4. m[i].from <= c /\ c \in Times /\ i \in b /\ i \in Ids
  BY DEF StoreOk, PresentIn
<1> QED BY <1>2, <1>3, <1>4

\* Of the memories there were, no other is there, and none is active that was not.
LEMMA Shrinks ==
    ASSUME NEW c, NEW m, NEW b, StoreOk(c, m, b), NEW d, NEW n, NEW e, StoreOk(d, n, e),
           NEW R, Evolves(c, m, b, d, n, e, R), NEW i \in b
    PROVE  /\ i \in PresentIn(n) => i \in PresentIn(m)
           /\ i \in ActiveIn(n, d) => i \in ActiveIn(m, c)
           /\ \A t \in Int : i \in ActiveIn(n, d) /\ i \in ActiveIn(m, t) => i \in ActiveIn(n, t)
<1>1. i \in PresentIn(n) => i \in PresentIn(m)
  BY DEF Evolves, PresentIn
<1>2. ASSUME i \in ActiveIn(n, d)
      PROVE  /\ n[i].until = m[i].until /\ n[i].from = m[i].from
             /\ i \in PresentIn(n) /\ i \in PresentIn(m) /\ ValidAt(n[i], d)
  <2>1. i \in PresentIn(n) /\ ValidAt(n[i], d)
    BY <1>2 DEF ActiveIn
  <2>2. n[i].until = Forever \/ (n[i].until \in Int /\ d \in Int /\ d < n[i].until)
    BY <2>1, Records DEF ValidAt
  <2>3. n[i].until = m[i].until
    BY <2>1, <2>2 DEF Evolves, PresentIn
  <2> QED BY <1>1, <2>1, <2>3 DEF Evolves, PresentIn
<1>3. i \in ActiveIn(n, d) => i \in ActiveIn(m, c)
  <2> SUFFICES ASSUME i \in ActiveIn(n, d) PROVE i \in ActiveIn(m, c)
    OBVIOUS
  <2>1. c <= d
    BY DEF Evolves
  <2>2. m[i].from <= c /\ c \in Int /\ d \in Int /\ (m[i].until = Forever \/ m[i].until \in Int)
    BY <1>2, Records
  <2>3. m[i].until = Forever \/ d < m[i].until
    BY <1>2 DEF ValidAt
  <2>4. ValidAt(m[i], c)
    BY <2>1, <2>2, <2>3 DEF ValidAt
  <2> QED BY <1>2, <2>4 DEF ActiveIn
<1>4. \A t \in Int : i \in ActiveIn(n, d) /\ i \in ActiveIn(m, t) => i \in ActiveIn(n, t)
  BY <1>2 DEF ActiveIn, ValidAt
<1> QED BY <1>1, <1>3, <1>4

\* What the others do between two of its steps leaves what is said of a task true.
LEMMA Relies ==
    ASSUME NEW c, NEW m, NEW b, StoreOk(c, m, b), NEW d, NEW n, NEW e, StoreOk(d, n, e),
           NEW R, Evolves(c, m, b, d, n, e, R),
           NEW l, TaskOk(l, c, m, b), l.at \in Recalls => l.since \cap R = {}
    PROVE  TaskOk(l, d, n, e)
<1>1. c \in Nat /\ d \in Nat /\ c <= d /\ b \subseteq e /\ \A x \in 0 .. c : x \in 0 .. d /\ x \in Int
  BY AgentMemoryAssumption DEF Evolves, StoreOk, Times
<1>2. \A i \in b : /\ i \in PresentIn(n) => i \in PresentIn(m)
                   /\ i \in ActiveIn(n, d) => i \in ActiveIn(m, c)
                   /\ \A t \in Int : i \in ActiveIn(n, d) /\ i \in ActiveIn(m, t) => i \in ActiveIn(n, t)
  BY Shrinks
<1>3. ASSUME l.at \in Recalls, RecallOk(l, c, m, b)
      PROVE  RecallOk(l, d, n, e)
  <2>1. l.since \subseteq b /\ l.since \cap R = {}
    BY <1>3 DEF RecallOk
  <2>2. \A i \in l.since : EndedIn(m, i, l.now) => EndedIn(n, i, l.now)
    BY <2>1 DEF EndedIn, Evolves
  <2> QED BY <1>1, <1>3, <2>2 DEF RecallOk
<1>4. PassOk(l, c, m, b) => PassOk(l, d, n, e)
  BY <1>1, <1>2 DEF PassOk
<1>5. PassOk(l, c, m, b) /\ EvictOk(l, c, m) => EvictOk(l, d, n)
  BY <1>2 DEF PassOk, EvictOk
<1>6. RemovalOk(l, c, m, b) => RemovalOk(l, d, n, e)
  <2> SUFFICES ASSUME RemovalOk(l, c, m, b) PROVE RemovalOk(l, d, n, e)
    OBVIOUS
  <2>1. l.victims \subseteq b
    BY DEF RemovalOk
  <2>2. \A S : S \subseteq b => S \cap PresentIn(n) \subseteq S \cap PresentIn(m)
               /\ S \cap ActiveIn(n, d) \subseteq S \cap ActiveIn(m, c)
    BY <1>2
  <2>3. l.at = "layer_of" => (l.victims \ l.left) \cap PresentIn(n) \subseteq l.existing
    BY <2>1, <2>2 DEF RemovalOk
  <2>4. l.at = "remove" => l.victims \cap PresentIn(n) \subseteq l.existing
    BY <2>1, <2>2 DEF RemovalOk
  <2>5. l.at = "emit" => l.victims \cap PresentIn(n) = {}
    BY <2>1, <2>2 DEF RemovalOk
  <2>6. l.job = "collect" => l.now \in 0 .. d /\ l.victims \cap ActiveIn(n, d) = {}
    BY <1>1, <2>1, <2>2 DEF RemovalOk
  <2> QED BY <1>1, <2>1, <2>3, <2>4, <2>5, <2>6 DEF RemovalOk
<1> QED BY <1>1, <1>3, <1>4, <1>5, <1>6 DEF TaskOk

-----------------------------------------------------------------------------
(* Calls. *)

\* Active and Present are those of the memories of now.
LEMMA Now ==
    /\ Present = PresentIn(mem) /\ \A t : Active(t) = ActiveIn(mem, t)
    /\ \A i \in Ids : i \in PresentIn(mem) <=> mem[i] # Absent
BY DEF Present, PresentIn, Active, ActiveIn

\* A task that is not in a call, and those in a call of one kind.
LEMMA Tasked ==
    ASSUME NEW l, NEW c, NEW m, NEW b
    PROVE  /\ l.at = "idle" /\ Has(l, {"at"}) => TaskOk(l, c, m, b)
           /\ l.at = "put" /\ Has(l, {"at", "now"}) /\ l.now \in 0 .. c => TaskOk(l, c, m, b)
           /\ l.at = "invalidate" /\ Has(l, {"at", "id", "start"}) /\ l.id \in b /\ l.start \in 0 .. c
              => TaskOk(l, c, m, b)
           /\ l.at \in Recalls /\ RecallOk(l, c, m, b) => TaskOk(l, c, m, b)
           /\ l.at \in Selecting /\ PassOk(l, c, m, b) /\ SelectOk(l) => TaskOk(l, c, m, b)
           /\ l.at = "evict" /\ PassOk(l, c, m, b) /\ EvictOk(l, c, m) => TaskOk(l, c, m, b)
           /\ /\ l.at \in Removals /\ RemovalOk(l, c, m, b)
              /\ l.job = "evict" => PassOk(l, c, m, b) /\ EvictOk(l, c, m)
              => TaskOk(l, c, m, b)
           /\ l.at = "collect" /\ Has(l, {"at", "now", "cursor"}) /\ l.now \in 0 .. c => TaskOk(l, c, m, b)
BY DEF TaskOk, Recalls, Selecting, Removals, RecallOk, PassOk, RemovalOk, Has

\* And what is known of it there.
LEMMA TaskIs ==
    ASSUME NEW l, NEW c, NEW m, NEW b, TaskOk(l, c, m, b)
    PROVE  /\ l.at \in Recalls => RecallOk(l, c, m, b)
           /\ l.at \in Selecting => PassOk(l, c, m, b) /\ SelectOk(l)
           /\ l.at = "evict" => PassOk(l, c, m, b) /\ EvictOk(l, c, m)
           /\ l.at \in Removals => /\ RemovalOk(l, c, m, b)
                                   /\ l.job = "evict" => PassOk(l, c, m, b) /\ EvictOk(l, c, m)
BY DEF TaskOk, Recalls, Selecting, Removals

\* A step of one task that changes nothing but what it remembers.
LEMMA LocalStep ==
    ASSUME MemInv, NEW p \in Tasks, NEW r, Goes(p, r), UNCHANGED <<clock, mem, history>>,
           local[p].at # "emit", TaskOk(r, clock, mem, born)
    PROVE  MemInv'
<1>1. /\ local = [q \in Tasks |-> local[q]] /\ local' = [local EXCEPT ![p] = r]
      /\ clock' = clock /\ mem' = mem /\ born' = born /\ forgotten' = forgotten /\ silent' = silent
  BY DEF MemInv, Goes, history
<1>2. local'[p] = r /\ \A q \in Tasks \ {p} : local'[q] = local[q]
  BY <1>1
<1>3. local' = [q \in Tasks |-> local'[q]]
  BY <1>1
<1>4. \A q \in Tasks : TaskOk(local'[q], clock', mem', born')
  BY <1>1, <1>2 DEF MemInv
<1>5. AnnouncedIn(mem', born', forgotten', silent', local')
  <2>1. \A q \in Tasks : \A i : local[q].at = "emit" /\ i \in local[q].existing =>
              q \in Tasks \ {p} /\ local'[q] = local[q]
    BY <1>2
  <2>2. AnnouncedIn(mem, born, forgotten, silent, local)
    BY DEF MemInv
  <2> QED BY <1>1, <2>1, <2>2 DEF AnnouncedIn
<1>6. StoreOk(clock', mem', born')
  BY <1>1 DEF MemInv
<1> QED BY <1>3, <1>4, <1>5, <1>6 DEF MemInv

\* The fields of Over.
LEMMA OverIs ==
    ASSUME NEW l, NEW r
    PROVE  /\ DOMAIN Over(l, r) = DOMAIN l \cup DOMAIN r
           /\ \A f \in DOMAIN l : Over(l, r)[f] = l[f]
           /\ \A f \in DOMAIN r \ DOMAIN l : Over(l, r)[f] = r[f]
BY DEF Over

\* A remember begins with the time it read.
LEMMA StartRememberStep == ASSUME MemInv, NEW p \in Tasks, StartRemember(p) PROVE MemInv'
<1> DEFINE r == [at |-> "put", now |-> clock]
<1>1. local[p].at = "idle" /\ Goes(p, r) /\ UNCHANGED <<clock, mem, history>>
  BY DEF StartRemember, At
<1>2. clock \in 0 .. clock
  BY AgentMemoryAssumption DEF MemInv, StoreOk, Times
<1>3. TaskOk(r, clock, mem, born)
  BY <1>2, Tasked DEF Has
<1> QED BY <1>1, <1>3, LocalStep

\* A recall begins: what has ended is not among its results yet.
LEMMA StartRecallStep == ASSUME MemInv, NEW p \in Tasks, StartRecall(p) PROVE MemInv'
<1> DEFINE S == {i \in Present : mem[i].until # Forever /\ mem[i].until <= clock}
<1>1. PICK place \in {"search", "rank_vector"} : Goes(p, [at |-> place, now |-> clock, since |-> S])
  BY DEF StartRecall
<1> DEFINE r == [at |-> place, now |-> clock, since |-> S]
<1>2. local[p].at = "idle" /\ Goes(p, r) /\ UNCHANGED <<clock, mem, history>>
  BY <1>1 DEF StartRecall, At
<1>3. clock \in 0 .. clock
  BY AgentMemoryAssumption DEF MemInv, StoreOk, Times
<1>4. S \subseteq born /\ \A i \in S : EndedIn(mem, i, clock)
  BY Now DEF MemInv, StoreOk, EndedIn
<1>5. r.at = place /\ r.now = clock /\ r.since = S /\ Has(r, {"at", "now", "since"})
  BY DEF Has
<1> HIDE DEF r, S
<1>6. RecallOk(r, clock, mem, born)
  BY <1>3, <1>4, <1>5 DEF RecallOk
<1>7. TaskOk(r, clock, mem, born)
  BY <1>5, <1>6, Tasked DEF Recalls
<1> QED BY <1>2, <1>7, LocalStep

\* An invalidation begins, of a memory that was created.
LEMMA StartInvalidateStep == ASSUME MemInv, NEW p \in Tasks, StartInvalidate(p) PROVE MemInv'
<1>1. PICK i \in born : Goes(p, [at |-> "invalidate", id |-> i, start |-> clock])
  BY DEF StartInvalidate
<1> DEFINE r == [at |-> "invalidate", id |-> i, start |-> clock]
<1>2. local[p].at = "idle" /\ Goes(p, r) /\ UNCHANGED <<clock, mem, history>>
  BY <1>1 DEF StartInvalidate, At
<1>3. clock \in 0 .. clock
  BY AgentMemoryAssumption DEF MemInv, StoreOk, Times
<1>4. TaskOk(r, clock, mem, born)
  BY <1>3, Tasked DEF Has
<1> QED BY <1>2, <1>4, LocalStep

\* A forget begins with one victim, to be looked up.
LEMMA StartForgetStep == ASSUME MemInv, NEW p \in Tasks, StartForget(p) PROVE MemInv'
<1>1. PICK i \in born : Goes(p, RemovalOf("forget", {i}, TRUE))
  BY DEF StartForget
<1> DEFINE r == RemovalOf("forget", {i}, TRUE)
<1>2. local[p].at = "idle" /\ Goes(p, r) /\ UNCHANGED <<clock, mem, history>>
  BY <1>1 DEF StartForget, At
<1>3. /\ r.at = "layer_of" /\ r.job = "forget" /\ r.victims = {i} /\ r.left = {i} /\ r.existing = {} /\ r.last = TRUE
      /\ Has(r, {"at", "job", "victims", "left", "existing", "last"})
  BY DEF RemovalOf, Has
<1> HIDE DEF r
<1>4. RemovalOk(r, clock, mem, born)
  BY <1>3 DEF RemovalOk
<1>5. TaskOk(r, clock, mem, born)
  BY <1>3, <1>4, Tasked DEF Removals
<1> QED BY <1>2, <1>5, LocalStep

\* A pass of adaptive forgetting begins: nothing is offered yet.
LEMMA StartForgettingStep == ASSUME MemInv, NEW p \in Tasks, StartForgetting(p) PROVE MemInv'
<1>1. PICK n \in Capacities :
          Goes(p, [at |-> "select", now |-> clock, capacity |-> n, cursor |-> 0, heap |-> {}, offered |-> {},
                   page |-> {}, short |-> FALSE, started |-> Active(clock)])
  BY DEF StartForgetting
<1> DEFINE r == [at |-> "select", now |-> clock, capacity |-> n, cursor |-> 0, heap |-> {}, offered |-> {},
                 page |-> {}, short |-> FALSE, started |-> Active(clock)]
<1>2. local[p].at = "idle" /\ Goes(p, r) /\ UNCHANGED <<clock, mem, history>>
  BY <1>1 DEF StartForgetting, At
<1>3. clock \in 0 .. clock /\ n \in Nat
  BY AgentMemoryAssumption DEF MemInv, StoreOk, Times
<1>4. /\ r.at = "select" /\ r.now = clock /\ r.capacity = n /\ r.cursor = 0 /\ r.heap = {} /\ r.offered = {}
      /\ r.page = {} /\ r.started = Active(clock)
      /\ Has(r, {"at", "now", "capacity", "cursor", "started"}) /\ Has(r, {"heap", "offered", "page", "short"})
  BY DEF Has
<1>5. Active(clock) = ActiveIn(mem, clock) /\ Active(clock) \subseteq born
  BY Now DEF MemInv, StoreOk, ActiveIn
<1> HIDE DEF r
<1>6. PassOk(r, clock, mem, born)
  BY <1>3, <1>4, <1>5 DEF PassOk
<1>7. SelectOk(r)
  <2>1. Best({}, {}, n)
    BY <1>3, FS_EmptySet DEF Best
  <2> QED BY <1>4, <2>1 DEF SelectOk
<1>8. TaskOk(r, clock, mem, born)
  BY <1>4, <1>6, <1>7, Tasked DEF Selecting
<1> QED BY <1>2, <1>8, LocalStep

\* A collection begins.
LEMMA StartCollectStep == ASSUME MemInv, NEW p \in Tasks, StartCollect(p) PROVE MemInv'
<1> DEFINE r == [at |-> "collect", now |-> clock, cursor |-> 0]
<1>1. local[p].at = "idle" /\ Goes(p, r) /\ UNCHANGED <<clock, mem, history>>
  BY DEF StartCollect, At
<1>2. clock \in 0 .. clock
  BY AgentMemoryAssumption DEF MemInv, StoreOk, Times
<1>3. r.at = "collect" /\ r.now = clock /\ Has(r, {"at", "now", "cursor"})
  BY DEF Has
<1>4. TaskOk(r, clock, mem, born)
  BY <1>2, <1>3, Tasked
<1> QED BY <1>1, <1>4, LocalStep

\* A recall that goes on with the fields of u changed stays a recall.
LEMMA RecallGoesOn ==
    ASSUME NEW c, NEW m, NEW b, NEW l, RecallOk(l, c, m, b),
           NEW u, "at" \in DOMAIN u, DOMAIN u \subseteq {"at", "ids"}, u.at \in Recalls,
           "ids" \in DOMAIN u, u.ids \cap l.since = {}
    PROVE  TaskOk(Over(u, l), c, m, b)
<1> DEFINE r == Over(u, l)
<1>1. Has(l, {"at", "now", "since"})
  BY DEF RecallOk
<1>2. /\ Has(r, {"at", "now", "since", "ids"}) /\ r.at = u.at /\ r.ids = u.ids
      /\ r.now = l.now /\ r.since = l.since
  <2>1. "now" \in DOMAIN l \ DOMAIN u /\ "since" \in DOMAIN l \ DOMAIN u
    BY <1>1 DEF Has
  <2>2. /\ DOMAIN r = DOMAIN u \cup DOMAIN l
        /\ \A f \in DOMAIN u : r[f] = u[f]
        /\ \A f \in DOMAIN l \ DOMAIN u : r[f] = l[f]
    BY OverIs, Zenon
  <2> HIDE DEF r
  <2> QED BY <2>1, <2>2 DEF Has
<1> HIDE DEF r
<1>3. RecallOk(r, c, m, b)
  BY <1>2 DEF RecallOk, Has
<1> QED BY <1>2, <1>3, Tasked DEF r

\* What ended before the call is not active at its time.
LEMMA EndedNotActive ==
    ASSUME MemInv, NEW l, RecallOk(l, clock, mem, born)
    PROVE  Active(l.now) \cap l.since = {}
<1> SUFFICES ASSUME NEW i \in Active(l.now), i \in l.since PROVE FALSE
  OBVIOUS
<1>1. i \in PresentIn(mem) /\ ValidAt(mem[i], l.now) /\ mem[i] # Absent
  BY Now DEF ActiveIn, PresentIn
<1>2. mem[i].until # Forever /\ mem[i].until <= l.now
  BY <1>1 DEF RecallOk, EndedIn
<1>3. mem[i].until \in Int /\ l.now \in Int
  BY <1>1, <1>2, Records DEF MemInv, RecallOk
<1> QED BY <1>1, <1>2, <1>3 DEF ValidAt

\* search_filtered finds none of the ended.
LEMMA SearchStep == ASSUME MemInv, NEW p \in Tasks, Search(p) PROVE MemInv'
<1>1. PICK R \in SUBSET Active(local[p].now) : Then(p, [at |-> "touch", ids |-> R])
  BY DEF Search
<1> DEFINE u == [at |-> "touch", ids |-> R]
<1>2. /\ local[p].at = "search" /\ Goes(p, Over(u, local[p])) /\ UNCHANGED <<clock, mem, history>>
  BY <1>1 DEF Search, At, Then
<1>3. RecallOk(local[p], clock, mem, born)
  BY <1>2, TaskIs DEF MemInv, Recalls
<1>4. R \cap local[p].since = {}
  BY <1>3, EndedNotActive
<1>5. TaskOk(Over(u, local[p]), clock, mem, born)
  BY <1>3, <1>4, RecallGoesOn DEF Recalls
<1> QED BY <1>2, <1>5, LocalStep

\* Nor does the first ranking.
LEMMA RankVectorStep == ASSUME MemInv, NEW p \in Tasks, RankVector(p) PROVE MemInv'
<1> DEFINE u == [at |-> "rank_keyword", ids |-> Active(local[p].now)]
<1>2. /\ local[p].at = "rank_vector" /\ Goes(p, Over(u, local[p])) /\ UNCHANGED <<clock, mem, history>>
  BY DEF RankVector, At, Then
<1>3. RecallOk(local[p], clock, mem, born)
  BY <1>2, TaskIs DEF MemInv, Recalls
<1>4. u.ids \cap local[p].since = {}
  BY <1>3, EndedNotActive
<1>5. TaskOk(Over(u, local[p]), clock, mem, born)
  BY <1>3, <1>4, RecallGoesOn DEF Recalls
<1> QED BY <1>2, <1>5, LocalStep

\* Nor the second, which adds to it.
LEMMA RankKeywordStep == ASSUME MemInv, NEW p \in Tasks, RankKeyword(p) PROVE MemInv'
<1> DEFINE u == [at |-> "hydrate", ids |-> local[p].ids \cup Active(local[p].now)]
<1>2. /\ local[p].at = "rank_keyword" /\ Goes(p, Over(u, local[p])) /\ UNCHANGED <<clock, mem, history>>
  BY DEF RankKeyword, At, Then
<1>3. RecallOk(local[p], clock, mem, born)
  BY <1>2, TaskIs DEF MemInv, Recalls
<1>4. u.ids \cap local[p].since = {}
  BY <1>2, <1>3, EndedNotActive DEF RecallOk
<1>5. TaskOk(Over(u, local[p]), clock, mem, born)
  BY <1>3, <1>4, RecallGoesOn DEF Recalls
<1> QED BY <1>2, <1>5, LocalStep

\* hydrate keeps some of what was ranked.
LEMMA HydrateStep == ASSUME MemInv, NEW p \in Tasks, Hydrate(p) PROVE MemInv'
<1>1. PICK R \in SUBSET (local[p].ids \cap Present) : Then(p, [at |-> "touch", ids |-> R])
  BY DEF Hydrate
<1> DEFINE u == [at |-> "touch", ids |-> R]
<1>2. /\ local[p].at = "hydrate" /\ Goes(p, Over(u, local[p])) /\ UNCHANGED <<clock, mem, history>>
  BY <1>1 DEF Hydrate, At, Then
<1>3. RecallOk(local[p], clock, mem, born)
  BY <1>2, TaskIs DEF MemInv, Recalls
<1>4. R \cap local[p].since = {}
  BY <1>2, <1>3 DEF RecallOk
<1>5. TaskOk(Over(u, local[p]), clock, mem, born)
  BY <1>3, <1>4, RecallGoesOn DEF Recalls
<1> QED BY <1>2, <1>5, LocalStep

\* A call that fails leaves the task idle.
LEMMA FailsStep == ASSUME MemInv, NEW p \in Tasks, Fails(p) PROVE MemInv'
<1>1. Goes(p, Idle) /\ UNCHANGED <<clock, mem, history>> /\ local[p].at # "emit"
  BY DEF Fails, At
<1>2. TaskOk(Idle, clock, mem, born)
  BY Tasked DEF Idle, Has
<1> QED BY <1>1, <1>2, LocalStep

-----------------------------------------------------------------------------
(* The first pass: selection. *)

\* Two candidates with different ids are one stronger than the other, and what is
\* stronger than the stronger is stronger.
LEMMA Strength ==
    /\ \A a, b \in Candidates : a.id # b.id => Stronger(a, b) \/ Stronger(b, a)
    /\ \A a, b, c \in Candidates : Stronger(a, b) /\ Stronger(b, c) => Stronger(a, c)
<1>1. \A a \in Candidates : a.id \in Int /\ a.importance \in Int /\ a.recency \in Int
  BY AgentMemoryAssumption DEF Candidates, Ids
<1>2. ASSUME NEW a \in Candidates, NEW b \in Candidates, a.id # b.id PROVE Stronger(a, b) \/ Stronger(b, a)
  BY <1>1, <1>2 DEF Stronger
<1>3. ASSUME NEW a \in Candidates, NEW b \in Candidates, NEW c \in Candidates, Stronger(a, b), Stronger(b, c)
      PROVE  Stronger(a, c)
  BY <1>1, <1>3 DEF Stronger
<1> QED BY <1>2, <1>3

\* SurvivorSelector::offer keeps the best.
LEMMA OfferKeepsBest ==
    ASSUME NEW offered \in SUBSET Candidates, NEW heap, NEW capacity \in Nat, Best(heap, offered, capacity),
           NEW c \in Candidates, \A o \in offered : o.id # c.id, NEW new \in Offer(capacity, heap, c)
    PROVE  Best(new, offered \cup {c}, capacity)
<1>1. IsFiniteSet(heap) /\ heap \subseteq offered /\ Cardinality(heap) \in Nat /\ c \notin offered /\ c \notin heap
  BY FS_CardinalityType DEF Best
<1>2. CASE capacity = 0
  <2>1. new = heap
    BY <1>2 DEF Offer
  <2>2. Cardinality(heap) = 0
    BY <1>1, <1>2 DEF Best
  <2>3. heap = {}
    BY <1>1, <2>2, FS_EmptySet
  <2> QED BY <1>1, <1>2, <2>1, <2>2, <2>3 DEF Best
<1>3. CASE capacity # 0 /\ Cardinality(heap) < capacity
  <2>1. new = heap \cup {c}
    BY <1>3 DEF Offer
  <2>2. heap = offered
    BY <1>1, <1>3 DEF Best
  <2>3. IsFiniteSet(new) /\ Cardinality(new) = Cardinality(heap) + 1
    BY <1>1, <2>1, FS_AddElement
  <2> QED BY <1>1, <1>3, <2>1, <2>2, <2>3 DEF Best
<1>4. CASE capacity # 0 /\ ~(Cardinality(heap) < capacity)
  <2>1. PICK w \in Weakest(heap) : new = IF Stronger(c, w) THEN (heap \ {w}) \cup {c} ELSE heap
    BY <1>4 DEF Offer
  <2>2. w \in heap /\ \A x \in heap : x = w \/ Stronger(x, w)
    BY <2>1 DEF Weakest
  <2>3. Cardinality(heap) = capacity
    BY <1>1, <1>4 DEF Best
  <2>4. \A x \in offered \ heap : \A s \in heap : Stronger(s, x)
    BY DEF Best
  <2>5. w \in Candidates /\ heap \subseteq Candidates /\ w.id # c.id
    BY <1>1, <2>2
  <2>6. CASE Stronger(c, w)
    <3>1. new = (heap \ {w}) \cup {c}
      BY <2>1, <2>6
    <3>2. IsFiniteSet(new) /\ Cardinality(new) = capacity
      <4>1. IsFiniteSet(heap \ {w}) /\ Cardinality(heap \ {w}) = capacity - 1
        BY <1>1, <2>2, <2>3, FS_RemoveElement
      <4>2. IsFiniteSet((heap \ {w}) \cup {c}) /\ Cardinality((heap \ {w}) \cup {c}) = (capacity - 1) + 1
        BY <1>1, <4>1, FS_AddElement
      <4> QED BY <3>1, <4>2
    <3>3. ASSUME NEW x \in (offered \cup {c}) \ new, NEW s \in new PROVE Stronger(s, x)
      <4>1. x = w \/ x \in offered \ heap
        BY <3>1, <3>3
      <4>2. s = c \/ (s \in heap /\ s # w)
        BY <3>1, <3>3
      <4>3. CASE s # c
        BY <2>2, <2>4, <4>1, <4>2, <4>3
      <4>4. CASE s = c /\ x = w
        BY <2>6, <4>4
      <4>5. CASE s = c /\ x \in offered \ heap
        <5>1. Stronger(w, x) /\ x \in Candidates
          BY <2>2, <2>4, <4>5
        <5> QED BY <2>5, <2>6, <4>5, <5>1, Strength
      <4> QED BY <4>1, <4>3, <4>4, <4>5
    <3>4. new \subseteq offered \cup {c}
      BY <1>1, <3>1
    <3> QED BY <3>2, <3>3, <3>4 DEF Best
  <2>7. CASE ~Stronger(c, w)
    <3>1. new = heap
      BY <2>1, <2>7
    <3>2. Stronger(w, c)
      BY <2>5, <2>7, Strength
    <3>3. \A s \in heap : Stronger(s, c)
      BY <2>2, <2>5, <3>2, Strength
    <3> QED BY <1>1, <2>3, <2>4, <3>1, <3>3 DEF Best
  <2> QED BY <2>6, <2>7
<1> QED BY <1>2, <1>3, <1>4

\* A page of candidates, to be offered: none was offered before.
LEMMA SelectStep == ASSUME MemInv, NEW p \in Tasks, Select(p) PROVE MemInv'
<1> DEFINE l == local[p]
           P == Page(Active(l.now), l.cursor)
           C == {Candidate(i, l.now) : i \in P}
           place == IF P = {} THEN "selected" ELSE "offer"
           next == IF P = {} THEN l.cursor ELSE Greatest(P)
           u == [at |-> place, cursor |-> next, page |-> C, short |-> Cardinality(P) < PageSize]
           r == Over(u, l)
<1>1. local[p].at = "select" /\ Goes(p, r) /\ UNCHANGED <<clock, mem, history>>
  BY DEF Select, At, Then
<1>2. PassOk(l, clock, mem, born) /\ SelectOk(l)
  BY <1>1, TaskIs DEF MemInv, Selecting
<1>3. /\ l.now \in Int /\ l.cursor \in Nat
      /\ Has(l, {"at", "now", "capacity", "cursor", "started"}) /\ Has(l, {"heap", "offered", "page", "short"})
  BY <1>2 DEF PassOk, SelectOk
<1>4. Active(l.now) \subseteq Ids /\ \A i \in Active(l.now) : i \in PresentIn(mem)
  BY Now DEF ActiveIn, PresentIn
<1>5. /\ P \subseteq Active(l.now) /\ \A i \in P : i > l.cursor
      /\ P # {} => Greatest(P) \in P /\ \A i \in P : i <= Greatest(P)
  BY <1>3, <1>4, PageIs
<1>6. next \in Nat /\ l.cursor <= next /\ \A i \in P : i <= next /\ l.cursor < i /\ i \in Nat
  <2>1. Ids \subseteq Nat
    BY DEF Ids
  <2>2. \A i \in P : i \in Nat /\ l.cursor < i
    BY <1>3, <1>4, <1>5, <2>1
  <2>3. CASE P = {}
    BY <1>3, <2>3
  <2>4. CASE P # {}
    <3>1. next = Greatest(P) /\ next \in P /\ \A i \in P : i <= next
      BY <1>5, <2>4
    <3> HIDE DEF next, P
    <3> QED BY <1>3, <2>2, <3>1
  <2> QED BY <2>3, <2>4
<1>7. /\ r.at = place /\ r.cursor = next /\ r.page = C
      /\ r.now = l.now /\ r.capacity = l.capacity /\ r.started = l.started
      /\ r.heap = l.heap /\ r.offered = l.offered
      /\ Has(r, {"at", "now", "capacity", "cursor", "started"}) /\ Has(r, {"heap", "offered", "page", "short"})
  <2>2. DOMAIN u = {"at", "cursor", "page", "short"} /\ u.at = place /\ u.cursor = next /\ u.page = C
    OBVIOUS
  <2> HIDE DEF u, l
  <2>1. /\ DOMAIN r = DOMAIN u \cup DOMAIN l
        /\ \A f \in DOMAIN u : r[f] = u[f]
        /\ \A f \in DOMAIN l \ DOMAIN u : r[f] = l[f]
    BY OverIs, Zenon
  <2> HIDE DEF r, place, next, C, P
  <2> QED BY <1>3, <2>1, <2>2 DEF Has
<1>8. \A c \in C : c \in Candidates /\ c.id \in P
  <2> SUFFICES ASSUME NEW i \in P PROVE Candidate(i, l.now) \in Candidates /\ Candidate(i, l.now).id = i
    OBVIOUS
  <2>1. i \in PresentIn(mem) /\ i \in Ids
    BY <1>4, <1>5
  <2>2. mem[i].importance \in Int /\ mem[i].access \in Int
    BY <2>1, Records DEF MemInv
  <2> QED BY <1>3, <2>1, <2>2 DEF Candidate, Candidates
<1>9. \A c, d \in C : c.id = d.id => c = d
  BY DEF Candidate
<1> HIDE DEF r, u, place, next, C, P
<1>10. PassOk(r, clock, mem, born)
  BY <1>2, <1>6, <1>7 DEF PassOk
<1>11. SelectOk(r)
  <2>1. \A o \in l.offered : o \in Candidates /\ o.id <= l.cursor /\ o.id \in Nat
    BY <1>2 DEF SelectOk, Candidates, Ids
  <2>2. \A o \in l.offered, c \in C : o.id # c.id
    BY <1>3, <1>6, <1>8, <2>1
  <2>3. \A c \in l.offered \cup C : c \in Candidates /\ c.id <= next
    BY <1>3, <1>6, <1>8, <2>1
  <2>4. \A c, d \in l.offered \cup C : c.id = d.id => c = d
    BY <1>2, <1>9, <2>2 DEF SelectOk
  <2>5. l.offered \cap C = {}
    BY <2>2
  <2>6. Best(l.heap, l.offered, l.capacity)
    BY <1>2 DEF SelectOk
  <2> QED BY <1>7, <2>3, <2>4, <2>5, <2>6 DEF SelectOk
<1>12. r.at \in Selecting
  BY <1>7 DEF Selecting, place
<1>13. TaskOk(r, clock, mem, born)
  BY <1>10, <1>11, <1>12, Tasked
<1> QED BY <1>1, <1>13, LocalStep

\* The next candidate is offered.
LEMMA OfferNextStep == ASSUME MemInv, NEW p \in Tasks, OfferNext(p) PROVE MemInv'
<1> DEFINE l == local[p]
<1>0. PICK c \in l.page : \E heap \in Offer(l.capacity, l.heap, c) :
                   Then(p, [at      |-> IF l.page # {c} THEN "offer"
                                       ELSE IF l.short THEN "selected" ELSE "select",
                            heap    |-> heap,
                            page    |-> l.page \ {c},
                            offered |-> l.offered \cup {c}])
  BY DEF OfferNext
<1> DEFINE place == IF l.page # {c} THEN "offer" ELSE IF l.short THEN "selected" ELSE "select"
<1>1. PICK heap \in Offer(l.capacity, l.heap, c) :
          Then(p, [at |-> place, heap |-> heap, page |-> l.page \ {c}, offered |-> l.offered \cup {c}])
  BY <1>0
<1> DEFINE u == [at |-> place, heap |-> heap, page |-> l.page \ {c}, offered |-> l.offered \cup {c}]
           r == Over(u, l)
<1>2. local[p].at = "offer" /\ Goes(p, r) /\ UNCHANGED <<clock, mem, history>>
  BY <1>1 DEF OfferNext, At, Then
<1>3. PassOk(l, clock, mem, born) /\ SelectOk(l)
  BY <1>2, TaskIs DEF MemInv, Selecting
<1>4. Has(l, {"at", "now", "capacity", "cursor", "started"}) /\ Has(l, {"heap", "offered", "page", "short"})
  BY <1>3 DEF PassOk, SelectOk
<1>5. /\ r.at = place /\ r.heap = heap /\ r.page = l.page \ {c} /\ r.offered = l.offered \cup {c}
      /\ r.now = l.now /\ r.capacity = l.capacity /\ r.started = l.started /\ r.cursor = l.cursor
      /\ Has(r, {"at", "now", "capacity", "cursor", "started"}) /\ Has(r, {"heap", "offered", "page", "short"})
  <2>2. /\ DOMAIN u = {"at", "heap", "page", "offered"} /\ u.at = place /\ u.heap = heap
        /\ u.page = l.page \ {c} /\ u.offered = l.offered \cup {c}
    OBVIOUS
  <2> HIDE DEF u, l
  <2>1. /\ DOMAIN r = DOMAIN u \cup DOMAIN l
        /\ \A f \in DOMAIN u : r[f] = u[f]
        /\ \A f \in DOMAIN l \ DOMAIN u : r[f] = l[f]
    BY OverIs, Zenon
  <2> HIDE DEF r, place
  <2> QED BY <1>4, <2>1, <2>2 DEF Has
<1>6. r.at \in Selecting
  BY <1>5 DEF Selecting
<1> HIDE DEF r, u, place
<1>7. PassOk(r, clock, mem, born)
  BY <1>3, <1>5 DEF PassOk
<1>8. SelectOk(r)
  <2>1. l.offered \in SUBSET Candidates /\ c \in Candidates /\ \A o \in l.offered : o.id # c.id
    BY <1>2, <1>3 DEF SelectOk
  <2>2. Best(l.heap, l.offered, l.capacity) /\ l.capacity \in Nat
    BY <1>3 DEF SelectOk, PassOk
  <2>3. Best(heap, l.offered \cup {c}, l.capacity)
    BY <2>1, <2>2, OfferKeepsBest
  <2>4. r.offered \cup r.page = l.offered \cup l.page
    BY <1>5
  <2>5. r.offered \cap r.page = {}
    BY <1>2, <1>3, <1>5 DEF SelectOk
  <2> QED BY <1>3, <1>5, <2>3, <2>4, <2>5 DEF SelectOk
<1>9. TaskOk(r, clock, mem, born)
  BY <1>6, <1>7, <1>8, Tasked
<1> QED BY <1>2, <1>9, LocalStep

-----------------------------------------------------------------------------
(* The second pass, the collection, and what they remove. *)

\* No more ids than candidates.
LEMMA IdsOfHeap ==
    ASSUME NEW heap, IsFiniteSet(heap)
    PROVE  IsFiniteSet(IdsOf(heap)) /\ Cardinality(IdsOf(heap)) <= Cardinality(heap)
<1> DEFINE f == [c \in heap |-> c.id]
<1>1. f \in Surjection(heap, IdsOf(heap))
  BY DEF Surjection, IdsOf
<1> HIDE DEF f
<1> QED BY <1>1, FS_Surjection

\* The capacity best survive, at most.
LEMMA IntoSurvivorsStep == ASSUME MemInv, NEW p \in Tasks, IntoSurvivors(p) PROVE MemInv'
<1> DEFINE l == local[p]
           r == [at |-> "evict", now |-> l.now, capacity |-> l.capacity,
                 cursor |-> 0, started |-> l.started, survivors |-> IdsOf(l.heap)]
<1>1. local[p].at = "selected" /\ UNCHANGED <<clock, mem, history>>
  BY DEF IntoSurvivors, At
<1>2. CASE Goes(p, Idle)
  <2>1. TaskOk(Idle, clock, mem, born)
    BY Tasked DEF Idle, Has
  <2> QED BY <1>1, <1>2, <2>1, LocalStep
<1>3. CASE Cardinality(l.offered) > l.capacity /\ Goes(p, r)
  <2>1. PassOk(l, clock, mem, born) /\ SelectOk(l)
    BY <1>1, TaskIs DEF MemInv, Selecting
  <2>2. IsFiniteSet(l.heap) /\ Cardinality(l.heap) = l.capacity /\ l.capacity \in Nat
    <3>1. ~(Cardinality(l.offered) <= l.capacity) \/ l.heap # l.offered
      <4>1. l.heap = l.offered => Cardinality(l.heap) \in Nat
        BY <2>1, FS_CardinalityType DEF SelectOk, Best
      <4> QED BY <1>3, <2>1, <4>1 DEF PassOk
    <3> QED BY <2>1, <3>1 DEF SelectOk, Best, PassOk
  <2>3. IsFiniteSet(IdsOf(l.heap)) /\ Cardinality(IdsOf(l.heap)) <= l.capacity
    BY <2>2, IdsOfHeap
  <2>4. /\ r.at = "evict" /\ r.now = l.now /\ r.capacity = l.capacity /\ r.cursor = 0
        /\ r.started = l.started /\ r.survivors = IdsOf(l.heap)
        /\ Has(r, {"at", "now", "capacity", "cursor", "started"}) /\ Has(r, {"survivors"})
    BY DEF Has
  <2> HIDE DEF r
  <2>5. PassOk(r, clock, mem, born)
    BY <2>1, <2>4 DEF PassOk
  <2>6. EvictOk(r, clock, mem)
    <3>1. \A i \in ActiveIn(mem, clock) : ~(i <= 0)
      BY DEF ActiveIn, PresentIn, Ids
    <3> QED BY <2>3, <2>4, <3>1 DEF EvictOk
  <2>7. TaskOk(r, clock, mem, born)
    BY <2>4, <2>5, <2>6, Tasked
  <2> QED BY <1>1, <1>3, <2>7, LocalStep
<1> QED BY <1>2, <1>3 DEF IntoSurvivors

\* A page that begins a removal: the fields of a pass stay, but the cursor.
LEMMA RemovalFields ==
    ASSUME NEW l, NEW next, NEW job, NEW V, NEW last,
           NEW r, r = Over(Over([cursor |-> next], RemovalOf(job, V, last)), l)
    PROVE  /\ r.at = "layer_of" /\ r.job = job /\ r.victims = V /\ r.left = V /\ r.existing = {}
           /\ r.last = last /\ r.cursor = next
           /\ Has(r, {"at", "job", "victims", "left", "existing", "last", "cursor"})
           /\ \A f \in DOMAIN l \cap {"now", "capacity", "started", "survivors"} : f \in DOMAIN r /\ r[f] = l[f]
<1> DEFINE a == [cursor |-> next]
           v == RemovalOf(job, V, last)
           u == Over(a, v)
<1>1. /\ DOMAIN a = {"cursor"} /\ a.cursor = next
      /\ DOMAIN v = {"at", "job", "victims", "left", "existing", "last"}
      /\ v.at = "layer_of" /\ v.job = job /\ v.victims = V /\ v.left = V /\ v.existing = {} /\ v.last = last
  BY DEF RemovalOf
<1> HIDE DEF a, v
<1>2. /\ DOMAIN u = DOMAIN a \cup DOMAIN v
      /\ \A f \in DOMAIN a : u[f] = a[f]
      /\ \A f \in DOMAIN v \ DOMAIN a : u[f] = v[f]
  BY OverIs, Zenon
<1>3. /\ DOMAIN u = {"cursor", "at", "job", "victims", "left", "existing", "last"} /\ u.cursor = next
      /\ u.at = "layer_of" /\ u.job = job /\ u.victims = V /\ u.left = V /\ u.existing = {} /\ u.last = last
  <2> HIDE DEF u
  <2> QED BY <1>1, <1>2
<1>4. r = Over(u, l)
  BY DEF a, v
<1> HIDE DEF u
<1> DEFINE o == Over(u, l)
<1>5. /\ DOMAIN o = DOMAIN u \cup DOMAIN l
      /\ \A f \in DOMAIN u : o[f] = u[f]
      /\ \A f \in DOMAIN l \ DOMAIN u : o[f] = l[f]
  BY OverIs, Zenon
<1>6. r = o
  BY <1>4
<1> HIDE DEF o
<1> QED BY <1>3, <1>5, <1>6 DEF Has

\* next_victim_page passes no memory that was active when the pass began, and is.
LEMMA EvictStep == ASSUME MemInv, NEW p \in Tasks, Evict(p) PROVE MemInv'
<1> DEFINE l == local[p]
           P == Page(Active(l.now), l.cursor)
           next == IF P = {} THEN l.cursor ELSE Greatest(P)
           V == P \ l.survivors
           last == Cardinality(P) < PageSize
           r == Over(Over([cursor |-> next], RemovalOf("evict", V, last)), l)
<1>1. local[p].at = "evict" /\ Goes(p, r) /\ UNCHANGED <<clock, mem, history>>
  BY DEF Evict, At, Then
<1>2. PassOk(l, clock, mem, born) /\ EvictOk(l, clock, mem)
  BY <1>1, TaskIs DEF MemInv
<1>3. /\ l.now \in Int /\ l.cursor \in Nat
      /\ {"now", "capacity", "started", "survivors"} \subseteq DOMAIN l
  BY <1>2 DEF PassOk, EvictOk, Has
<1>4. Active(l.now) = ActiveIn(mem, l.now) /\ Active(l.now) \subseteq Ids /\ Active(l.now) \subseteq born
  BY Now DEF ActiveIn, PresentIn, MemInv, StoreOk
<1>5. /\ P \subseteq Active(l.now)
      /\ P # {} => /\ Greatest(P) \in P
                   /\ \A i \in Active(l.now) : i > l.cursor /\ i <= Greatest(P) => i \in P
      /\ last => \A i \in Active(l.now) : i > l.cursor => i \in P
  BY <1>3, <1>4, PageIs
<1>6. /\ r.at = "layer_of" /\ r.job = "evict" /\ r.victims = V /\ r.left = V /\ r.existing = {}
      /\ r.last = last /\ r.cursor = next
      /\ Has(r, {"at", "job", "victims", "left", "existing", "last", "cursor"})
      /\ \A f \in DOMAIN l \cap {"now", "capacity", "started", "survivors"} : f \in DOMAIN r /\ r[f] = l[f]
  <2> HIDE DEF l, V, next, last
  <2> QED BY RemovalFields
<1>7. next \in Nat
  BY <1>3, <1>4, <1>5 DEF Ids
<1>8. last \in BOOLEAN /\ V \subseteq born
  BY <1>4, <1>5
<1>9. \A i \in Active(l.now) : i <= next \/ last => i <= l.cursor \/ i \in P
  <2> TAKE i \in Active(l.now)
  <2>1. i \in Int
    BY <1>4 DEF Ids
  <2>2. CASE P = {}
    BY <1>3, <1>5, <2>1, <2>2
  <2>3. CASE P # {}
    <3>1. next = Greatest(P)
      BY <2>3
    <3> HIDE DEF next, P, last
    <3> QED BY <1>3, <1>5, <2>1, <2>3, <3>1
  <2> QED BY <2>2, <2>3
<1> HIDE DEF r, V, P, next, last
<1>10. /\ r.now = l.now /\ r.capacity = l.capacity /\ r.started = l.started /\ r.survivors = l.survivors
       /\ Has(r, {"at", "now", "capacity", "cursor", "started"}) /\ Has(r, {"survivors"})
       /\ Has(r, {"at", "job", "victims", "left", "existing", "last"})
  BY <1>3, <1>6 DEF Has
<1>11. PassOk(r, clock, mem, born)
  BY <1>2, <1>6, <1>7, <1>10 DEF PassOk
<1>12. EvictOk(r, clock, mem)
  <2>1. ASSUME NEW i \in l.started \cap ActiveIn(mem, clock), i <= next \/ last
        PROVE  i \in l.survivors \cup V
    <3>1. i \in Active(l.now)
      BY <1>2, <1>4 DEF PassOk
    <3>2. i <= l.cursor \/ i \in P
      BY <1>9, <2>1, <3>1
    <3>3. i <= l.cursor => i \in l.survivors
      BY <1>1, <1>2 DEF EvictOk, Seen
    <3> QED BY <3>2, <3>3 DEF V
  <2> QED BY <1>2, <1>6, <1>10, <2>1 DEF EvictOk, Seen
<1>13. RemovalOk(r, clock, mem, born)
  BY <1>6, <1>8, <1>10 DEF RemovalOk
<1>14. TaskOk(r, clock, mem, born)
  BY <1>6, <1>11, <1>12, <1>13, Tasked DEF Removals
<1> QED BY <1>1, <1>14, LocalStep

\* scan_expired lists none that is active.
LEMMA CollectStep == ASSUME MemInv, NEW p \in Tasks, Collect(p) PROVE MemInv'
<1> DEFINE l == local[p]
           P == Page(Expired(l.now), l.cursor)
           last == Cardinality(P) < PageSize
           r == Over(Over([cursor |-> Greatest(P)], RemovalOf("collect", P, last)), l)
<1>1. local[p].at = "collect" /\ UNCHANGED <<clock, mem, history>>
  BY DEF Collect, At
<1>2. CASE Goes(p, Idle)
  <2>1. TaskOk(Idle, clock, mem, born)
    BY Tasked DEF Idle, Has
  <2> QED BY <1>1, <1>2, <2>1, LocalStep
<1>3. CASE P # {} /\ Goes(p, r)
  <2>1. l.now \in 0 .. clock
    BY <1>1 DEF MemInv, TaskOk
  <2>2. "now" \in DOMAIN l
    BY <1>1 DEF MemInv, TaskOk, Has
  <2>3. P \subseteq Expired(l.now)
    BY DEF Page
  <2>4. P \subseteq born /\ P \cap ActiveIn(mem, clock) = {}
    <3> SUFFICES ASSUME NEW i \in P PROVE i \in born /\ i \notin ActiveIn(mem, clock)
      OBVIOUS
    <3>1. i \in PresentIn(mem) /\ mem[i].until # Forever /\ mem[i].until <= l.now
      BY <2>3, Now DEF Expired
    <3>2. mem[i].until \in Int /\ clock \in Int /\ i \in born
      BY <3>1, Records DEF MemInv
    <3>3. ~(clock < mem[i].until)
      BY <2>1, <3>1, <3>2
    <3> QED BY <3>1, <3>2, <3>3 DEF ActiveIn, ValidAt
  <2>5. /\ r.at = "layer_of" /\ r.job = "collect" /\ r.victims = P /\ r.left = P /\ r.existing = {}
        /\ r.last = last
        /\ Has(r, {"at", "job", "victims", "left", "existing", "last", "cursor"})
        /\ \A f \in DOMAIN l \cap {"now", "capacity", "started", "survivors"} : f \in DOMAIN r /\ r[f] = l[f]
    BY RemovalFields
  <2>6. last \in BOOLEAN
    OBVIOUS
  <2> HIDE DEF r, P, last
  <2>7. r.now = l.now /\ Has(r, {"now", "cursor"}) /\ Has(r, {"at", "job", "victims", "left", "existing", "last"})
    BY <2>2, <2>5 DEF Has
  <2>8. RemovalOk(r, clock, mem, born)
    BY <2>1, <2>4, <2>5, <2>6, <2>7 DEF RemovalOk
  <2>9. TaskOk(r, clock, mem, born)
    BY <2>5, <2>8, Tasked DEF Removals
  <2> QED BY <1>1, <1>3, <2>9, LocalStep
<1> QED BY <1>2, <1>3 DEF Collect, Then

\* The layer of one victim is read: whether it is there.
LEMMA LayerOfStep == ASSUME MemInv, NEW p \in Tasks, LayerOf(p) PROVE MemInv'
<1> DEFINE l == local[p]
           i == CHOOSE x \in l.left : \A y \in l.left : x <= y
           place == IF l.left = {i} THEN "remove" ELSE "layer_of"
           u == IF l.left = {} THEN [at |-> "remove"]
                ELSE [left     |-> l.left \ {i},
                      existing |-> l.existing \cup ({i} \cap Present),
                      at       |-> place]
           r == Over(u, l)
<1>1. local[p].at = "layer_of" /\ Goes(p, r) /\ UNCHANGED <<clock, mem, history>>
  BY DEF LayerOf, At, Then
<1>2. /\ RemovalOk(l, clock, mem, born)
      /\ l.job = "evict" => PassOk(l, clock, mem, born) /\ EvictOk(l, clock, mem)
  BY <1>1, TaskIs DEF MemInv, Removals
<1>3. Has(l, {"at", "job", "victims", "left", "existing", "last"})
  BY <1>2 DEF RemovalOk
<1>4. /\ "at" \in DOMAIN u /\ DOMAIN u \subseteq {"at", "left", "existing"}
      /\ u.at \in {"remove", "layer_of"}
  BY DEF place
<1>5. /\ DOMAIN r = DOMAIN u \cup DOMAIN l
      /\ \A f \in DOMAIN u : r[f] = u[f]
      /\ \A f \in DOMAIN l \ DOMAIN u : r[f] = l[f]
  <2> HIDE DEF u, l
  <2> QED BY OverIs, Zenon
<1>6. /\ l.left = {} => r.at = "remove" /\ r.left = l.left /\ r.existing = l.existing
      /\ l.left # {} => /\ r.at = place /\ r.left = l.left \ {i}
                        /\ r.existing = l.existing \cup ({i} \cap Present)
  <2>1. CASE l.left = {}
    <3>1. DOMAIN u = {"at"} /\ u.at = "remove"
      BY <2>1
    <3> HIDE DEF u, r
    <3> QED BY <1>3, <1>5, <2>1, <3>1 DEF Has
  <2>2. CASE l.left # {}
    <3>1. /\ DOMAIN u = {"at", "left", "existing"} /\ u.at = place /\ u.left = l.left \ {i}
          /\ u.existing = l.existing \cup ({i} \cap Present)
      BY <2>2
    <3> HIDE DEF u, r, i, place
    <3> QED BY <1>5, <2>2, <3>1
  <2> QED BY <2>1, <2>2
<1>7. l.left # {} => i \in l.left
  <2> SUFFICES ASSUME l.left # {} PROVE i \in l.left
    OBVIOUS
  <2>1. l.left \in SUBSET Nat
    BY <1>2 DEF RemovalOk, MemInv, StoreOk, Ids
  <2>2. \E x \in l.left : \A y \in l.left : x <= y
    BY <2>1, LeastExists
  <2> QED BY <2>2
<1>8. place = "remove" => l.left = {i}
  OBVIOUS
<1>9. place \in {"remove", "layer_of"}
  OBVIOUS
<1> HIDE DEF u, r, i, place
<1>10. /\ \A f \in DOMAIN l \ {"at", "left", "existing"} : r[f] = l[f]
       /\ DOMAIN l \subseteq DOMAIN r /\ r.at \in {"remove", "layer_of"}
  BY <1>4, <1>5
<1>11. RemovalOk(r, clock, mem, born)
  <2>1. /\ r.job = l.job /\ r.victims = l.victims /\ r.last = l.last
        /\ Has(r, {"at", "job", "victims", "left", "existing", "last"})
        /\ \A f \in DOMAIN l \cap {"now", "cursor"} : r[f] = l[f]
    BY <1>3, <1>10 DEF Has
  <2>2. (l.victims \ l.left) \cap PresentIn(mem) \subseteq l.existing
    BY <1>1, <1>2 DEF RemovalOk
  <2>3. r.left \cup r.existing \subseteq r.victims
    BY <1>2, <1>6, <1>7, <2>1 DEF RemovalOk
  <2>4. (r.victims \ r.left) \cap PresentIn(mem) \subseteq r.existing
    BY <1>6, <2>1, <2>2, Now
  <2>5. r.at = "remove" => r.left = {}
    BY <1>6, <1>8
  <2>6. r.job = "collect" => /\ Has(r, {"now", "cursor"}) /\ r.now \in 0 .. clock
                             /\ r.victims \cap ActiveIn(mem, clock) = {}
    BY <1>2, <1>10, <2>1 DEF RemovalOk, Has
  <2>7. /\ l.job \in {"forget", "evict", "collect"} /\ l.last \in BOOLEAN /\ (l.job = "forget" => l.last)
        /\ l.victims \subseteq born
    BY <1>2 DEF RemovalOk
  <2> QED BY <1>10, <2>1, <2>3, <2>4, <2>5, <2>6, <2>7 DEF RemovalOk
<1>12. r.job = "evict" => PassOk(r, clock, mem, born) /\ EvictOk(r, clock, mem)
  <2> SUFFICES ASSUME r.job = "evict" PROVE PassOk(r, clock, mem, born) /\ EvictOk(r, clock, mem)
    OBVIOUS
  <2>1. PassOk(l, clock, mem, born) /\ EvictOk(l, clock, mem)
    BY <1>2, <1>3, <1>10 DEF Has
  <2>2. /\ r.now = l.now /\ r.capacity = l.capacity /\ r.started = l.started /\ r.survivors = l.survivors
        /\ r.cursor = l.cursor /\ r.last = l.last /\ r.victims = l.victims
        /\ Has(r, {"at", "now", "capacity", "cursor", "started"}) /\ Has(r, {"survivors"})
    BY <1>3, <1>10, <2>1 DEF PassOk, EvictOk, Has
  <2>3. PassOk(r, clock, mem, born)
    BY <2>1, <2>2 DEF PassOk
  <2>4. Seen(r) = Seen(l) /\ r.at # "evict" /\ l.at # "evict"
    BY <1>1, <1>10, <2>2 DEF Seen
  <2> QED BY <2>1, <2>2, <2>3, <2>4 DEF EvictOk
<1>13. TaskOk(r, clock, mem, born)
  BY <1>10, <1>11, <1>12, Tasked DEF Removals
<1> QED BY <1>1, <1>13, LocalStep

-----------------------------------------------------------------------------
(* What each step does to the store, which is all that another task sees of it. *)

StoreStep(R) == StoreOk(clock, mem, born)' /\ Evolves(clock, mem, born, clock', mem', born', R)

\* A step that writes memories that are there, or removes some, in the store's types.
LEMMA StoreWritten ==
    ASSUME MemInv, NEW R, clock' = clock, born' = born, mem' \in [Ids -> Record \cup {Absent}],
           \A i \in Ids : mem'[i] # Absent =>
              /\ mem[i] # Absent /\ mem'[i].from = mem[i].from
              /\ mem'[i].until = mem[i].until \/ (mem'[i].until # Forever /\ mem'[i].until <= clock)
              /\ i \in R \/ mem[i].until = Forever \/ mem'[i].until = mem[i].until
    PROVE  StoreStep(R)
<1>1. StoreOk(clock, mem, born)
  BY DEF MemInv
<1>2. clock <= clock
  BY <1>1, AgentMemoryAssumption DEF StoreOk, Times
<1>3. StoreOk(clock, mem, born)'
  BY <1>1 DEF StoreOk, PresentIn
<1>4. Evolves(clock, mem, born, clock', mem', born', R)
  BY <1>1, <1>2 DEF StoreOk, Evolves
<1> QED BY <1>3, <1>4 DEF StoreStep

\* The clock ticks.
LEMMA TickStores == ASSUME MemInv, Tick PROVE StoreStep({})
<1>1. /\ clock' = clock + 1 /\ clock < MaxTime /\ mem' = mem /\ born' = born
      /\ clock \in Nat /\ MaxTime \in Nat /\ StoreOk(clock, mem, born)
  BY AgentMemoryAssumption DEF Tick, history, MemInv, StoreOk, Times
<1>2. \A i \in PresentIn(mem) : mem[i].from \in Int /\ mem[i].from <= clock
  BY <1>1, Records
<1>3. clock' \in Times /\ clock <= clock' /\ \A i \in PresentIn(mem) : mem[i].from <= clock'
  BY <1>1, <1>2 DEF Times
<1>4. StoreOk(clock, mem, born)'
  BY <1>1, <1>3 DEF StoreOk, PresentIn
<1>5. Evolves(clock, mem, born, clock', mem', born', {})
  BY <1>1, <1>3 DEF Evolves
<1> QED BY <1>4, <1>5 DEF StoreStep

\* A step that leaves the store alone.
LEMMA NothingStores == ASSUME MemInv, UNCHANGED <<clock, mem, born>> PROVE StoreStep({})
<1>1. clock' = clock /\ mem' = mem /\ born' = born /\ mem \in [Ids -> Record \cup {Absent}]
  BY DEF MemInv, StoreOk
<1> QED BY <1>1, StoreWritten

\* An importance changes, and nothing else.
LEMMA SetImportanceStores == ASSUME MemInv, SetImportance PROVE StoreStep({})
<1>1. PICK i \in Present, w \in Importances : mem' = [mem EXCEPT ![i].importance = w]
  BY DEF SetImportance
<1>2. clock' = clock /\ born' = born /\ mem \in [Ids -> Record \cup {Absent}]
  BY DEF SetImportance, history, MemInv, StoreOk
<1>3. mem[i] \in Record /\ mem[i] # Absent /\ i \in Ids
  BY <1>2 DEF Present
<1> DEFINE s == [mem[i] EXCEPT !.importance = w]
<1>4. s \in Record /\ s.from = mem[i].from /\ s.until = mem[i].until
  BY <1>3 DEF Record
<1>5. mem' = [mem EXCEPT ![i] = s]
  BY <1>1
<1> HIDE DEF s
<1>6. mem' \in [Ids -> Record \cup {Absent}] /\ mem'[i] = s /\ \A j \in Ids \ {i} : mem'[j] = mem[j]
  BY <1>2, <1>3, <1>4, <1>5
<1> QED BY <1>2, <1>3, <1>4, <1>6, StoreWritten

\* A new memory is put.
LEMMA PutStores == ASSUME MemInv, NEW p \in Tasks, Put(p) PROVE StoreStep({})
<1>1. PICK i \in Ids \ born, w \in Importances, t \in Times \cup {Forever} :
          /\ mem' = [mem EXCEPT ![i] = [from |-> local[p].now, until |-> t,
                                        importance |-> w, access |-> local[p].now]]
          /\ born' = born \cup {i}
  BY DEF Put
<1> DEFINE s == [from |-> local[p].now, until |-> t, importance |-> w, access |-> local[p].now]
<1>2. /\ clock' = clock /\ mem \in [Ids -> Record \cup {Absent}] /\ StoreOk(clock, mem, born)
      /\ local[p].now \in 0 .. clock /\ clock \in Times /\ MaxTime \in Nat
  BY AgentMemoryAssumption DEF Put, At, MemInv, StoreOk, TaskOk
<1>3. s \in Record /\ s.from <= clock
  <2>1. local[p].now \in Times /\ local[p].now <= clock
    BY <1>2 DEF Times
  <2> QED BY <2>1 DEF Record
<1>4. mem' = [mem EXCEPT ![i] = s]
  BY <1>1
<1> HIDE DEF s
<1>5. mem' \in [Ids -> Record \cup {Absent}] /\ mem'[i] = s /\ \A j \in Ids \ {i} : mem'[j] = mem[j]
  BY <1>2, <1>3, <1>4
<1>6. StoreOk(clock, mem, born)'
  BY <1>1, <1>2, <1>3, <1>5 DEF StoreOk, PresentIn
<1>7. Evolves(clock, mem, born, clock', mem', born', {})
  <2>1. \A j \in born : mem'[j] = mem[j]
    BY <1>2, <1>5 DEF StoreOk
  <2>2. clock <= clock' /\ born \subseteq born'
    BY <1>1, <1>2 DEF Times
  <2> QED BY <2>1, <2>2 DEF Evolves
<1> QED BY <1>6, <1>7 DEF StoreStep

\* touch_last_access changes no validity, and brings nothing back.
LEMMA TouchStores == ASSUME MemInv, NEW p \in Tasks, Touch(p) PROVE StoreStep({})
<1>1. /\ clock' = clock /\ born' = born /\ mem \in [Ids -> Record \cup {Absent}] /\ mem' = Touched(p)
      /\ clock \in Times /\ local[p].now \in 0 .. clock /\ MaxTime \in Nat
  BY AgentMemoryAssumption, TaskIs DEF Touch, history, MemInv, StoreOk, At, Recalls, RecallOk
<1>2. local[p].now \in Times
  BY <1>1 DEF Times
<1>3. ASSUME NEW i \in Ids
      PROVE  /\ mem'[i] \in Record \cup {Absent}
             /\ mem'[i] # Absent => /\ mem[i] # Absent /\ mem'[i].from = mem[i].from
                                    /\ mem'[i].until = mem[i].until
  <2>1. mem'[i] = IF i \in local[p].ids /\ mem[i] # Absent THEN [mem[i] EXCEPT !.access = local[p].now] ELSE mem[i]
    BY <1>1 DEF Touched
  <2>2. ASSUME NEW s \in Record
        PROVE  /\ [s EXCEPT !.access = local[p].now] \in Record
               /\ [s EXCEPT !.access = local[p].now].from = s.from
               /\ [s EXCEPT !.access = local[p].now].until = s.until
    BY <1>2 DEF Record
  <2>3. mem[i] # Absent => mem[i] \in Record
    BY <1>1
  <2> QED BY <2>1, <2>2, <2>3
<1>4. mem' \in [Ids -> Record \cup {Absent}]
  BY <1>1, <1>3 DEF Touched
<1> QED BY <1>1, <1>3, <1>4, StoreWritten

\* invalidate closes a validity: of the closed, it changes its own memory at most.
LEMMA InvalidateStores ==
    ASSUME MemInv, NEW p \in Tasks, Invalidate(p)
    PROVE  StoreStep(IF local[p].id \in Present /\ mem[local[p].id].until # Forever THEN {local[p].id} ELSE {})
<1> DEFINE i == local[p].id
           R == IF i \in Present /\ mem[i].until # Forever THEN {i} ELSE {}
<1>1. PICK t \in local[p].start .. clock : mem' = IF i \in Present THEN [mem EXCEPT ![i].until = t] ELSE mem
  BY DEF Invalidate
<1>2. /\ clock' = clock /\ born' = born /\ mem \in [Ids -> Record \cup {Absent}]
      /\ clock \in Times /\ local[p].start \in 0 .. clock /\ MaxTime \in Nat
  BY AgentMemoryAssumption DEF Invalidate, history, MemInv, StoreOk, At, TaskOk
<1>3. t \in Times /\ t <= clock /\ t # Forever
  BY <1>1, <1>2, AgentMemoryAssumption DEF Times
<1>4. CASE i \in Present
  <2>1. mem[i] \in Record /\ mem[i] # Absent /\ i \in Ids
    BY <1>2, <1>4 DEF Present
  <2> DEFINE s == [mem[i] EXCEPT !.until = t]
  <2>2. s \in Record /\ s.from = mem[i].from /\ s.until = t
    BY <1>3, <2>1 DEF Record
  <2>3. mem' = [mem EXCEPT ![i] = s]
    BY <1>1, <1>4
  <2>4. i \in R \/ mem[i].until = Forever
    BY <1>4
  <2> HIDE DEF s, R, i
  <2>5. mem' \in [Ids -> Record \cup {Absent}] /\ mem'[i] = s /\ \A j \in Ids \ {i} : mem'[j] = mem[j]
    BY <1>2, <2>1, <2>2, <2>3
  <2>6. StoreStep(R)
    BY <1>2, <1>3, <2>1, <2>2, <2>4, <2>5, StoreWritten
  <2> QED BY <2>6 DEF R, i
<1>5. CASE i \notin Present
  <2>1. mem' = mem
    BY <1>1, <1>5
  <2>2. StoreStep(R)
    <3> HIDE DEF R
    <3> QED BY <1>2, <2>1, StoreWritten
  <2> QED BY <2>2
<1> QED BY <1>4, <1>5

\* What is removed is gone; the rest is as it was.
LEMMA WithoutStores ==
    ASSUME MemInv, NEW S, UNCHANGED <<clock, born>>, mem' = Without(S)
    PROVE  StoreStep({}) /\ \A i \in Ids : mem'[i] = IF i \in S THEN Absent ELSE mem[i]
<1>1. clock' = clock /\ born' = born /\ mem \in [Ids -> Record \cup {Absent}]
  BY DEF MemInv, StoreOk
<1>2. \A i \in Ids : mem'[i] = IF i \in S THEN Absent ELSE mem[i]
  BY DEF Without
<1>3. mem' \in [Ids -> Record \cup {Absent}]
  BY <1>1 DEF Without
<1> QED BY <1>1, <1>2, <1>3, StoreWritten

-----------------------------------------------------------------------------
(* The steps that write. *)

\* What is said of the other tasks stays true.
LEMMA OthersRely ==
    ASSUME MemInv, NEW R, StoreStep(R), NEW q \in Tasks, local[q].at \in Recalls => local[q].since \cap R = {}
    PROVE  TaskOk(local[q], clock', mem', born')
<1>1. /\ StoreOk(clock, mem, born) /\ StoreOk(clock', mem', born')
      /\ Evolves(clock, mem, born, clock', mem', born', R) /\ TaskOk(local[q], clock, mem, born)
  BY DEF MemInv, StoreStep, StoreOk
<1> QED BY <1>1, Relies

\* A step of one task that writes.
LEMMA WritingStep ==
    ASSUME MemInv, NEW p \in Tasks, NEW r, Goes(p, r), StoreStep({}), TaskOk(r, clock', mem', born'),
           AnnouncedIn(mem', born', forgotten', silent', local')
    PROVE  MemInv'
<1>1. local = [q \in Tasks |-> local[q]] /\ local' = [local EXCEPT ![p] = r]
  BY DEF MemInv, Goes
<1>2. local'[p] = r /\ \A q \in Tasks \ {p} : local'[q] = local[q]
  BY <1>1
<1>3. local' = [q \in Tasks |-> local'[q]]
  BY <1>1
<1>4. \A q \in Tasks : TaskOk(local[q], clock', mem', born')
  BY OthersRely
<1>5. \A q \in Tasks : TaskOk(local'[q], clock', mem', born')
  BY <1>2, <1>4
<1>6. StoreOk(clock', mem', born')
  BY DEF StoreStep, StoreOk
<1> QED BY <1>3, <1>5, <1>6 DEF MemInv

\* Nothing is gone that was not, and no one leaves who will announce something.
LEMMA StillAnnounced ==
    ASSUME MemInv, NEW p \in Tasks, NEW r, Goes(p, r), local[p].at # "emit",
           born \subseteq born', forgotten' = forgotten, silent \subseteq silent', silent' \subseteq born',
           PresentIn(mem') \cap born \subseteq PresentIn(mem),
           \A i \in born' \ PresentIn(mem') :
              (i \in born /\ i \notin PresentIn(mem)) \/ i \in silent' \/ (r.at = "emit" /\ i \in r.existing)
    PROVE  AnnouncedIn(mem', born', forgotten', silent', local')
<1>1. local = [q \in Tasks |-> local[q]] /\ local' = [local EXCEPT ![p] = r]
  BY DEF MemInv, Goes
<1>2. local'[p] = r /\ \A q \in Tasks \ {p} : local'[q] = local[q]
  BY <1>1
<1>3. /\ forgotten \subseteq born /\ forgotten \cap PresentIn(mem) = {}
      /\ \A i \in born \ PresentIn(mem) :
            i \in forgotten \cup silent \/ \E q \in Tasks : local[q].at = "emit" /\ i \in local[q].existing
  BY DEF MemInv, AnnouncedIn
<1>4. forgotten' \subseteq born' /\ forgotten' \cap PresentIn(mem') = {}
  BY <1>3
<1>5. ASSUME NEW i \in born' \ PresentIn(mem')
      PROVE  i \in forgotten' \cup silent' \/ \E q \in Tasks : local'[q].at = "emit" /\ i \in local'[q].existing
  <2>1. CASE i \in born /\ i \notin PresentIn(mem)
    <3>1. CASE i \in forgotten \cup silent
      BY <3>1
    <3>2. CASE \E q \in Tasks : local[q].at = "emit" /\ i \in local[q].existing
      <4>1. PICK q \in Tasks : local[q].at = "emit" /\ i \in local[q].existing
        BY <3>2
      <4>2. local'[q] = local[q]
        BY <1>2, <4>1
      <4> QED BY <4>1, <4>2
    <3> QED BY <1>3, <2>1, <3>1, <3>2
  <2>2. CASE i \in silent'
    BY <2>2
  <2>3. CASE r.at = "emit" /\ i \in r.existing
    BY <1>2, <2>3
  <2> QED BY <1>5, <2>1, <2>2, <2>3
<1> QED BY <1>4, <1>5 DEF AnnouncedIn

\* The clock ticks, or an importance changes: no task moves.
LEMMA OutsideStep == ASSUME MemInv, Tick \/ SetImportance PROVE MemInv'
<1>1. StoreStep({}) /\ local' = local /\ born' = born /\ forgotten' = forgotten /\ silent' = silent
  BY TickStores, SetImportanceStores DEF Tick, SetImportance, history
<1>2. \A q \in Tasks : TaskOk(local'[q], clock', mem', born')
  BY <1>1, OthersRely
<1>3. StoreOk(clock', mem', born')
  BY <1>1 DEF StoreStep, StoreOk
<1>4. PresentIn(mem') = PresentIn(mem)
  <2>1. CASE Tick
    BY <2>1 DEF Tick
  <2>2. CASE SetImportance
    <3>1. PICK i \in Present, w \in Importances : mem' = [mem EXCEPT ![i].importance = w]
      BY <2>2 DEF SetImportance
    <3>2. mem \in [Ids -> Record \cup {Absent}] /\ mem' \in [Ids -> Record \cup {Absent}]
      BY <1>3 DEF MemInv, StoreOk
    <3>3. mem[i] \in Record /\ mem[i] # Absent /\ i \in Ids
      BY <3>2 DEF Present
    <3> DEFINE s == [mem[i] EXCEPT !.importance = w]
    <3>4. s \in Record
      BY <3>3 DEF Record
    <3>5. mem' = [mem EXCEPT ![i] = s]
      BY <3>1
    <3> HIDE DEF s
    <3>6. mem'[i] # Absent /\ \A j \in Ids \ {i} : mem'[j] = mem[j]
      BY <3>2, <3>3, <3>4, <3>5, AbsentAssumption
    <3> QED BY <3>3, <3>6 DEF PresentIn
  <2> QED BY <2>1, <2>2
<1>5. AnnouncedIn(mem', born', forgotten', silent', local')
  BY <1>1, <1>4 DEF MemInv, AnnouncedIn
<1>6. local' = [q \in Tasks |-> local'[q]]
  BY <1>1 DEF MemInv
<1> QED BY <1>2, <1>3, <1>5, <1>6 DEF MemInv

\* The new memory is there.
LEMMA PutStep == ASSUME MemInv, NEW p \in Tasks, Put(p) PROVE MemInv'
<1>1. Goes(p, Idle) /\ local[p].at = "put" /\ forgotten' = forgotten /\ silent' = silent
  BY DEF Put, At
<1>2. StoreStep({})
  BY PutStores
<1>3. TaskOk(Idle, clock', mem', born')
  BY Tasked DEF Idle, Has
<1>4. PICK i \in Ids \ born, w \in Importances, t \in Times \cup {Forever} :
          /\ mem' = [mem EXCEPT ![i] = [from |-> local[p].now, until |-> t,
                                        importance |-> w, access |-> local[p].now]]
          /\ born' = born \cup {i}
  BY DEF Put
<1>5. mem \in [Ids -> Record \cup {Absent}] /\ mem' \in [Ids -> Record \cup {Absent}] /\ clock' = clock
  BY <1>2 DEF MemInv, StoreOk, StoreStep, Put
<1>6. mem'[i] # Absent /\ \A j \in Ids \ {i} : mem'[j] = mem[j]
  <2> DEFINE s == [from |-> local[p].now, until |-> t, importance |-> w, access |-> local[p].now]
  <2>1. local[p].now \in 0 .. clock /\ clock \in Times /\ MaxTime \in Nat
    BY <1>1, AgentMemoryAssumption DEF MemInv, StoreOk, TaskOk
  <2>2. s \in Record
    BY <2>1 DEF Record, Times
  <2>3. mem' = [mem EXCEPT ![i] = s]
    BY <1>4
  <2> HIDE DEF s
  <2> QED BY <1>5, <2>2, <2>3, AbsentAssumption
<1>7. PresentIn(mem') = PresentIn(mem) \cup {i} /\ PresentIn(mem) \subseteq born /\ silent \subseteq born
  BY <1>6 DEF PresentIn, MemInv, StoreOk, AnnouncedIn
<1>8. AnnouncedIn(mem', born', forgotten', silent', local')
  BY <1>1, <1>4, <1>7, StillAnnounced
<1> QED BY <1>1, <1>2, <1>3, <1>8, WritingStep

\* A touch brings nothing back that was removed meanwhile.
LEMMA TouchStep == ASSUME MemInv, NEW p \in Tasks, Touch(p) PROVE MemInv'
<1>1. /\ Goes(p, Idle) /\ local[p].at = "touch" /\ forgotten' = forgotten /\ silent' = silent
      /\ born' = born /\ mem' = Touched(p)
  BY DEF Touch, At, history
<1>2. StoreStep({})
  BY TouchStores
<1>3. TaskOk(Idle, clock', mem', born')
  BY Tasked DEF Idle, Has
<1>4. PresentIn(mem') = PresentIn(mem)
  <2>1. mem \in [Ids -> Record \cup {Absent}] /\ clock \in Times /\ MaxTime \in Nat /\ local[p].now \in 0 .. clock
    BY <1>1, TaskIs, AgentMemoryAssumption DEF MemInv, StoreOk, Recalls, RecallOk
  <2>2. local[p].now \in Times
    BY <2>1 DEF Times
  <2>3. ASSUME NEW i \in Ids PROVE mem'[i] # Absent <=> mem[i] # Absent
    <3>1. mem'[i] = IF i \in local[p].ids /\ mem[i] # Absent THEN [mem[i] EXCEPT !.access = local[p].now] ELSE mem[i]
      BY <1>1 DEF Touched
    <3>2. mem[i] # Absent => mem[i] \in Record
      BY <2>1
    <3>3. \A s \in Record : [s EXCEPT !.access = local[p].now] \in Record
      BY <2>2 DEF Record
    <3> QED BY <3>1, <3>2, <3>3, AbsentAssumption
  <2> QED BY <2>3 DEF PresentIn
<1>5. AnnouncedIn(mem', born', forgotten', silent', local')
  <2>1. silent \subseteq born
    BY DEF MemInv, AnnouncedIn
  <2> QED BY <1>1, <1>4, <2>1, StillAnnounced
<1> QED BY <1>1, <1>2, <1>3, <1>5, WritingStep

\* A call that claims less of what had ended when it began, and else is as it was.
LEMMA SinceShrinks ==
    ASSUME NEW c, NEW m, NEW b, NEW l, TaskOk(l, c, m, b), "since" \in DOMAIN l,
           NEW R, NEW r, r = [l EXCEPT !.since = @ \ R]
    PROVE  /\ TaskOk(r, c, m, b) /\ r.at = l.at /\ r.since \cap R = {}
           /\ l.at = "emit" => r.existing = l.existing
<1>1. DOMAIN r = DOMAIN l /\ r.since = l.since \ R /\ \A f \in DOMAIN l \ {"since"} : r[f] = l[f]
  OBVIOUS
<1>2. "at" \in DOMAIN l /\ r.at = l.at
  BY <1>1 DEF TaskOk, Has
<1>3. RecallOk(l, c, m, b) => RecallOk(r, c, m, b)
  BY <1>1, <1>2 DEF RecallOk, Has
<1>4. PassOk(l, c, m, b) => PassOk(r, c, m, b)
  BY <1>1 DEF PassOk, Has
<1>5. SelectOk(l) /\ PassOk(l, c, m, b) => SelectOk(r)
  <2> SUFFICES ASSUME SelectOk(l), PassOk(l, c, m, b) PROVE SelectOk(r)
    OBVIOUS
  <2>1. /\ r.heap = l.heap /\ r.offered = l.offered /\ r.page = l.page /\ r.cursor = l.cursor
        /\ r.capacity = l.capacity /\ Has(r, {"heap", "offered", "page", "short"})
    BY <1>1 DEF SelectOk, PassOk, Has
  <2> QED BY <1>2, <2>1 DEF SelectOk
<1>6. RemovalOk(l, c, m, b) => RemovalOk(r, c, m, b)
  <2> SUFFICES ASSUME RemovalOk(l, c, m, b) PROVE RemovalOk(r, c, m, b)
    OBVIOUS
  <2>1. /\ r.job = l.job /\ r.victims = l.victims /\ r.left = l.left /\ r.existing = l.existing /\ r.last = l.last
        /\ Has(r, {"at", "job", "victims", "left", "existing", "last"})
    BY <1>1 DEF RemovalOk, Has
  <2>2. l.job = "collect" => Has(r, {"now", "cursor"}) /\ r.now = l.now
    BY <1>1 DEF RemovalOk, Has
  <2> QED BY <1>2, <2>1, <2>2 DEF RemovalOk
<1>7. EvictOk(l, c, m) /\ PassOk(l, c, m, b) /\ (l.at \in Removals => RemovalOk(l, c, m, b)) /\ (l.at = "evict" \/ l.at \in Removals)
      => EvictOk(r, c, m)
  <2> SUFFICES ASSUME EvictOk(l, c, m), PassOk(l, c, m, b), l.at \in Removals => RemovalOk(l, c, m, b),
                      l.at = "evict" \/ l.at \in Removals
               PROVE  EvictOk(r, c, m)
    OBVIOUS
  <2>1. /\ r.started = l.started /\ r.survivors = l.survivors /\ r.cursor = l.cursor /\ r.capacity = l.capacity
        /\ Has(r, {"survivors"})
    BY <1>1 DEF EvictOk, PassOk, Has
  <2>2. l.at # "evict" => r.last = l.last /\ r.victims = l.victims
    BY <1>1 DEF RemovalOk, Has
  <2>3. Seen(r) = Seen(l)
    BY <1>2, <2>1, <2>2 DEF Seen
  <2> QED BY <1>2, <2>1, <2>2, <2>3 DEF EvictOk
<1>8. l.at \in Removals => r.job = l.job /\ r.existing = l.existing
  BY <1>1 DEF TaskOk, RemovalOk, Has
<1>9. l.at = "put" => Has(r, {"now"}) /\ r.now = l.now
  BY <1>1 DEF TaskOk, Has
<1>10. l.at = "invalidate" => Has(r, {"id", "start"}) /\ r.id = l.id /\ r.start = l.start
  BY <1>1 DEF TaskOk, Has
<1>11. l.at = "collect" => Has(r, {"at", "now", "cursor"}) /\ r.now = l.now
  BY <1>1 DEF TaskOk, Has
<1>12. Has(r, {"at"}) /\ r.since \cap R = {}
  BY <1>1, <1>2 DEF Has
<1>13. TaskOk(r, c, m, b)
  BY <1>2, <1>3, <1>4, <1>5, <1>6, <1>7, <1>8, <1>9, <1>10, <1>11, <1>12 DEF TaskOk
<1> QED BY <1>2, <1>8, <1>12, <1>13 DEF Removals

\* A validity is closed, at a time that a recall of before may not have reached.
LEMMA InvalidateStep == ASSUME MemInv, NEW p \in Tasks, Invalidate(p) PROVE MemInv'
<1> DEFINE i == local[p].id
           R == IF i \in Present /\ mem[i].until # Forever THEN {i} ELSE {}
           Less(q) == [local[q] EXCEPT !.since = @ \ R]
<1>1. /\ local[p].at = "invalidate"
      /\ local' = [q \in Tasks |-> IF q = p THEN Idle
                                   ELSE IF "since" \in DOMAIN local[q] THEN Less(q) ELSE local[q]]
      /\ clock' = clock /\ born' = born /\ forgotten' = forgotten /\ silent' = silent
  BY DEF Invalidate, At, history
<1>2. StoreStep(R)
  BY InvalidateStores
<1>3. ASSUME NEW q \in Tasks, q # p, "since" \in DOMAIN local[q]
      PROVE  /\ TaskOk(Less(q), clock, mem, born) /\ Less(q).at = local[q].at /\ Less(q).since \cap R = {}
             /\ local[q].at = "emit" => Less(q).existing = local[q].existing
  <2>1. TaskOk(local[q], clock, mem, born)
    BY DEF MemInv
  <2> HIDE DEF R
  <2> QED BY <1>3, <2>1, SinceShrinks
<1>4. ASSUME NEW q \in Tasks, q # p, "since" \notin DOMAIN local[q]
      PROVE  TaskOk(local[q], clock, mem, born) /\ local[q].at \notin Recalls
  BY <1>4 DEF MemInv, TaskOk, RecallOk, Has
<1>5. /\ local'[p] = Idle
      /\ \A q \in Tasks \ {p} : local'[q] = IF "since" \in DOMAIN local[q] THEN Less(q) ELSE local[q]
  <2> HIDE DEF Less
  <2> QED BY <1>1
<1>6. local' = [q \in Tasks |-> local'[q]]
  <2> HIDE DEF Less
  <2> QED BY <1>1
<1> HIDE DEF R, Less, i
<1>7. ASSUME NEW q \in Tasks, q # p
      PROVE  /\ TaskOk(local'[q], clock, mem, born) /\ local'[q].at = local[q].at
             /\ local'[q].at \in Recalls => local'[q].since \cap R = {}
             /\ local[q].at = "emit" => local'[q].existing = local[q].existing
  BY <1>3, <1>4, <1>5, <1>7
<1>8. /\ StoreOk(clock, mem, born) /\ StoreOk(clock', mem', born')
      /\ Evolves(clock, mem, born, clock', mem', born', R)
  BY <1>2 DEF MemInv, StoreStep, StoreOk
<1>9. ASSUME NEW q \in Tasks PROVE TaskOk(local'[q], clock', mem', born')
  <2>1. CASE q = p
    BY <1>5, <2>1, Tasked DEF Idle, Has
  <2>2. CASE q # p
    BY <1>7, <1>8, <2>2, Relies
  <2> QED BY <2>1, <2>2
<1>10. PresentIn(mem') = PresentIn(mem)
  <2>1. PICK t \in local[p].start .. clock : mem' = IF i \in Present THEN [mem EXCEPT ![i].until = t] ELSE mem
    BY DEF Invalidate, i
  <2>2. /\ mem \in [Ids -> Record \cup {Absent}] /\ clock \in Times /\ MaxTime \in Nat
        /\ local[p].start \in 0 .. clock
    BY <1>1, AgentMemoryAssumption DEF MemInv, StoreOk, TaskOk
  <2>3. t \in Times
    BY <2>1, <2>2 DEF Times
  <2>4. CASE i \in Present
    <3>1. mem[i] \in Record /\ mem[i] # Absent /\ i \in Ids
      BY <2>2, <2>4 DEF Present
    <3> DEFINE s == [mem[i] EXCEPT !.until = t]
    <3>2. s \in Record
      BY <2>3, <3>1 DEF Record
    <3>3. mem' = [mem EXCEPT ![i] = s]
      BY <2>1, <2>4
    <3> HIDE DEF s
    <3>4. mem'[i] # Absent /\ \A j \in Ids \ {i} : mem'[j] = mem[j]
      BY <2>2, <3>1, <3>2, <3>3, AbsentAssumption
    <3> QED BY <3>1, <3>4 DEF PresentIn
  <2>5. CASE i \notin Present
    BY <2>1, <2>5
  <2> QED BY <2>4, <2>5
<1>11. AnnouncedIn(mem', born', forgotten', silent', local')
  <2>1. \A q \in Tasks : local[q].at = "emit" => local'[q].at = "emit" /\ local'[q].existing = local[q].existing
    BY <1>1, <1>7
  <2>2. AnnouncedIn(mem, born, forgotten, silent, local)
    BY DEF MemInv
  <2> QED BY <1>1, <1>10, <2>1, <2>2 DEF AnnouncedIn
<1> QED BY <1>6, <1>8, <1>9, <1>11 DEF MemInv

\* The victims that were there are gone: the task that removed them knows which.
LEMMA ForgetManyStep == ASSUME MemInv, NEW p \in Tasks, ForgetMany(p) PROVE MemInv'
<1> DEFINE l == local[p]
           u == [at |-> "emit"]
           r == Over(u, l)
<1>1. /\ local[p].at = "remove" /\ Goes(p, r) /\ mem' = Without(l.victims)
      /\ clock' = clock /\ born' = born /\ forgotten' = forgotten /\ silent' = silent
  BY DEF ForgetMany, At, Then, history
<1>2. StoreStep({}) /\ \A i \in Ids : mem'[i] = IF i \in l.victims THEN Absent ELSE mem[i]
  BY <1>1, WithoutStores
<1>3. /\ RemovalOk(l, clock', mem', born')
      /\ l.job = "evict" => PassOk(l, clock', mem', born') /\ EvictOk(l, clock', mem')
  BY <1>1, <1>2, OthersRely, TaskIs DEF Removals, Recalls
<1>4. RemovalOk(l, clock, mem, born)
  BY <1>1, TaskIs DEF MemInv, Removals
<1>5. PresentIn(mem') = PresentIn(mem) \ l.victims
  BY <1>2 DEF PresentIn
<1>6. /\ r.at = "emit" /\ DOMAIN l \subseteq DOMAIN r /\ \A f \in DOMAIN l \ {"at"} : r[f] = l[f]
  <2>1. DOMAIN u = {"at"} /\ u.at = "emit"
    OBVIOUS
  <2> HIDE DEF u, l
  <2>2. /\ DOMAIN r = DOMAIN u \cup DOMAIN l
        /\ \A f \in DOMAIN u : r[f] = u[f]
        /\ \A f \in DOMAIN l \ DOMAIN u : r[f] = l[f]
    BY OverIs, Zenon
  <2> HIDE DEF r
  <2> QED BY <2>1, <2>2
<1> HIDE DEF r, u
<1>7. /\ r.job = l.job /\ r.victims = l.victims /\ r.left = l.left /\ r.existing = l.existing /\ r.last = l.last
      /\ Has(r, {"at", "job", "victims", "left", "existing", "last"})
      /\ l.job = "collect" => Has(r, {"now", "cursor"}) /\ r.now = l.now
  BY <1>4, <1>6 DEF RemovalOk, Has
<1>8. RemovalOk(r, clock', mem', born')
  BY <1>3, <1>5, <1>6, <1>7 DEF RemovalOk
<1>9. r.job = "evict" => PassOk(r, clock', mem', born') /\ EvictOk(r, clock', mem')
  <2> SUFFICES ASSUME l.job = "evict" PROVE PassOk(r, clock', mem', born') /\ EvictOk(r, clock', mem')
    BY <1>7
  <2>1. /\ r.now = l.now /\ r.capacity = l.capacity /\ r.started = l.started /\ r.survivors = l.survivors
        /\ r.cursor = l.cursor /\ Has(r, {"at", "now", "capacity", "cursor", "started"}) /\ Has(r, {"survivors"})
    BY <1>3, <1>6 DEF PassOk, EvictOk, Has
  <2>2. PassOk(r, clock', mem', born')
    BY <1>3, <2>1 DEF PassOk
  <2>3. \A i \in ActiveIn(mem', clock') : i \notin l.victims
    BY <1>5 DEF ActiveIn
  <2>4. EvictOk(r, clock', mem')
    BY <1>1, <1>3, <1>6, <1>7, <2>1, <2>3 DEF EvictOk, Seen
  <2> QED BY <2>2, <2>4
<1>10. TaskOk(r, clock', mem', born')
  BY <1>6, <1>8, <1>9, Tasked DEF Removals
<1>11. AnnouncedIn(mem', born', forgotten', silent', local')
  <2>1. silent \subseteq born
    BY DEF MemInv, AnnouncedIn
  <2>2. l.victims \cap PresentIn(mem) \subseteq r.existing
    BY <1>1, <1>4, <1>7 DEF RemovalOk
  <2> QED BY <1>1, <1>5, <1>6, <2>1, <2>2, StillAnnounced
<1> QED BY <1>1, <1>2, <1>10, <1>11, WritingStep

\* What a failing call removed is silent.
LEMMA ForgetManyFailsStep == ASSUME MemInv, NEW p \in Tasks, ForgetManyFails(p) PROVE MemInv'
<1>1. PICK gone \in SUBSET Present : mem' = Without(gone) /\ silent' = silent \cup (gone \ forgotten)
  BY DEF ForgetManyFails
<1>2. /\ local[p].at = "remove" /\ Goes(p, Idle) /\ clock' = clock /\ born' = born /\ forgotten' = forgotten
  BY DEF ForgetManyFails, At
<1>3. StoreStep({}) /\ \A i \in Ids : mem'[i] = IF i \in gone THEN Absent ELSE mem[i]
  BY <1>1, <1>2, WithoutStores
<1>4. TaskOk(Idle, clock', mem', born')
  BY Tasked DEF Idle, Has
<1>5. PresentIn(mem') = PresentIn(mem) \ gone
  BY <1>3 DEF PresentIn
<1>6. gone \subseteq born /\ silent \subseteq born /\ gone \cap forgotten = {}
  BY Now DEF MemInv, StoreOk, AnnouncedIn
<1>7. AnnouncedIn(mem', born', forgotten', silent', local')
  BY <1>1, <1>2, <1>5, <1>6, StillAnnounced
<1> QED BY <1>2, <1>3, <1>4, <1>7, WritingStep

\* What was there is announced, and the pass or the collection goes on.
LEMMA EmitStep == ASSUME MemInv, NEW p \in Tasks, Emit(p) PROVE MemInv'
<1> DEFINE l == local[p]
           kept == DOMAIN l \ DOMAIN RemovalOf(l.job, {}, FALSE)
           u == [at |-> l.job]
           v == [f \in kept |-> l[f]]
           r == Over(u, v)
<1>1. /\ local[p].at = "emit"
      /\ (l.last /\ Goes(p, Idle)) \/ (~l.last /\ Goes(p, r))
      /\ clock' = clock /\ mem' = mem /\ born' = born
      /\ forgotten' = forgotten \cup l.existing /\ silent' = silent \ l.existing
  BY DEF Emit, At
<1>2. /\ RemovalOk(l, clock, mem, born)
      /\ l.job = "evict" => PassOk(l, clock, mem, born) /\ EvictOk(l, clock, mem)
  BY <1>1, TaskIs DEF MemInv, Removals
<1>3. StoreStep({})
  BY <1>1, NothingStores
<1>4. TaskOk(Idle, clock', mem', born')
  BY Tasked DEF Idle, Has
<1>5. /\ r.at = l.job /\ DOMAIN r = {"at"} \cup (DOMAIN l \ {"at", "job", "victims", "left", "existing", "last"})
      /\ \A f \in DOMAIN l \ {"at", "job", "victims", "left", "existing", "last"} : r[f] = l[f]
  <2>1. DOMAIN u = {"at"} /\ u.at = l.job
    OBVIOUS
  <2>2. kept = DOMAIN l \ {"at", "job", "victims", "left", "existing", "last"}
    BY DEF RemovalOf
  <2>3. DOMAIN v = kept /\ \A f \in kept : v[f] = l[f]
    OBVIOUS
  <2> HIDE DEF u, v, l, kept
  <2>4. /\ DOMAIN r = DOMAIN u \cup DOMAIN v
        /\ \A f \in DOMAIN u : r[f] = u[f]
        /\ \A f \in DOMAIN v \ DOMAIN u : r[f] = v[f]
    BY OverIs, Zenon
  <2> HIDE DEF r
  <2> QED BY <2>1, <2>2, <2>3, <2>4
<1> HIDE DEF r
<1>6. ~l.last => TaskOk(r, clock, mem, born)
  <2> SUFFICES ASSUME ~l.last PROVE TaskOk(r, clock, mem, born)
    OBVIOUS
  <2>1. CASE l.job = "evict"
    <3>1. /\ r.now = l.now /\ r.capacity = l.capacity /\ r.started = l.started /\ r.survivors = l.survivors
          /\ r.cursor = l.cursor /\ Has(r, {"at", "now", "capacity", "cursor", "started"}) /\ Has(r, {"survivors"})
      BY <1>2, <1>5, <2>1 DEF PassOk, EvictOk, Has
    <3>2. PassOk(r, clock, mem, born)
      BY <1>2, <2>1, <3>1 DEF PassOk
    <3>3. EvictOk(r, clock, mem)
      BY <1>1, <1>2, <1>5, <2>1, <3>1 DEF EvictOk, Seen
    <3> QED BY <1>5, <2>1, <3>2, <3>3, Tasked
  <2>2. CASE l.job = "collect"
    <3>1. Has(r, {"at", "now", "cursor"}) /\ r.now = l.now /\ l.now \in 0 .. clock
      BY <1>2, <1>5, <2>2 DEF RemovalOk, Has
    <3> QED BY <1>5, <2>2, <3>1, Tasked
  <2> QED BY <1>2, <2>1, <2>2 DEF RemovalOk
<1>7. local = [q \in Tasks |-> local[q]] /\ \A q \in Tasks \ {p} : local'[q] = local[q]
  <2>1. local = [q \in Tasks |-> local[q]]
    BY DEF MemInv
  <2>2. CASE Goes(p, Idle)
    BY <2>1, <2>2 DEF Goes
  <2>3. CASE Goes(p, r)
    BY <2>1, <2>3 DEF Goes
  <2> QED BY <1>1, <2>1, <2>2, <2>3
<1>8. AnnouncedIn(mem', born', forgotten', silent', local')
  <2>1. AnnouncedIn(mem, born, forgotten, silent, local)
    BY DEF MemInv
  <2>2. l.existing \subseteq born /\ l.existing \cap PresentIn(mem) = {}
    BY <1>1, <1>2 DEF RemovalOk
  <2>3. forgotten' \subseteq born /\ silent' \subseteq born /\ forgotten' \cap PresentIn(mem) = {}
    BY <1>1, <2>1, <2>2 DEF AnnouncedIn
  <2>4. ASSUME NEW i \in born \ PresentIn(mem)
        PROVE  i \in forgotten' \cup silent' \/ \E q \in Tasks : local'[q].at = "emit" /\ i \in local'[q].existing
    <3>1. CASE i \in forgotten \cup silent
      BY <1>1, <3>1
    <3>2. CASE \E q \in Tasks : local[q].at = "emit" /\ i \in local[q].existing
      <4>1. PICK q \in Tasks : local[q].at = "emit" /\ i \in local[q].existing
        BY <3>2
      <4>2. q = p \/ local'[q] = local[q]
        BY <1>7
      <4> QED BY <1>1, <4>1, <4>2
    <3> QED BY <2>1, <3>1, <3>2 DEF AnnouncedIn
  <2> QED BY <1>1, <2>3, <2>4 DEF AnnouncedIn
<1>9. TaskOk(r, clock', mem', born') \/ l.last
  BY <1>1, <1>6
<1>10. CASE Goes(p, Idle)
  BY <1>3, <1>4, <1>8, <1>10, WritingStep
<1>11. CASE ~l.last /\ Goes(p, r)
  BY <1>3, <1>8, <1>9, <1>11, WritingStep
<1> QED BY <1>1, <1>10, <1>11

-----------------------------------------------------------------------------
(* The theorems. *)

\* It holds of a store that is empty and of tasks that do nothing.
LEMMA InitEstablishes == Init => MemInv
<1> SUFFICES ASSUME Init PROVE MemInv
  OBVIOUS
<1>1. PresentIn(mem) = {} /\ clock \in Times
  BY AgentMemoryAssumption DEF Init, PresentIn, Times
<1>2. StoreOk(clock, mem, born)
  BY <1>1 DEF Init, StoreOk
<1>3. local = [p \in Tasks |-> local[p]] /\ \A p \in Tasks : local[p] = Idle
  BY DEF Init
<1>4. \A p \in Tasks : TaskOk(local[p], clock, mem, born)
  BY <1>3, Tasked DEF Idle, Has
<1>5. AnnouncedIn(mem, born, forgotten, silent, local)
  BY <1>1 DEF Init, AnnouncedIn
<1> QED BY <1>2, <1>3, <1>4, <1>5 DEF MemInv

\* Every step keeps the invariant.
LEMMA NextPreserves == MemInv /\ [Next]_vars => MemInv'
<1> SUFFICES ASSUME MemInv, [Next]_vars PROVE MemInv'
  OBVIOUS
<1>1. CASE Tick \/ SetImportance
  BY <1>1, OutsideStep
<1>2. ASSUME NEW p \in Tasks, Start(p) PROVE MemInv'
  BY <1>2, StartRememberStep, StartRecallStep, StartInvalidateStep, StartForgetStep,
     StartForgettingStep, StartCollectStep DEF Start
<1>3. ASSUME NEW p \in Tasks, Step(p) PROVE MemInv'
  BY <1>3, PutStep, SearchStep, RankVectorStep, RankKeywordStep, HydrateStep, TouchStep, InvalidateStep,
     LayerOfStep, ForgetManyStep, ForgetManyFailsStep, EmitStep, SelectStep, OfferNextStep,
     IntoSurvivorsStep, EvictStep, CollectStep, FailsStep DEF Step
<1>4. CASE UNCHANGED vars
  BY <1>4 DEF vars, history, MemInv, StoreOk, AnnouncedIn, PresentIn
<1> QED BY <1>1, <1>2, <1>3, <1>4 DEF Next

\* The invariant holds, however the calls of the tasks interleave.
THEOREM MemoryInvariance == Spec => []MemInv
<1> QED BY InitEstablishes, NextPreserves, PTL DEF Spec

\* Of every step, whoever takes it: no memory comes back, a validity only closes.
LEMMA EveryStepStores == ASSUME MemInv, [Next]_vars PROVE \E R : StoreStep(R)
<1>1. CASE Tick \/ SetImportance
  BY <1>1, TickStores, SetImportanceStores
<1>2. ASSUME UNCHANGED <<clock, mem, born>> PROVE StoreStep({})
  BY <1>2, NothingStores
<1>3. ASSUME NEW p \in Tasks, Start(p) PROVE UNCHANGED <<clock, mem, born>>
  <2>1. StartRemember(p) \/ StartRecall(p) \/ StartInvalidate(p) => UNCHANGED <<clock, mem, history>>
    BY DEF StartRemember, StartRecall, StartInvalidate
  <2>2. StartForget(p) \/ StartForgetting(p) \/ StartCollect(p) => UNCHANGED <<clock, mem, history>>
    BY DEF StartForget, StartForgetting, StartCollect
  <2> QED BY <1>3, <2>1, <2>2 DEF Start, history
<1>4. ASSUME NEW p \in Tasks, Step(p) PROVE \E R : StoreStep(R)
  <2>1. CASE Search(p) \/ RankVector(p) \/ RankKeyword(p) \/ Hydrate(p) \/ LayerOf(p)
    BY <1>2, <2>1 DEF Search, RankVector, RankKeyword, Hydrate, LayerOf, history
  <2>2. CASE Select(p) \/ OfferNext(p) \/ IntoSurvivors(p) \/ Evict(p) \/ Collect(p) \/ Fails(p)
    BY <1>2, <2>2 DEF Select, OfferNext, IntoSurvivors, Evict, Collect, Fails, history
  <2>3. CASE Emit(p)
    BY <1>2, <2>3 DEF Emit
  <2>4. CASE Put(p) \/ Touch(p) \/ Invalidate(p)
    BY <2>4, PutStores, TouchStores, InvalidateStores
  <2>5. CASE ForgetMany(p)
    BY <2>5, WithoutStores DEF ForgetMany, history
  <2>6. CASE ForgetManyFails(p)
    <3>1. PICK n \in local[p].victims \cup {0} : mem' = Without({i \in local[p].victims \cap Present : i <= n})
      BY <2>6 DEF ForgetManyFails
    <3> DEFINE S == {i \in local[p].victims \cap Present : i <= n}
    <3>2. UNCHANGED <<clock, born>> /\ mem' = Without(S)
      BY <2>6, <3>1 DEF ForgetManyFails
    <3> HIDE DEF S
    <3> QED BY <3>2, WithoutStores
  <2> QED BY <1>4, <2>1, <2>2, <2>3, <2>4, <2>5, <2>6 DEF Step
<1>5. CASE UNCHANGED vars
  BY <1>2, <1>5 DEF vars, history
<1> QED BY <1>1, <1>2, <1>3, <1>4, <1>5 DEF Next

\* No call that read a memory before it was invalidated writes back the validity
\* that it had: a validity that changes is closed, by the time it changes.
THEOREM ClosedStaysClosed == Spec => ValidityOnlyCloses
<1> DEFINE A == \A i \in Present \cap Present' :
                   mem'[i].until # mem[i].until => mem'[i].until # Forever /\ mem'[i].until <= clock'
<1>1. ASSUME MemInv, [Next]_vars PROVE A
  <2>1. PICK R : StoreStep(R)
    BY <1>1, EveryStepStores
  <2>2. /\ StoreOk(clock, mem, born) /\ Evolves(clock, mem, born, clock', mem', born', R)
    BY <1>1, <2>1 DEF MemInv, StoreStep
  <2> SUFFICES ASSUME NEW i \in Present \cap Present', mem'[i].until # mem[i].until
               PROVE  mem'[i].until # Forever /\ mem'[i].until <= clock'
    OBVIOUS
  <2>3. i \in born /\ mem'[i] # Absent
    BY <2>2 DEF Present, StoreOk, PresentIn
  <2> QED BY <2>2, <2>3 DEF Evolves
<1>2. MemInv /\ [Next]_vars => [A]_vars
  BY <1>1
<1> QED BY <1>2, MemoryInvariance, PTL DEF Spec, ValidityOnlyCloses

\* What was invalidated before a recall began is not among its results.
THEOREM InvalidatedNeverRecalled == Spec => []InvalidatedIsGone
<1>1. MemInv => InvalidatedIsGone
  BY TaskIs DEF MemInv, InvalidatedIsGone, At, Recalls, RecallOk
<1> QED BY <1>1, MemoryInvariance, PTL

\* The bounded heap ends with the strongest of all it was offered, page by page.
THEOREM BestAlwaysSurvive == Spec => []BestSurvive
<1>1. MemInv => BestSurvive
  <2> SUFFICES ASSUME MemInv, NEW p \in Tasks, local[p].at \in Selecting
               PROVE  Best(local[p].heap, local[p].offered, local[p].capacity)
    BY DEF BestSurvive, Best, Selecting
  <2> QED BY TaskIs DEF MemInv, SelectOk
<1> QED BY <1>1, MemoryInvariance, PTL

\* A pass of adaptive forgetting leaves capacity of those it found, at most.
THEOREM CapacityAlwaysReached == Spec => []CapacityReached
<1>1. ASSUME MemInv, NEW p \in Tasks, local[p].at = "emit", local[p].job = "evict", local[p].last
      PROVE  Cardinality(local[p].started \cap Active(clock)) <= local[p].capacity
  <2> DEFINE l == local[p]
             S == l.started \cap Active(clock)
  <2>1. PassOk(l, clock, mem, born) /\ EvictOk(l, clock, mem)
    BY <1>1, TaskIs DEF MemInv, Removals
  <2>2. S \subseteq l.survivors
    BY <1>1, <2>1, Now DEF EvictOk, Seen
  <2>3. IsFiniteSet(l.survivors) /\ Cardinality(l.survivors) <= l.capacity /\ l.capacity \in Nat
    BY <2>1 DEF EvictOk, PassOk
  <2>4. Cardinality(S) <= Cardinality(l.survivors) /\ Cardinality(S) \in Nat /\ Cardinality(l.survivors) \in Nat
    BY <2>2, <2>3, FS_Subset, FS_CardinalityType
  <2> QED BY <2>3, <2>4
<1>2. MemInv => CapacityReached
  BY <1>1 DEF CapacityReached, At
<1> QED BY <1>2, MemoryInvariance, PTL

\* The collector removes no memory that is active.
THEOREM CollectsOnlyExpired == Spec => []CollectsExpired
<1>1. MemInv => CollectsExpired
  BY Now, TaskIs DEF MemInv, CollectsExpired, Removing, Removals, RemovalOk
<1> QED BY <1>1, MemoryInvariance, PTL

\* No event announces what is there, and every removal is announced but those of
\* a call that failed.
THEOREM RemovalsAlwaysAnnounced == Spec => []RemovalsAnnounced
<1>1. MemInv => RemovalsAnnounced
  BY Now DEF MemInv, RemovalsAnnounced, AnnouncedIn, At
<1> QED BY <1>1, MemoryInvariance, PTL

\* The types of the model hold.
THEOREM MemoryTypes == Spec => []TypeOK
<1>1. MemInv => TypeOK
  <2> SUFFICES ASSUME MemInv PROVE TypeOK
    OBVIOUS
  <2>1. clock \in Times /\ mem \in [Ids -> Record \cup {Absent}] /\ Present \subseteq born /\ born \subseteq Ids
    BY Now DEF MemInv, StoreOk
  <2>2. forgotten \subseteq born /\ silent \subseteq born
    BY DEF MemInv, AnnouncedIn
  <2>3. ASSUME NEW p \in Tasks
        PROVE  /\ local[p].at \in {"idle", "put", "search", "rank_vector", "rank_keyword",
                              "hydrate", "touch", "invalidate", "layer_of", "remove",
                              "emit", "select", "offer", "selected", "evict", "collect"}
               /\ Removing(p) => local[p].victims \subseteq Ids
    <3>1. TaskOk(local[p], clock, mem, born)
      BY DEF MemInv
    <3>2. Removing(p) => RemovalOk(local[p], clock, mem, born)
      BY <3>1, TaskIs DEF Removing, Removals
    <3> QED BY <2>1, <3>1, <3>2 DEF TaskOk, Recalls, Selecting, Removals, RemovalOk
  <2> QED BY <2>1, <2>2, <2>3 DEF TypeOK
<1> QED BY <1>1, MemoryInvariance, PTL
===============================================================================
