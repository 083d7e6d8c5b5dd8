------------------------------ MODULE AgentMemory ------------------------------
(***************************************************************************)
(* The memories of one agent as its users and its background tasks share   *)
(* them: the facade of crates/basemyai/src/memory, adaptive forgetting and *)
(* the collection of expired memories (crates/basemyai/src/maintenance),   *)
(* over the native store (crates/basemyai/src/storage/native_store).       *)
(*                                                                         *)
(* A store call runs in one closure under the store's lock, so it is one   *)
(* step; what a task does between two of its calls, it does with what it   *)
(* read before.  The clock counts whole seconds, as now_unix does.         *)
(*                                                                         *)
(* Contents, vectors and rankings are left out: a search returns any of    *)
(* the memories it may return.  Of a score importance + H / (H + age) only *)
(* the order is kept, for importances that differ by one at least.         *)
(***************************************************************************)
EXTENDS Integers, FiniteSets

CONSTANTS
    Tasks,        \* the async tasks that call the facade
    NumIds,       \* bound: memories ever created, in the order of their ids
    Importances,  \* the importances in use
    Capacities,   \* the AdaptiveForgettingPolicy::capacity values in use
    PageSize,     \* SCAN_PAGE_SIZE, and the page size of the collection
    MaxTime,      \* bound: the clock
    Absent, Forever

ASSUME AgentMemoryAssumption ==
    /\ NumIds \in Nat /\ MaxTime \in Nat /\ Capacities \subseteq Nat
    /\ PageSize \in Nat \ {0}
    /\ Importances \subseteq Int
    /\ Forever \notin Int

Ids    == 1 .. NumIds
Times  == 0 .. MaxTime
Record == [from : Times, until : Times \cup {Forever},
           importance : Importances, access : Times]

ASSUME AbsentAssumption == Absent \notin Record

VARIABLES
    clock,      \* now_unix()
    mem,        \* the stored memories
    local,      \* what each task is doing, and what it remembers of it
    born,       \* history: the ids given to a memory
    forgotten,  \* history: the memories of which a Forgotten event was sent
    silent      \* history: the memories that a failing call removed

history == <<born, forgotten, silent>>
vars    == <<clock, mem, local, history>>

Present == {i \in Ids : mem[i] # Absent}

\* (Faulty: the end of the validity is included.)
ValidAtEnd(r, t) == r.from <= t /\ (r.until = Forever \/ t <= r.until)

\* record_valid_at: valid_until is exclusive.
ValidAt(r, t) == r.from <= t /\ (r.until = Forever \/ t < r.until)

\* (Faulty: the bound of the range scan is one too high.)
ExpiredSoon(t) == {i \in Present : mem[i].until # Forever /\ mem[i].until <= t + 1}

Active(t)  == {i \in Present : ValidAt(mem[i], t)}
Expired(t) == {i \in Present : mem[i].until # Forever /\ mem[i].until <= t}

Idle == [at |-> "idle"]

At(p, place) == local[p].at = place
Goes(p, l)   == local' = [local EXCEPT ![p] = l]

\* The fields of l, and those of r that l does not have.
Over(l, r) == [f \in DOMAIN l \cup DOMAIN r |-> IF f \in DOMAIN l THEN l[f] ELSE r[f]]

\* The call of p goes on with the fields of l changed.
Then(p, l) == Goes(p, Over(l, local[p]))

-----------------------------------------------------------------------------
(* Selection of the survivors. *)

\* A candidate: a last access after now counts as now (its age saturates at 0).
Candidate(i, now) ==
    [id |-> i, importance |-> mem[i].importance,
     recency |-> IF mem[i].access > now THEN now ELSE mem[i].access]

Stronger(a, b) ==
    \/ a.importance > b.importance
    \/ a.importance = b.importance /\ a.recency > b.recency
    \/ a.importance = b.importance /\ a.recency = b.recency /\ a.id < b.id

\* The top of the heap.
Weakest(heap) == {w \in heap : \A x \in heap : x = w \/ Stronger(x, w)}

\* (Faulty: a full heap takes any challenger.)
OfferAny(capacity, heap, c) ==
    IF capacity = 0 THEN {heap}
    ELSE IF Cardinality(heap) < capacity THEN {heap \cup {c}}
    ELSE {(heap \ {w}) \cup {c} : w \in Weakest(heap)}

\* SurvivorSelector::offer, what the heap is after it: it keeps the best.
Offer(capacity, heap, c) ==
    IF capacity = 0 THEN {heap}
    ELSE IF Cardinality(heap) < capacity THEN {heap \cup {c}}
    ELSE {IF Stronger(c, w) THEN (heap \ {w}) \cup {c} ELSE heap : w \in Weakest(heap)}

\* scan_for_forgetting, scan_expired: the first PageSize ids of S after the cursor
\* (0 before the first page).
Page(S, cursor) ==
    LET rest == {i \in S : i > cursor}
    IN {i \in rest : Cardinality({j \in rest : j < i}) < PageSize}

Greatest(P) == CHOOSE i \in P : \A j \in P : j <= i

-----------------------------------------------------------------------------
Init ==
    /\ clock = 0
    /\ mem = [i \in Ids |-> Absent]
    /\ local = [p \in Tasks |-> Idle]
    /\ born = {} /\ forgotten = {} /\ silent = {}

Tick ==
    /\ clock < MaxTime /\ clock' = clock + 1
    /\ UNCHANGED <<mem, local, history>>

-----------------------------------------------------------------------------
(* remember: the clock is read before the text is embedded, the put comes after. *)

StartRemember(p) ==
    /\ At(p, "idle")
    /\ Goes(p, [at |-> "put", now |-> clock])
    /\ UNCHANGED <<clock, mem, history>>

Put(p) ==
    /\ At(p, "put")
    /\ \E i \in Ids \ born, w \in Importances,
          t \in {x \in Times : x > local[p].now} \cup {Forever} :
          /\ mem' = [mem EXCEPT ![i] = [from |-> local[p].now, until |-> t,
                                        importance |-> w, access |-> local[p].now]]
          /\ born' = born \cup {i}
    /\ Goes(p, Idle)
    /\ UNCHANGED <<clock, forgotten, silent>>

-----------------------------------------------------------------------------
(* recall: a search under the read lock, then a touch under the write lock.    *)
(* recall_hybrid: two rankings and a hydration, each its own store call.       *)
(* since: history, the memories that had ended when the call began.            *)

StartRecall(p) ==
    /\ At(p, "idle")
    /\ \E place \in {"search", "rank_vector"} :
          Goes(p, [at |-> place, now |-> clock,
                   since |-> {i \in Present : mem[i].until # Forever /\ mem[i].until <= clock}])
    /\ UNCHANGED <<clock, mem, history>>

\* search_filtered: it finds memories that are valid at the start of the call.
Search(p) ==
    /\ At(p, "search")
    /\ \E R \in SUBSET Active(local[p].now) :
          Then(p, [at |-> "touch", ids |-> R])
    /\ UNCHANGED <<clock, mem, history>>

\* vector_ranking_ids: any of the memories valid then.  Which of them are ranked,
\* and which the fusion keeps, is chosen where they are read, in Hydrate.
RankVector(p) ==
    /\ At(p, "rank_vector")
    /\ Then(p, [at |-> "rank_keyword", ids |-> Active(local[p].now)])
    /\ UNCHANGED <<clock, mem, history>>

\* keyword_ranking_ids.
RankKeyword(p) ==
    /\ At(p, "rank_keyword")
    /\ Then(p, [at |-> "hydrate", ids |-> local[p].ids \cup Active(local[p].now)])
    /\ UNCHANGED <<clock, mem, history>>

\* hydrate omits what is gone; it does not look at the validity again.
Hydrate(p) ==
    /\ At(p, "hydrate")
    /\ \E R \in SUBSET (local[p].ids \cap Present) : Then(p, [at |-> "touch", ids |-> R])
    /\ UNCHANGED <<clock, mem, history>>

\* (Faulty: the touch writes the record anew, as the put of a memory with no end.)
TouchAnew(p) ==
    [i \in Ids |-> IF i \in local[p].ids /\ mem[i] # Absent
                   THEN [mem[i] EXCEPT !.access = local[p].now, !.until = Forever] ELSE mem[i]]

\* touch_last_access reads each record again, and skips what is gone.
Touched(p) ==
    [i \in Ids |-> IF i \in local[p].ids /\ mem[i] # Absent
                   THEN [mem[i] EXCEPT !.access = local[p].now] ELSE mem[i]]

Touch(p) ==
    /\ At(p, "touch")
    /\ mem' = Touched(p)
    /\ Goes(p, Idle)
    /\ UNCHANGED <<clock, history>>

-----------------------------------------------------------------------------
(* invalidate reads the layer, then the clock, then writes. *)

StartInvalidate(p) ==
    /\ At(p, "idle")
    /\ \E i \in born : Goes(p, [at |-> "invalidate", id |-> i, start |-> clock])
    /\ UNCHANGED <<clock, mem, history>>

\* The clock was read at some time t since the start.  A memory that was closed
\* already gets a new end: a call that began earlier may see it as valid again,
\* and nothing is claimed of it then (see InvalidatedIsGone).
Invalidate(p) ==
    /\ At(p, "invalidate")
    /\ LET i == local[p].id
           reopened == IF i \in Present /\ mem[i].until # Forever THEN {i} ELSE {}
       IN /\ \E t \in local[p].start .. clock :
                mem' = IF i \in Present THEN [mem EXCEPT ![i].until = t] ELSE mem
          /\ local' = [q \in Tasks |->
                IF q = p THEN Idle
                ELSE IF "since" \in DOMAIN local[q]
                THEN [local[q] EXCEPT !.since = @ \ reopened] ELSE local[q]]
    /\ UNCHANGED <<clock, history>>

\* set_importance: one store call.
SetImportance ==
    /\ \E i \in Present : \E w \in Importances \ {mem[i].importance} :
          mem' = [mem EXCEPT ![i].importance = w]
    /\ UNCHANGED <<clock, local, history>>

-----------------------------------------------------------------------------
(* forget_batch_with_events, the part that forget, adaptive_forget and         *)
(* expired_gc share: the layer of each victim is read, all are removed, and an *)
(* event is sent of those that were there.                                     *)

\* (Faulty: the victims are removed without reading their layers.)
RemovalUnannounced(job, victims, last) ==
    [at |-> "remove", job |-> job, victims |-> victims, left |-> {},
     existing |-> {}, last |-> last]

\* last: nothing is left to remove after these victims.
RemovalOf(job, victims, last) ==
    [at |-> "layer_of", job |-> job, victims |-> victims, left |-> victims,
     existing |-> {}, last |-> last]

StartForget(p) ==
    /\ At(p, "idle")
    /\ \E i \in born : Goes(p, RemovalOf("forget", {i}, TRUE))
    /\ UNCHANGED <<clock, mem, history>>

LayerOf(p) ==
    /\ At(p, "layer_of")
    /\ LET left == local[p].left
           i    == CHOOSE x \in left : \A y \in left : x <= y
       IN IF left = {} THEN Then(p, [at |-> "remove"])
          ELSE Then(p, [left     |-> left \ {i},
                        existing |-> local[p].existing \cup ({i} \cap Present),
                        at       |-> IF left = {i} THEN "remove" ELSE "layer_of"])
    /\ UNCHANGED <<clock, mem, history>>

Without(S) == [i \in Ids |-> IF i \in S THEN Absent ELSE mem[i]]

\* forget_many: chunk by chunk in one closure.
ForgetMany(p) ==
    /\ At(p, "remove")
    /\ mem' = Without(local[p].victims)
    /\ Then(p, [at |-> "emit"])
    /\ UNCHANGED <<clock, history>>

\* A chunk failed: the ones before it are removed, and the call returns the error.
ForgetManyFails(p) ==
    /\ At(p, "remove")
    /\ \E n \in local[p].victims \cup {0} :
          LET gone == {i \in local[p].victims \cap Present : i <= n}
          IN mem' = Without(gone) /\ silent' = silent \cup (gone \ forgotten)
    /\ Goes(p, Idle)
    /\ UNCHANGED <<clock, born, forgotten>>

\* The events, and what the caller does next: another page, unless the last one
\* was short.
Emit(p) ==
    /\ At(p, "emit")
    /\ forgotten' = forgotten \cup local[p].existing
    /\ silent' = silent \ local[p].existing
    /\ LET l == local[p]
           kept == DOMAIN l \ DOMAIN RemovalOf(l.job, {}, FALSE)
       IN \/ l.last /\ Goes(p, Idle)
          \/ ~l.last /\ Goes(p, Over([at |-> l.job], [f \in kept |-> l[f]]))
    /\ UNCHANGED <<clock, mem, born>>

-----------------------------------------------------------------------------
(* adaptive_forget: select_survivors, then one page of victims after another,  *)
(* both at the time of the first pass.  started and offered: history, what was *)
(* active at the start and what the first pass saw (the code counts it).       *)

StartForgetting(p) ==
    /\ At(p, "idle")
    /\ \E n \in Capacities :
          Goes(p, [at |-> "select", now |-> clock, capacity |-> n, cursor |-> 0,
                   heap |-> {}, offered |-> {}, page |-> {}, short |-> FALSE, started |-> Active(clock)])
    /\ UNCHANGED <<clock, mem, history>>

\* A page of the first pass; a short page is the last one.
Select(p) ==
    /\ At(p, "select")
    /\ LET l == local[p]
           P == Page(Active(l.now), l.cursor)
       IN Then(p, [at      |-> IF P = {} THEN "selected" ELSE "offer",
                   cursor  |-> IF P = {} THEN l.cursor ELSE Greatest(P),
                   page    |-> {Candidate(i, l.now) : i \in P},
                   short   |-> Cardinality(P) < PageSize])
    /\ UNCHANGED <<clock, mem, history>>

\* Its candidates are offered one by one, in the order of their ids.
OfferNext(p) ==
    /\ At(p, "offer")
    /\ LET l == local[p]
       IN \E c \in l.page :
             /\ \A d \in l.page : c.id <= d.id
             /\ \E heap \in Offer(l.capacity, l.heap, c) :
                   Then(p, [at      |-> IF l.page # {c} THEN "offer"
                                       ELSE IF l.short THEN "selected" ELSE "select",
                            heap    |-> heap,
                            page    |-> l.page \ {c},
                            offered |-> l.offered \cup {c}])
    /\ UNCHANGED <<clock, mem, history>>

IdsOf(C) == {c.id : c \in C}

\* Nothing is evicted unless more than capacity candidates were seen.
IntoSurvivors(p) ==
    /\ At(p, "selected")
    /\ LET l == local[p]
       IN \/ Cardinality(l.offered) <= l.capacity /\ Goes(p, Idle)
          \/ /\ Cardinality(l.offered) > l.capacity
             /\ Goes(p, [at |-> "evict", now |-> l.now, capacity |-> l.capacity,
                         cursor |-> 0, started |-> l.started,
                         survivors |-> IdsOf(l.heap)])
    /\ UNCHANGED <<clock, mem, history>>

\* (Faulty: the page is short when few of its memories are victims.)
EvictShort(p) ==
    /\ At(p, "evict")
    /\ LET l == local[p]
           P == Page(Active(l.now), l.cursor)
           V == P \ l.survivors
       IN Then(p, Over([cursor |-> IF P = {} THEN l.cursor ELSE Greatest(P)],
                       RemovalOf("evict", V, Cardinality(V) < PageSize)))
    /\ UNCHANGED <<clock, mem, history>>

\* next_victim_page: whoever is active now, at the time of the first pass, and
\* did not survive it.
Evict(p) ==
    /\ At(p, "evict")
    /\ LET l == local[p]
           P == Page(Active(l.now), l.cursor)
       IN Then(p, Over([cursor |-> IF P = {} THEN l.cursor ELSE Greatest(P)],
                       RemovalOf("evict", P \ l.survivors, Cardinality(P) < PageSize)))
    /\ UNCHANGED <<clock, mem, history>>

-----------------------------------------------------------------------------
(* expired_gc. *)

StartCollect(p) ==
    /\ At(p, "idle")
    /\ Goes(p, [at |-> "collect", now |-> clock, cursor |-> 0])
    /\ UNCHANGED <<clock, mem, history>>

Collect(p) ==
    /\ At(p, "collect")
    /\ LET l == local[p]
           P == Page(Expired(l.now), l.cursor)
       IN \/ P = {} /\ Goes(p, Idle)
          \/ P # {} /\ Then(p, Over([cursor |-> Greatest(P)],
                                    RemovalOf("collect", P, Cardinality(P) < PageSize)))
    /\ UNCHANGED <<clock, mem, history>>

-----------------------------------------------------------------------------
\* A store call that fails, or whose caller is dropped, before it wrote.
Fails(p) ==
    /\ ~At(p, "idle") /\ ~At(p, "offer") /\ ~At(p, "emit")
    /\ Goes(p, Idle)
    /\ UNCHANGED <<clock, mem, history>>

Step(p) ==
    \/ Put(p)
    \/ Search(p) \/ RankVector(p) \/ RankKeyword(p) \/ Hydrate(p) \/ Touch(p)
    \/ Invalidate(p)
    \/ LayerOf(p) \/ ForgetMany(p) \/ ForgetManyFails(p) \/ Emit(p)
    \/ Select(p) \/ OfferNext(p) \/ IntoSurvivors(p) \/ Evict(p) \/ Collect(p)
    \/ Fails(p)

Start(p) ==
    \/ StartRemember(p) \/ StartRecall(p) \/ StartInvalidate(p) \/ StartForget(p)
    \/ StartForgetting(p) \/ StartCollect(p)

Next == Tick \/ SetImportance \/ \E p \in Tasks : Start(p) \/ Step(p)

Spec == Init /\ [][Next]_vars

-----------------------------------------------------------------------------
(* Properties. *)

Removing(p) == local[p].at \in {"layer_of", "remove", "emit"}

\* The store, the clock and the histories have their types.
TypeOK ==
    /\ clock \in Times
    /\ mem \in [Ids -> Record \cup {Absent}]
    /\ \A p \in Tasks :
          /\ local[p].at \in {"idle", "put", "search", "rank_vector", "rank_keyword",
                              "hydrate", "touch", "invalidate", "layer_of", "remove",
                              "emit", "select", "offer", "selected", "evict", "collect"}
          /\ Removing(p) => local[p].victims \subseteq Ids
    /\ Present \subseteq born /\ born \subseteq Ids
    /\ forgotten \subseteq born /\ silent \subseteq born

\* What was invalidated before a recall began is not in its results, however the
\* search, the rankings and the touch interleave with other writers
\* (memory/mod.rs: "Il n'apparait plus dans les recalls futurs").
InvalidatedIsGone ==
    \A p \in Tasks : At(p, "touch") => local[p].ids \cap local[p].since = {}

\* A validity only closes: no touch, put or change of importance that read the
\* record before an invalidation brings back what it wrote.
ValidityOnlyCloses ==
    [][\A i \in Present \cap Present' :
          mem'[i].until # mem[i].until =>
             mem'[i].until # Forever /\ mem'[i].until <= clock']_vars

\* The heap that sees one candidate at a time, page by page, ends with the
\* capacity strongest of all those it was offered.
BestSurvive ==
    \A p \in Tasks : local[p].at \in {"select", "offer", "selected"} =>
        LET l == local[p]
        IN /\ l.heap \subseteq l.offered
           /\ \/ l.heap = l.offered /\ Cardinality(l.heap) <= l.capacity
              \/ /\ Cardinality(l.heap) = l.capacity
                 /\ \A c \in l.offered \ l.heap : \A s \in l.heap : Stronger(s, c)

\* Once the last page is removed, at most capacity of the memories that were
\* active when the pass began are active still: the pages skip nothing although
\* they remove what they list and others write between them.
CapacityReached ==
    \A p \in Tasks :
        At(p, "emit") /\ local[p].job = "evict" /\ local[p].last
        => Cardinality(local[p].started \cap Active(clock)) <= local[p].capacity

\* The collector never removes a memory that is active, whatever happened to it
\* since the page was read.
CollectsExpired ==
    \A p \in Tasks :
        Removing(p) /\ local[p].job = "collect" => local[p].victims \cap Active(clock) = {}

\* No event announces the removal of a memory that is there; and once no task is
\* in the middle of a call, every removal was announced, but those of a call that
\* failed, although tasks race to remove the same memories.
RemovalsAnnounced ==
    /\ forgotten \cap Present = {}
    /\ (\A p \in Tasks : At(p, "idle")) => born \ Present \subseteq forgotten \cup silent

===============================================================================
