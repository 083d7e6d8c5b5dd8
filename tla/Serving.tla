-------------------------------- MODULE Serving --------------------------------
(***************************************************************************)
(* The two servers, REST (crates/basemyai-rest) and MCP                    *)
(* (crates/basemyai-mcp): the pool of one Memory per agent, the limit on   *)
(* remember, the handlers from request to answer, and the events that a    *)
(* Memory sends to those who watch it (crates/basemyai/src/memory).        *)
(*                                                                         *)
(* A step is what a handler does between two awaits.  A memory, and a      *)
(* Memory, is named by the request that made it; an event by the request   *)
(* that sends it.                                                          *)
(***************************************************************************)
EXTENDS Integers, Sequences, FiniteSets

CONSTANTS
    Agents,
    Allowed,        \* AgentPolicy of the REST server: the agents it serves
    Requests,       \* bound: each is made once
    REMEMBER_RATE_LIMIT, REMEMBER_RATE_WINDOW,
    EVENT_CAPACITY, \* DEFAULT_EVENT_CAPACITY
    MaxTime,        \* bound on the clock
    None

ASSUME ServingAssumption ==
    /\ Allowed \subseteq Agents
    /\ REMEMBER_RATE_LIMIT \in Nat /\ REMEMBER_RATE_WINDOW \in Nat
    /\ EVENT_CAPACITY \in Nat \ {0} /\ MaxTime \in Nat
    /\ None \notin Requests \cup Agents \cup Nat

VARIABLES
    front,      \* "rest" or "mcp"
    clock,
    hits,       \* AppState::remember_hits
    pool,       \* the Memory of each agent
    events,     \* what was sent on the channel of each Memory
    stored,     \* the memories: "none", "live", "gone"
    req,        \* the requests
    watch       \* the subscription of a request: its place in the channel, what
                \* it was told, and (history) what was answered before it began

vars == <<front, clock, hits, pool, events, stored, req, watch>>

Unused  == [phase |-> "new", kind |-> None, agent |-> None, target |-> None, now |-> 0,
            admitted |-> None, memory |-> None, seen |-> FALSE, changed |-> FALSE]
NoWatch == [pos |-> 0, told |-> {}, before |-> {}]

Init ==
    /\ front \in {"rest", "mcp"}
    /\ clock = 0
    /\ hits = [a \in Agents |-> <<>>]
    /\ pool = [a \in Agents |-> None]
    /\ events = [m \in Requests |-> <<>>]
    /\ stored = [m \in Requests |-> "none"]
    /\ req = [r \in Requests |-> Unused]
    /\ watch = [r \in Requests |-> NoWatch]

\* The routes of one server and the tools of the other.  "read" is recall,
\* recall_hybrid, recall_graph and stats; the "remember" of MCP is also the fact
\* that consolidate or consolidate_apply stores.
Kinds == IF front = "rest" THEN {"remember", "read", "forget", "purge", "watch"}
                           ELSE {"remember", "read", "invalidate", "watch"}

Goes(r, phase) == req' = [req EXCEPT ![r].phase = phase]

-----------------------------------------------------------------------------
(* From the request to the Memory of its agent. *)

\* A request that passed the checks on its form.  The target of forget and
\* invalidate is a memory that a recall may have shown.
Arrive(r) ==
    /\ req[r].phase = "new"
    /\ \E k \in Kinds, a \in Agents :
          \E t \in IF k \in {"forget", "invalidate"}
                   THEN {m \in Requests : stored[m] # "none" /\ req[m].agent = a} ELSE {None} :
             req' = [req EXCEPT ![r] =
                       [Unused EXCEPT !.phase = IF k = "remember" /\ front = "rest" THEN "rate" ELSE "pool",
                                      !.kind = k, !.agent = a, !.target = t, !.now = clock]]
    /\ UNCHANGED <<front, clock, hits, pool, events, stored, watch>>

\* (Faulty: a hit is dropped when the window ends, not after.)
KeptShort(s, now) ==
    SelectSeq(s, LAMBDA t : now - t < REMEMBER_RATE_WINDOW)

\* The hits from the first one that is not older than the window.
Kept(s, now) ==
    LET recent == {n \in DOMAIN s : now - s[n] <= REMEMBER_RATE_WINDOW}
    IN IF recent = {} THEN <<>>
       ELSE SubSeq(s, CHOOSE n \in recent : \A m \in recent : n <= m, Len(s))

\* check_remember_rate; its now was read before it waited for the lock.
CheckRate(r) ==
    LET a    == req[r].agent
        kept == Kept(hits[a], req[r].now)
    IN /\ req[r].phase = "rate"
       /\ IF Len(kept) >= REMEMBER_RATE_LIMIT
          THEN /\ hits' = [hits EXCEPT ![a] = kept]
               /\ Goes(r, "refused")
          ELSE /\ hits' = [hits EXCEPT ![a] = Append(kept, req[r].now)]
               /\ req' = [req EXCEPT ![r].phase = "pool", ![r].admitted = clock]
       /\ UNCHANGED <<front, clock, pool, events, stored, watch>>

\* What the handler of a kind does first with its Memory.
Then(k) ==
    CASE k \in {"remember", "purge"}    -> "write"
      [] k \in {"forget", "invalidate"} -> "look"
      [] k = "read"                     -> "read"
      [] k = "watch"                    -> "subscribe"

Serves(r, m) == req' = [req EXCEPT ![r].phase = Then(req[r].kind), ![r].memory = m]

\* memory_for: the policy of the REST server, and the pool under its read lock;
Lookup(r) ==
    LET a == req[r].agent
    IN /\ req[r].phase = "pool"
       /\ \/ front = "rest" /\ a \notin Allowed /\ Goes(r, "refused")
          \/ (front = "mcp" \/ a \in Allowed) /\ pool[a] # None /\ Serves(r, pool[a])
          \/ (front = "mcp" \/ a \in Allowed) /\ pool[a] = None /\ Goes(r, "open")
       /\ UNCHANGED <<front, clock, hits, pool, events, stored, watch>>

\* (Faulty: the Memory opened last takes the place of the one in the pool.)
OpenOver(r) ==
    LET a == req[r].agent
    IN /\ req[r].phase = "open"
       /\ Serves(r, r) /\ pool' = [pool EXCEPT ![a] = r]
       /\ UNCHANGED <<front, clock, hits, events, stored, watch>>

\* a Memory is opened without a lock, and the one that comes first is kept.
OpenMemory(r) ==
    LET a == req[r].agent
        m == IF pool[a] = None THEN r ELSE pool[a]
    IN /\ req[r].phase = "open"
       /\ \/ Serves(r, m) /\ pool' = [pool EXCEPT ![a] = m]
          \/ Goes(r, "failed") /\ UNCHANGED pool
       /\ UNCHANGED <<front, clock, hits, events, stored, watch>>

-----------------------------------------------------------------------------
(* The handlers and what they call of Memory. *)

\* Memory::forget and Memory::invalidate first look whether there is a memory to announce.
Look(r) ==
    /\ req[r].phase = "look"
    /\ req' = [req EXCEPT ![r].phase = "write", ![r].seen = stored[req[r].target] = "live"]
    /\ UNCHANGED <<front, clock, hits, pool, events, stored, watch>>

\* The answer is cut to the size an answer may have; what is read is in module Retrieval.
Read(r) ==
    /\ req[r].phase = "read"
    /\ \E end \in {"ok", "failed"} : Goes(r, end)
    /\ UNCHANGED <<front, clock, hits, pool, events, stored, watch>>

Affected(r) ==
    CASE req[r].kind = "remember" -> {r}
      [] req[r].kind = "purge"    -> {m \in Requests : stored[m] = "live" /\ req[m].agent = req[r].agent}
      [] OTHER                    -> {req[r].target} \cap {m \in Requests : stored[m] = "live"}

\* The call of the store commits or fails, on a thread of its own: it goes on when
\* the handler was dropped, and then nobody is left to announce it.
Write(r) ==
    /\ req[r].phase \in {"write", "orphan"}
    /\ \/ /\ stored' = [m \in Requests |->
                          IF m \notin Affected(r) \/ req[r].kind = "invalidate" THEN stored[m]
                          ELSE IF m = r THEN "live" ELSE "gone"]
          /\ req' = [req EXCEPT ![r].phase = IF @ = "write" THEN "emit" ELSE "cut",
                                ![r].changed = Affected(r) # {}]
       \/ UNCHANGED stored /\ Goes(r, IF req[r].phase = "write" THEN "failed" ELSE "cut")
    /\ UNCHANGED <<front, clock, hits, pool, events, watch>>

\* Memory::emit, then the answer.  purge_agent announces nothing.
Emit(r) ==
    /\ req[r].phase = "emit"
    /\ events' = IF req[r].kind = "remember" \/ req[r].seen
                 THEN [events EXCEPT ![req[r].memory] = Append(@, r)] ELSE events
    /\ Goes(r, "ok")
    /\ UNCHANGED <<front, clock, hits, pool, stored, watch>>

\* TimeoutLayer of the REST server, or its client going away, drops the handler
\* where it waits.
Timeout(r) ==
    /\ front = "rest"
    /\ \/ req[r].phase \in {"rate", "pool", "open", "read", "look", "subscribe", "emit"} /\ Goes(r, "cut")
       \/ req[r].phase = "write" /\ Goes(r, "orphan")
    /\ UNCHANGED <<front, clock, hits, pool, events, stored, watch>>

-----------------------------------------------------------------------------
(* Memory::watch and the subscriptions. *)

Answered == {r \in Requests : req[r].phase = "ok"}

Subscribes(w) ==
    /\ Goes(w, "watching")
    /\ watch' = [watch EXCEPT ![w] = [pos |-> Len(events[req[w].memory]), told |-> {}, before |-> Answered]]

\* The REST handler subscribes and answers with the stream; the MCP tool answers
\* and leaves it to a task that it spawns to subscribe.
Subscribe(w) ==
    /\ req[w].phase = "subscribe"
    /\ \/ front = "rest" /\ Subscribes(w)
       \/ front = "mcp" /\ Goes(w, "spawned") /\ UNCHANGED watch
    /\ UNCHANGED <<front, clock, hits, pool, events, stored>>

Relay(w) ==
    /\ req[w].phase = "spawned" /\ Subscribes(w)
    /\ UNCHANGED <<front, clock, hits, pool, events, stored>>

\* MemorySubscription::recv: who is too slow goes on with the oldest event that is left.
Recv(w) ==
    /\ req[w].phase = "watching"
    /\ LET sent   == events[req[w].memory]
           oldest == Len(sent) - EVENT_CAPACITY
           pos    == IF watch[w].pos < oldest THEN oldest ELSE watch[w].pos
       IN /\ pos < Len(sent)
          /\ watch' = [watch EXCEPT ![w].pos = pos + 1, ![w].told = @ \cup {sent[pos + 1]}]
    /\ UNCHANGED <<front, clock, hits, pool, events, stored, req>>

\* The client is gone.
Leave(w) ==
    /\ req[w].phase = "watching" /\ Goes(w, "ok")
    /\ watch' = [watch EXCEPT ![w] = NoWatch]
    /\ UNCHANGED <<front, clock, hits, pool, events, stored>>

Tick ==
    /\ clock < MaxTime /\ clock' = clock + 1
    /\ UNCHANGED <<front, hits, pool, events, stored, req, watch>>

Next ==
    \/ \E r \in Requests :
          \/ Arrive(r) \/ CheckRate(r) \/ Lookup(r) \/ OpenMemory(r)
          \/ Read(r) \/ Look(r) \/ Write(r) \/ Emit(r) \/ Timeout(r)
          \/ Subscribe(r) \/ Relay(r) \/ Recv(r) \/ Leave(r)
    \/ Tick

Spec == Init /\ [][Next]_vars

-----------------------------------------------------------------------------
(* Of the remember requests of an agent that arrive and are admitted       *)
(* within one window, no more are admitted than the limit, although the    *)
(* clock is read before the lock is taken (AppState::check_remember_rate). *)
RateBound ==
    \A a \in Agents, t \in 0 .. MaxTime :
        Cardinality({r \in Requests :
            /\ req[r].agent = a /\ req[r].admitted # None
            /\ t <= req[r].now /\ req[r].admitted <= t + REMEMBER_RATE_WINDOW})
        <= REMEMBER_RATE_LIMIT

(* A change that was answered is told to everybody who watched the agent   *)
(* by then, unless so many events came after it that the channel dropped   *)
(* it: however the Memory of the agent was opened, by however many         *)
(* requests at once (memory_for, Memory::watch).                           *)
WatchersTold ==
    \A w, r \in Requests :
        LET sent == events[req[w].memory]
        IN /\ req[w].phase = "watching" /\ r \in Answered \ watch[w].before
           /\ req[r].agent = req[w].agent /\ req[r].changed /\ req[r].kind # "purge"
           => \/ r \in watch[w].told
              \/ \E n \in DOMAIN sent :
                    sent[n] = r /\ (n > watch[w].pos \/ Len(sent) - n >= EVENT_CAPACITY)
===============================================================================
