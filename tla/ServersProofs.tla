----------------------------- MODULE ServersProofs -----------------------------
(***************************************************************************)
(* Theorems about Servers and the two it is made of, for every value of    *)
(* their constants: what Serving keeps, RateBound and WatchersTold; that   *)
(* the model a server was given is whole; that a server from its start     *)
(* serves as Serving says.                                                 *)
(***************************************************************************)
EXTENDS Servers, FiniteSetTheorems, WellFoundedInduction, TLAPS

-----------------------------------------------------------------------------
(* What a server keeps. *)

AllKinds == {"remember", "read", "forget", "purge", "invalidate", "watch"}

Phases == {"new", "rate", "pool", "open", "look", "read", "write", "orphan", "emit",
           "subscribe", "spawned", "watching", "ok", "failed", "refused", "cut"}

Request == [phase : Phases, kind : AllKinds \cup {None}, agent : Agents \cup {None},
            target : Requests \cup {None}, now : Nat, admitted : Nat \cup {None},
            memory : Requests \cup {None}, seen : BOOLEAN, changed : BOOLEAN]

ServingTypeOK ==
    /\ front \in {"rest", "mcp"} /\ clock \in 0 .. MaxTime
    /\ hits \in [Agents -> Seq(Nat)]
    /\ pool \in [Agents -> Requests \cup {None}]
    /\ events \in [Requests -> Seq(Requests)]
    /\ stored \in [Requests -> {"none", "live", "gone"}]
    /\ req \in [Requests -> Request]
    /\ watch \in [Requests -> [pos : Nat, told : SUBSET Requests, before : SUBSET Requests]]

\* A request that arrived says what it asks for and of which agent, at a time that has
\* come; only one that passed the limit was admitted.
Arrived ==
    \A r \in Requests :
        /\ req[r].phase # "new" => req[r].kind \in AllKinds /\ req[r].agent \in Agents
        /\ req[r].phase \in {"new", "rate"} => req[r].admitted = None
        /\ req[r].now <= clock

-----------------------------------------------------------------------------
(* What the rate limit rests on. *)

\* The admitted requests of an agent that arrived within the window that ends now.
Recent(a) == {r \in Requests : /\ req[r].agent = a /\ req[r].admitted # None
                               /\ clock - req[r].now <= REMEMBER_RATE_WINDOW}

\* Each has a hit of its own in the queue, although the queue need not be sorted, and
\* the queue is no longer than the limit.
Counted ==
    \A a \in Agents :
        /\ Len(hits[a]) <= REMEMBER_RATE_LIMIT
        /\ \E f \in Injection(Recent(a), DOMAIN hits[a]) :
              \A r \in Recent(a) : hits[a][f[r]] = req[r].now

-----------------------------------------------------------------------------
(* What the watchers rest on. *)

Working == {"look", "read", "write", "orphan", "emit", "subscribe", "spawned", "watching", "ok"}

\* All requests of an agent work on the one Memory of its pool entry.
Pooled ==
    \A r \in Requests : req[r].phase \in Working =>
        req[r].memory \in Requests /\ req[r].memory = pool[req[r].agent]

\* A memory is there after its request has written it, once.
Written ==
    \A m \in Requests : stored[m] # "none" =>
        req[m].kind = "remember" /\ req[m].phase \in {"emit", "ok", "cut"}

\* Who removes a memory names one that was there; if it looked and saw none, it was gone.
Removing ==
    \A r \in Requests :
        /\ req[r].phase # "new" /\ req[r].kind \in {"forget", "invalidate"} =>
              /\ req[r].target \in Requests /\ stored[req[r].target] # "none"
              /\ req[r].phase \in {"write", "orphan"} /\ ~req[r].seen
                    => stored[req[r].target] = "gone"
        /\ req[r].phase \in {"write", "orphan"} => req[r].kind \notin {"read", "watch"}
        /\ req[r].phase = "look" => req[r].kind \in {"forget", "invalidate"}

\* What changed something announces it, but for purge.
Announces ==
    \A r \in Requests : req[r].changed =>
        /\ req[r].phase \in {"emit", "ok", "cut"}
        /\ req[r].kind \in {"remember", "purge"} \/ req[r].seen

\* A subscription is within its channel.
InChannel ==
    \A w \in Requests : req[w].phase = "watching" => watch[w].pos <= Len(events[req[w].memory])

ServingInv ==
    /\ ServingTypeOK /\ Arrived /\ Counted
    /\ Pooled /\ Written /\ Removing /\ Announces /\ InChannel

\* A nonempty set of naturals has a least element.
LEMMA LeastExists ==
    ASSUME NEW S \in SUBSET Nat, S # {}
    PROVE  \E i \in S : \A j \in S : i <= j
<1>1. PICK x \in S : \A y \in S : ~(<<y, x>> \in OpToRel(<, Nat))
  BY NatLessThanWellFounded, WFMin, Zenon
<1>2. \A y \in S : ~(y < x) /\ x \in Nat /\ y \in Nat
  BY <1>1 DEF OpToRel
<1> QED BY <1>2

\* The hits that are kept are the last ones, and all that are within the window.
LEMMA KeptFacts ==
    ASSUME NEW s \in Seq(Nat), NEW now \in Nat
    PROVE  \E d \in 0 .. Len(s) :
              /\ Kept(s, now) \in Seq(Nat) /\ Len(Kept(s, now)) = Len(s) - d
              /\ \A n \in 1 .. (Len(s) - d) : Kept(s, now)[n] = s[n + d]
              /\ \A n \in 1 .. Len(s) : now - s[n] <= REMEMBER_RATE_WINDOW => n > d
<1> DEFINE recent == {n \in DOMAIN s : now - s[n] <= REMEMBER_RATE_WINDOW}
           least == CHOOSE n \in recent : \A m \in recent : n <= m
<1>0. DOMAIN s = 1 .. Len(s) /\ Len(s) \in Nat /\ recent \subseteq 1 .. Len(s)
  OBVIOUS
<1>1. Kept(s, now) = IF recent = {} THEN <<>> ELSE SubSeq(s, least, Len(s))
  BY DEF Kept
<1>2. CASE recent = {}
  <2>1. \A n \in 1 .. Len(s) : ~(now - s[n] <= REMEMBER_RATE_WINDOW)
    BY <1>0, <1>2
  <2>2. Kept(s, now) = <<>>
    BY <1>1, <1>2
  <2> WITNESS Len(s) \in 0 .. Len(s)
  <2> QED BY <1>0, <2>1, <2>2
<1>3. CASE recent # {}
  <2>1. recent \in SUBSET Nat
    BY <1>0
  <2>2. least \in recent /\ \A m \in recent : least <= m
    <3> HIDE DEF recent
    <3> QED BY <1>3, <2>1, LeastExists
  <2>3. least \in 1 .. Len(s)
    BY <1>0, <2>2
  <2>4. \A n \in 1 .. Len(s) : now - s[n] <= REMEMBER_RATE_WINDOW => least <= n
    BY <1>0, <2>2
  <2>5. Kept(s, now) = SubSeq(s, least, Len(s))
    BY <1>1, <1>3
  <2> HIDE DEF least, recent
  <2>6. least - 1 \in 0 .. Len(s)
    BY <1>0, <2>3
  <2>7. Kept(s, now) \in Seq(Nat) /\ Len(Kept(s, now)) = Len(s) - (least - 1)
        /\ \A n \in 1 .. (Len(s) - (least - 1)) : Kept(s, now)[n] = s[n + (least - 1)]
    BY <1>0, <2>3, <2>5
  <2>8. \A n \in 1 .. Len(s) : now - s[n] <= REMEMBER_RATE_WINDOW => n > least - 1
    BY <1>0, <2>3, <2>4
  <2> QED BY <2>6, <2>7, <2>8
<1> QED BY <1>2, <1>3

-----------------------------------------------------------------------------
(* Types, and who arrived. *)

\* What a request that goes on leaves as it was.
LEMMA GoesOn ==
    ASSUME ServingTypeOK, NEW r \in Requests, NEW ph \in Phases, Goes(r, ph)
    PROVE  /\ req' \in [Requests -> Request]
           /\ \A q \in Requests : q # r => req'[q] = req[q]
           /\ req'[r] = [req[r] EXCEPT !.phase = ph]
<1> DEFINE new == [req[r] EXCEPT !.phase = ph]
<1>1. req \in [Requests -> Request] /\ req[r] \in Request
  BY DEF ServingTypeOK
<1>2. new \in Request
  BY ONLY <1>1, ph \in Phases DEF Request
<1>3. req' = [req EXCEPT ![r] = new]
  BY DEF Goes
<1> HIDE DEF new
<1>4. req' \in [Requests -> Request] /\ req'[r] = new /\ \A q \in Requests : q # r => req'[q] = req[q]
  BY <1>1, <1>2, <1>3
<1> QED BY <1>4 DEF new

\* No other request moves.
Others(r) == \A q \in Requests : q # r => req'[q] = req[q]

\* What a request that goes on with a value becomes, and that the others stay as they are.
LEMMA GoesWith ==
    ASSUME req \in [Requests -> Request], NEW r \in Requests, NEW ph \in Phases
    PROVE  /\ \A x \in Nat : req' = [req EXCEPT ![r].phase = ph, ![r].admitted = x] =>
                 /\ req' \in [Requests -> Request] /\ Others(r)
                 /\ req'[r] = [req[r] EXCEPT !.phase = ph, !.admitted = x]
           /\ \A x \in Requests : req' = [req EXCEPT ![r].phase = ph, ![r].memory = x] =>
                 /\ req' \in [Requests -> Request] /\ Others(r)
                 /\ req'[r] = [req[r] EXCEPT !.phase = ph, !.memory = x]
           /\ \A x \in BOOLEAN : req' = [req EXCEPT ![r].phase = ph, ![r].seen = x] =>
                 /\ req' \in [Requests -> Request] /\ Others(r)
                 /\ req'[r] = [req[r] EXCEPT !.phase = ph, !.seen = x]
           /\ \A x \in BOOLEAN : req' = [req EXCEPT ![r].phase = ph, ![r].changed = x] =>
                 /\ req' \in [Requests -> Request] /\ Others(r)
                 /\ req'[r] = [req[r] EXCEPT !.phase = ph, !.changed = x]
<1>1. ASSUME NEW x \in Nat, req' = [req EXCEPT ![r].phase = ph, ![r].admitted = x]
      PROVE  /\ req' \in [Requests -> Request] /\ Others(r)
             /\ req'[r] = [req[r] EXCEPT !.phase = ph, !.admitted = x]
  <2> DEFINE new == [req[r] EXCEPT !.phase = ph, !.admitted = x]
  <2>1. req[r] \in Request /\ ph \in Phases
    OBVIOUS
  <2>2. new \in Request
    BY ONLY <1>1, <2>1 DEF Request
  <2>3. req' = [req EXCEPT ![r] = new]
    BY <1>1
  <2> HIDE DEF new
  <2>4. req' \in [Requests -> Request] /\ Others(r) /\ req'[r] = new
    BY <2>2, <2>3 DEF Others
  <2> QED BY <2>4 DEF new
<1>2. ASSUME NEW x \in Requests, req' = [req EXCEPT ![r].phase = ph, ![r].memory = x]
      PROVE  /\ req' \in [Requests -> Request] /\ Others(r)
             /\ req'[r] = [req[r] EXCEPT !.phase = ph, !.memory = x]
  <2> DEFINE new == [req[r] EXCEPT !.phase = ph, !.memory = x]
  <2>1. req[r] \in Request /\ ph \in Phases
    OBVIOUS
  <2>2. new \in Request
    BY ONLY <1>2, <2>1 DEF Request
  <2>3. req' = [req EXCEPT ![r] = new]
    BY <1>2
  <2> HIDE DEF new
  <2>4. req' \in [Requests -> Request] /\ Others(r) /\ req'[r] = new
    BY <2>2, <2>3 DEF Others
  <2> QED BY <2>4 DEF new
<1>3. ASSUME NEW x \in BOOLEAN, req' = [req EXCEPT ![r].phase = ph, ![r].seen = x]
      PROVE  /\ req' \in [Requests -> Request] /\ Others(r)
             /\ req'[r] = [req[r] EXCEPT !.phase = ph, !.seen = x]
  <2> DEFINE new == [req[r] EXCEPT !.phase = ph, !.seen = x]
  <2>1. req[r] \in Request /\ ph \in Phases
    OBVIOUS
  <2>2. new \in Request
    BY ONLY <1>3, <2>1 DEF Request
  <2>3. req' = [req EXCEPT ![r] = new]
    BY <1>3
  <2> HIDE DEF new
  <2>4. req' \in [Requests -> Request] /\ Others(r) /\ req'[r] = new
    BY <2>2, <2>3 DEF Others
  <2> QED BY <2>4 DEF new
<1>4. ASSUME NEW x \in BOOLEAN, req' = [req EXCEPT ![r].phase = ph, ![r].changed = x]
      PROVE  /\ req' \in [Requests -> Request] /\ Others(r)
             /\ req'[r] = [req[r] EXCEPT !.phase = ph, !.changed = x]
  <2> DEFINE new == [req[r] EXCEPT !.phase = ph, !.changed = x]
  <2>1. req[r] \in Request /\ ph \in Phases
    OBVIOUS
  <2>2. new \in Request
    BY ONLY <1>4, <2>1 DEF Request
  <2>3. req' = [req EXCEPT ![r] = new]
    BY <1>4
  <2> HIDE DEF new
  <2>4. req' \in [Requests -> Request] /\ Others(r) /\ req'[r] = new
    BY <2>2, <2>3 DEF Others
  <2> QED BY <2>4 DEF new
<1> QED BY <1>1, <1>2, <1>3, <1>4

\* The types hold at the start,
LEMMA TypeInit == Init => ServingTypeOK
BY ServingAssumption DEF Init, ServingTypeOK, Unused, NoWatch, Request, Phases, AllKinds

\* The handlers keep the types.
LEMMA TypeHandlers ==
    ASSUME ServingTypeOK, Arrived, NEW r \in Requests,
           \/ Arrive(r) \/ CheckRate(r) \/ Lookup(r) \/ OpenMemory(r)
           \/ Read(r) \/ Look(r) \/ Write(r) \/ Timeout(r)
    PROVE  ServingTypeOK'
<1> USE DEF ServingTypeOK
<1>0. MaxTime \in Nat /\ clock \in Nat
  BY ServingAssumption
<1>1. CASE Arrive(r)
  <2>1. PICK k \in Kinds, a \in Agents :
          \E t \in IF k \in {"forget", "invalidate"}
                   THEN {m \in Requests : stored[m] # "none" /\ req[m].agent = a} ELSE {None} :
           req' = [req EXCEPT ![r] =
                       [Unused EXCEPT !.phase = IF k = "remember" /\ front = "rest" THEN "rate" ELSE "pool",
                                      !.kind = k, !.agent = a, !.target = t, !.now = clock]]
    BY <1>1 DEF Arrive
  <2>2. k \in AllKinds
    BY DEF Kinds, AllKinds
  <2>3. req' \in [Requests -> Request]
    <3>1. PICK t \in Requests \cup {None} :
           req' = [req EXCEPT ![r] =
                       [Unused EXCEPT !.phase = IF k = "remember" /\ front = "rest" THEN "rate" ELSE "pool",
                                      !.kind = k, !.agent = a, !.target = t, !.now = clock]]
      BY <2>1
    <3> DEFINE new == [Unused EXCEPT !.phase = IF k = "remember" /\ front = "rest" THEN "rate" ELSE "pool",
                                     !.kind = k, !.agent = a, !.target = t, !.now = clock]
    <3>2. new \in Request
      BY <1>0, <2>2 DEF Request, Unused, Phases
    <3> HIDE DEF new
    <3>3. req' = [req EXCEPT ![r] = new]
      BY <3>1 DEF new
    <3> QED BY <3>2, <3>3
  <2> QED BY <1>1, <2>3 DEF Arrive
<1>2. CASE CheckRate(r)
  <2>1. req[r].agent \in Agents /\ req[r].now \in Nat
    BY <1>2 DEF Arrived, CheckRate, Request
  <2>2. Kept(hits[req[r].agent], req[r].now) \in Seq(Nat)
    BY <2>1, KeptFacts
  <2>3. hits' \in [Agents -> Seq(Nat)]
    <3> DEFINE kept == Kept(hits[req[r].agent], req[r].now)
    <3>1. \/ hits' = [hits EXCEPT ![req[r].agent] = kept]
          \/ hits' = [hits EXCEPT ![req[r].agent] = Append(kept, req[r].now)]
      BY <1>2 DEF CheckRate
    <3>2. kept \in Seq(Nat)
      BY <2>2
    <3> HIDE DEF kept
    <3>3. Append(kept, req[r].now) \in Seq(Nat)
      BY <2>1, <3>2
    <3> QED BY <3>1, <3>2, <3>3
  <2>4. req' \in [Requests -> Request]
    <3>1. Goes(r, "refused") => req' \in [Requests -> Request]
      BY GoesOn DEF Phases
    <3>2. req' = [req EXCEPT ![r].phase = "pool", ![r].admitted = clock] => req' \in [Requests -> Request]
      <4>1. "pool" \in Phases
        BY DEF Phases
      <4> QED BY <1>0, <4>1, GoesWith
    <3> QED BY <1>2, <3>1, <3>2 DEF CheckRate
  <2> QED BY <1>2, <2>3, <2>4 DEF CheckRate
<1>3. CASE Lookup(r)
  <2>1. req[r].agent \in Agents /\ req[r].kind \in AllKinds
    BY <1>3 DEF Arrived, Lookup
  <2>2. req' \in [Requests -> Request]
    <3>1. Goes(r, "refused") \/ Goes(r, "open") => req' \in [Requests -> Request]
      BY GoesOn DEF Phases
    <3>2. pool[req[r].agent] \in Requests \cup {None} /\ Then(req[r].kind) \in Phases
      BY <2>1 DEF Then, AllKinds, Phases
    <3>3. pool[req[r].agent] # None /\ Serves(r, pool[req[r].agent]) => req' \in [Requests -> Request]
      BY <3>2, GoesWith DEF Serves
    <3> QED BY <1>3, <3>1, <3>3 DEF Lookup
  <2> QED BY <1>3, <2>2 DEF Lookup
<1>4. CASE OpenMemory(r)
  <2>1. req[r].agent \in Agents /\ req[r].kind \in AllKinds
    BY <1>4 DEF Arrived, OpenMemory
  <2> DEFINE m == IF pool[req[r].agent] = None THEN r ELSE pool[req[r].agent]
  <2>2. m \in Requests /\ Then(req[r].kind) \in Phases
    BY <2>1 DEF Then, AllKinds, Phases
  <2> HIDE DEF m
  <2>3. Serves(r, m) => req' \in [Requests -> Request]
    BY <2>2, GoesWith DEF Serves
  <2>4. Goes(r, "failed") => req' \in [Requests -> Request]
    BY GoesOn DEF Phases
  <2>5. pool' = pool \/ pool' = [pool EXCEPT ![req[r].agent] = m]
    BY <1>4 DEF OpenMemory, m
  <2> QED BY <1>4, <2>2, <2>3, <2>4, <2>5 DEF OpenMemory, m
<1>5. CASE Read(r)
  BY <1>5, GoesOn DEF Read, Phases
<1>6. CASE Look(r)
  <2>1. req' \in [Requests -> Request]
    BY <1>6, GoesWith DEF Look, Phases
  <2> QED BY <1>6, <2>1 DEF Look
<1>7. CASE Write(r)
  <2>1. req' \in [Requests -> Request]
    <3>1. Goes(r, IF req[r].phase = "write" THEN "failed" ELSE "cut") => req' \in [Requests -> Request]
      BY GoesOn DEF Phases
    <3>2. req' = [req EXCEPT ![r].phase = IF @ = "write" THEN "emit" ELSE "cut",
                             ![r].changed = Affected(r) # {}] => req' \in [Requests -> Request]
      <4>1. (IF req[r].phase = "write" THEN "emit" ELSE "cut") \in Phases /\ (Affected(r) # {}) \in BOOLEAN
        BY DEF Phases
      <4> QED BY <4>1, GoesWith
    <3> QED BY <1>7, <3>1, <3>2 DEF Write
  <2>2. stored' \in [Requests -> {"none", "live", "gone"}]
    BY <1>7 DEF Write
  <2> QED BY <1>7, <2>1, <2>2 DEF Write
<1>8. CASE Timeout(r)
  BY <1>8, GoesOn DEF Timeout, Phases
<1> QED BY <1>1, <1>2, <1>3, <1>4, <1>5, <1>6, <1>7, <1>8

\* A subscription that is told something.
LEMMA Told ==
    ASSUME watch \in [Requests -> [pos : Nat, told : SUBSET Requests, before : SUBSET Requests]],
           NEW w \in Requests, NEW n \in Nat, NEW T \in SUBSET Requests,
           watch' = [watch EXCEPT ![w].pos = n, ![w].told = T]
    PROVE  /\ watch' \in [Requests -> [pos : Nat, told : SUBSET Requests, before : SUBSET Requests]]
           /\ \A v \in Requests : v # w => watch'[v] = watch[v]
           /\ watch'[w].pos = n /\ watch'[w].told = T /\ watch'[w].before = watch[w].before
<1> DEFINE Sub == [pos : Nat, told : SUBSET Requests, before : SUBSET Requests]
           new == [watch[w] EXCEPT !.pos = n, !.told = T]
<1>1. watch[w] \in Sub
  OBVIOUS
<1>2. new \in Sub /\ new.pos = n /\ new.told = T /\ new.before = watch[w].before
  BY <1>1
<1>3. watch' = [watch EXCEPT ![w] = new]
  OBVIOUS
<1> HIDE DEF new
<1>4. watch'[w] = new /\ \A v \in Requests : v # w => watch'[v] = watch[v]
  BY <1>3
<1>5. watch' \in [Requests -> Sub]
  <2> HIDE DEF Sub
  <2>1. watch \in [Requests -> Sub]
    BY DEF Sub
  <2> QED BY <1>2, <1>3, <2>1
<1> QED BY <1>2, <1>4, <1>5

\* The subscriptions keep them.
LEMMA TypeWatchers ==
    ASSUME ServingTypeOK, Pooled, NEW w \in Requests,
           Emit(w) \/ Subscribe(w) \/ Relay(w) \/ Recv(w) \/ Leave(w)
    PROVE  ServingTypeOK'
<1> USE DEF ServingTypeOK
<1>1. CASE Emit(w)
  <2>1. req[w].memory \in Requests
    BY <1>1 DEF Emit, Pooled, Working
  <2>2. events' \in [Requests -> Seq(Requests)]
    BY <1>1, <2>1 DEF Emit
  <2> QED BY <1>1, <2>2, GoesOn DEF Emit, Phases
<1>2. CASE Subscribe(w) \/ Relay(w)
  <2>1. req[w].memory \in Requests /\ Len(events[req[w].memory]) \in Nat
    BY <1>2 DEF Subscribe, Relay, Pooled, Working
  <2>2. Answered \in SUBSET Requests
    BY DEF Answered
  <2>3. Subscribes(w) => watch' \in [Requests -> [pos : Nat, told : SUBSET Requests, before : SUBSET Requests]]
    BY <2>1, <2>2 DEF Subscribes
  <2> QED BY <1>2, <2>3, GoesOn DEF Subscribe, Relay, Subscribes, Phases
<1>3. CASE Recv(w)
  <2> DEFINE sent   == events[req[w].memory]
             oldest == Len(sent) - EVENT_CAPACITY
             p      == IF watch[w].pos < oldest THEN oldest ELSE watch[w].pos
  <2>1. req[w].memory \in Requests /\ sent \in Seq(Requests) /\ watch[w].pos \in Nat
    BY <1>3 DEF Recv, Pooled, Working
  <2>2. p \in Nat /\ p < Len(sent)
    <3>1. p < Len(sent)
      BY <1>3 DEF Recv
    <3>2. Len(sent) \in Nat /\ EVENT_CAPACITY \in Nat
      BY <2>1, ServingAssumption
    <3> HIDE DEF sent
    <3> QED BY <2>1, <3>1, <3>2
  <2>3. sent[p + 1] \in Requests
    <3> HIDE DEF p, sent
    <3> QED BY <2>1, <2>2
  <2>4. watch' = [watch EXCEPT ![w].pos = p + 1, ![w].told = watch[w].told \cup {sent[p + 1]}]
    BY <1>3 DEF Recv
  <2> HIDE DEF p, sent
  <2>5. watch' \in [Requests -> [pos : Nat, told : SUBSET Requests, before : SUBSET Requests]]
    <3>1. watch \in [Requests -> [pos : Nat, told : SUBSET Requests, before : SUBSET Requests]]
      OBVIOUS
    <3>2. p + 1 \in Nat /\ watch[w].told \cup {sent[p + 1]} \in SUBSET Requests
      BY <2>2, <2>3, <3>1
    <3> DEFINE n == p + 1
               T == watch[w].told \cup {sent[p + 1]}
    <3>3. watch' = [watch EXCEPT ![w].pos = n, ![w].told = T] /\ n \in Nat /\ T \in SUBSET Requests
      BY <2>4, <3>2
    <3> HIDE DEF n, T, ServingTypeOK
    <3> QED BY <3>1, <3>3, Told
  <2> QED BY <1>3, <2>5 DEF Recv
<1>4. CASE Leave(w)
  <2>1. watch' \in [Requests -> [pos : Nat, told : SUBSET Requests, before : SUBSET Requests]]
    BY <1>4 DEF Leave, NoWatch
  <2> QED BY <1>4, <2>1, GoesOn DEF Leave, Phases
<1> QED BY <1>1, <1>2, <1>3, <1>4

\* and every step keeps them.
LEMMA TypeNext ==
    ASSUME ServingTypeOK, Arrived, Pooled, [Next]_vars PROVE ServingTypeOK'
<1>1. CASE \E r \in Requests : Arrive(r) \/ CheckRate(r) \/ Lookup(r) \/ OpenMemory(r)
                               \/ Read(r) \/ Look(r) \/ Write(r) \/ Timeout(r)
  BY <1>1, TypeHandlers
<1>2. CASE \E r \in Requests : Emit(r) \/ Subscribe(r) \/ Relay(r) \/ Recv(r) \/ Leave(r)
  BY <1>2, TypeWatchers
<1>3. CASE Tick
  BY <1>3, ServingAssumption DEF Tick, ServingTypeOK
<1>4. CASE UNCHANGED vars
  BY <1>4 DEF vars, ServingTypeOK
<1> QED BY <1>1, <1>2, <1>3, <1>4 DEF Next

-----------------------------------------------------------------------------
(* What the actions do to the requests. *)

\* What a request asked for stays as it is.
Same(r) == /\ req'[r].kind = req[r].kind /\ req'[r].agent = req[r].agent
           /\ req'[r].target = req[r].target /\ req'[r].now = req[r].now

\* A request arrives with what it asks for, and with nothing else.
LEMMA Arrives ==
    ASSUME ServingTypeOK, NEW r \in Requests, Arrive(r)
    PROVE  /\ Others(r) /\ req[r].phase = "new"
           /\ req'[r].phase \in {"rate", "pool"} /\ req'[r].kind \in AllKinds /\ req'[r].agent \in Agents
           /\ req'[r].now = clock /\ req'[r].admitted = None /\ ~req'[r].changed
           /\ req'[r].kind \in {"forget", "invalidate"} =>
                 req'[r].target \in Requests /\ stored[req'[r].target] # "none"
<1>1. PICK k \in Kinds, a \in Agents :
        \E t \in IF k \in {"forget", "invalidate"}
                 THEN {m \in Requests : stored[m] # "none" /\ req[m].agent = a} ELSE {None} :
           req' = [req EXCEPT ![r] =
                     [Unused EXCEPT !.phase = IF k = "remember" /\ front = "rest" THEN "rate" ELSE "pool",
                                    !.kind = k, !.agent = a, !.target = t, !.now = clock]]
  BY DEF Arrive
<1>2. PICK t \in IF k \in {"forget", "invalidate"}
                 THEN {m \in Requests : stored[m] # "none" /\ req[m].agent = a} ELSE {None} :
         req' = [req EXCEPT ![r] =
                   [Unused EXCEPT !.phase = IF k = "remember" /\ front = "rest" THEN "rate" ELSE "pool",
                                  !.kind = k, !.agent = a, !.target = t, !.now = clock]]
  BY <1>1
<1> DEFINE new == [Unused EXCEPT !.phase = IF k = "remember" /\ front = "rest" THEN "rate" ELSE "pool",
                                 !.kind = k, !.agent = a, !.target = t, !.now = clock]
<1>3. /\ new.phase \in {"rate", "pool"} /\ new.kind = k /\ new.agent = a
      /\ new.target = t /\ new.now = clock /\ new.admitted = None /\ ~new.changed
  BY DEF Unused
<1>4. k \in AllKinds
  BY DEF Kinds, AllKinds
<1>5. k \in {"forget", "invalidate"} => t \in Requests /\ stored[t] # "none"
  OBVIOUS
<1> HIDE DEF new
<1>6. req' = [req EXCEPT ![r] = new]
  BY <1>2 DEF new
<1>7. req'[r] = new /\ Others(r)
  BY <1>6 DEF ServingTypeOK, Others
<1> QED BY <1>3, <1>4, <1>5, <1>7 DEF Arrive

\* What each action that moves a request on does to it.
Moves(r, ph) ==
    /\ Others(r) /\ Same(r) /\ req'[r].phase = ph
    /\ req'[r].admitted = req[r].admitted /\ req'[r].memory = req[r].memory
    /\ req'[r].seen = req[r].seen /\ req'[r].changed = req[r].changed

\* A request that only goes on.
LEMMA GoesMoves ==
    ASSUME ServingTypeOK, NEW r \in Requests, NEW ph \in Phases, Goes(r, ph)
    PROVE  Moves(r, ph)
<1>1. req[r] \in Request
  BY DEF ServingTypeOK
<1>2. req'[r] = [req[r] EXCEPT !.phase = ph] /\ Others(r)
  BY GoesOn DEF Others
<1> QED BY <1>1, <1>2 DEF Moves, Same, Request

\* A request at the rate limit is admitted now or refused.
LEMMA CheckRateMoves ==
    ASSUME ServingTypeOK, NEW r \in Requests, CheckRate(r)
    PROVE  /\ Others(r) /\ Same(r) /\ req'[r].changed = req[r].changed
           /\ req[r].phase = "rate" /\ req'[r].phase \in {"refused", "pool"}
           /\ Moves(r, "refused") \/ req'[r].admitted = clock
<1>1. req[r] \in Request /\ req \in [Requests -> Request] /\ clock \in Nat
  BY ServingAssumption DEF ServingTypeOK
<1>2. CASE Goes(r, "refused")
  <2>1. Moves(r, "refused")
    BY <1>2, GoesMoves DEF Phases
  <2> QED BY <2>1 DEF CheckRate, Moves
<1>3. CASE req' = [req EXCEPT ![r].phase = "pool", ![r].admitted = clock]
  <2>1. Others(r) /\ req'[r] = [req[r] EXCEPT !.phase = "pool", !.admitted = clock]
    BY <1>1, <1>3, GoesWith DEF Phases
  <2> QED BY <1>1, <2>1 DEF CheckRate, Same, Request
<1> QED BY <1>2, <1>3 DEF CheckRate

\* A request that gets its Memory.
LEMMA ServesMoves ==
    ASSUME ServingTypeOK, NEW r \in Requests, NEW m \in Requests, req[r].kind \in AllKinds, Serves(r, m)
    PROVE  /\ Others(r) /\ Same(r) /\ req'[r].phase = Then(req[r].kind) /\ req'[r].memory = m
           /\ req'[r].admitted = req[r].admitted /\ req'[r].changed = req[r].changed
           /\ Then(req[r].kind) \in {"write", "look", "read", "subscribe"}
           /\ Then(req[r].kind) = "look" <=> req[r].kind \in {"forget", "invalidate"}
           /\ Then(req[r].kind) = "write" <=> req[r].kind \in {"remember", "purge"}
<1>1. req[r] \in Request /\ req \in [Requests -> Request]
  BY DEF ServingTypeOK
<1> DEFINE ph == Then(req[r].kind)
<1>2. /\ ph \in Phases /\ ph \in {"write", "look", "read", "subscribe"}
      /\ ph = "look" <=> req[r].kind \in {"forget", "invalidate"}
      /\ ph = "write" <=> req[r].kind \in {"remember", "purge"}
  BY DEF Then, AllKinds, Phases
<1>3. req' = [req EXCEPT ![r].phase = ph, ![r].memory = m]
  BY DEF Serves
<1> HIDE DEF ph
<1>4. Others(r) /\ req'[r] = [req[r] EXCEPT !.phase = ph, !.memory = m]
  BY <1>1, <1>2, <1>3, GoesWith
<1>5. Same(r) /\ req'[r].phase = ph /\ req'[r].memory = m
      /\ req'[r].admitted = req[r].admitted /\ req'[r].changed = req[r].changed
  BY <1>1, <1>4 DEF Same, Request
<1> QED BY <1>2, <1>4, <1>5 DEF ph

\* A request that looks for its target sees whether it lives.
LEMMA LookMoves ==
    ASSUME ServingTypeOK, NEW r \in Requests, Look(r)
    PROVE  /\ Others(r) /\ Same(r) /\ req[r].phase = "look" /\ req'[r].phase = "write"
           /\ req'[r].seen = (stored[req[r].target] = "live") /\ req'[r].memory = req[r].memory
           /\ req'[r].admitted = req[r].admitted /\ req'[r].changed = req[r].changed
<1>1. req[r] \in Request /\ req \in [Requests -> Request]
  BY DEF ServingTypeOK
<1> DEFINE lives == stored[req[r].target] = "live"
<1>2. req' = [req EXCEPT ![r].phase = "write", ![r].seen = lives] /\ req[r].phase = "look"
  BY DEF Look
<1>3. lives \in BOOLEAN
  OBVIOUS
<1> HIDE DEF lives
<1>4. Others(r) /\ req'[r] = [req[r] EXCEPT !.phase = "write", !.seen = lives]
  BY <1>1, <1>2, <1>3, GoesWith DEF Phases
<1>5. /\ Same(r) /\ req'[r].phase = "write" /\ req'[r].seen = lives /\ req'[r].memory = req[r].memory
      /\ req'[r].admitted = req[r].admitted /\ req'[r].changed = req[r].changed
  BY <1>1, <1>4 DEF Same, Request
<1> QED BY <1>2, <1>4, <1>5 DEF lives

\* A request that wrote knows whether it changed something.
LEMMA WriteMoves ==
    ASSUME ServingTypeOK, NEW r \in Requests, Write(r)
    PROVE  /\ Others(r) /\ Same(r) /\ req[r].phase \in {"write", "orphan"}
           /\ req'[r].admitted = req[r].admitted /\ req'[r].memory = req[r].memory
           /\ req'[r].seen = req[r].seen
           /\ \/ /\ req'[r].phase \in {"emit", "cut"} /\ req'[r].changed = (Affected(r) # {})
                 /\ req'[r].phase = "emit" => req[r].phase = "write"
                 /\ stored' = [m \in Requests |->
                          IF m \notin Affected(r) \/ req[r].kind = "invalidate" THEN stored[m]
                          ELSE IF m = r THEN "live" ELSE "gone"]
              \/ /\ req'[r].phase \in {"failed", "cut"} /\ req'[r].changed = req[r].changed
                 /\ stored' = stored
<1>1. req[r] \in Request /\ req \in [Requests -> Request]
  BY DEF ServingTypeOK
<1>2. CASE stored' = stored /\ Goes(r, IF req[r].phase = "write" THEN "failed" ELSE "cut")
  <2>1. \/ Moves(r, "failed") \/ Moves(r, "cut")
    BY <1>2, GoesMoves DEF Phases
  <2> QED BY <1>2, <2>1 DEF Moves, Write
<1> DEFINE ph == IF req[r].phase = "write" THEN "emit" ELSE "cut"
           some == Affected(r) # {}
<1>3. CASE req' = [req EXCEPT ![r].phase = IF @ = "write" THEN "emit" ELSE "cut",
                              ![r].changed = Affected(r) # {}]
           /\ stored' = [m \in Requests |->
                          IF m \notin Affected(r) \/ req[r].kind = "invalidate" THEN stored[m]
                          ELSE IF m = r THEN "live" ELSE "gone"]
  <2>1. req' = [req EXCEPT ![r].phase = ph, ![r].changed = some] /\ ph \in Phases /\ some \in BOOLEAN
        /\ ph \in {"emit", "cut"} /\ (ph = "emit" => req[r].phase = "write")
    BY <1>3 DEF Phases
  <2> HIDE DEF ph, some
  <2>2. Others(r) /\ req'[r] = [req[r] EXCEPT !.phase = ph, !.changed = some]
    BY <1>1, <2>1, GoesWith
  <2>3. /\ Same(r) /\ req'[r].phase = ph /\ req'[r].changed = some /\ req'[r].seen = req[r].seen
        /\ req'[r].admitted = req[r].admitted /\ req'[r].memory = req[r].memory
    BY <1>1, <2>2 DEF Same, Request
  <2> QED BY <1>3, <2>1, <2>2, <2>3 DEF some, Write
<1> QED BY <1>2, <1>3 DEF Write

\* A request that is given or opens its Memory, or is refused.
LEMMA LookupMoves ==
    ASSUME ServingTypeOK, Arrived, NEW r \in Requests, Lookup(r)
    PROVE  /\ req[r].phase = "pool"
           /\ \/ Moves(r, "refused") \/ Moves(r, "open")
              \/ pool[req[r].agent] \in Requests /\ Serves(r, pool[req[r].agent])
<1>1. req[r].agent \in Agents
  BY DEF Lookup, Arrived
<1>2. pool[req[r].agent] \in Requests \cup {None}
  BY <1>1 DEF ServingTypeOK
<1>3. Goes(r, "refused") => Moves(r, "refused")
  BY GoesMoves DEF Phases
<1>4. Goes(r, "open") => Moves(r, "open")
  BY GoesMoves DEF Phases
<1> QED BY <1>2, <1>3, <1>4 DEF Lookup

\* A request that opens a Memory puts it in the pool only where there is none.
LEMMA OpenMoves ==
    ASSUME ServingTypeOK, Arrived, NEW r \in Requests, OpenMemory(r)
    PROVE  /\ req[r].phase = "open"
           /\ \/ Moves(r, "failed") /\ pool' = pool
              \/ /\ pool'[req[r].agent] \in Requests /\ Serves(r, pool'[req[r].agent])
                 /\ \A a \in Agents : pool[a] # None => pool'[a] = pool[a]
<1>1. req[r].agent \in Agents
  BY DEF OpenMemory, Arrived
<1> DEFINE a == req[r].agent
           m == IF pool[a] = None THEN r ELSE pool[a]
<1>2. m \in Requests /\ (pool[a] # None => m = pool[a]) /\ pool \in [Agents -> Requests \cup {None}]
  BY <1>1 DEF ServingTypeOK
<1>3. Goes(r, "failed") => Moves(r, "failed")
  BY GoesMoves DEF Phases
<1>4. /\ req[r].phase = "open"
      /\ \/ Serves(r, m) /\ pool' = [pool EXCEPT ![a] = m]
         \/ Goes(r, "failed") /\ pool' = pool
  BY DEF OpenMemory
<1> HIDE DEF m
<1>5. pool' = [pool EXCEPT ![a] = m] => pool'[a] = m /\ \A b \in Agents : pool[b] # None => pool'[b] = pool[b]
  BY <1>1, <1>2
<1> QED BY <1>2, <1>3, <1>4, <1>5

\* What the other actions do: the request goes on.
LEMMA OthersMove ==
    ASSUME ServingTypeOK, NEW r \in Requests
    PROVE  /\ Read(r) => req[r].phase = "read" /\ (Moves(r, "ok") \/ Moves(r, "failed"))
           /\ Emit(r) => req[r].phase = "emit" /\ Moves(r, "ok")
           /\ Timeout(r) => \/ /\ req[r].phase \in {"rate", "pool", "open", "read", "look", "subscribe", "emit"}
                               /\ Moves(r, "cut")
                            \/ req[r].phase = "write" /\ Moves(r, "orphan")
           /\ Subscribe(r) => req[r].phase = "subscribe" /\ (Moves(r, "watching") \/ Moves(r, "spawned"))
           /\ Relay(r) => req[r].phase = "spawned" /\ Moves(r, "watching")
           /\ Leave(r) => req[r].phase = "watching" /\ Moves(r, "ok")
<1>1. \A ph \in {"ok", "failed", "cut", "orphan", "watching", "spawned"} : Goes(r, ph) => Moves(r, ph)
  BY GoesMoves DEF Phases
<1> QED BY <1>1 DEF Read, Emit, Timeout, Subscribe, Relay, Leave, Subscribes

\* In a step one request arrives or goes on, or none moves.
LEMMA OneMoves ==
    ASSUME ServingTypeOK, Arrived, [Next]_vars
    PROVE  \/ req' = req
           \/ \E r \in Requests : Arrive(r)
           \/ \E r \in Requests :
                 /\ Others(r) /\ Same(r) /\ req[r].phase # "new" /\ req'[r].phase \notin {"new", "rate"}
                 /\ req'[r].admitted = req[r].admitted \/ CheckRate(r)
                 /\ req'[r].changed = req[r].changed \/ Write(r)
<1>1. ASSUME NEW r \in Requests, CheckRate(r) \/ Lookup(r) \/ OpenMemory(r) \/ Read(r) \/ Look(r) \/ Write(r)
                 \/ Emit(r) \/ Timeout(r) \/ Subscribe(r) \/ Relay(r) \/ Leave(r)
      PROVE  /\ Others(r) /\ Same(r) /\ req[r].phase # "new" /\ req'[r].phase \notin {"new", "rate"}
             /\ req'[r].admitted = req[r].admitted \/ CheckRate(r)
             /\ req'[r].changed = req[r].changed \/ Write(r)
  <2>1. CASE CheckRate(r)
    BY <2>1, CheckRateMoves
  <2>2. CASE Lookup(r)
    <3>1. req[r].kind \in AllKinds
      BY <2>2 DEF Lookup, Arrived
    <3> QED BY <2>2, <3>1, LookupMoves, ServesMoves DEF Moves
  <2>3. CASE OpenMemory(r)
    <3>1. req[r].kind \in AllKinds
      BY <2>3 DEF OpenMemory, Arrived
    <3> QED BY <2>3, <3>1, OpenMoves, ServesMoves DEF Moves
  <2>4. CASE Look(r)
    BY <2>4, LookMoves
  <2>5. CASE Write(r)
    BY <2>5, WriteMoves
  <2>6. CASE Read(r) \/ Emit(r) \/ Timeout(r) \/ Subscribe(r) \/ Relay(r) \/ Leave(r)
    BY <2>6, OthersMove DEF Moves
  <2> QED BY <1>1, <2>1, <2>2, <2>3, <2>4, <2>5, <2>6
<1>2. (\E r \in Requests : Recv(r)) \/ Tick \/ UNCHANGED vars => req' = req
  BY DEF Recv, Tick, vars
<1> QED BY <1>1, <1>2 DEF Next

\* Arrived is kept.
LEMMA ArrivedNext ==
    ASSUME ServingTypeOK, Arrived, [Next]_vars PROVE Arrived'
<1>0. clock \in Nat /\ clock' \in Nat /\ clock <= clock' /\ \A q \in Requests : req[q].now \in Nat
  <2>1. clock' = clock \/ clock' = clock + 1
    BY DEF Next, vars, Arrive, CheckRate, Lookup, OpenMemory, Read, Look, Write, Emit, Timeout,
           Subscribe, Relay, Recv, Leave, Tick
  <2>2. clock \in Nat
    BY ServingAssumption DEF ServingTypeOK
  <2> QED BY <2>1, <2>2 DEF ServingTypeOK, Request
<1>1. CASE req' = req
  BY <1>0, <1>1 DEF Arrived
<1>2. ASSUME NEW r \in Requests, Arrive(r) PROVE Arrived'
  <2>1. clock' = clock
    BY <1>2 DEF Arrive
  <2> QED BY <1>0, <1>2, <2>1, Arrives DEF Arrived, Others
<1>3. ASSUME NEW r \in Requests, Others(r), Same(r), req[r].phase # "new", req'[r].phase \notin {"new", "rate"}
      PROVE  Arrived'
  BY <1>0, <1>3 DEF Arrived, Others, Same
<1> QED BY <1>1, <1>2, <1>3, OneMoves

-----------------------------------------------------------------------------
(* What the watchers rest on is kept. *)

\* Pooled is kept.
LEMMA PooledNext ==
    ASSUME ServingTypeOK, Arrived, Pooled, [Next]_vars PROVE Pooled'
<1>0. /\ \A q \in Requests : req[q] \in Request /\ (req[q].phase # "new" => req[q].agent \in Agents)
      /\ pool \in [Agents -> Requests \cup {None}] /\ None \notin Requests
  BY ServingAssumption DEF ServingTypeOK, Arrived
<1>1. ASSUME NEW r \in Requests, NEW ph, Moves(r, ph), ph \in Working => req[r].phase \in Working, pool' = pool
      PROVE  Pooled'
  BY <1>1 DEF Moves, Others, Same, Pooled
<1>2. ASSUME NEW r \in Requests, Others(r), Same(r), req'[r].phase \in Working => req[r].phase \in Working,
             req'[r].memory = req[r].memory, pool' = pool
      PROVE  Pooled'
  BY <1>2 DEF Others, Same, Pooled
<1>3. ASSUME NEW r \in Requests, req[r].phase \in {"pool", "open"}, pool'[req[r].agent] \in Requests,
             Serves(r, pool'[req[r].agent]), \A a \in Agents : pool[a] # None => pool'[a] = pool[a]
      PROVE  Pooled'
  <2>1. req[r].kind \in AllKinds
    BY <1>3 DEF Arrived
  <2>2. Others(r) /\ Same(r) /\ req'[r].memory = pool'[req[r].agent]
    BY <1>3, <2>1, ServesMoves
  <2>3. ASSUME NEW q \in Requests, q # r, req'[q].phase \in Working
        PROVE  req'[q].memory \in Requests /\ req'[q].memory = pool'[req'[q].agent]
    <3>1. req'[q] = req[q]
      BY <2>2, <2>3 DEF Others
    <3>2. req[q].agent \in Agents /\ req[q].memory \in Requests /\ req[q].memory = pool[req[q].agent]
      BY <1>0, <2>3, <3>1 DEF Pooled, Working
    <3> QED BY <1>0, <1>3, <3>1, <3>2
  <2> QED BY <1>3, <2>2, <2>3 DEF Pooled, Same
<1>4. CASE (\E r \in Requests : Recv(r)) \/ Tick \/ UNCHANGED vars
  BY <1>4 DEF Recv, Tick, vars, Pooled
<1>5. ASSUME NEW r \in Requests, Arrive(r) PROVE Pooled'
  <2>1. pool' = pool /\ Others(r) /\ req'[r].phase \notin Working
    BY <1>5, Arrives DEF Arrive, Working
  <2> QED BY <2>1 DEF Pooled, Others
<1>6. ASSUME NEW r \in Requests, CheckRate(r) PROVE Pooled'
  <2>1. pool' = pool /\ Others(r) /\ req'[r].phase \notin Working
    BY <1>6, CheckRateMoves DEF CheckRate, Working
  <2> QED BY <2>1 DEF Pooled, Others
<1>7. ASSUME NEW r \in Requests, Lookup(r) PROVE Pooled'
  <2>1. pool' = pool
    BY <1>7 DEF Lookup
  <2>2. req[r].phase = "pool" /\ (Moves(r, "refused") \/ Moves(r, "open")
                                  \/ (pool[req[r].agent] \in Requests /\ Serves(r, pool[req[r].agent])))
    BY <1>7, LookupMoves
  <2>3. CASE Moves(r, "refused") \/ Moves(r, "open")
    BY <1>1, <2>1, <2>3 DEF Working
  <2>4. CASE pool[req[r].agent] \in Requests /\ Serves(r, pool[req[r].agent])
    BY <1>3, <2>1, <2>2, <2>4
  <2> QED BY <2>2, <2>3, <2>4
<1>8. ASSUME NEW r \in Requests, OpenMemory(r) PROVE Pooled'
  <2>1. CASE Moves(r, "failed") /\ pool' = pool
    BY <1>1, <2>1 DEF Working
  <2>2. CASE /\ pool'[req[r].agent] \in Requests /\ Serves(r, pool'[req[r].agent])
             /\ \A a \in Agents : pool[a] # None => pool'[a] = pool[a]
    BY <1>3, <1>8, <2>2, OpenMoves
  <2> QED BY <1>8, <2>1, <2>2, OpenMoves
<1>9. ASSUME NEW r \in Requests, Look(r) \/ Write(r) PROVE Pooled'
  <2>1. pool' = pool /\ Others(r) /\ Same(r) /\ req'[r].memory = req[r].memory /\ req[r].phase \in Working
    BY <1>9, LookMoves, WriteMoves DEF Look, Write, Working
  <2> QED BY <1>2, <2>1
<1>10. ASSUME NEW r \in Requests, Read(r) \/ Emit(r) \/ Timeout(r) \/ Subscribe(r) \/ Relay(r) \/ Leave(r)
       PROVE  Pooled'
  <2>1. pool' = pool
    BY <1>10 DEF Read, Emit, Timeout, Subscribe, Relay, Leave
  <2>2. \E ph \in {"ok", "failed", "cut", "orphan", "watching", "spawned"} :
           Moves(r, ph) /\ (ph \in Working => req[r].phase \in Working)
    BY <1>10, OthersMove DEF Working
  <2> QED BY <1>1, <2>1, <2>2
<1> QED BY <1>4, <1>5, <1>6, <1>7, <1>8, <1>9, <1>10 DEF Next

\* A step that is not a write leaves the memories as they were, and neither starts nor
\* ends the write of a request that has written.
LEMMA NotWriting ==
    ASSUME ServingTypeOK, Arrived, [Next]_vars, ~ \E r \in Requests : Write(r)
    PROVE  /\ stored' = stored
           /\ \A q \in Requests : req[q].phase \in {"emit", "ok", "cut"} =>
                 req'[q].phase \in {"emit", "ok", "cut"} /\ req'[q].kind = req[q].kind
<1>1. stored' = stored
  BY DEF Next, vars, Arrive, CheckRate, Lookup, OpenMemory, Read, Look, Emit, Timeout,
         Subscribe, Relay, Recv, Leave, Tick
<1>2. ASSUME NEW r \in Requests, Arrive(r) \/ CheckRate(r) \/ Lookup(r) \/ OpenMemory(r) \/ Look(r)
      PROVE  Others(r) /\ req[r].phase \notin {"emit", "ok", "cut"}
  <2>1. Lookup(r) => req[r].phase = "pool" /\ Others(r)
    BY <1>2, LookupMoves, ServesMoves DEF Moves, Arrived
  <2>2. OpenMemory(r) => req[r].phase = "open" /\ Others(r)
    BY <1>2, OpenMoves, ServesMoves DEF Moves, Arrived
  <2> QED BY <1>2, <2>1, <2>2, Arrives, CheckRateMoves, LookMoves
<1>3. ASSUME NEW r \in Requests, Read(r) \/ Emit(r) \/ Timeout(r) \/ Subscribe(r) \/ Relay(r) \/ Leave(r)
      PROVE  /\ Others(r) /\ Same(r)
             /\ req[r].phase \in {"emit", "ok", "cut"} => req'[r].phase \in {"emit", "ok", "cut"}
  BY <1>3, OthersMove DEF Moves
<1>4. (\E r \in Requests : Recv(r)) \/ Tick \/ UNCHANGED vars => req' = req
  BY DEF Recv, Tick, vars
<1> QED BY <1>1, <1>2, <1>3, <1>4 DEF Next, Others, Same

\* Written is kept.
LEMMA WrittenNext ==
    ASSUME ServingTypeOK, Arrived, Written, Removing, [Next]_vars PROVE Written'
<1>1. CASE ~ \E r \in Requests : Write(r)
  BY <1>1, NotWriting DEF Written
<1>2. ASSUME NEW r \in Requests, Write(r) PROVE Written'
  <2>1. Others(r) /\ Same(r) /\ req[r].phase \in {"write", "orphan"}
    BY <1>2, WriteMoves
  <2>2. stored[r] = "none"
    BY <2>1 DEF Written, ServingTypeOK
  <2>3. CASE stored' = stored
    BY <2>1, <2>2, <2>3 DEF Written, Others
  <2>4. CASE /\ req'[r].phase \in {"emit", "cut"}
             /\ stored' = [m \in Requests |->
                          IF m \notin Affected(r) \/ req[r].kind = "invalidate" THEN stored[m]
                          ELSE IF m = r THEN "live" ELSE "gone"]
    <3>1. ASSUME NEW m \in Requests, m # r PROVE stored'[m] # "none" => stored[m] # "none"
      <4>1. m \in Affected(r) => stored[m] = "live"
        BY <3>1 DEF Affected
      <4> QED BY <2>4, <4>1
    <3>2. r \in Affected(r) => req[r].kind = "remember"
      BY <2>2 DEF Affected
    <3>3. stored'[r] # "none" => req[r].kind = "remember"
      BY <2>2, <2>4, <3>2
    <3> QED BY <2>1, <2>4, <3>1, <3>3 DEF Written, Others, Same
  <2> QED BY <1>2, <2>3, <2>4, WriteMoves
<1> QED BY <1>1, <1>2

\* What a memory that is gone, or there, becomes.
LEMMA StoredMoves ==
    ASSUME ServingTypeOK, Arrived, Written, [Next]_vars, NEW m \in Requests
    PROVE  /\ stored[m] # "none" => stored'[m] # "none"
           /\ stored[m] = "gone" => stored'[m] = "gone"
<1>1. CASE ~ \E r \in Requests : Write(r)
  BY <1>1, NotWriting
<1>2. ASSUME NEW r \in Requests, Write(r), stored[m] # "none"
      PROVE  stored'[m] # "none" /\ (stored[m] = "gone" => stored'[m] = "gone")
  <2>1. m # r
    BY <1>2, WriteMoves DEF Written
  <2>2. m \in Affected(r) => stored[m] = "live"
    BY <2>1 DEF Affected
  <2> QED BY <1>2, <2>1, <2>2, WriteMoves
<1> QED BY <1>1, <1>2

\* Removing is kept.
LEMMA RemovingNext ==
    ASSUME ServingTypeOK, Arrived, Written, Removing, [Next]_vars PROVE Removing'
<1> DEFINE Fine(q) ==
              /\ req[q].phase # "new" /\ req[q].kind \in {"forget", "invalidate"} =>
                    /\ req[q].target \in Requests /\ stored[req[q].target] # "none"
                    /\ req[q].phase \in {"write", "orphan"} /\ ~req[q].seen
                          => stored[req[q].target] = "gone"
              /\ req[q].phase \in {"write", "orphan"} => req[q].kind \notin {"read", "watch"}
              /\ req[q].phase = "look" => req[q].kind \in {"forget", "invalidate"}
<1>0. /\ \A m \in Requests : /\ stored[m] # "none" => stored'[m] # "none"
                             /\ stored[m] = "gone" => stored'[m] = "gone"
      /\ \A q \in Requests : Fine(q)
  BY StoredMoves DEF Removing
<1>1. ASSUME NEW q \in Requests, req'[q] = req[q] PROVE Fine(q)'
  BY <1>0, <1>1
<1>2. ASSUME NEW q \in Requests, Same(q), req[q].phase # "new", req'[q].seen = req[q].seen,
             req'[q].phase \in {"write", "orphan"} => req[q].phase \in {"write", "orphan"},
             req'[q].phase # "look"
      PROVE  Fine(q)'
  BY <1>0, <1>2 DEF Same
<1>3. CASE req' = req
  BY <1>1, <1>3 DEF Removing
<1>4. ASSUME NEW r \in Requests, Arrive(r) PROVE Fine(r)'
  <2>1. stored' = stored
    BY <1>4 DEF Arrive
  <2> QED BY <1>4, <2>1, Arrives
<1>5. ASSUME NEW r \in Requests, CheckRate(r) PROVE Fine(r)'
  <2>1. Same(r) /\ req[r].phase = "rate" /\ req'[r].phase \in {"refused", "pool"}
    BY <1>5, CheckRateMoves
  <2> QED BY <1>0, <2>1 DEF Same
<1>6. ASSUME NEW r \in Requests, NEW m \in Requests, Serves(r, m), req[r].phase \in {"pool", "open"} PROVE Fine(r)'
  <2>1. req[r].kind \in AllKinds
    BY <1>6 DEF Arrived
  <2>2. /\ Same(r) /\ req'[r].phase = Then(req[r].kind) /\ req'[r].phase \in {"write", "look", "read", "subscribe"}
        /\ req'[r].phase = "look" <=> req[r].kind \in {"forget", "invalidate"}
        /\ req'[r].phase = "write" <=> req[r].kind \in {"remember", "purge"}
    BY <1>6, <2>1, ServesMoves
  <2> QED BY <1>0, <1>6, <2>2 DEF Same
<1>7. ASSUME NEW r \in Requests, Lookup(r) PROVE Fine(r)'
  BY <1>2, <1>6, <1>7, LookupMoves DEF Moves
<1>8. ASSUME NEW r \in Requests, OpenMemory(r) PROVE Fine(r)'
  BY <1>2, <1>6, <1>8, OpenMoves DEF Moves
<1>9. ASSUME NEW r \in Requests, Look(r) PROVE Fine(r)'
  <2>1. /\ Same(r) /\ req[r].phase = "look" /\ req'[r].phase = "write"
        /\ req'[r].seen = (stored[req[r].target] = "live")
    BY <1>9, LookMoves
  <2>2. stored' = stored
    BY <1>9 DEF Look
  <2>3. req[r].kind \in {"forget", "invalidate"} /\ req[r].target \in Requests /\ stored[req[r].target] # "none"
    BY <1>0, <2>1
  <2>4. stored[req[r].target] \in {"none", "live", "gone"}
    BY <2>3 DEF ServingTypeOK
  <2> QED BY <2>1, <2>2, <2>3, <2>4 DEF Same
<1>10. ASSUME NEW r \in Requests, Write(r) PROVE Fine(r)'
  <2>1. /\ Same(r) /\ req[r].phase \in {"write", "orphan"} /\ req'[r].phase \in {"emit", "cut", "failed"}
        /\ req'[r].seen = req[r].seen
    BY <1>10, WriteMoves
  <2> QED BY <1>2, <2>1
<1>11. ASSUME NEW r \in Requests, Read(r) \/ Emit(r) \/ Timeout(r) \/ Subscribe(r) \/ Relay(r) \/ Leave(r)
       PROVE  Fine(r)'
  <2>1. /\ Same(r) /\ req[r].phase # "new" /\ req'[r].seen = req[r].seen /\ req'[r].phase # "look"
        /\ req'[r].phase \in {"write", "orphan"} => req[r].phase \in {"write", "orphan"}
    BY <1>11, OthersMove DEF Moves
  <2> QED BY <1>2, <2>1
<1>12. ASSUME NEW r \in Requests, Others(r), Fine(r)' PROVE Removing'
  BY <1>1, <1>12 DEF Others, Removing
<1>13. ASSUME NEW r \in Requests, Arrive(r) \/ CheckRate(r) \/ Lookup(r) \/ OpenMemory(r) \/ Look(r) \/ Write(r)
         \/ Read(r) \/ Emit(r) \/ Timeout(r) \/ Subscribe(r) \/ Relay(r) \/ Leave(r)
       PROVE  Others(r)
  <2>1. Lookup(r) => Others(r)
    BY LookupMoves, ServesMoves DEF Moves, Arrived
  <2>2. OpenMemory(r) => Others(r)
    BY OpenMoves, ServesMoves DEF Moves, Arrived
  <2> QED BY <1>13, <2>1, <2>2, Arrives, CheckRateMoves, LookMoves, WriteMoves, OthersMove DEF Moves
<1>14. (\E r \in Requests : Recv(r)) \/ Tick \/ UNCHANGED vars => req' = req
  BY DEF Recv, Tick, vars
<1> HIDE DEF Fine
<1>15. ASSUME NEW r \in Requests, Arrive(r) \/ CheckRate(r) \/ Lookup(r) \/ OpenMemory(r) \/ Look(r) \/ Write(r)
         \/ Read(r) \/ Emit(r) \/ Timeout(r) \/ Subscribe(r) \/ Relay(r) \/ Leave(r)
       PROVE  Removing'
  <2>1. Others(r)
    BY <1>13, <1>15
  <2>2. Fine(r)'
    BY <1>4, <1>5, <1>7, <1>8, <1>9, <1>10, <1>11, <1>15
  <2> QED BY <1>12, <2>1, <2>2
<1> QED BY <1>3, <1>14, <1>15 DEF Next

\* Announces is kept: who forgets or invalidates a memory that is there had looked and
\* seen it, as a memory that was gone then is still gone.
LEMMA AnnouncesNext ==
    ASSUME ServingTypeOK, Arrived, Removing, Announces, [Next]_vars PROVE Announces'
<1>1. CASE req' = req
  BY <1>1 DEF Announces
<1>2. ASSUME NEW r \in Requests, Arrive(r) PROVE Announces'
  BY <1>2, Arrives DEF Announces, Others
<1>3. ASSUME NEW r \in Requests, Write(r) PROVE Announces'
  <2>1. Others(r) /\ Same(r) /\ req[r].phase \in {"write", "orphan"} /\ req'[r].seen = req[r].seen
    BY <1>3, WriteMoves
  <2>2. ~req[r].changed
    BY <2>1 DEF Announces
  <2>3. CASE req'[r].changed = req[r].changed
    BY <2>1, <2>2, <2>3 DEF Announces, Others
  <2>4. CASE req'[r].phase \in {"emit", "cut"} /\ req'[r].changed = (Affected(r) # {})
    <3>1. ASSUME Affected(r) # {}, req[r].kind \notin {"remember", "purge"} PROVE req[r].seen
      <4>1. req[r].kind \in {"forget", "invalidate"}
        BY <1>3, <2>1, <3>1 DEF Removing, Arrived, AllKinds
      <4>2. stored[req[r].target] = "live"
        BY <3>1, <4>1 DEF Affected
      <4> QED BY <2>1, <4>1, <4>2 DEF Removing
    <3> QED BY <2>1, <2>4, <3>1 DEF Announces, Others, Same
  <2> QED BY <1>3, <2>3, <2>4, WriteMoves
<1>4. ASSUME NEW r \in Requests, CheckRate(r) \/ Lookup(r) \/ OpenMemory(r) \/ Look(r)
         \/ Read(r) \/ Emit(r) \/ Timeout(r) \/ Subscribe(r) \/ Relay(r) \/ Leave(r)
      PROVE  Announces'
  <2>1. /\ Others(r) /\ Same(r) /\ req'[r].changed = req[r].changed
        /\ req[r].phase \in {"emit", "ok", "cut"} => req'[r].phase \in {"emit", "ok", "cut"} /\ req'[r].seen = req[r].seen
    <3>1. Lookup(r) => /\ Others(r) /\ Same(r) /\ req'[r].changed = req[r].changed
                       /\ req[r].phase \notin {"emit", "ok", "cut"}
      BY LookupMoves, ServesMoves DEF Moves, Arrived
    <3>2. OpenMemory(r) => /\ Others(r) /\ Same(r) /\ req'[r].changed = req[r].changed
                           /\ req[r].phase \notin {"emit", "ok", "cut"}
      BY OpenMoves, ServesMoves DEF Moves, Arrived
    <3> QED BY <1>4, <3>1, <3>2, CheckRateMoves, LookMoves, OthersMove DEF Moves
  <2> QED BY <2>1 DEF Announces, Others, Same
<1>5. (\E r \in Requests : Recv(r)) \/ Tick \/ UNCHANGED vars => req' = req
  BY DEF Recv, Tick, vars
<1> QED BY <1>1, <1>2, <1>3, <1>4, <1>5 DEF Next

\* A step that neither sends nor subscribes leaves the subscriptions and the answered
\* changes as they were.
Calm ==
    /\ events' = events
    /\ \A w \in Requests : req'[w].phase = "watching" =>
          req[w].phase = "watching" /\ req'[w].memory = req[w].memory /\ req'[w].agent = req[w].agent
    /\ \A r \in Requests : req'[r].phase = "ok" /\ req'[r].changed =>
          req[r].phase = "ok" /\ req[r].changed /\ req'[r].agent = req[r].agent /\ req'[r].kind = req[r].kind

\* Which steps these are.
LEMMA CalmSteps ==
    ASSUME ServingTypeOK, Arrived, Announces, [Next]_vars
    PROVE  \/ Calm /\ \A w \in Requests : req'[w].phase = "watching" => watch'[w] = watch[w]
           \/ Calm /\ \E w \in Requests : Recv(w)
           \/ \E w \in Requests : Emit(w) \/ (Subscribes(w) /\ req[w].phase # "watching"
                                              /\ UNCHANGED <<events, pool>>)
<1>1. ASSUME NEW r \in Requests, events' = events, watch' = watch, Others(r), req'[r].phase \notin {"ok", "watching"}
      PROVE  Calm /\ watch' = watch
  BY <1>1 DEF Calm, Others
<1>2. ASSUME NEW r \in Requests, Arrive(r) \/ CheckRate(r) \/ Lookup(r) \/ OpenMemory(r) \/ Look(r) \/ Write(r) \/ Timeout(r)
      PROVE  Calm /\ watch' = watch
  <2>1. events' = events /\ watch' = watch
    BY <1>2 DEF Arrive, CheckRate, Lookup, OpenMemory, Look, Write, Timeout
  <2>2. Lookup(r) => Others(r) /\ req'[r].phase \notin {"ok", "watching"}
    BY LookupMoves, ServesMoves DEF Moves, Arrived
  <2>3. OpenMemory(r) => Others(r) /\ req'[r].phase \notin {"ok", "watching"}
    BY OpenMoves, ServesMoves DEF Moves, Arrived
  <2>4. Others(r) /\ req'[r].phase \notin {"ok", "watching"}
    BY <1>2, <2>2, <2>3, Arrives, CheckRateMoves, LookMoves, WriteMoves, OthersMove DEF Moves
  <2> QED BY <1>1, <2>1, <2>4
<1>3. ASSUME NEW r \in Requests, Read(r)
      PROVE  Calm /\ watch' = watch
  <2>1. req[r].phase = "read" /\ (Moves(r, "ok") \/ Moves(r, "failed")) /\ events' = events /\ watch' = watch
    BY <1>3, OthersMove DEF Read
  <2>2. ~req[r].changed
    BY <2>1 DEF Announces
  <2> QED BY <2>1, <2>2 DEF Calm, Moves, Others
<1>4. ASSUME NEW r \in Requests, Leave(r)
      PROVE  Calm /\ \A w \in Requests : req'[w].phase = "watching" => watch'[w] = watch[w]
  <2>1. req[r].phase = "watching" /\ Moves(r, "ok") /\ events' = events
    BY <1>4, OthersMove DEF Leave
  <2>2. ~req[r].changed
    BY <2>1 DEF Announces
  <2>3. Calm
    BY <2>1, <2>2 DEF Calm, Moves, Others
  <2>4. \A w \in Requests : w # r => watch'[w] = watch[w]
    BY <1>4 DEF Leave, ServingTypeOK
  <2> QED BY <2>1, <2>3, <2>4 DEF Moves
<1>5. ASSUME NEW r \in Requests, Subscribe(r) \/ Relay(r)
      PROVE  \/ Calm /\ watch' = watch
             \/ Subscribes(r) /\ req[r].phase # "watching" /\ UNCHANGED <<events, pool>>
  <2>1. CASE Subscribes(r)
    BY <1>5, <2>1 DEF Subscribe, Relay
  <2>2. CASE Goes(r, "spawned") /\ watch' = watch /\ events' = events
    <3>1. Moves(r, "spawned")
      BY <2>2, GoesMoves DEF Phases
    <3> QED BY <1>1, <2>2, <3>1 DEF Moves
  <2> QED BY <1>5, <2>1, <2>2 DEF Subscribe, Relay
<1>6. ASSUME NEW r \in Requests, Recv(r) PROVE Calm
  BY <1>6 DEF Recv, Calm
<1>7. CASE Tick \/ UNCHANGED vars
  BY <1>7 DEF Tick, vars, Calm
<1> QED BY <1>2, <1>3, <1>4, <1>5, <1>6, <1>7 DEF Next

\* What a step that sends appends: the event of a change, on the Memory of its agent.
LEMMA EmitAppends ==
    ASSUME ServingTypeOK, Pooled, Announces, NEW r \in Requests, Emit(r)
    PROVE  /\ Moves(r, "ok") /\ req[r].phase = "emit" /\ watch' = watch
           /\ \A m \in Requests : events'[m] = events[m] \/ events'[m] = Append(events[m], r)
           /\ req[r].changed /\ req[r].kind # "purge" =>
                 /\ req[r].memory \in Requests /\ req[r].memory = pool[req[r].agent]
                 /\ events'[req[r].memory] = Append(events[req[r].memory], r)
<1>1. Moves(r, "ok") /\ req[r].phase = "emit" /\ watch' = watch
  BY OthersMove DEF Emit
<1>2. req[r].memory \in Requests /\ req[r].memory = pool[req[r].agent]
  BY <1>1 DEF Pooled, Working
<1>3. req[r].changed /\ req[r].kind # "purge" => req[r].kind = "remember" \/ req[r].seen
  BY DEF Announces
<1>4. events' = IF req[r].kind = "remember" \/ req[r].seen
                THEN [events EXCEPT ![req[r].memory] = Append(events[req[r].memory], r)] ELSE events
  BY DEF Emit
<1>5. events \in [Requests -> Seq(Requests)]
  BY DEF ServingTypeOK
<1> QED BY <1>1, <1>2, <1>3, <1>4, <1>5

\* What a subscription that is told something was at, and is.
LEMMA RecvTells ==
    ASSUME ServingTypeOK, Pooled, NEW w \in Requests, Recv(w)
    PROVE  LET sent == events[req[w].memory]
           IN /\ sent \in Seq(Requests) /\ watch[w].pos \in Nat
              /\ \A v \in Requests : v # w => watch'[v] = watch[v]
              /\ watch'[w].before = watch[w].before
              /\ \E p \in Nat :
                    /\ p < Len(sent) /\ watch'[w].pos = p + 1
                    /\ watch'[w].told = watch[w].told \cup {sent[p + 1]}
                    /\ \A n \in 1 .. Len(sent) : n > watch[w].pos =>
                          n > p \/ Len(sent) - n >= EVENT_CAPACITY
<1> DEFINE sent   == events[req[w].memory]
           oldest == Len(sent) - EVENT_CAPACITY
           p      == IF watch[w].pos < oldest THEN oldest ELSE watch[w].pos
<1>1. /\ req[w].memory \in Requests /\ sent \in Seq(Requests) /\ watch[w].pos \in Nat
      /\ watch \in [Requests -> [pos : Nat, told : SUBSET Requests, before : SUBSET Requests]]
  BY DEF Recv, Pooled, Working, ServingTypeOK
<1>2. p < Len(sent) /\ watch' = [watch EXCEPT ![w].pos = p + 1, ![w].told = watch[w].told \cup {sent[p + 1]}]
  BY DEF Recv
<1>3. Len(sent) \in Nat /\ EVENT_CAPACITY \in Nat
  BY <1>1, ServingAssumption
<1> DEFINE len == Len(sent)
           pos == watch[w].pos
<1>4. p \in Nat /\ \A n \in 1 .. len : n > pos => n > p \/ len - n >= EVENT_CAPACITY
  <2>1. len \in Nat /\ pos \in Nat /\ p = IF pos < len - EVENT_CAPACITY THEN len - EVENT_CAPACITY ELSE pos
    BY <1>1, <1>3
  <2> HIDE DEF p, len, pos
  <2> QED BY <1>3, <2>1
<1> HIDE DEF p
<1>5. sent[p + 1] \in Requests
  BY <1>1, <1>2, <1>4
<1> DEFINE n == p + 1
           T == watch[w].told \cup {sent[p + 1]}
<1>6. n \in Nat /\ T \in SUBSET Requests /\ watch' = [watch EXCEPT ![w].pos = n, ![w].told = T]
  BY <1>1, <1>2, <1>4, <1>5
<1>7. /\ \A v \in Requests : v # w => watch'[v] = watch[v]
      /\ watch'[w].pos = n /\ watch'[w].told = T /\ watch'[w].before = watch[w].before
  <2>1. watch \in [Requests -> [pos : Nat, told : SUBSET Requests, before : SUBSET Requests]]
    BY <1>1
  <2> HIDE DEF n, T, sent, len, pos
  <2> DEFINE new == [watch[w] EXCEPT !.pos = n, !.told = T]
  <2>2. watch[w] \in [pos : Nat, told : SUBSET Requests, before : SUBSET Requests]
    BY <2>1
  <2>3. new.pos = n /\ new.told = T /\ new.before = watch[w].before
    BY <2>2
  <2>4. watch' = [watch EXCEPT ![w] = new]
    BY <1>6
  <2> HIDE DEF new
  <2>5. watch'[w] = new /\ \A v \in Requests : v # w => watch'[v] = watch[v]
    BY <2>1, <2>4
  <2> QED BY <2>3, <2>5
<1> QED BY <1>1, <1>2, <1>4, <1>7

\* InChannel is kept.
LEMMA InChannelNext ==
    ASSUME ServingTypeOK, Arrived, Pooled, Announces, InChannel, [Next]_vars PROVE InChannel'
<1>0. \A m \in Requests : events[m] \in Seq(Requests) /\ Len(events[m]) \in Nat
  BY DEF ServingTypeOK
<1>1. \A w \in Requests : req[w].phase = "watching" =>
         req[w].memory \in Requests /\ watch[w].pos \in Nat /\ watch[w].pos <= Len(events[req[w].memory])
  BY DEF InChannel, Pooled, Working, ServingTypeOK
<1>2. CASE Calm /\ \A w \in Requests : req'[w].phase = "watching" => watch'[w] = watch[w]
  BY <1>2 DEF Calm, InChannel
<1>3. ASSUME NEW r \in Requests, Calm, Recv(r) PROVE InChannel'
  <2>1. \A w \in Requests : w # r => watch'[w] = watch[w]
    BY <1>3, RecvTells
  <2>2. watch'[r].pos <= Len(events[req[r].memory])
    <3> DEFINE sent == events[req[r].memory]
    <3>1. PICK p \in Nat : p < Len(sent) /\ watch'[r].pos = p + 1
      BY <1>3, RecvTells
    <3>2. Len(sent) \in Nat
      BY <1>0, <1>1, <1>3 DEF Recv
    <3> HIDE DEF sent
    <3>3. watch'[r].pos <= Len(sent)
      BY <3>1, <3>2
    <3> QED BY <3>3 DEF sent
  <2> QED BY <1>3, <2>1, <2>2 DEF Calm, InChannel
<1>4. ASSUME NEW r \in Requests, Emit(r) PROVE InChannel'
  <2>1. \A m \in Requests : Len(events'[m]) \in Nat /\ Len(events[m]) <= Len(events'[m])
    BY <1>0, <1>4, EmitAppends
  <2>2. \A w \in Requests : req'[w].phase = "watching" => req'[w] = req[w] /\ watch'[w] = watch[w]
    BY <1>4, EmitAppends DEF Moves, Others
  <2>3. ASSUME NEW w \in Requests, req'[w].phase = "watching" PROVE watch'[w].pos <= Len(events'[req'[w].memory])
    <3>1. /\ req[w].memory \in Requests /\ watch[w].pos \in Nat /\ watch[w].pos <= Len(events[req[w].memory])
          /\ req'[w].memory = req[w].memory /\ watch'[w].pos = watch[w].pos
      BY <1>1, <2>2, <2>3
    <3> QED BY <1>0, <2>1, <3>1
  <2> QED BY <2>3 DEF InChannel
<1>5. ASSUME NEW r \in Requests, Subscribes(r), events' = events PROVE InChannel'
  <2>1. Moves(r, "watching")
    BY <1>5, GoesMoves DEF Subscribes, Phases
  <2>2. watch'[r].pos = Len(events[req[r].memory]) /\ \A w \in Requests : w # r => watch'[w] = watch[w]
    BY <1>5 DEF Subscribes, ServingTypeOK
  <2>3. ASSUME NEW w \in Requests, req'[w].phase = "watching" PROVE watch'[w].pos <= Len(events'[req'[w].memory])
    <3>1. CASE w = r
      <4>1. events'[req'[w].memory] = events[req[r].memory]
        BY <1>5, <2>1, <3>1 DEF Moves
      <4>2. req'[r].memory \in Requests
        <5>1. Pooled'
          BY PooledNext
        <5> QED BY <2>1, <5>1 DEF Pooled, Working, Moves
      <4>3. Len(events[req[r].memory]) \in Nat
        BY <1>0, <2>1, <4>2 DEF Moves
      <4> QED BY <2>2, <3>1, <4>1, <4>3
    <3>2. CASE w # r
      BY <1>1, <1>5, <2>1, <2>2, <2>3, <3>2 DEF Moves, Others
    <3> QED BY <3>1, <3>2
  <2> QED BY <2>3 DEF InChannel
<1> QED BY <1>2, <1>3, <1>4, <1>5, CalmSteps

-----------------------------------------------------------------------------
(* WatchersTold. *)

\* WatchersTold is kept: a change is announced past the place of every subscription to
\* its Memory, and what a subscription passes over was told or is dropped.
LEMMA WatchersToldNext ==
    ASSUME ServingTypeOK, Arrived, Pooled, Announces, InChannel, WatchersTold, [Next]_vars
    PROVE  WatchersTold'
<1> DEFINE Due(w, r) == /\ req[w].phase = "watching" /\ req[r].phase = "ok" /\ r \notin watch[w].before
                        /\ req[r].agent = req[w].agent /\ req[r].changed /\ req[r].kind # "purge"
           Still(w, r) == \E n \in DOMAIN events[req[w].memory] :
                             /\ events[req[w].memory][n] = r
                             /\ n > watch[w].pos \/ Len(events[req[w].memory]) - n >= EVENT_CAPACITY
           Fine(w, r) == Due(w, r) => r \in watch[w].told \/ Still(w, r)
<1>0. /\ \A m \in Requests : events[m] \in Seq(Requests) /\ Len(events[m]) \in Nat
                             /\ DOMAIN events[m] = 1 .. Len(events[m])
      /\ EVENT_CAPACITY \in Nat
      /\ \A w \in Requests : req[w].phase = "watching" =>
           req[w].memory \in Requests /\ watch[w].pos \in Nat /\ watch[w].pos <= Len(events[req[w].memory])
  BY ServingAssumption DEF ServingTypeOK, InChannel, Pooled, Working
<1>1. \A w, r \in Requests : Fine(w, r)
  BY DEF WatchersTold, Answered
<1>2. ASSUME \A w, r \in Requests : Fine(w, r)' PROVE WatchersTold'
  BY <1>2 DEF WatchersTold, Answered
<1>3. CASE Calm /\ \A w \in Requests : req'[w].phase = "watching" => watch'[w] = watch[w]
  <2>1. ASSUME NEW w \in Requests, NEW r \in Requests, Due(w, r)' PROVE (r \in watch[w].told \/ Still(w, r))'
    <3>1. /\ watch'[w] = watch[w] /\ req'[w].memory = req[w].memory /\ events' = events
          /\ req'[w].agent = req[w].agent /\ req[w].phase = "watching"
          /\ req[r].phase = "ok" /\ req[r].changed /\ req'[r].agent = req[r].agent /\ req'[r].kind = req[r].kind
      BY <1>3, <2>1 DEF Calm
    <3>2. Due(w, r)
      BY <2>1, <3>1
    <3> QED BY <1>1, <3>1, <3>2
  <2> QED BY <1>2, <2>1
<1>4. ASSUME NEW v \in Requests, Calm, Recv(v) PROVE WatchersTold'
  <2>1. ASSUME NEW w \in Requests, NEW r \in Requests, Due(w, r)' PROVE (r \in watch[w].told \/ Still(w, r))'
    <3>1. /\ req'[w].memory = req[w].memory /\ events' = events
          /\ req'[w].agent = req[w].agent /\ req[w].phase = "watching"
          /\ req[r].phase = "ok" /\ req[r].changed /\ req'[r].agent = req[r].agent /\ req'[r].kind = req[r].kind
      BY <1>4, <2>1 DEF Calm
    <3>2. watch'[w].before = watch[w].before
      BY <1>4, RecvTells
    <3>3. r \in watch[w].told \/ Still(w, r)
      <4>1. Due(w, r)
        BY <2>1, <3>1, <3>2
      <4> QED BY <1>1, <4>1
    <3>4. CASE w # v
      <4>1. watch'[w] = watch[w]
        BY <1>4, <3>4, RecvTells
      <4> QED BY <3>1, <3>3, <4>1
    <3>5. CASE w = v
      <4> DEFINE sent == events[req[w].memory]
      <4>1. PICK p \in Nat :
               /\ p < Len(sent) /\ watch'[w].pos = p + 1
               /\ watch'[w].told = watch[w].told \cup {sent[p + 1]}
               /\ \A n \in 1 .. Len(sent) : n > watch[w].pos => n > p \/ Len(sent) - n >= EVENT_CAPACITY
        BY <1>4, <3>5, RecvTells
      <4>2. CASE r \in watch[w].told
        BY <4>1, <4>2
      <4>3. CASE Still(w, r)
        <5>1. PICK n \in DOMAIN sent : sent[n] = r /\ (n > watch[w].pos \/ Len(sent) - n >= EVENT_CAPACITY)
          BY <4>3
        <5>2. n \in 1 .. Len(sent) /\ Len(sent) \in Nat
          BY <1>0, <3>1
        <5>3. n > p \/ Len(sent) - n >= EVENT_CAPACITY
          BY <4>1, <5>1, <5>2
        <5>4. CASE n = p + 1
          BY <4>1, <5>1, <5>4
        <5>5. CASE n # p + 1
          <6>1. n > p + 1 \/ Len(sent) - n >= EVENT_CAPACITY
            BY <5>2, <5>3, <5>5
          <6>2. Still(w, r)'
            BY <3>1, <4>1, <5>1, <6>1
          <6> QED BY <6>2
        <5> QED BY <5>4, <5>5
      <4> QED BY <3>3, <4>2, <4>3
    <3> QED BY <3>4, <3>5
  <2> QED BY <1>2, <2>1
<1>5. ASSUME NEW v \in Requests, Emit(v) PROVE WatchersTold'
  <2>0. /\ Others(v) /\ Same(v) /\ req[v].phase = "emit" /\ req'[v].phase = "ok"
        /\ req'[v].changed = req[v].changed /\ watch' = watch
    BY <1>5, EmitAppends DEF Moves
  <2>1. ASSUME NEW w \in Requests, NEW r \in Requests, Due(w, r)' PROVE (r \in watch[w].told \/ Still(w, r))'
    <3> DEFINE sent == events[req[w].memory]
    <3>1. w # v /\ req'[w] = req[w]
      BY <2>0, <2>1 DEF Others
    <3>2. req[w].memory \in Requests /\ watch[w].pos \in Nat /\ watch[w].pos <= Len(sent) /\ Len(sent) \in Nat
          /\ sent \in Seq(Requests) /\ DOMAIN sent = 1 .. Len(sent)
      BY <1>0, <2>1, <3>1
    <3>3. events'[req[w].memory] = sent \/ events'[req[w].memory] = Append(sent, v)
      BY <1>5, <3>2, EmitAppends
    <3>4. CASE r = v
      <4>1. req[v].changed /\ req[v].kind # "purge" /\ req[v].agent = req[w].agent
        BY <2>0, <2>1, <3>1, <3>4 DEF Same
      <4>2. req[v].memory = req[w].memory
        BY <1>5, <2>1, <3>1, <4>1, EmitAppends DEF Pooled, Working
      <4>3. events'[req[w].memory] = Append(sent, v)
        BY <1>5, <4>1, <4>2, EmitAppends
      <4> DEFINE now == events'[req[w].memory]
      <4>4. /\ Len(sent) + 1 \in DOMAIN now /\ now[Len(sent) + 1] = v
            /\ Len(sent) + 1 > watch[w].pos
        <5> HIDE DEF sent
        <5> QED BY <3>2, <4>3
      <4> HIDE DEF sent
      <4>5. Still(w, r)'
        BY <2>0, <3>1, <3>4, <4>4
      <4> QED BY <4>5
    <3>5. CASE r # v
      <4>1. req'[r] = req[r]
        BY <2>0, <3>5 DEF Others
      <4>2. Due(w, r)
        BY <2>0, <2>1, <3>1, <4>1
      <4>3. CASE r \in watch[w].told
        BY <2>0, <4>3
      <4>4. CASE Still(w, r)
        <5>1. PICK n \in DOMAIN sent : sent[n] = r /\ (n > watch[w].pos \/ Len(sent) - n >= EVENT_CAPACITY)
          BY <4>4
        <5> DEFINE now == events'[req[w].memory]
        <5>2. n \in DOMAIN now /\ now[n] = r /\ (n > watch[w].pos \/ Len(now) - n >= EVENT_CAPACITY)
          <6> HIDE DEF sent, now
          <6>1. n \in 1 .. Len(sent) /\ Len(sent) \in Nat /\ EVENT_CAPACITY \in Nat /\ watch[w].pos \in Nat
            BY <1>0, <3>2, <5>1
          <6>2. CASE now = sent
            BY <5>1, <6>2
          <6>3. CASE now = Append(sent, v)
            <7>1. Len(now) = Len(sent) + 1 /\ DOMAIN now = 1 .. Len(sent) + 1 /\ now[n] = sent[n]
              BY <3>2, <6>1, <6>3
            <7> QED BY <5>1, <6>1, <7>1
          <6> QED BY <3>3, <6>2, <6>3 DEF now
        <5> HIDE DEF sent
        <5>3. Still(w, r)'
          BY <2>0, <3>1, <5>2
        <5> QED BY <5>3
      <4> QED BY <1>1, <4>2, <4>3, <4>4
    <3> QED BY <3>4, <3>5
  <2> QED BY <1>2, <2>1
<1>6. ASSUME NEW v \in Requests, Subscribes(v), req[v].phase # "watching", events' = events PROVE WatchersTold'
  <2>1. /\ Moves(v, "watching") /\ watch'[v].before = {q \in Requests : req[q].phase = "ok"}
        /\ \A w \in Requests : w # v => watch'[w] = watch[w]
    <3>1. Moves(v, "watching")
      BY <1>6, GoesMoves DEF Subscribes, Phases
    <3> QED BY <1>6, <3>1 DEF Subscribes, ServingTypeOK, Answered
  <2>2. ASSUME NEW w \in Requests, NEW r \in Requests, Due(w, r)' PROVE (r \in watch[w].told \/ Still(w, r))'
    <3>1. r # v /\ req'[r] = req[r]
      BY <2>1, <2>2 DEF Moves, Others
    <3>2. w # v
      BY <2>1, <2>2, <3>1
    <3>3. req'[w] = req[w] /\ watch'[w] = watch[w]
      BY <2>1, <3>2 DEF Moves, Others
    <3>4. Due(w, r)
      BY <2>2, <3>1, <3>3
    <3> QED BY <1>1, <1>6, <3>3, <3>4
  <2> QED BY <1>2, <2>2
<1> QED BY <1>3, <1>4, <1>5, <1>6, CalmSteps

-----------------------------------------------------------------------------
(* RateBound. *)

\* A step of another kind leaves the admitted requests as they were, and the hits.
LEMMA NotAdmitting ==
    ASSUME ServingTypeOK, Arrived, [Next]_vars, ~ \E r \in Requests : CheckRate(r)
    PROVE  /\ hits' = hits
           /\ \A r \in Requests :
                 /\ req'[r].admitted = req[r].admitted
                 /\ req[r].admitted # None => req'[r].agent = req[r].agent /\ req'[r].now = req[r].now
<1>1. hits' = hits
  BY DEF Next, vars, Arrive, Lookup, OpenMemory, Read, Look, Write, Emit, Timeout,
         Subscribe, Relay, Recv, Leave, Tick
<1>2. ASSUME NEW r \in Requests, Arrive(r)
      PROVE  Others(r) /\ req[r].admitted = None /\ req'[r].admitted = None
  BY <1>2, Arrives DEF Arrived
<1> QED BY <1>1, <1>2, OneMoves DEF Others, Same

\* The clock goes on by one at a time, and then nothing else does.
LEMMA ClockMoves ==
    ASSUME ServingTypeOK, [Next]_vars
    PROVE  /\ clock \in Nat /\ clock' \in Nat
           /\ clock' = clock \/ (clock' = clock + 1 /\ UNCHANGED <<hits, req>>)
<1>1. clock \in Nat
  BY ServingAssumption DEF ServingTypeOK
<1>2. clock' = clock \/ (clock' = clock + 1 /\ UNCHANGED <<hits, req>>)
  BY DEF Next, vars, Arrive, CheckRate, Lookup, OpenMemory, Read, Look, Write, Emit, Timeout,
         Subscribe, Relay, Recv, Leave, Tick
<1> QED BY <1>1, <1>2

\* Fewer requests than before are counted by as many hits.
LEMMA CountedFewer ==
    ASSUME ServingTypeOK, NEW a \in Agents, NEW R \in SUBSET Recent(a),
           NEW f \in Injection(Recent(a), DOMAIN hits[a]), \A r \in Recent(a) : hits[a][f[r]] = req[r].now
    PROVE  \E g \in Injection(R, DOMAIN hits[a]) : \A r \in R : hits[a][g[r]] = req[r].now
<1> DEFINE g == [r \in R |-> f[r]]
<1>1. f \in [Recent(a) -> DOMAIN hits[a]] /\ \A x, y \in Recent(a) : f[x] = f[y] => x = y
  BY DEF Injection, IsInjective
<1>2. g \in [R -> DOMAIN hits[a]] /\ \A x, y \in R : g[x] = g[y] => x = y
  BY <1>1
<1>3. g \in Injection(R, DOMAIN hits[a])
  BY <1>2 DEF Injection, IsInjective
<1>4. \A r \in R : hits[a][g[r]] = req[r].now
  OBVIOUS
<1> QED BY <1>3, <1>4

\* The hits that are kept count the recent requests: none of theirs was older than the
\* window, for the request that drops the others had read the clock before.
LEMMA CountedKept ==
    ASSUME ServingTypeOK, Arrived, Counted, NEW q \in Requests, req[q].agent \in Agents
    PROVE  LET a    == req[q].agent
               kept == Kept(hits[a], req[q].now)
           IN  /\ kept \in Seq(Nat) /\ Len(kept) \in Nat /\ Len(kept) <= Len(hits[a])
               /\ \E g \in [Recent(a) -> 1 .. Len(kept)] :
                     /\ \A x, y \in Recent(a) : g[x] = g[y] => x = y
                     /\ \A r \in Recent(a) : kept[g[r]] = req[r].now
<1> DEFINE a    == req[q].agent
           s    == hits[a]
           now  == req[q].now
           kept == Kept(s, now)
<1>1. s \in Seq(Nat) /\ now \in Nat /\ Len(s) \in Nat /\ DOMAIN s = 1 .. Len(s)
      /\ clock \in Nat /\ now <= clock /\ REMEMBER_RATE_WINDOW \in Nat
      /\ \A r \in Requests : req[r].now \in Nat
  BY ServingAssumption DEF ServingTypeOK, Request, Arrived
<1>2. PICK d \in 0 .. Len(s) :
              /\ kept \in Seq(Nat) /\ Len(kept) = Len(s) - d
              /\ \A n \in 1 .. (Len(s) - d) : kept[n] = s[n + d]
              /\ \A n \in 1 .. Len(s) : now - s[n] <= REMEMBER_RATE_WINDOW => n > d
  BY <1>1, KeptFacts
<1>3. PICK f \in Injection(Recent(a), DOMAIN s) : \A r \in Recent(a) : s[f[r]] = req[r].now
  BY DEF Counted
<1>4. f \in [Recent(a) -> 1 .. Len(s)] /\ \A x, y \in Recent(a) : f[x] = f[y] => x = y
  BY <1>1, <1>3 DEF Injection, IsInjective
<1> DEFINE g == [r \in Recent(a) |-> f[r] - d]
<1>5. ASSUME NEW r \in Recent(a) PROVE f[r] \in 1 .. Len(s) /\ f[r] > d
  <2>1. r \in Requests /\ clock - req[r].now <= REMEMBER_RATE_WINDOW
    BY DEF Recent
  <2>2. s[f[r]] = req[r].now /\ f[r] \in 1 .. Len(s)
    BY <1>3, <1>4
  <2>3. now - req[r].now <= REMEMBER_RATE_WINDOW
    <3> DEFINE t == req[r].now
    <3>1. t \in Nat /\ clock - t <= REMEMBER_RATE_WINDOW
      BY <1>1, <2>1
    <3> HIDE DEF now, t
    <3>2. now - t <= REMEMBER_RATE_WINDOW
      BY <1>1, <3>1
    <3> QED BY <3>2 DEF t
  <2> QED BY <1>2, <2>2, <2>3
<1> HIDE DEF s, kept
<1>6. g \in [Recent(a) -> 1 .. Len(kept)] /\ \A x, y \in Recent(a) : g[x] = g[y] => x = y
  <2>1. Len(kept) = Len(s) - d /\ Len(s) \in Nat /\ d \in 0 .. Len(s)
    BY <1>1, <1>2
  <2>2. \A r \in Recent(a) : f[r] - d \in 1 .. Len(kept)
    BY <1>5, <2>1
  <2>3. ASSUME NEW x \in Recent(a), NEW y \in Recent(a), f[x] - d = f[y] - d
        PROVE  x = y
    <3>1. f[x] \in Int /\ f[y] \in Int /\ d \in Int
      BY <1>5, <2>1
    <3>2. f[x] = f[y]
      BY <2>3, <3>1
    <3> QED BY <1>4, <3>2
  <2> QED BY <2>2, <2>3
<1>7. ASSUME NEW r \in Recent(a) PROVE kept[g[r]] = req[r].now
  <2>1. g[r] = f[r] - d /\ g[r] \in 1 .. (Len(s) - d)
    BY <1>1, <1>2, <1>5
  <2>2. g[r] + d = f[r]
    BY <1>1, <1>5, <2>1
  <2>3. kept[g[r]] = s[g[r] + d]
    <3> HIDE DEF g
    <3> QED BY <1>2, <2>1
  <2> QED BY <1>3, <2>2, <2>3
<1> HIDE DEF g
<1>8. kept \in Seq(Nat) /\ Len(kept) \in Nat /\ Len(kept) <= Len(s)
  BY <1>1, <1>2
<1> QED BY <1>6, <1>7, <1>8 DEF kept, s

\* Counted is kept: a hit that is dropped is of no recent request, and who is admitted
\* leaves a hit of its own.
LEMMA CountedNext ==
    ASSUME ServingTypeOK, Arrived, Counted, [Next]_vars PROVE Counted'
<1>0. /\ \A a \in Agents : hits[a] \in Seq(Nat) /\ Len(hits[a]) \in Nat /\ DOMAIN hits[a] = 1 .. Len(hits[a])
      /\ REMEMBER_RATE_LIMIT \in Nat /\ REMEMBER_RATE_WINDOW \in Nat /\ None \notin Nat
      /\ \A r \in Requests : req[r].now \in Nat
  BY ServingAssumption DEF ServingTypeOK, Request
<1>1. ASSUME NEW a \in Agents, hits'[a] = hits[a], Recent(a)' \subseteq Recent(a),
             \A r \in Recent(a)' : req'[r].now = req[r].now
      PROVE  /\ Len(hits'[a]) <= REMEMBER_RATE_LIMIT
             /\ \E f \in Injection(Recent(a)', DOMAIN hits'[a]) :
                   \A r \in Recent(a)' : hits'[a][f[r]] = req'[r].now
  <2>1. PICK f \in Injection(Recent(a), DOMAIN hits[a]) : \A r \in Recent(a) : hits[a][f[r]] = req[r].now
    BY DEF Counted
  <2> DEFINE R == Recent(a)'
  <2>2. R \in SUBSET Recent(a)
    BY <1>1
  <2> HIDE DEF R
  <2>3. \E g \in Injection(R, DOMAIN hits[a]) : \A r \in R : hits[a][g[r]] = req[r].now
    BY <2>1, <2>2, CountedFewer
  <2> QED BY <1>1, <2>3 DEF Counted, R
<1>2. CASE ~ \E r \in Requests : CheckRate(r)
  <2>1. ASSUME NEW a \in Agents
        PROVE  Recent(a)' \subseteq Recent(a) /\ \A r \in Recent(a)' : req'[r].now = req[r].now
    <3>1. ASSUME NEW r \in Recent(a)'
          PROVE  r \in Recent(a) /\ req'[r].now = req[r].now
      <4>1. r \in Requests /\ req'[r].agent = a /\ req'[r].admitted # None
            /\ clock' - req'[r].now <= REMEMBER_RATE_WINDOW
        BY DEF Recent
      <4>2. req[r].agent = a /\ req[r].admitted # None /\ req'[r].now = req[r].now
        BY <1>2, <4>1, NotAdmitting
      <4>3. clock - req[r].now <= REMEMBER_RATE_WINDOW
        <5> DEFINE t == req[r].now
        <5>1. t \in Nat /\ clock' - t <= REMEMBER_RATE_WINDOW
          BY <1>0, <4>1, <4>2
        <5> HIDE DEF t
        <5>2. clock - t <= REMEMBER_RATE_WINDOW
          BY <1>0, <5>1, ClockMoves
        <5> QED BY <5>2 DEF t
      <4> QED BY <4>1, <4>2, <4>3 DEF Recent
    <3> QED BY <3>1
  <2>2. hits' = hits
    BY <1>2, NotAdmitting
  <2> QED BY <1>1, <2>1, <2>2 DEF Counted
<1>3. ASSUME NEW q \in Requests, CheckRate(q) PROVE Counted'
  <2>0. PICK b \in Agents : b = req[q].agent
    BY <1>3 DEF CheckRate, Arrived
  <2> DEFINE kept == Kept(hits[b], req[q].now)
  <2>1. /\ Others(q) /\ Same(q) /\ req[q].phase = "rate" /\ req[q].admitted = None /\ clock' = clock
        /\ b = req[q].agent
    BY <1>3, <2>0, CheckRateMoves DEF CheckRate, Arrived
  <2>2. ASSUME NEW a \in Agents
        PROVE  /\ \A r \in Recent(a)' : req'[r].now = req[r].now
               /\ a # b => Recent(a)' \subseteq Recent(a)
               /\ Recent(a)' \subseteq Recent(a) \cup {q}
               /\ req'[q].admitted = None => Recent(a)' \subseteq Recent(a)
    BY <2>1 DEF Recent, Others, Same
  <2>3. q \notin Recent(b)
    BY <2>1 DEF Recent
  <2>4. ASSUME NEW a \in Agents, a # b
        PROVE  /\ Len(hits'[a]) <= REMEMBER_RATE_LIMIT
               /\ \E f \in Injection(Recent(a)', DOMAIN hits'[a]) :
                     \A r \in Recent(a)' : hits'[a][f[r]] = req'[r].now
    <3>1. hits'[a] = hits[a]
      BY <1>3, <2>1, <2>4 DEF CheckRate, ServingTypeOK
    <3> QED BY <1>1, <2>2, <2>4, <3>1
  <2>5. PICK g \in [Recent(b) -> 1 .. Len(kept)] :
             /\ \A x, y \in Recent(b) : g[x] = g[y] => x = y
             /\ \A r \in Recent(b) : kept[g[r]] = req[r].now
    BY <2>1, CountedKept
  <2>6. kept \in Seq(Nat) /\ Len(kept) \in Nat /\ Len(kept) <= REMEMBER_RATE_LIMIT
    <3>1. kept \in Seq(Nat) /\ Len(kept) \in Nat /\ Len(kept) <= Len(hits[b])
      BY <2>1, CountedKept
    <3>2. Len(hits[b]) <= REMEMBER_RATE_LIMIT
      BY <2>1 DEF Counted
    <3> HIDE DEF kept
    <3> QED BY <1>0, <2>1, <3>1, <3>2
  <2>7. ASSUME /\ Len(hits'[b]) <= REMEMBER_RATE_LIMIT
               /\ \E f \in Injection(Recent(b)', DOMAIN hits'[b]) :
                     \A r \in Recent(b)' : hits'[b][f[r]] = req'[r].now
        PROVE  Counted'
    BY <2>4, <2>7 DEF Counted
  <2>8. CASE hits' = [hits EXCEPT ![b] = kept] /\ Goes(q, "refused")
    <3>1. req'[q].admitted = None
      BY <2>1, <2>8, GoesMoves DEF Phases, Moves
    <3>2. hits'[b] = kept
      BY <2>1, <2>8 DEF ServingTypeOK
    <3> DEFINE R == Recent(b)'
               f == [r \in R |-> g[r]]
    <3>3. R \subseteq Recent(b)
      BY <2>1, <2>2, <3>1
    <3> HIDE DEF kept
    <3>4. DOMAIN kept = 1 .. Len(kept)
      BY <2>6
    <3>5. f \in Injection(R, DOMAIN kept)
      BY <2>5, <3>3, <3>4 DEF Injection, IsInjective
    <3>6. \A r \in R : kept[f[r]] = req'[r].now
      BY <2>1, <2>2, <2>5, <3>3
    <3>7. \E h \in Injection(R, DOMAIN hits'[b]) : \A r \in R : hits'[b][h[r]] = req'[r].now
      <4> HIDE DEF f, R
      <4> QED BY <3>2, <3>5, <3>6
    <3> QED BY <2>6, <2>7, <3>2, <3>7
  <2>9. CASE /\ Len(kept) < REMEMBER_RATE_LIMIT
             /\ hits' = [hits EXCEPT ![b] = Append(kept, req[q].now)]
    <3> DEFINE now == req[q].now
               more == Append(kept, now)
    <3>1. hits'[b] = more
      BY <2>1, <2>9 DEF ServingTypeOK
    <3>2. /\ Len(more) = Len(kept) + 1 /\ DOMAIN more = 1 .. (Len(kept) + 1)
          /\ more[Len(kept) + 1] = now /\ \A n \in 1 .. Len(kept) : more[n] = kept[n]
      <4> HIDE DEF kept
      <4> QED BY <1>0, <2>6
    <3> DEFINE R == Recent(b)'
               f == [r \in R |-> IF r = q THEN Len(kept) + 1 ELSE g[r]]
    <3>3. R \subseteq Recent(b) \cup {q}
      BY <2>1, <2>2
    <3> HIDE DEF kept, more
    <3>4. f \in [R -> DOMAIN more]
      BY <2>5, <2>6, <3>2, <3>3
    <3>5. ASSUME NEW x \in R, NEW y \in R, f[x] = f[y] PROVE x = y
      <4>1. x # q => f[x] = g[x] /\ g[x] \in 1 .. Len(kept)
        BY <2>5, <3>3
      <4>2. y # q => f[y] = g[y] /\ g[y] \in 1 .. Len(kept)
        BY <2>5, <3>3
      <4>3. /\ x = q => f[x] = Len(kept) + 1
            /\ y = q => f[y] = Len(kept) + 1
        OBVIOUS
      <4> HIDE DEF f
      <4> QED BY <2>5, <2>6, <3>3, <3>5, <4>1, <4>2, <4>3
    <3>6. f \in Injection(R, DOMAIN more)
      BY <3>4, <3>5 DEF Injection, IsInjective
    <3>7. \A r \in R : more[f[r]] = req'[r].now
      BY <2>1, <2>2, <2>5, <3>2, <3>3 DEF Same
    <3>8. Len(more) <= REMEMBER_RATE_LIMIT
      BY <1>0, <2>6, <2>9, <3>2
    <3>9. \E h \in Injection(R, DOMAIN hits'[b]) : \A r \in R : hits'[b][h[r]] = req'[r].now
      <4> HIDE DEF f, R
      <4> QED BY <3>1, <3>6, <3>7
    <3>10. Len(hits'[b]) <= REMEMBER_RATE_LIMIT
      BY <3>1, <3>8
    <3> HIDE DEF f
    <3> QED BY <2>7, <3>9, <3>10
  <2>10. \/ hits' = [hits EXCEPT ![b] = kept] /\ Goes(q, "refused")
        \/ /\ Len(kept) < REMEMBER_RATE_LIMIT
           /\ hits' = [hits EXCEPT ![b] = Append(kept, req[q].now)]
    <3>1. Len(kept) \in Nat /\ REMEMBER_RATE_LIMIT \in Nat
      BY <1>0, <2>6
    <3> QED BY <1>3, <2>0, <3>1 DEF CheckRate
  <2> QED BY <2>8, <2>9, <2>10
<1> QED BY <1>2, <1>3

\* What RateBound counts: the requests of an agent that arrive and are admitted within
\* the window that begins at t.
Admitted(a, t) == {r \in Requests : /\ req[r].agent = a /\ req[r].admitted # None
                                    /\ t <= req[r].now /\ req[r].admitted <= t + REMEMBER_RATE_WINDOW}

\* The hits bound the admitted requests of a window that has not ended.
LEMMA WindowBound ==
    ASSUME ServingTypeOK, Counted, NEW a \in Agents, NEW t \in Nat, clock <= t + REMEMBER_RATE_WINDOW
    PROVE  Cardinality(Admitted(a, t)) <= REMEMBER_RATE_LIMIT
<1>0. /\ clock \in Nat /\ REMEMBER_RATE_WINDOW \in Nat /\ REMEMBER_RATE_LIMIT \in Nat
      /\ \A r \in Requests : req[r].now \in Nat
      /\ Len(hits[a]) \in Nat /\ DOMAIN hits[a] = 1 .. Len(hits[a]) /\ Len(hits[a]) <= REMEMBER_RATE_LIMIT
  BY ServingAssumption DEF ServingTypeOK, Request, Counted
<1>1. Admitted(a, t) \subseteq Recent(a)
  BY <1>0 DEF Admitted, Recent
<1>2. PICK f \in Injection(Recent(a), 1 .. Len(hits[a])) : TRUE
  BY <1>0 DEF Counted
<1>3. IsFiniteSet(1 .. Len(hits[a])) /\ Cardinality(1 .. Len(hits[a])) = Len(hits[a])
  BY <1>0, FS_Interval
<1>4. IsFiniteSet(Recent(a)) /\ Cardinality(Recent(a)) <= Len(hits[a])
  BY <1>2, <1>3, FS_Injection
<1>5. IsFiniteSet(Admitted(a, t)) /\ Cardinality(Admitted(a, t)) <= Cardinality(Recent(a))
  BY <1>1, <1>4, FS_Subset
<1>6. Cardinality(Admitted(a, t)) \in Nat /\ Cardinality(Recent(a)) \in Nat
  BY <1>4, <1>5, FS_CardinalityType
<1> QED BY <1>0, <1>4, <1>5, <1>6

\* What the hits bound in every state.
OpenWindows == \A a \in Agents, t \in 0 .. MaxTime :
    clock <= t + REMEMBER_RATE_WINDOW => Cardinality(Admitted(a, t)) <= REMEMBER_RATE_LIMIT

\* The hits bound it.
LEMMA WindowsBound == ServingTypeOK /\ Counted => OpenWindows
BY WindowBound, ServingAssumption DEF OpenWindows

\* RateBound is kept: nobody is admitted any more into a window that has ended.
LEMMA RateBoundNext ==
    ASSUME ServingTypeOK, Arrived, RateBound, OpenWindows', [Next]_vars
    PROVE  RateBound'
<1>0. /\ \A t \in 0 .. MaxTime : t \in Nat
      /\ \A a \in Agents, t \in 0 .. MaxTime : Cardinality(Admitted(a, t)) <= REMEMBER_RATE_LIMIT
      /\ REMEMBER_RATE_WINDOW \in Nat /\ clock \in Nat /\ clock' \in Nat /\ None \notin Nat
  BY ServingAssumption, ClockMoves DEF RateBound, Admitted
<1>1. ASSUME NEW a \in Agents, NEW t \in 0 .. MaxTime
      PROVE  (Cardinality(Admitted(a, t)) <= REMEMBER_RATE_LIMIT)'
  <2>1. CASE clock' <= t + REMEMBER_RATE_WINDOW
    BY <2>1 DEF OpenWindows
  <2>2. CASE ~(clock' <= t + REMEMBER_RATE_WINDOW)
    <3>1. Admitted(a, t)' = Admitted(a, t)
      <4>1. CASE req' = req
        BY <4>1 DEF Admitted
      <4>2. CASE clock' = clock /\ ~ \E r \in Requests : CheckRate(r)
        <5>1. \A r \in Requests : /\ req'[r].admitted = req[r].admitted
                                  /\ req[r].admitted # None => req'[r].agent = req[r].agent /\ req'[r].now = req[r].now
          BY <4>2, NotAdmitting
        <5> QED BY <5>1 DEF Admitted
      <4>3. ASSUME clock' = clock, NEW q \in Requests, CheckRate(q) PROVE Admitted(a, t)' = Admitted(a, t)
        <5>1. /\ Others(q) /\ Same(q) /\ req[q].admitted = None
              /\ req'[q].admitted = None \/ req'[q].admitted = clock
          BY <4>3, CheckRateMoves DEF Moves, Arrived
        <5>2. q \notin Admitted(a, t) /\ q \notin Admitted(a, t)'
          BY <1>0, <2>2, <4>3, <5>1 DEF Admitted
        <5>3. \A r \in Requests : r # q => (r \in Admitted(a, t)' <=> r \in Admitted(a, t))
          BY <5>1 DEF Admitted, Others
        <5>4. Admitted(a, t) \subseteq Requests /\ Admitted(a, t)' \subseteq Requests
          BY DEF Admitted
        <5> QED BY <5>2, <5>3, <5>4
      <4> QED BY <4>1, <4>2, <4>3, ClockMoves
    <3> QED BY <1>0, <3>1
  <2> QED BY <2>1, <2>2
<1> QED BY <1>1 DEF RateBound, Admitted

-----------------------------------------------------------------------------
(* The theorems. *)

\* The invariants hold at the start.
LEMMA ServingInit == Init => ServingInv /\ RateBound /\ WatchersTold
<1> SUFFICES ASSUME Init PROVE ServingInv /\ RateBound /\ WatchersTold
  OBVIOUS
<1>1. ServingTypeOK
  BY TypeInit
<1>2. /\ \A r \in Requests : req[r] = Unused /\ watch[r] = NoWatch
      /\ \A m \in Requests : stored[m] = "none"
      /\ \A a \in Agents : hits[a] = <<>>
      /\ clock = 0
  BY DEF Init
<1>3. Arrived /\ Pooled /\ Written /\ Removing /\ Announces /\ InChannel
  BY <1>2 DEF Arrived, Pooled, Written, Removing, Announces, InChannel, Unused, NoWatch, Working
<1>4. \A a \in Agents : Recent(a) = {}
  BY <1>2 DEF Recent, Unused
<1>5. Counted
  <2>1. ASSUME NEW a \in Agents
        PROVE  /\ Len(hits[a]) <= REMEMBER_RATE_LIMIT
               /\ \E f \in Injection(Recent(a), DOMAIN hits[a]) :
                     \A r \in Recent(a) : hits[a][f[r]] = req[r].now
    <3>1. Len(hits[a]) <= REMEMBER_RATE_LIMIT
      BY <1>2, ServingAssumption
    <3>2. [r \in {} |-> 1] \in Injection(Recent(a), DOMAIN hits[a])
      BY <1>4 DEF Injection, IsInjective
    <3> QED BY <1>4, <3>1, <3>2
  <2> QED BY <2>1 DEF Counted
<1>6. RateBound
  <2>1. \A a \in Agents, t \in 0 .. MaxTime : Admitted(a, t) = {}
    BY <1>2 DEF Admitted, Unused
  <2>2. \A a \in Agents, t \in 0 .. MaxTime : Cardinality(Admitted(a, t)) <= REMEMBER_RATE_LIMIT
    BY <2>1, FS_EmptySet, ServingAssumption
  <2> QED BY <2>2 DEF RateBound, Admitted
<1>7. WatchersTold
  BY <1>2 DEF WatchersTold, Unused
<1> QED BY <1>1, <1>3, <1>5, <1>6, <1>7 DEF ServingInv

\* The invariant of the servers holds in every reachable state.
THEOREM ServingInvariant == Spec => []ServingInv
<1>1. Init => ServingInv
  BY ServingInit
<1>2. ServingInv /\ [Next]_vars => ServingInv'
  BY TypeNext, ArrivedNext, CountedNext, PooledNext, WrittenNext, RemovingNext, AnnouncesNext, InChannelNext
  DEF ServingInv
<1> QED BY <1>1, <1>2, PTL DEF Spec

\* No more remember requests of an agent are admitted within a window than the limit.
THEOREM RateBoundAlways == Spec => []RateBound
<1>1. Init => RateBound
  BY ServingInit
<1>2. ServingInv => OpenWindows
  BY WindowsBound DEF ServingInv
<1>3. ServingInv /\ OpenWindows' /\ RateBound /\ [Next]_vars => RateBound'
  BY RateBoundNext DEF ServingInv
<1> QED BY <1>1, <1>2, <1>3, ServingInvariant, PTL DEF Spec

\* A change that was answered is told to everybody who watched the agent by then.
THEOREM WatchersToldAlways == Spec => []WatchersTold
<1>1. Init => WatchersTold
  BY ServingInit
<1>2. ServingInv /\ WatchersTold /\ [Next]_vars => WatchersTold'
  BY WatchersToldNext DEF ServingInv
<1> QED BY <1>1, <1>2, ServingInvariant, PTL DEF Spec

-----------------------------------------------------------------------------
(* The cache of the model. *)
Files == Cache!ModelFiles
Inodes == Cache!Inodes

CacheTypeOK ==
    /\ dest \in [Files -> Inodes \cup {NoFile}] /\ tmp \in [Files -> Inodes \cup {NoFile}]
    /\ content \in [Inodes -> SUBSET Cache!Pieces]
    /\ config \in {"none", "torn", "saved"}
    /\ pc \in [Programs -> {"off", "ready", "fetch", "create", "write", "rename",
                            "save", "saving", "failed"}]
    /\ file \in [Programs -> Files]
    /\ fd \in [Programs -> Inodes \cup {NoFile}] /\ done \in [Programs -> 0 .. PIECES]
    /\ raced \subseteq Inodes

\* A program has a file open while it writes, and pieces left to write.
Open(p) ==
    /\ pc[p] = "write" <=> fd[p] # NoFile
    /\ pc[p] = "write" => done[p] < PIECES

\* A file belongs to one name: no two names point at it, and who writes it writes it
\* for that name.
OneName ==
    /\ \A f, g \in Files : /\ dest[f] # NoFile => dest[f] # tmp[g]
                           /\ f # g /\ dest[f] # NoFile => dest[f] # dest[g]
                           /\ f # g /\ tmp[f] # NoFile => tmp[f] # tmp[g]
    /\ \A p \in Programs, f \in Files :
          fd[p] # NoFile /\ fd[p] \in {dest[f], tmp[f]} => file[p] = f
    /\ \A p, q \in Programs : fd[p] # NoFile /\ fd[p] = fd[q] => file[p] = file[q]

\* A program is between the opening of the temporary file of f and its renaming.
Brings(p, f) == pc[p] \in {"write", "rename"} /\ file[p] = f

\* A temporary file that nobody raced for is written by one program at most, which has
\* written all of it but what it still has to.
Unraced ==
    \A p \in Programs, f \in Files :
        Brings(p, f) /\ tmp[f] # NoFile /\ tmp[f] \notin raced =>
            /\ \A q \in Programs : Brings(q, f) => q = p
            /\ pc[p] = "write" => fd[p] = tmp[f] /\ content[tmp[f]] = 1 .. done[p]
            /\ pc[p] = "rename" => Cache!Whole(tmp[f])

\* The files before the one a program fetches are there; all are when it saves.
Fetched ==
    /\ \A p \in Programs : pc[p] \in {"fetch", "create", "write", "rename"}
                             => \A f \in Files : f < file[p] => dest[f] # NoFile
    /\ \A p \in Programs : pc[p] \in {"save", "saving", "ready"} => Cache!model_present

InPlace == \A f \in Files : dest[f] # NoFile => Cache!Whole(dest[f]) \/ dest[f] \in raced

CacheInv ==
    /\ CacheTypeOK /\ (\A p \in Programs : Open(p))
    /\ OneName /\ Unraced /\ Fetched /\ InPlace

\* The constants of the cache.
LEMMA CacheConstants ==
    /\ FILES \in Nat /\ FILES > 0 /\ PIECES \in Nat /\ PIECES > 0
    /\ Files = 1 .. FILES /\ Cache!Pieces = 1 .. PIECES
    /\ Inodes = 1 .. 2 * FILES + Cardinality(Programs)
    /\ IsFiniteSet(Programs) /\ Cardinality(Programs) \in Nat
    /\ NoFile \notin Inodes
<1>1. Cardinality(Programs) \in Nat
  BY ServersAssumption, FS_CardinalityType
<1>2. Cache!Cardinality(Programs) = Cardinality(Programs)
  BY DEF Cache!Cardinality, Cardinality
<1>3. Inodes = 1 .. 2 * FILES + Cardinality(Programs)
  BY <1>2 DEF Inodes, Cache!Inodes
<1>4. NoFile \notin Inodes
  BY <1>1, <1>3, ServersAssumption
<1> QED BY <1>1, <1>3, <1>4, ServersAssumption DEF Files, Cache!ModelFiles, Cache!Pieces

\* The values of a function are no more than its arguments.
LEMMA ImageBound ==
    ASSUME NEW S, IsFiniteSet(S), NEW f, f = [x \in S |-> f[x]]
    PROVE  IsFiniteSet({f[x] : x \in S}) /\ Cardinality({f[x] : x \in S}) <= Cardinality(S)
<1> DEFINE T == {f[x] : x \in S}
<1>1. f \in Surjection(S, T)
  BY DEF Surjection
<1> HIDE DEF T
<1>2. IsFiniteSet(T) /\ Cardinality(T) <= Cardinality(S)
  BY <1>1, FS_Surjection
<1> QED BY <1>2 DEF T

\* While a program has no file open, there is a file that nothing names or has open.
LEMMA FreshExists ==
    ASSUME CacheTypeOK, NEW p \in Programs, fd[p] = NoFile
    PROVE  /\ Cache!Fresh \in Inodes
           /\ \A f \in Files, q \in Programs : Cache!Fresh \notin {dest[f], tmp[f], fd[q]}
<1> DEFINE D == {dest[f] : f \in Files}
           T == {tmp[f] : f \in Files}
           P == Programs \ {p}
           O == {fd[q] : q \in P}
           n == Cardinality(Programs)
<1>0. FILES \in Nat /\ n \in Nat /\ n > 0
  BY CacheConstants, FS_EmptySet
<1>1. IsFiniteSet(D) /\ Cardinality(D) \in Nat /\ Cardinality(D) <= FILES
      /\ IsFiniteSet(T) /\ Cardinality(T) \in Nat /\ Cardinality(T) <= FILES
  <2>1. IsFiniteSet(Files) /\ Cardinality(Files) = FILES
    BY CacheConstants, FS_Interval
  <2>2. dest = [f \in Files |-> dest[f]] /\ tmp = [f \in Files |-> tmp[f]]
    BY DEF CacheTypeOK
  <2>3. IsFiniteSet(D) /\ Cardinality(D) <= FILES
    BY <2>1, <2>2, ImageBound
  <2>4. IsFiniteSet(T) /\ Cardinality(T) <= FILES
    BY <2>1, <2>2, ImageBound
  <2> QED BY <2>3, <2>4, FS_CardinalityType
<1>2. IsFiniteSet(O) /\ Cardinality(O) \in Nat /\ Cardinality(O) <= n - 1
  <2> DEFINE g == [q \in P |-> fd[q]]
  <2>1. IsFiniteSet(P) /\ Cardinality(P) = n - 1
    BY CacheConstants, FS_RemoveElement
  <2>2. g = [q \in P |-> g[q]]
    OBVIOUS
  <2>3. IsFiniteSet({g[q] : q \in P}) /\ Cardinality({g[q] : q \in P}) <= Cardinality(P)
    <3> HIDE DEF g, P
    <3> QED BY <2>1, <2>2, ImageBound
  <2>4. {g[q] : q \in P} = O
    OBVIOUS
  <2> HIDE DEF O, g, P
  <2> QED BY <2>1, <2>3, <2>4, FS_CardinalityType
<1>3. IsFiniteSet(Inodes) /\ Cardinality(Inodes) = 2 * FILES + n
  <2>1. 2 * FILES + n \in Int /\ 1 \in Int /\ 2 * FILES + n > 0
    BY <1>0
  <2> QED BY <1>0, <2>1, CacheConstants, FS_Interval
<1> DEFINE U == (D \cup T) \cup O
<1>4. IsFiniteSet(U) /\ Cardinality(U) \in Nat /\ Cardinality(U) < 2 * FILES + n
  <2> HIDE DEF D, T, O, n
  <2>1. IsFiniteSet(D \cup T) /\ Cardinality(D \cup T) = Cardinality(D) + Cardinality(T) - Cardinality(D \cap T)
    BY <1>1, FS_Union
  <2>2. IsFiniteSet(U) /\ Cardinality(U) = Cardinality(D \cup T) + Cardinality(O) - Cardinality((D \cup T) \cap O)
    BY <1>2, <2>1, FS_Union
  <2>3. Cardinality(D \cap T) \in Nat /\ Cardinality((D \cup T) \cap O) \in Nat
        /\ Cardinality(U) \in Nat /\ Cardinality(D \cup T) \in Nat
    BY <1>1, <2>1, <2>2, FS_Intersection, FS_CardinalityType
  <2> QED BY <1>0, <1>1, <1>2, <2>1, <2>2, <2>3
<1>5. ~(Inodes \subseteq U)
  <2> HIDE DEF U, n
  <2> SUFFICES ASSUME Inodes \in SUBSET U PROVE FALSE
    OBVIOUS
  <2>1. Cardinality(Inodes) <= Cardinality(U)
    BY <1>4, FS_Subset
  <2> QED BY <1>0, <1>3, <1>4, <2>1
<1>6. PICK i \in Inodes : i \notin U
  BY <1>5
<1>7. i # NoFile
  BY <1>6, CacheConstants
<1>8. \A f \in Files, q \in Programs : i \notin {dest[f], tmp[f], fd[q]}
  BY <1>6, <1>7
<1> QED BY <1>8 DEF Cache!Fresh, Files, Inodes

\* Nobody has started.
LEMMA CacheInit == Cache!Init => CacheInv
<1> SUFFICES ASSUME Cache!Init PROVE CacheInv
  OBVIOUS
<1> USE CacheConstants DEF Cache!Init, Files, Inodes
<1>1. CacheTypeOK
  BY DEF CacheTypeOK
<1>2. (\A p \in Programs : Open(p)) /\ OneName /\ Unraced /\ Fetched /\ InPlace
  BY DEF Open, OneName, Unraced, Brings, Fetched, InPlace
<1> QED BY <1>1, <1>2 DEF CacheInv

\* What a program does without touching the model files.
LEMMA CacheCalls ==
    ASSUME CacheInv, NEW p \in Programs,
           \/ Cache!provision_inner(p) \/ Cache!Download(p) \/ Cache!Save(p) \/ Cache!Saved(p)
           \/ Cache!End(p)
    PROVE  CacheInv'
<1> USE DEF CacheInv, CacheTypeOK
<1>1. /\ UNCHANGED <<dest, tmp, content, raced>>
      /\ pc' = [pc EXCEPT ![p] = pc'[p]] /\ pc'[p] \notin {"write", "rename"}
      /\ file' = [file EXCEPT ![p] = file'[p]] /\ file'[p] \in Files
      /\ fd' = [fd EXCEPT ![p] = NoFile] /\ done' \in [Programs -> 0 .. PIECES]
      /\ \A q \in Programs : q # p => done'[q] = done[q]
  <2>1. 1 \in Files /\ 0 \in 0 .. PIECES
    BY CacheConstants
  <2>2. CASE Cache!End(p)
    BY <2>1, <2>2 DEF Cache!End
  <2>3. pc[p] # "write" => fd = [fd EXCEPT ![p] = NoFile]
    BY DEF Open
  <2>4. CASE Cache!provision_inner(p)
    BY <2>1, <2>3, <2>4 DEF Cache!provision_inner
  <2>5. CASE Cache!Download(p) \/ Cache!Save(p) \/ Cache!Saved(p)
    BY <2>3, <2>5 DEF Cache!Download, Cache!Save, Cache!Saved
  <2> QED BY <2>2, <2>4, <2>5
<1>2. CacheTypeOK'
  BY <1>1 DEF Cache!provision_inner, Cache!Download, Cache!Save, Cache!Saved, Cache!End
<1>3. (\A q \in Programs : Open(q))'
  BY <1>1 DEF Open
<1>4. OneName'
  BY <1>1 DEF OneName
<1>5. Unraced'
  BY <1>1 DEF Unraced, Brings, Cache!Whole
<1>6. Fetched'
  <2>1. Cache!model_present' = Cache!model_present
    BY <1>1 DEF Cache!model_present
  <2>2. /\ pc'[p] \in {"fetch", "create", "write", "rename"} => \A f \in Files : f < file'[p] => dest[f] # NoFile
        /\ pc'[p] \in {"save", "saving", "ready"} => Cache!model_present
    <3>1. \A f \in Files : ~(f < 1)
      BY CacheConstants
    <3> QED BY <3>1 DEF Fetched, Cache!provision_inner, Cache!Download, Cache!Save, Cache!Saved, Cache!End,
                        Cache!load_persisted_provision
  <2> QED BY <1>1, <2>1, <2>2 DEF Fetched
<1>7. InPlace'
  BY <1>1 DEF InPlace, Cache!Whole
<1> QED BY <1>2, <1>3, <1>4, <1>5, <1>6, <1>7

\* The temporary file is opened and truncated.
LEMMA CacheCreate ==
    ASSUME CacheInv, NEW p \in Programs, Cache!Create(p)
    PROVE  CacheInv'
<1> USE DEF CacheInv, CacheTypeOK
<1> DEFINE f == file[p]
           i == IF tmp[f] = NoFile THEN Cache!Fresh ELSE tmp[f]
<1>1. /\ pc[p] = "create" /\ fd[p] = NoFile /\ f \in Files
      /\ UNCHANGED <<dest, config, file>>
      /\ tmp' = [tmp EXCEPT ![f] = i] /\ content' = [content EXCEPT ![i] = {}]
      /\ raced' = IF Cache!Busy(f) THEN raced \cup {i} ELSE raced \ {i}
      /\ fd' = [fd EXCEPT ![p] = i] /\ done' = [done EXCEPT ![p] = 0]
      /\ pc' = [pc EXCEPT ![p] = "write"]
  BY DEF Cache!Create, Open
<1>2. /\ i \in Inodes /\ i # NoFile
      /\ \A g \in Files : dest[g] # i /\ (g # f => tmp[g] # i)
      /\ \A q \in Programs : fd[q] = i => file[q] = f
  <2>1. CASE tmp[f] = NoFile
    BY <1>1, <2>1, FreshExists, CacheConstants
  <2>2. CASE tmp[f] # NoFile
    BY <1>1, <2>2, CacheConstants DEF OneName
  <2> QED BY <2>1, <2>2
<1>3. 0 \in 0 .. PIECES /\ 0 < PIECES /\ 1 .. 0 = {}
  BY CacheConstants
<1> HIDE DEF i
<1>4. CacheTypeOK'
  BY <1>1, <1>2, <1>3
<1>5. (\A q \in Programs : Open(q))'
  BY <1>1, <1>2, <1>3 DEF Open
<1>6. OneName'
  BY <1>1, <1>2 DEF OneName
<1>7. Unraced'
  <2> SUFFICES ASSUME NEW q \in Programs, NEW g \in Files, Brings(q, g)', tmp'[g] # NoFile,
                      tmp'[g] \notin raced'
               PROVE  /\ \A r \in Programs : Brings(r, g)' => r = q
                      /\ pc'[q] = "write" => fd'[q] = tmp'[g] /\ content'[tmp'[g]] = 1 .. done'[q]
                      /\ pc'[q] = "rename" => Cache!Whole(tmp[g])'
    BY DEF Unraced
  <2>1. CASE g = f
    <3>1. tmp'[g] = i /\ ~Cache!Busy(f)
      BY <1>1, <2>1
    <3>2. \A r \in Programs : Brings(r, f)' => r = p
      BY <1>1, <3>1 DEF Cache!Busy, Brings
    <3> QED BY <1>1, <1>2, <1>3, <2>1, <3>1, <3>2 DEF Brings
  <2>2. CASE g # f
    <3>1. /\ tmp'[g] = tmp[g] /\ tmp[g] # i /\ tmp[g] \notin raced /\ q # p
          /\ \A r \in Programs : Brings(r, g)' => Brings(r, g) /\ r # p
      BY <1>1, <1>2, <2>2 DEF Brings
    <3>2. content'[tmp[g]] = content[tmp[g]]
      BY <1>1, <3>1
    <3>3. pc'[q] = pc[q] /\ fd'[q] = fd[q] /\ done'[q] = done[q] /\ Brings(q, g)
      BY <1>1, <3>1
    <3>4. /\ \A r \in Programs : Brings(r, g) => r = q
          /\ pc[q] = "write" => fd[q] = tmp[g] /\ content[tmp[g]] = 1 .. done[q]
          /\ pc[q] = "rename" => Cache!Whole(tmp[g])
      BY <3>1, <3>3 DEF Unraced
    <3> QED BY <3>1, <3>2, <3>3, <3>4 DEF Cache!Whole, Cache!Pieces
  <2> QED BY <2>1, <2>2
<1>8. Fetched'
  BY <1>1 DEF Fetched, Cache!model_present, Files
<1>9. InPlace'
  <2> SUFFICES ASSUME NEW g \in Files, dest[g] # NoFile
               PROVE  Cache!Whole(dest[g])' \/ dest[g] \in raced'
    BY <1>1 DEF InPlace
  <2>1. dest[g] # i /\ content'[dest[g]] = content[dest[g]]
    BY <1>1, <1>2
  <2> QED BY <1>1, <2>1 DEF InPlace, Cache!Whole
<1> QED BY <1>4, <1>5, <1>6, <1>7, <1>8, <1>9

\* A piece is written.
LEMMA CacheWrite ==
    ASSUME CacheInv, NEW p \in Programs, Cache!Write(p)
    PROVE  CacheInv'
<1> USE DEF CacheInv, CacheTypeOK
<1> DEFINE i == fd[p]
<1>1. /\ pc[p] = "write" /\ i \in Inodes /\ i # NoFile
      /\ done[p] \in Nat /\ done[p] + 1 \in 1 .. PIECES /\ PIECES \in Nat
      /\ UNCHANGED <<dest, tmp, config, file, raced>>
      /\ content' = [content EXCEPT ![i] = content[i] \cup {done[p] + 1}]
      /\ done' = [done EXCEPT ![p] = done[p] + 1]
      /\ IF done[p] + 1 = PIECES
         THEN pc' = [pc EXCEPT ![p] = "rename"] /\ fd' = [fd EXCEPT ![p] = NoFile]
         ELSE UNCHANGED <<pc, fd>>
  <2>1. pc[p] = "write" /\ i \in Inodes /\ i # NoFile /\ done[p] \in Nat /\ done[p] < PIECES /\ PIECES \in Nat
    BY CacheConstants DEF Cache!Write, Open
  <2>2. done'[p] = done[p] + 1
    BY DEF Cache!Write
  <2> QED BY <2>1, <2>2 DEF Cache!Write
<1>2. \A q \in Programs : q # p => pc'[q] = pc[q] /\ fd'[q] = fd[q] /\ done'[q] = done[q]
  BY <1>1
<1>3. \A j \in Inodes : Cache!Whole(j) => Cache!Whole(j)'
  <2>1. done[p] + 1 \in Cache!Pieces
    BY <1>1, CacheConstants
  <2> QED BY <1>1, <2>1 DEF Cache!Whole
<1>4. CacheTypeOK'
  <2>1. content' \in [Inodes -> SUBSET Cache!Pieces]
    <3>1. content[i] \cup {done[p] + 1} \in SUBSET Cache!Pieces
      BY <1>1, CacheConstants
    <3> QED BY <1>1, <3>1
  <2>2. done' \in [Programs -> 0 .. PIECES]
    BY <1>1
  <2> QED BY <1>1, <2>1, <2>2
<1>5. (\A q \in Programs : Open(q))'
  BY <1>1, <1>2 DEF Open
<1>6. OneName'
  <2>1. \A q \in Programs : fd'[q] # NoFile => fd'[q] = fd[q]
    BY <1>1, <1>2
  <2> QED BY <1>1, <2>1 DEF OneName
<1>7. Unraced'
  <2> SUFFICES ASSUME NEW q \in Programs, NEW g \in Files, Brings(q, g)', tmp'[g] # NoFile,
                      tmp'[g] \notin raced'
               PROVE  /\ \A r \in Programs : Brings(r, g)' => r = q
                      /\ pc'[q] = "write" => fd'[q] = tmp'[g] /\ content'[tmp'[g]] = 1 .. done'[q]
                      /\ pc'[q] = "rename" => Cache!Whole(tmp[g])'
    BY DEF Unraced
  <2>1. \A r \in Programs : Brings(r, g)' => Brings(r, g)
    BY <1>1, <1>2 DEF Brings
  <2>2. /\ tmp[g] # NoFile /\ tmp' = tmp /\ \A r \in Programs : Brings(r, g) => r = q
        /\ pc[q] = "write" => fd[q] = tmp[g] /\ content[tmp[g]] = 1 .. done[q]
        /\ pc[q] = "rename" => Cache!Whole(tmp[g])
    BY <1>1, <2>1 DEF Unraced
  <2>3. CASE q = p
    <3>1. i = tmp[g] /\ content[i] = 1 .. done[p]
      BY <1>1, <2>2, <2>3
    <3>2. content'[i] = 1 .. (done[p] + 1)
      <4>1. (1 .. done[p]) \cup {done[p] + 1} = 1 .. (done[p] + 1)
        BY <1>1
      <4> QED BY <1>1, <3>1, <4>1
    <3>3. done'[p] = done[p] + 1
      BY <1>1
    <3>4. pc'[p] = "write" => fd'[p] = i
      BY <1>1
    <3>5. pc'[p] = "rename" => done[p] + 1 = PIECES
      BY <1>1
    <3> QED BY <2>1, <2>2, <2>3, <3>1, <3>2, <3>3, <3>4, <3>5, CacheConstants DEF Cache!Whole
  <2>4. CASE q # p
    <3>1. ~Brings(p, g)
      BY <2>2, <2>4
    <3>2. i # tmp[g]
      BY <1>1, <2>2, <3>1 DEF OneName, Brings
    <3>3. content'[tmp[g]] = content[tmp[g]]
      BY <1>1, <3>2
    <3>4. pc'[q] = pc[q] /\ fd'[q] = fd[q] /\ done'[q] = done[q]
      BY <1>2, <2>4
    <3> QED BY <2>1, <2>2, <3>3, <3>4 DEF Cache!Whole, Cache!Pieces
  <2> QED BY <2>3, <2>4
<1>8. Fetched'
  BY <1>1, <1>2 DEF Fetched, Cache!model_present
<1>9. InPlace'
  BY <1>1, <1>3 DEF InPlace
<1> QED BY <1>4, <1>5, <1>6, <1>7, <1>8, <1>9

\* The temporary file goes in place.
LEMMA CacheRename ==
    ASSUME CacheInv, NEW p \in Programs, Cache!Rename(p)
    PROVE  CacheInv'
<1> USE DEF CacheInv, CacheTypeOK
<1> DEFINE f == file[p]
<1>1. /\ pc[p] = "rename" /\ fd[p] = NoFile /\ f \in Files
      /\ UNCHANGED <<content, config, fd, raced>> /\ done' = [done EXCEPT ![p] = 0]
  BY DEF Cache!Rename, Open
<1>2. CASE tmp[f] = NoFile
  <2>1. pc' = [pc EXCEPT ![p] = "failed"] /\ UNCHANGED <<dest, tmp, file>>
    BY <1>2 DEF Cache!Rename
  <2>2. CacheTypeOK' /\ (\A q \in Programs : Open(q))' /\ OneName' /\ Fetched' /\ InPlace'
    <3>1. CacheTypeOK'
      BY <1>1, <2>1, CacheConstants
    <3>2. (\A q \in Programs : Open(q))'
      BY <1>1, <2>1 DEF Open
    <3> QED BY <1>1, <2>1, <3>1, <3>2 DEF OneName, Fetched, InPlace, Cache!model_present, Cache!Whole
  <2>3. Unraced'
    BY <1>1, <2>1 DEF Unraced, Brings, Cache!Whole
  <2> QED BY <2>2, <2>3
<1>3. CASE tmp[f] # NoFile
  <2> DEFINE i == tmp[f]
  <2>1. /\ i \in Inodes /\ i # NoFile /\ dest' = [dest EXCEPT ![f] = i] /\ tmp' = [tmp EXCEPT ![f] = NoFile]
        /\ \/ f = FILES /\ pc' = [pc EXCEPT ![p] = "save"] /\ file' = file
           \/ f # FILES /\ pc' = [pc EXCEPT ![p] = "fetch"] /\ file' = [file EXCEPT ![p] = f + 1]
    BY <1>1, <1>3 DEF Cache!Rename
  <2>2. \A q \in Programs : q # p => pc'[q] = pc[q] /\ file'[q] = file[q] /\ done'[q] = done[q]
    BY <1>1, <2>1
  <2>3. f \in Nat /\ FILES \in Nat /\ (f # FILES => f + 1 \in Files) /\ \A g \in Files : g \in Nat /\ g <= FILES
    BY <1>1, CacheConstants
  <2>4. CacheTypeOK'
    <3>1. dest' \in [Files -> Inodes \cup {NoFile}] /\ tmp' \in [Files -> Inodes \cup {NoFile}]
      BY <1>1, <2>1
    <3>2. pc' \in [Programs -> {"off", "ready", "fetch", "create", "write", "rename",
                                "save", "saving", "failed"}]
      BY <2>1
    <3>3. file' \in [Programs -> Files]
      BY <2>1, <2>3
    <3>4. 0 \in 0 .. PIECES
      BY CacheConstants
    <3> QED BY <1>1, <3>1, <3>2, <3>3, <3>4
  <2>5. (\A q \in Programs : Open(q))'
    BY <1>1, <2>1, <2>2 DEF Open
  <2>6. OneName'
    <3>1. \A g \in Files : /\ dest'[g] = IF g = f THEN i ELSE dest[g]
                           /\ tmp'[g] = IF g = f THEN NoFile ELSE tmp[g]
      BY <2>1
    <3>2. \A q \in Programs : fd[q] # NoFile => file'[q] = file[q]
      BY <1>1, <2>2
    <3> QED BY <1>1, <2>1, <3>1, <3>2 DEF OneName
  <2>7. Unraced'
    <3> SUFFICES ASSUME NEW q \in Programs, NEW g \in Files, Brings(q, g)', tmp'[g] # NoFile,
                        tmp'[g] \notin raced'
                 PROVE  /\ \A r \in Programs : Brings(r, g)' => r = q
                        /\ pc'[q] = "write" => fd'[q] = tmp'[g] /\ content'[tmp'[g]] = 1 .. done'[q]
                        /\ pc'[q] = "rename" => Cache!Whole(tmp[g])'
      BY DEF Unraced
    <3>1. g # f /\ tmp'[g] = tmp[g] /\ q # p /\ \A r \in Programs : Brings(r, g)' => Brings(r, g)
      BY <1>1, <2>1, <2>2 DEF Brings
    <3>2. /\ \A r \in Programs : Brings(r, g) => r = q
          /\ pc[q] = "write" => fd[q] = tmp[g] /\ content[tmp[g]] = 1 .. done[q]
          /\ pc[q] = "rename" => Cache!Whole(tmp[g])
      BY <1>1, <3>1 DEF Unraced
    <3> QED BY <1>1, <2>2, <3>1, <3>2 DEF Cache!Whole, Cache!Pieces
  <2>8. Fetched'
    <3>1. \A g \in Files : g < f => dest[g] # NoFile
      BY <1>1 DEF Fetched
    <3>2. \A g \in Files : dest[g] # NoFile => dest'[g] # NoFile
      BY <2>1
    <3>3. \A g \in Files : g <= f => dest'[g] # NoFile
      BY <2>1, <2>3, <3>1, <3>2
    <3>4. pc'[p] = "save" => \A g \in Files : dest'[g] # NoFile
      BY <2>1, <2>3, <3>3
    <3>5. pc'[p] = "fetch" => \A g \in Files : g < file'[p] => dest'[g] # NoFile
      BY <1>1, <2>1, <2>3, <3>3
    <3>6. pc'[p] \in {"save", "fetch"}
      BY <2>1
    <3>7. (\A g \in Files : dest'[g] # NoFile) <=> Cache!model_present'
      BY DEF Cache!model_present, Files
    <3>8. Cache!model_present => Cache!model_present'
      BY <3>2, <3>7 DEF Cache!model_present, Files
    <3> QED BY <2>2, <3>2, <3>4, <3>5, <3>6, <3>7, <3>8 DEF Fetched
  <2>9. InPlace'
    <3>1. Cache!Whole(i) \/ i \in raced
      BY <1>1, <1>3 DEF Unraced, Brings
    <3> QED BY <1>1, <2>1, <3>1 DEF InPlace, Cache!Whole
  <2> QED BY <2>4, <2>5, <2>6, <2>7, <2>8, <2>9
<1> QED BY <1>2, <1>3

\* Every step, of the programs, of the start of the server and of its requests.
LEMMA CacheNext ==
    CacheInv /\ [AllNext]_allVars => CacheInv'
<1> SUFFICES ASSUME CacheInv, [AllNext]_allVars PROVE CacheInv'
  OBVIOUS
<1>1. CASE Provisions
  BY <1>1, CacheCalls, CacheCreate, CacheWrite, CacheRename
     DEF Provisions, Cache!Next, Cache!Step
<1>2. CASE UNCHANGED cacheVars
  BY <1>2 DEF cacheVars, CacheInv, CacheTypeOK, Open, OneName, Unraced, Brings, Fetched, InPlace,
              Cache!Whole, Cache!model_present
<1> QED BY <1>1, <1>2 DEF AllNext, Comes, Requested, allVars

\* The cache is what CacheInv says, whatever the programs and their ends.
THEOREM CacheInvariance == AllSpec => []CacheInv
<1>1. StartsOff => CacheInv
  BY CacheInit DEF StartsOff
<1> QED BY <1>1, CacheNext, PTL DEF AllSpec

\* A model file in its place is whole, unless two programs wrote it at once; a program
\* that was given the model finds all its files, and so does a server that serves.
THEOREM CacheAlwaysWhole == AllSpec => []CacheWhole
<1> DEFINE HasModel == up => Cache!model_present
<1>1. StartsOff => HasModel
  BY DEF StartsOff
<1>2. CacheInv /\ HasModel /\ [AllNext]_allVars => HasModel'
  <2> SUFFICES ASSUME CacheInv, HasModel, [AllNext]_allVars, up' PROVE Cache!model_present'
    OBVIOUS
  <2>1. UNCHANGED cacheVars /\ Cache!model_present
    BY ServersAssumption DEF AllNext, Provisions, Comes, Requested, allVars, CacheInv, Fetched
  <2> QED BY <2>1 DEF cacheVars, Cache!model_present
<1>3. CacheInv /\ HasModel => CacheWhole
  BY DEF CacheInv, Fetched, InPlace, CacheWhole, Cache!ProvisionedIsWhole, Files
<1> QED BY <1>1, <1>2, <1>3, CacheInvariance, PTL DEF AllSpec

-----------------------------------------------------------------------------
(* What serving keeps. *)

\* A server does what Serving says, and nothing of it before it serves.
THEOREM ServersServe == AllSpec => Spec
<1>1. StartsOff => Init
  BY DEF StartsOff
<1>2. [AllNext]_allVars => [Next]_vars
  BY DEF AllNext, Provisions, Comes, Requested, allVars, vars
<1> QED BY <1>1, <1>2, PTL DEF AllSpec, Spec

\* No more remember requests of an agent are admitted within a window than the limit.
THEOREM RateAlwaysBound == AllSpec => []RateBound
BY ServersServe, RateBoundAlways, PTL

\* A change that was answered is told to everybody who watched the agent by then.
THEOREM WatchersAlwaysTold == AllSpec => []WatchersTold
BY ServersServe, WatchersToldAlways, PTL
===============================================================================
