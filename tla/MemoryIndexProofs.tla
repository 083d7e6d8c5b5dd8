-------------------------- MODULE MemoryIndexProofs --------------------------
(***************************************************************************)
(* Theorems about MemoryIndex, for every value of its constants, where a   *)
(* batch that fails has written nothing: LinksAgree, AllocatorFresh,       *)
(* SidecarsAgree and StatisticsAgree.  The last is about sums, so the fold *)
(* of the library is shown first to add up over sets without a common      *)
(* element; the induction it takes is over the subsets of a finite set, as *)
(* a set of good subsets and a least one that is not.                      *)
(***************************************************************************)
EXTENDS MemoryIndex, FiniteSetTheorems, WellFoundedInduction, TLAPS

-----------------------------------------------------------------------------
(* The keys. *)

\* Keys of different kinds differ.
LEMMA Kinds ==
    /\ \A a, i : Rec(a, i)[1] = "rec" /\ Doc(a, i)[1] = "doc"
    /\ \A v : Map(v)[1] = "map" /\ Node(v)[1] = "node" /\ Stats(v)[1] = "stats" /\ Reg(v)[1] = "reg"
    /\ \A a, t, i : Exp(a, t, i)[1] = "exp"
    /\ Alloc[1] = "alloc"
BY DEF Rec, Doc, Map, Node, Stats, Reg, Exp, Alloc

\* A key tells what it is of.
LEMMA KeyOf ==
    /\ \A a, i, b, j : /\ Rec(a, i) = Rec(b, j) <=> a = b /\ i = j
                       /\ Doc(a, i) = Doc(b, j) <=> a = b /\ i = j
    /\ \A u, v : /\ Map(u) = Map(v) <=> u = v
                 /\ Node(u) = Node(v) <=> u = v
                 /\ Stats(u) = Stats(v) <=> u = v
                 /\ Reg(u) = Reg(v) <=> u = v
    /\ \A a, t, i, b, u, j : Exp(a, t, i) = Exp(b, u, j) <=> a = b /\ t = u /\ i = j
BY DEF Rec, Doc, Map, Node, Stats, Reg, Exp

\* Which keys there are, and what they hold.
LEMMA KeysThere ==
    /\ \A a \in Agents, i \in Ids : Rec(a, i) \in Keys
    /\ \A v \in VecIds : Map(v) \in Keys /\ Node(v) \in Keys
    /\ \A a \in Agents, v \in VecIds : Doc(a, v) \in Keys
    /\ \A a \in Agents : Stats(a) \in Keys /\ Reg(a) \in Keys
    /\ \A a \in Agents, t \in Times, i \in Ids : Exp(a, t, i) \in Keys
    /\ Alloc \in Keys
BY DEF Keys

Record == [vec : VecIds, until : Times \cup {Never}, terms : Lengths]

\* What a key may hold is never Absent.
LEMMA Values ==
    /\ \A a \in Agents, i \in Ids : Absent \notin Record
    /\ \A v \in VecIds : Absent \notin Agents \X Ids /\ Absent \notin {"live", "dead"}
    /\ \A a \in Agents, v \in VecIds : Absent \notin Lengths
    /\ Absent \notin 0 .. MaxVec + 1
    /\ \A a \in Agents : Absent # "set"
<1>1. \A a \in Agents, i \in Ids : Absent \notin Value(Rec(a, i)) /\ Value(Rec(a, i)) = Record
  BY AbsentAssumption, KeysThere, Kinds DEF Value, Record
<1>2. \A v \in VecIds : Absent \notin Value(Map(v)) /\ Value(Map(v)) = Agents \X Ids
  BY AbsentAssumption, KeysThere, Kinds DEF Value
<1>3. \A v \in VecIds : Absent \notin Value(Node(v)) /\ Value(Node(v)) = {"live", "dead"}
  BY AbsentAssumption, KeysThere, Kinds DEF Value
<1>4. \A a \in Agents, v \in VecIds : Absent \notin Value(Doc(a, v)) /\ Value(Doc(a, v)) = Lengths
  BY AbsentAssumption, KeysThere, Kinds DEF Value
<1>5. Absent \notin Value(Alloc) /\ Value(Alloc) = (0 .. MaxVec + 1) \cup {Corrupt}
  BY AbsentAssumption, KeysThere, Kinds DEF Value
<1>6. \A a \in Agents : Absent \notin Value(Reg(a)) /\ Value(Reg(a)) = {"set"}
  BY AbsentAssumption, KeysThere, Kinds DEF Value
<1> QED BY <1>1, <1>2, <1>3, <1>4, <1>5, <1>6

-----------------------------------------------------------------------------
(* The batches. *)

\* What two batches write together.
LEMMA Together ==
    ASSUME NEW b, NEW c
    PROVE  /\ DOMAIN (b ++ c) = DOMAIN b \cup DOMAIN c
           /\ \A k \in DOMAIN b : (b ++ c)[k] = b[k]
           /\ \A k \in DOMAIN c : k \notin DOMAIN b => (b ++ c)[k] = c[k]
BY DEF ++

\* What a store holds after a batch.
LEMMA Applied ==
    ASSUME NEW s, NEW b, NEW k \in Keys
    PROVE  /\ k \in DOMAIN b => Apply(s, b)[k] = b[k]
           /\ k \notin DOMAIN b => Apply(s, b)[k] = s[k]
BY DEF Apply

\* The documents that are staged are under their own keys.
LEMMA StagedKeys ==
    ASSUME NEW a, NEW docs, NEW k \in DOMAIN StageInsert(a, docs)
    PROVE  k[1] = "doc" \/ k[1] = "stats"
<1> DEFINE D == {v \in DOMAIN docs : docs[v] > 0}
           st == Put(Stats(a), [docs  |-> LoadStats(a).docs + Cardinality(D),
                                terms |-> LoadStats(a).terms + Total([v \in D |-> docs[v]])])
           pt == Puts(D, LAMBDA v : Doc(a, v), LAMBDA v : docs[v])
<1>1. StageInsert(a, docs) = IF D = {} THEN Nothing ELSE pt ++ st
  BY DEF StageInsert
<1>2. DOMAIN st = {Stats(a)}
  BY DEF Put
<1>3. DOMAIN pt = {Doc(a, v) : v \in D}
  BY DEF Puts
<1>4. DOMAIN Nothing = {}
  BY DEF Nothing
<1> HIDE DEF st, pt
<1>5. DOMAIN StageInsert(a, docs) \subseteq {Doc(a, v) : v \in D} \cup {Stats(a)}
  BY <1>1, <1>2, <1>3, <1>4, Together
<1> QED BY <1>5, Kinds

\* A group of memories has distinct ids.
LEMMA GroupFacts ==
    ASSUME NEW s \in Groups
    PROVE  /\ Len(s) \in Nat /\ DOMAIN s = 1 .. Len(s)
           /\ \A n \in 1 .. Len(s) : s[n] \in Item /\ s[n].id \in Ids /\ s[n].until \in Times \cup {Never}
                                     /\ s[n].terms \in Lengths /\ s[n].terms \in Nat
           /\ \A m, n \in 1 .. Len(s) : s[m].id = s[n].id => m = n
<1>1. PICK l \in 1 .. GroupSize : s \in [1 .. l -> Item]
  BY DEF Groups
<1>2. l \in Nat /\ DOMAIN s = 1 .. l
  BY <1>1
<1>3. s \in Seq(Item) /\ Len(s) = l
  BY <1>1, <1>2
<1>4. \A m, n \in DOMAIN s : s[m].id = s[n].id => m = n
  BY DEF Groups
<1> QED BY <1>1, <1>2, <1>3, <1>4, MemoryIndexAssumption DEF Item

\* What staging the documents of new vector ids writes: a document where there are terms.
LEMMA StageInsertWrites ==
    ASSUME NEW a, NEW docs, \A v \in DOMAIN docs : docs[v] \in Nat
    PROVE  /\ \A c, v : Doc(c, v) \in DOMAIN StageInsert(a, docs) <=> c = a /\ v \in DOMAIN docs /\ docs[v] > 0
           /\ \A v \in DOMAIN docs : docs[v] > 0 => StageInsert(a, docs)[Doc(a, v)] = docs[v]
<1> DEFINE D == {v \in DOMAIN docs : docs[v] > 0}
           st == Put(Stats(a), [docs  |-> LoadStats(a).docs + Cardinality(D),
                                terms |-> LoadStats(a).terms + Total([v \in D |-> docs[v]])])
           pt == Puts(D, LAMBDA v : Doc(a, v), LAMBDA v : docs[v])
<1>1. StageInsert(a, docs) = IF D = {} THEN Nothing ELSE pt ++ st
  BY DEF StageInsert
<1>2. DOMAIN st = {Stats(a)}
  BY DEF Put
<1>3. DOMAIN pt = {Doc(a, v) : v \in D}
  BY DEF Puts
<1>4. \A v \in D : pt[Doc(a, v)] = docs[v]
  <2>1. ASSUME NEW v \in D PROVE (CHOOSE x \in D : Doc(a, x) = Doc(a, v)) = v
    BY KeyOf
  <2> QED BY <2>1 DEF Puts
<1>5. DOMAIN Nothing = {}
  BY DEF Nothing
<1> HIDE DEF st, pt
<1>6. CASE D = {}
  BY <1>1, <1>5, <1>6
<1>7. CASE D # {}
  <2>1. DOMAIN StageInsert(a, docs) = {Doc(a, v) : v \in D} \cup {Stats(a)}
    BY <1>1, <1>2, <1>3, <1>7, Together
  <2>2. ASSUME NEW v \in D PROVE StageInsert(a, docs)[Doc(a, v)] = docs[v]
    <3>1. Doc(a, v) \in DOMAIN pt
      BY <1>3
    <3> HIDE DEF D
    <3>2. (pt ++ st)[Doc(a, v)] = pt[Doc(a, v)]
      BY <3>1 DEF ++
    <3> QED BY <1>1, <1>4, <1>7, <3>2
  <2>3. \A c, v : Doc(c, v) # Stats(a)
    BY Kinds
  <2> QED BY <2>1, <2>2, <2>3, KeyOf
<1> QED BY <1>6, <1>7

\* What a put writes.
LEMMA PutBatchWrites ==
    ASSUME NEW a \in Agents, NEW s \in Groups, next \in Nat, NEW b, b = PutBatch(a, s)
    PROVE  /\ \A c, j : Rec(c, j) \in DOMAIN b <=> c = a /\ \E n \in DOMAIN s : s[n].id = j
           /\ \A n \in DOMAIN s :
                 b[Rec(a, s[n].id)] = [vec |-> next + n - 1, until |-> s[n].until, terms |-> s[n].terms]
           /\ \A v : Map(v) \in DOMAIN b <=> \E n \in DOMAIN s : v = next + n - 1
           /\ \A n \in DOMAIN s : b[Map(next + n - 1)] = <<a, s[n].id>>
           /\ \A v : Node(v) \in DOMAIN b <=> \E n \in DOMAIN s : v = next + n - 1
           /\ \A n \in DOMAIN s : b[Node(next + n - 1)] = "live"
           /\ \A c, t, j : Exp(c, t, j) \in DOMAIN b <=>
                              c = a /\ \E n \in DOMAIN s : s[n].id = j /\ s[n].until = t /\ t # Never
           /\ \A t, j : Exp(a, t, j) \in DOMAIN b => b[Exp(a, t, j)] = "set"
           /\ \A c, v : Doc(c, v) \in DOMAIN b <=>
                           c = a /\ \E n \in DOMAIN s : v = next + n - 1 /\ s[n].terms > 0
           /\ \A n \in DOMAIN s : s[n].terms > 0 => b[Doc(a, next + n - 1)] = s[n].terms
           /\ Alloc \in DOMAIN b /\ b[Alloc] = next + Len(s)
           /\ \A c : Reg(c) \in DOMAIN b <=> c = a
           /\ b[Reg(a)] = "set"
<1> DEFINE N == DOMAIN s
           vec(n) == next + n - 1
           docs == [v \in {vec(n) : n \in N} |-> s[v - next + 1].terms]
           p1 == Puts(N, LAMBDA n : Rec(a, s[n].id),
                         LAMBDA n : [vec |-> vec(n), until |-> s[n].until, terms |-> s[n].terms])
           p2 == Puts(N, LAMBDA n : Map(vec(n)), LAMBDA n : <<a, s[n].id>>)
           p3 == Puts(N, LAMBDA n : Node(vec(n)), LAMBDA n : "live")
           M  == {n \in N : s[n].until # Never}
           p4 == Puts(M, LAMBDA n : Exp(a, s[n].until, s[n].id), LAMBDA n : "set")
           p5 == StageInsert(a, docs)
           p6 == Put(Alloc, next + Len(s))
           p7 == Put(Reg(a), "set")
<1>0. /\ Len(s) \in Nat /\ N = 1 .. Len(s) /\ \A m, n \in N : s[m].id = s[n].id => m = n
      /\ \A n \in N : s[n].terms \in Nat
  BY GroupFacts
<1>1. DOMAIN p1 = {Rec(a, s[n].id) : n \in N}
      /\ \A n \in N : p1[Rec(a, s[n].id)] = [vec |-> vec(n), until |-> s[n].until, terms |-> s[n].terms]
  <2>1. DOMAIN p1 = {Rec(a, s[n].id) : n \in N}
    BY DEF Puts
  <2>2. ASSUME NEW n \in N PROVE (CHOOSE x \in N : Rec(a, s[x].id) = Rec(a, s[n].id)) = n
    BY <1>0, KeyOf
  <2> QED BY <2>1, <2>2 DEF Puts
<1>2. DOMAIN p2 = {Map(vec(n)) : n \in N} /\ \A n \in N : p2[Map(vec(n))] = <<a, s[n].id>>
  <2>1. DOMAIN p2 = {Map(vec(n)) : n \in N}
    BY DEF Puts
  <2>2. ASSUME NEW n \in N PROVE (CHOOSE x \in N : Map(vec(x)) = Map(vec(n))) = n
    BY <1>0, KeyOf
  <2> QED BY <2>1, <2>2 DEF Puts
<1>3. DOMAIN p3 = {Node(vec(n)) : n \in N} /\ \A n \in N : p3[Node(vec(n))] = "live"
  BY DEF Puts
<1>4. DOMAIN p4 = {Exp(a, s[n].until, s[n].id) : n \in M} /\ \A k \in DOMAIN p4 : p4[k] = "set"
  BY DEF Puts
<1>5. /\ \A c, v : Doc(c, v) \in DOMAIN p5 <=> c = a /\ \E n \in N : v = vec(n) /\ s[n].terms > 0
      /\ \A n \in N : s[n].terms > 0 => p5[Doc(a, vec(n))] = s[n].terms
  <2>1. DOMAIN docs = {vec(n) : n \in N} /\ \A n \in N : docs[vec(n)] = s[n].terms
    <3>1. \A n \in N : vec(n) - next + 1 = n
      BY <1>0
    <3> QED BY <3>1
  <2> HIDE DEF docs
  <2>2. \A v \in DOMAIN docs : docs[v] \in Nat
    BY <1>0, <2>1
  <2> QED BY <2>1, <2>2, StageInsertWrites
<1>6. \A k \in DOMAIN p5 : k[1] \in {"doc", "stats"}
  BY StagedKeys
<1>7. DOMAIN p6 = {Alloc} /\ p6[Alloc] = next + Len(s) /\ DOMAIN p7 = {Reg(a)} /\ p7[Reg(a)] = "set"
  BY DEF Put
<1>8. b = p1 ++ p2 ++ p3 ++ p4 ++ p5 ++ p6 ++ p7
  BY DEF PutBatch
<1> HIDE DEF p1, p2, p3, p4, p5, p6, p7
<1> DEFINE q2 == p1 ++ p2
           q3 == q2 ++ p3
           q4 == q3 ++ p4
           q5 == q4 ++ p5
           q6 == q5 ++ p6
<1>9. /\ DOMAIN q2 = DOMAIN p1 \cup DOMAIN p2
      /\ DOMAIN q3 = DOMAIN q2 \cup DOMAIN p3
      /\ DOMAIN q4 = DOMAIN q3 \cup DOMAIN p4
      /\ DOMAIN q5 = DOMAIN q4 \cup DOMAIN p5
      /\ DOMAIN q6 = DOMAIN q5 \cup DOMAIN p6
      /\ DOMAIN b = DOMAIN q6 \cup DOMAIN p7
  <2>1. b = q6 ++ p7
    BY <1>8
  <2> QED BY <2>1, Together
<1>first. /\ \A k \in DOMAIN p1 : q2[k] = p1[k]
          /\ \A k \in DOMAIN p2 : k \notin DOMAIN p1 => q2[k] = p2[k]
          /\ \A k \in DOMAIN q2 : q3[k] = q2[k]
          /\ \A k \in DOMAIN p3 : k \notin DOMAIN q2 => q3[k] = p3[k]
          /\ \A k \in DOMAIN q3 : q4[k] = q3[k]
          /\ \A k \in DOMAIN p4 : k \notin DOMAIN q3 => q4[k] = p4[k]
  BY Together
<1>last. /\ \A k \in DOMAIN q4 : q5[k] = q4[k]
         /\ \A k \in DOMAIN p5 : k \notin DOMAIN q4 => q5[k] = p5[k]
         /\ \A k \in DOMAIN q5 : q6[k] = q5[k]
         /\ \A k \in DOMAIN p6 : k \notin DOMAIN q5 => q6[k] = p6[k]
  BY Together
<1>whole. /\ \A k \in DOMAIN q6 : b[k] = q6[k]
          /\ \A k \in DOMAIN p7 : k \notin DOMAIN q6 => b[k] = p7[k]
  <2>1. b = q6 ++ p7
    BY <1>8
  <2> HIDE DEF q6
  <2>2. /\ \A k \in DOMAIN q6 : (q6 ++ p7)[k] = q6[k]
        /\ \A k \in DOMAIN p7 : k \notin DOMAIN q6 => (q6 ++ p7)[k] = p7[k]
    BY Together
  <2> QED BY <2>1, <2>2
<1> HIDE DEF q2, q3, q4, q5, q6
<1>10. /\ \A k \in DOMAIN p1 : k[1] = "rec"
       /\ \A k \in DOMAIN p2 : k[1] = "map"
       /\ \A k \in DOMAIN p3 : k[1] = "node"
       /\ \A k \in DOMAIN p4 : k[1] = "exp"
       /\ \A k \in DOMAIN p6 : k[1] = "alloc"
       /\ \A k \in DOMAIN p7 : k[1] = "reg"
  BY <1>1, <1>2, <1>3, <1>4, <1>7, Kinds
<1>11. /\ \A k \in DOMAIN q2 : k[1] \in {"rec", "map"}
       /\ \A k \in DOMAIN q3 : k[1] \in {"rec", "map", "node"}
       /\ \A k \in DOMAIN q4 : k[1] \in {"rec", "map", "node", "exp"}
       /\ \A k \in DOMAIN q5 : k[1] \in {"rec", "map", "node", "exp", "doc", "stats"}
       /\ \A k \in DOMAIN q6 : k[1] \in {"rec", "map", "node", "exp", "doc", "stats", "alloc"}
  BY <1>6, <1>9, <1>10
<1>12. /\ \A k \in DOMAIN p2 : k \notin DOMAIN p1
       /\ \A k \in DOMAIN p3 : k \notin DOMAIN q2
       /\ \A k \in DOMAIN p4 : k \notin DOMAIN q3
       /\ \A k \in DOMAIN p5 : k \notin DOMAIN q4
       /\ \A k \in DOMAIN p6 : k \notin DOMAIN q5
       /\ \A k \in DOMAIN p7 : k \notin DOMAIN q6
  BY <1>6, <1>10, <1>11
<1>14. /\ \A k \in DOMAIN p1 : b[k] = p1[k]
       /\ \A k \in DOMAIN p2 : b[k] = p2[k]
       /\ \A k \in DOMAIN p3 : b[k] = p3[k]
       /\ \A k \in DOMAIN p4 : b[k] = p4[k]
       /\ \A k \in DOMAIN p5 : b[k] = p5[k]
       /\ \A k \in DOMAIN p6 : b[k] = p6[k]
       /\ \A k \in DOMAIN p7 : b[k] = p7[k]
  BY <1>9, <1>12, <1>first, <1>last, <1>whole
<1>15. \A k : k \in DOMAIN b <=> \/ k \in DOMAIN p1 \/ k \in DOMAIN p2 \/ k \in DOMAIN p3 \/ k \in DOMAIN p4
                                \/ k \in DOMAIN p5 \/ k \in DOMAIN p6 \/ k \in DOMAIN p7
  BY <1>9
<1>16. /\ \A c, j : Rec(c, j) \in DOMAIN b <=> Rec(c, j) \in DOMAIN p1
       /\ \A v : Map(v) \in DOMAIN b <=> Map(v) \in DOMAIN p2
       /\ \A v : Node(v) \in DOMAIN b <=> Node(v) \in DOMAIN p3
       /\ \A c, t, j : Exp(c, t, j) \in DOMAIN b <=> Exp(c, t, j) \in DOMAIN p4
       /\ \A c, v : Doc(c, v) \in DOMAIN b <=> Doc(c, v) \in DOMAIN p5
       /\ Alloc \in DOMAIN b
       /\ \A c : Reg(c) \in DOMAIN b <=> Reg(c) \in DOMAIN p7
  BY <1>6, <1>7, <1>10, <1>15, Kinds
<1>17. \A c, j : Rec(c, j) \in DOMAIN b <=> c = a /\ \E n \in N : s[n].id = j
  <2> HIDE DEF N
  <2> QED BY <1>1, <1>16, KeyOf
<1>18. \A n \in N : b[Rec(a, s[n].id)] = [vec |-> vec(n), until |-> s[n].until, terms |-> s[n].terms]
  <2> SUFFICES ASSUME NEW n \in N
               PROVE  b[Rec(a, s[n].id)] = p1[Rec(a, s[n].id)]
    BY <1>1
  <2> QED BY <1>1, <1>14
<1>19. /\ \A v : Map(v) \in DOMAIN b <=> \E n \in N : v = vec(n)
       /\ \A v : Node(v) \in DOMAIN b <=> \E n \in N : v = vec(n)
  <2> HIDE DEF N, vec
  <2>1. \A v : Map(v) \in DOMAIN p2 <=> \E n \in N : v = vec(n)
    BY <1>2, KeyOf
  <2>2. \A v : Node(v) \in DOMAIN p3 <=> \E n \in N : v = vec(n)
    BY <1>3, KeyOf
  <2> QED BY <2>1, <2>2, <1>16
<1>20. \A n \in N : b[Map(vec(n))] = <<a, s[n].id>>
  <2> SUFFICES ASSUME NEW n \in N
               PROVE  b[Map(vec(n))] = p2[Map(vec(n))]
    BY <1>2
  <2> QED BY <1>2, <1>14
<1>21. \A n \in N : b[Node(vec(n))] = "live"
  <2> SUFFICES ASSUME NEW n \in N
               PROVE  b[Node(vec(n))] = p3[Node(vec(n))]
    BY <1>3
  <2> QED BY <1>3, <1>14
<1>22. /\ \A c, t, j : Exp(c, t, j) \in DOMAIN b <=> c = a /\ \E n \in N : s[n].id = j /\ s[n].until = t /\ t # Never
       /\ \A t, j : Exp(a, t, j) \in DOMAIN b => b[Exp(a, t, j)] = "set"
  BY <1>4, <1>14, <1>16, KeyOf
<1>23. /\ \A c, v : Doc(c, v) \in DOMAIN b <=> c = a /\ \E n \in N : v = vec(n) /\ s[n].terms > 0
       /\ \A n \in N : s[n].terms > 0 => b[Doc(a, vec(n))] = s[n].terms
  BY <1>5, <1>14, <1>16
<1>24. /\ Alloc \in DOMAIN b /\ b[Alloc] = next + Len(s)
       /\ \A c : Reg(c) \in DOMAIN b <=> c = a
       /\ b[Reg(a)] = "set"
  BY <1>7, <1>14, <1>16, KeyOf
<1> QED BY <1>17, <1>18, <1>19, <1>20, <1>21, <1>22, <1>23, <1>24

\* What a store holds after a put.
LEMMA PutStore ==
    ASSUME NEW a \in Agents, NEW s \in Groups, next \in Nat, next + Len(s) <= MaxVec + 1,
           NEW t, t = Apply(kv, PutBatch(a, s))
    PROVE  /\ \A n \in DOMAIN s : /\ s[n].id \in Ids /\ next + n - 1 \in VecIds
                                  /\ next + n - 1 >= next /\ next + n - 1 < next + Len(s)
           /\ \A n \in DOMAIN s :
                 /\ t[Rec(a, s[n].id)] = [vec |-> next + n - 1, until |-> s[n].until, terms |-> s[n].terms]
                 /\ t[Map(next + n - 1)] = <<a, s[n].id>>
                 /\ t[Node(next + n - 1)] = "live"
                 /\ s[n].terms > 0 => t[Doc(a, next + n - 1)] = s[n].terms
           /\ \A c \in Agents, j \in Ids :
                 ~(c = a /\ \E n \in DOMAIN s : s[n].id = j) => t[Rec(c, j)] = kv[Rec(c, j)]
           /\ \A v \in VecIds : ~(\E n \in DOMAIN s : v = next + n - 1) =>
                 t[Map(v)] = kv[Map(v)] /\ t[Node(v)] = kv[Node(v)]
           /\ \A c \in Agents, v \in VecIds :
                 ~(c = a /\ \E n \in DOMAIN s : v = next + n - 1) => t[Doc(c, v)] = kv[Doc(c, v)]
           /\ \A c \in Agents, u \in Times, j \in Ids :
                 t[Exp(c, u, j)] = IF c = a /\ \E n \in DOMAIN s : s[n].id = j /\ s[n].until = u
                                   THEN "set" ELSE kv[Exp(c, u, j)]
           /\ t[Alloc] = next + Len(s)
           /\ \A c \in Agents : t[Reg(c)] = IF c = a THEN "set" ELSE kv[Reg(c)]
<1> DEFINE b == PutBatch(a, s)
           N == DOMAIN s
<1>1. /\ \A c, j : Rec(c, j) \in DOMAIN b <=> c = a /\ \E n \in N : s[n].id = j
      /\ \A n \in N : b[Rec(a, s[n].id)] = [vec |-> next + n - 1, until |-> s[n].until, terms |-> s[n].terms]
      /\ \A v : Map(v) \in DOMAIN b <=> \E n \in N : v = next + n - 1
      /\ \A n \in N : b[Map(next + n - 1)] = <<a, s[n].id>>
      /\ \A v : Node(v) \in DOMAIN b <=> \E n \in N : v = next + n - 1
      /\ \A n \in N : b[Node(next + n - 1)] = "live"
      /\ \A c, u, j : Exp(c, u, j) \in DOMAIN b <=>
                         c = a /\ \E n \in N : s[n].id = j /\ s[n].until = u /\ u # Never
      /\ \A u, j : Exp(a, u, j) \in DOMAIN b => b[Exp(a, u, j)] = "set"
      /\ \A c, v : Doc(c, v) \in DOMAIN b <=> c = a /\ \E n \in N : v = next + n - 1 /\ s[n].terms > 0
      /\ \A n \in N : s[n].terms > 0 => b[Doc(a, next + n - 1)] = s[n].terms
      /\ Alloc \in DOMAIN b /\ b[Alloc] = next + Len(s)
      /\ \A c : Reg(c) \in DOMAIN b <=> c = a
      /\ b[Reg(a)] = "set"
  BY PutBatchWrites
<1>2. \A k \in Keys : /\ k \in DOMAIN b => t[k] = b[k]
                      /\ k \notin DOMAIN b => t[k] = kv[k]
  BY Applied
<1> HIDE DEF b
<1>3. \A n \in N : /\ s[n].id \in Ids /\ next + n - 1 \in VecIds
                   /\ next + n - 1 >= next /\ next + n - 1 < next + Len(s)
  BY GroupFacts, MemoryIndexAssumption DEF VecIds
<1>4. ASSUME NEW n \in N
      PROVE  /\ t[Rec(a, s[n].id)] = [vec |-> next + n - 1, until |-> s[n].until, terms |-> s[n].terms]
             /\ t[Map(next + n - 1)] = <<a, s[n].id>>
             /\ t[Node(next + n - 1)] = "live"
             /\ s[n].terms > 0 => t[Doc(a, next + n - 1)] = s[n].terms
  <2> DEFINE w == next + n - 1
  <2>1. s[n].id \in Ids /\ w \in VecIds
    BY <1>3
  <2>2. Rec(a, s[n].id) \in DOMAIN b /\ Map(w) \in DOMAIN b /\ Node(w) \in DOMAIN b
        /\ (s[n].terms > 0 => Doc(a, w) \in DOMAIN b)
    BY <1>1
  <2>3. Rec(a, s[n].id) \in Keys /\ Map(w) \in Keys /\ Node(w) \in Keys /\ Doc(a, w) \in Keys
    BY <2>1, KeysThere
  <2>4. /\ b[Rec(a, s[n].id)] = [vec |-> w, until |-> s[n].until, terms |-> s[n].terms]
        /\ b[Map(w)] = <<a, s[n].id>> /\ b[Node(w)] = "live"
        /\ s[n].terms > 0 => b[Doc(a, w)] = s[n].terms
    BY <1>1
  <2> HIDE DEF w
  <2>5. /\ t[Rec(a, s[n].id)] = [vec |-> w, until |-> s[n].until, terms |-> s[n].terms]
        /\ t[Map(w)] = <<a, s[n].id>> /\ t[Node(w)] = "live"
        /\ s[n].terms > 0 => t[Doc(a, w)] = s[n].terms
    BY <2>2, <2>3, <2>4, <1>2
  <2> QED BY <2>5 DEF w
<1>5. ASSUME NEW c \in Agents, NEW j \in Ids, ~(c = a /\ \E n \in N : s[n].id = j)
      PROVE  t[Rec(c, j)] = kv[Rec(c, j)]
  BY <1>1, <1>2, <1>5, KeysThere
<1>6. ASSUME NEW v \in VecIds, ~(\E n \in N : v = next + n - 1)
      PROVE  t[Map(v)] = kv[Map(v)] /\ t[Node(v)] = kv[Node(v)]
  <2>1. Map(v) \notin DOMAIN b /\ Node(v) \notin DOMAIN b
    BY <1>1, <1>6
  <2> QED BY <2>1, <1>2, KeysThere
<1>7. ASSUME NEW c \in Agents, NEW v \in VecIds, ~(c = a /\ \E n \in N : v = next + n - 1)
      PROVE  t[Doc(c, v)] = kv[Doc(c, v)]
  <2>1. Doc(c, v) \notin DOMAIN b
    BY <1>1, <1>7
  <2> QED BY <2>1, <1>2, KeysThere
<1>8. ASSUME NEW c \in Agents, NEW u \in Times, NEW j \in Ids
      PROVE  t[Exp(c, u, j)] = IF c = a /\ \E n \in N : s[n].id = j /\ s[n].until = u
                               THEN "set" ELSE kv[Exp(c, u, j)]
  <2>1. Exp(c, u, j) \in DOMAIN b <=> c = a /\ \E n \in N : s[n].id = j /\ s[n].until = u
    BY <1>1, MemoryIndexAssumption
  <2>2. Exp(c, u, j) \in DOMAIN b => b[Exp(c, u, j)] = "set"
    BY <1>1
  <2> QED BY <2>1, <2>2, <1>2, KeysThere
<1>9. t[Alloc] = next + Len(s) /\ \A c \in Agents : t[Reg(c)] = IF c = a THEN "set" ELSE kv[Reg(c)]
  BY <1>1, <1>2, KeysThere
<1> QED BY <1>3, <1>4, <1>5, <1>6, <1>7, <1>8, <1>9

-----------------------------------------------------------------------------
(* The invariant, of a store s. *)

\* Records, mappings, nodes and the allocator are what they should be.
Typed(s) ==
    /\ \A a \in Agents, i \in Ids : s[Rec(a, i)] \in Record \cup {Absent}
    /\ \A v \in VecIds : /\ s[Map(v)] \in (Agents \X Ids) \cup {Absent}
                         /\ s[Node(v)] \in {"live", "dead", Absent}
    /\ s[Alloc] \in (0 .. MaxVec + 1) \cup {Absent, Corrupt}

\* A record and its mapping exist together, with a live vector unless it is among l.
Linked(s, l) ==
    /\ \A a \in Agents, i \in Ids : s[Rec(a, i)] # Absent =>
          /\ s[Map(s[Rec(a, i)].vec)] = <<a, i>>
          /\ s[Node(s[Rec(a, i)].vec)] = "live" \/ s[Rec(a, i)].vec \in l
    /\ \A v \in VecIds : s[Map(v)] # Absent =>
          \E a \in Agents, i \in Ids : /\ s[Map(v)] = <<a, i>>
                                       /\ s[Rec(a, i)] # Absent /\ s[Rec(a, i)].vec = v
    /\ \A v \in VecIds : s[Node(v)] = "live" => s[Map(v)] # Absent

\* Every vector id in use is below n; with r, a tombstoned one need not be.
Below(s, n, r) ==
    \A v \in VecIds : /\ s[Node(v)] = "live" \/ s[Map(v)] # Absent => v < n
                      /\ ~r /\ s[Node(v)] # Absent => v < n

\* Documents are their agent's; without r, every record with terms has one.
Documented(s, r) ==
    /\ \A a \in Agents, v \in VecIds : s[Doc(a, v)] # Absent =>
          \E i \in Ids : s[Map(v)] = <<a, i>>
    /\ ~r => \A a \in Agents, i \in Ids :
                s[Rec(a, i)] # Absent /\ s[Rec(a, i)].terms > 0 => s[Doc(a, s[Rec(a, i)].vec)] # Absent

\* The expiry index and the registry say what the records say.
Listed(s) ==
    /\ \A a \in Agents, i \in Ids, t \in Times :
          s[Exp(a, t, i)] # Absent <=> s[Rec(a, i)] # Absent /\ s[Rec(a, i)].until = t
    /\ \A a \in Agents, i \in Ids : s[Rec(a, i)] # Absent => s[Reg(a)] # Absent

\* Where a call of several batches is.
Calls ==
    /\ pc \in {"closed", "idle", "forget", "purge", "fts", "docs", "reembed", "missing"}
    /\ pc \in {"closed", "idle", "fts", "docs"} => who = Nobody
    /\ pc \in {"forget", "purge"} => who \in Agents /\ todo \subseteq Memories(who)
    /\ pc = "purge" => Memories(who) \subseteq todo
    /\ pc \in {"fts", "docs"} => repairing
    /\ pc \in {"docs", "reembed", "missing"} => todo \subseteq Records
    /\ pc = "docs" => \A a \in Agents, i \in Ids :
          kv[Rec(a, i)] # Absent /\ kv[Rec(a, i)].terms > 0 =>
             kv[Doc(a, kv[Rec(a, i)].vec)] # Absent \/ <<a, i>> \in todo
    /\ pc \in {"reembed", "missing"} => who = Nobody \/ who \in todo
    /\ pc = "missing" => \A a \in Agents, i \in Ids :
          kv[Rec(a, i)] # Absent => kv[Node(kv[Rec(a, i)].vec)] = "live" \/ <<a, i>> \in todo

Numbered ==
    /\ kv[Alloc] \notin {Absent, Corrupt} => Below(kv, kv[Alloc], repairing)
    /\ pc \in {"idle", "forget", "purge"} => next \in 0 .. MaxVec + 1 /\ Below(kv, next, repairing)

IndexInv ==
    /\ disk = kv /\ DOMAIN kv = Keys
    /\ Typed(kv) /\ Linked(kv, lost) /\ Documented(kv, repairing) /\ Listed(kv)
    /\ Calls /\ Numbered

-----------------------------------------------------------------------------
(* Each batch keeps it. *)

\* A put.
LEMMA PutKeeps ==
    ASSUME Typed(kv), Linked(kv, lost), Documented(kv, repairing), Listed(kv),
           NEW a \in Agents, NEW s \in Groups, next \in Nat, next + Len(s) <= MaxVec + 1,
           Below(kv, next, repairing), \A n \in DOMAIN s : s[n].id \notin Memories(a),
           NEW t, t = Apply(kv, PutBatch(a, s))
    PROVE  /\ Typed(t) /\ Linked(t, lost \ {next + n - 1 : n \in DOMAIN s})
           /\ Documented(t, repairing) /\ Listed(t)
           /\ Below(t, next + Len(s), repairing) /\ t[Alloc] = next + Len(s)
<1> DEFINE N == DOMAIN s
           New(n) == [vec |-> next + n - 1, until |-> s[n].until, terms |-> s[n].terms]
           fresh(v) == \E n \in N : v = next + n - 1
           added(c, j) == c = a /\ \E n \in N : s[n].id = j
           l == lost \ {next + n - 1 : n \in N}
<1>1. /\ \A n \in N : /\ s[n].id \in Ids /\ next + n - 1 \in VecIds
                      /\ next + n - 1 >= next /\ next + n - 1 < next + Len(s)
      /\ \A n \in N : /\ t[Rec(a, s[n].id)] = New(n)
                      /\ t[Map(next + n - 1)] = <<a, s[n].id>>
                      /\ t[Node(next + n - 1)] = "live"
                      /\ s[n].terms > 0 => t[Doc(a, next + n - 1)] = s[n].terms
      /\ \A c \in Agents, j \in Ids : ~added(c, j) => t[Rec(c, j)] = kv[Rec(c, j)]
      /\ \A v \in VecIds : ~fresh(v) => t[Map(v)] = kv[Map(v)] /\ t[Node(v)] = kv[Node(v)]
      /\ \A c \in Agents, v \in VecIds : ~(c = a /\ fresh(v)) => t[Doc(c, v)] = kv[Doc(c, v)]
      /\ \A c \in Agents, u \in Times, j \in Ids :
            t[Exp(c, u, j)] = IF c = a /\ \E n \in N : s[n].id = j /\ s[n].until = u
                              THEN "set" ELSE kv[Exp(c, u, j)]
      /\ t[Alloc] = next + Len(s)
      /\ \A c \in Agents : t[Reg(c)] = IF c = a THEN "set" ELSE kv[Reg(c)]
  BY PutStore
<1>2. \A n \in N : kv[Rec(a, s[n].id)] = Absent
  BY <1>1 DEF Memories
<1>3. \A m, n \in N : s[m].id = s[n].id => m = n
  BY GroupFacts
<1>4. \A n \in N : /\ New(n) \in Record /\ New(n) # Absent /\ s[n].terms \in Lengths /\ s[n].terms \in Nat
                   /\ s[n].terms # Absent /\ s[n].until \in Times \cup {Never}
  <2> TAKE n \in N
  <2>1. s[n].terms \in Lengths /\ s[n].terms \in Nat /\ s[n].until \in Times \cup {Never}
    BY GroupFacts
  <2>2. New(n) \in Record
    BY <1>1, <2>1 DEF Record
  <2>3. s[n].id \in Ids /\ next + n - 1 \in VecIds
    BY <1>1
  <2> QED BY <2>1, <2>2, <2>3, Values
<1>5. \A v \in VecIds : fresh(v) => kv[Map(v)] = Absent /\ kv[Node(v)] # "live" /\ next <= v
  <2> SUFFICES ASSUME NEW v \in VecIds, NEW n \in N, v = next + n - 1
               PROVE  kv[Map(v)] = Absent /\ kv[Node(v)] # "live" /\ next <= v
    OBVIOUS
  <2>1. v \in Nat /\ next <= v
    BY <1>1, MemoryIndexAssumption DEF VecIds
  <2> QED BY <2>1 DEF Below
<1>6. \A c \in Agents, j \in Ids : <<c, j>> # Absent /\ (kv[Rec(c, j)] # Absent => kv[Rec(c, j)] \in Record)
  <2>1. \A c \in Agents, j \in Ids : kv[Rec(c, j)] # Absent => kv[Rec(c, j)] \in Record
    BY DEF Typed
  <2>2. 0 \in VecIds
    BY MemoryIndexAssumption DEF VecIds
  <2> QED BY <2>1, <2>2, Values
<1>new. \A v \in VecIds : fresh(v) => t[Node(v)] = "live" /\ \E j \in Ids : t[Map(v)] = <<a, j>>
  <2> SUFFICES ASSUME NEW n \in N
               PROVE  t[Node(next + n - 1)] = "live" /\ \E j \in Ids : t[Map(next + n - 1)] = <<a, j>>
    OBVIOUS
  <2> HIDE DEF New
  <2> QED BY <1>1
<1>7. Typed(t)
  <2>1. ASSUME NEW c \in Agents, NEW j \in Ids PROVE t[Rec(c, j)] \in Record \cup {Absent}
    <3>1. CASE added(c, j)
      <4>1. PICK n \in N : s[n].id = j
        BY <3>1
      <4>2. t[Rec(c, j)] = New(n) /\ New(n) \in Record
        BY <1>1, <1>4, <3>1, <4>1
      <4> QED BY <4>2
    <3>2. CASE ~added(c, j)
      <4>1. t[Rec(c, j)] = kv[Rec(c, j)]
        BY <1>1, <3>2
      <4> QED BY <4>1 DEF Typed
    <3> QED BY <3>1, <3>2
  <2>2. ASSUME NEW v \in VecIds
        PROVE  t[Map(v)] \in (Agents \X Ids) \cup {Absent} /\ t[Node(v)] \in {"live", "dead", Absent}
    <3>1. CASE fresh(v)
      <4>1. PICK j \in Ids : t[Map(v)] = <<a, j>>
        BY <1>new, <3>1
      <4> HIDE DEF fresh
      <4> QED BY <1>new, <3>1, <4>1
    <3>2. CASE ~fresh(v)
      BY <1>1, <3>2 DEF Typed
    <3> QED BY <3>1, <3>2
  <2>3. t[Alloc] \in 0 .. MaxVec + 1
    BY <1>1, GroupFacts, MemoryIndexAssumption
  <2> QED BY <2>1, <2>2, <2>3 DEF Typed
<1>8. \A c \in Agents, j \in Ids : kv[Rec(c, j)] # Absent => ~added(c, j)
  BY <1>2
<1>9. \A v \in VecIds : kv[Map(v)] # Absent \/ kv[Node(v)] = "live" => ~fresh(v)
  BY <1>5
<1>10. Linked(t, l)
  <2>1. ASSUME NEW c \in Agents, NEW j \in Ids, t[Rec(c, j)] # Absent
        PROVE  /\ t[Map(t[Rec(c, j)].vec)] = <<c, j>>
               /\ t[Node(t[Rec(c, j)].vec)] = "live" \/ t[Rec(c, j)].vec \in l
    <3>1. CASE added(c, j)
      <4>1. PICK n \in N : s[n].id = j
        BY <3>1
      <4>2. t[Rec(c, j)] = New(n) /\ New(n).vec = next + n - 1 /\ c = a
        BY <1>1, <3>1, <4>1
      <4> HIDE DEF New
      <4> QED BY <1>1, <4>1, <4>2
    <3>2. CASE ~added(c, j)
      <4> DEFINE v == kv[Rec(c, j)].vec
      <4>1. t[Rec(c, j)] = kv[Rec(c, j)]
        BY <1>1, <3>2
      <4>2. kv[Map(v)] = <<c, j>> /\ (kv[Node(v)] = "live" \/ v \in lost) /\ v \in VecIds
        BY <1>6, <2>1, <4>1 DEF Linked, Record
      <4>3. ~fresh(v)
        BY <1>6, <1>9, <4>2
      <4> HIDE DEF v
      <4>4. t[Map(v)] = <<c, j>> /\ (t[Node(v)] = "live" \/ v \in l)
        BY <1>1, <4>2, <4>3
      <4> QED BY <4>1, <4>4 DEF v
    <3> QED BY <3>1, <3>2
  <2>2. ASSUME NEW v \in VecIds, t[Map(v)] # Absent
        PROVE  \E c \in Agents, j \in Ids : /\ t[Map(v)] = <<c, j>>
                                           /\ t[Rec(c, j)] # Absent /\ t[Rec(c, j)].vec = v
    <3>1. CASE fresh(v)
      <4>1. PICK n \in N : v = next + n - 1
        BY <3>1
      <4>2. t[Map(v)] = <<a, s[n].id>> /\ s[n].id \in Ids
            /\ t[Rec(a, s[n].id)] = New(n) /\ New(n).vec = v /\ New(n) # Absent
        BY <1>1, <1>4, <4>1
      <4> HIDE DEF New
      <4> QED BY <4>2
    <3>2. CASE ~fresh(v)
      <4>1. t[Map(v)] = kv[Map(v)]
        BY <1>1, <3>2
      <4>2. PICK c \in Agents, j \in Ids : /\ kv[Map(v)] = <<c, j>>
                                          /\ kv[Rec(c, j)] # Absent /\ kv[Rec(c, j)].vec = v
        BY <2>2, <4>1 DEF Linked
      <4>3. t[Rec(c, j)] = kv[Rec(c, j)]
        BY <1>1, <1>8, <4>2
      <4> QED BY <4>1, <4>2, <4>3
    <3> QED BY <3>1, <3>2
  <2>3. ASSUME NEW v \in VecIds, t[Node(v)] = "live" PROVE t[Map(v)] # Absent
    <3>1. CASE fresh(v)
      BY <1>6, <1>new, <3>1
    <3>2. CASE ~fresh(v)
      <4>1. t[Map(v)] = kv[Map(v)] /\ t[Node(v)] = kv[Node(v)]
        BY <1>1, <3>2
      <4> QED BY <4>1, <2>3 DEF Linked
    <3> QED BY <3>1, <3>2
  <2> HIDE DEF l
  <2> QED BY ONLY <2>1, <2>2, <2>3 DEF Linked
<1>11. Below(t, next + Len(s), repairing)
  <2>1. Len(s) \in Nat
    BY GroupFacts
  <2>2. ASSUME NEW v \in VecIds
        PROVE  /\ t[Node(v)] = "live" \/ t[Map(v)] # Absent => v < next + Len(s)
               /\ ~repairing /\ t[Node(v)] # Absent => v < next + Len(s)
    <3>1. CASE fresh(v)
      BY <1>1, <3>1
    <3>2. CASE ~fresh(v)
      <4>1. t[Map(v)] = kv[Map(v)] /\ t[Node(v)] = kv[Node(v)]
        BY <1>1, <3>2
      <4>2. v \in Nat
        BY MemoryIndexAssumption DEF VecIds
      <4> QED BY <2>1, <4>1, <4>2 DEF Below
    <3> QED BY <3>1, <3>2
  <2> QED BY <2>2 DEF Below
<1>12. Documented(t, repairing)
  <2>1. ASSUME NEW c \in Agents, NEW v \in VecIds, t[Doc(c, v)] # Absent
        PROVE  \E j \in Ids : t[Map(v)] = <<c, j>>
    <3>1. CASE c = a /\ fresh(v)
      BY <1>new, <3>1
    <3>2. CASE ~(c = a /\ fresh(v))
      <4>1. t[Doc(c, v)] = kv[Doc(c, v)]
        BY <1>1, <3>2
      <4>2. PICK j \in Ids : kv[Map(v)] = <<c, j>>
        BY <2>1, <4>1 DEF Documented
      <4>3. ~fresh(v)
        BY <1>6, <1>9, <4>2
      <4> QED BY <1>1, <4>2, <4>3
    <3> QED BY <3>1, <3>2
  <2>2. ASSUME ~repairing, NEW c \in Agents, NEW j \in Ids, t[Rec(c, j)] # Absent, t[Rec(c, j)].terms > 0
        PROVE  t[Doc(c, t[Rec(c, j)].vec)] # Absent
    <3>1. CASE added(c, j)
      <4>1. PICK n \in N : s[n].id = j
        BY <3>1
      <4>2. t[Rec(c, j)] = New(n) /\ New(n).vec = next + n - 1 /\ New(n).terms = s[n].terms /\ c = a
        BY <1>1, <3>1, <4>1
      <4> HIDE DEF New
      <4> QED BY <1>1, <1>4, <2>2, <4>1, <4>2
    <3>2. CASE ~added(c, j)
      <4> DEFINE v == kv[Rec(c, j)].vec
      <4>1. t[Rec(c, j)] = kv[Rec(c, j)]
        BY <1>1, <3>2
      <4>2. kv[Map(v)] = <<c, j>> /\ v \in VecIds
        BY <1>6, <2>2, <4>1 DEF Linked, Record
      <4>3. ~fresh(v)
        BY <1>6, <1>9, <4>2
      <4>4. kv[Doc(c, v)] # Absent
        BY <2>2, <4>1 DEF Documented
      <4>5. t[Doc(c, v)] = kv[Doc(c, v)]
        BY <1>1, <4>2, <4>3
      <4> QED BY <4>1, <4>4, <4>5
    <3> QED BY <3>1, <3>2
  <2> QED BY <2>1, <2>2 DEF Documented
<1>13. Listed(t)
  <2>1. ASSUME NEW c \in Agents, NEW j \in Ids, NEW u \in Times
        PROVE  t[Exp(c, u, j)] # Absent <=> t[Rec(c, j)] # Absent /\ t[Rec(c, j)].until = u
    <3>1. CASE added(c, j)
      <4>1. PICK n \in N : s[n].id = j
        BY <3>1
      <4>2. t[Rec(c, j)] = New(n) /\ New(n).until = s[n].until /\ c = a /\ New(n) # Absent
        BY <1>1, <1>4, <3>1, <4>1
      <4>3. kv[Rec(a, j)] = Absent
        BY <1>2, <4>1
      <4>4. kv[Exp(a, u, j)] = Absent
        BY <4>3 DEF Listed
      <4>5. (\E m \in N : s[m].id = j /\ s[m].until = u) <=> s[n].until = u
        BY <1>3, <4>1
      <4> HIDE DEF New
      <4>6. t[Exp(c, u, j)] = IF s[n].until = u THEN "set" ELSE kv[Exp(c, u, j)]
        BY <1>1, <4>2, <4>5
      <4> QED BY <4>2, <4>4, <4>6, Values
    <3>2. CASE ~added(c, j)
      <4>1. t[Rec(c, j)] = kv[Rec(c, j)]
        BY <1>1, <3>2
      <4>2. t[Exp(c, u, j)] = kv[Exp(c, u, j)]
        BY <1>1, <3>2
      <4> QED BY <4>1, <4>2 DEF Listed
    <3> QED BY <3>1, <3>2
  <2>2. ASSUME NEW c \in Agents, NEW j \in Ids, t[Rec(c, j)] # Absent PROVE t[Reg(c)] # Absent
    <3>1. CASE c = a
      BY <1>1, <3>1, Values
    <3>2. CASE c # a
      <4>1. t[Rec(c, j)] = kv[Rec(c, j)] /\ t[Reg(c)] = kv[Reg(c)]
        BY <1>1, <3>2
      <4> QED BY <2>2, <4>1 DEF Listed
    <3> QED BY <3>1, <3>2
  <2> QED BY <2>1, <2>2 DEF Listed
<1> QED BY <1>1, <1>7, <1>10, <1>11, <1>12, <1>13

\* What unstaging documents writes.
LEMMA StageDeleteWrites ==
    ASSUME NEW a, NEW V, NEW b, b = StageDelete(a, V)
    PROVE  /\ \A c, v : Doc(c, v) \in DOMAIN b <=> c = a /\ v \in V /\ kv[Doc(a, v)] # Absent
           /\ \A c, v : Doc(c, v) \in DOMAIN b => b[Doc(c, v)] = Absent
           /\ \A k \in DOMAIN b : k[1] \in {"doc", "stats"}
<1> DEFINE D == {v \in V : kv[Doc(a, v)] # Absent}
           st == Put(Stats(a), [docs  |-> Minus(LoadStats(a).docs, Cardinality(D)),
                                terms |-> Minus(LoadStats(a).terms, Total([v \in D |-> kv[Doc(a, v)]]))])
           de == Dels({Doc(a, v) : v \in D})
<1>1. b = IF D = {} THEN Nothing ELSE de ++ st
  BY DEF StageDelete
<1>2. DOMAIN st = {Stats(a)}
  BY DEF Put
<1>3. DOMAIN de = {Doc(a, v) : v \in D} /\ \A k \in DOMAIN de : de[k] = Absent
  BY DEF Dels
<1>4. DOMAIN Nothing = {}
  BY DEF Nothing
<1>5. \A c, v : Doc(c, v) # Stats(a)
  BY Kinds
<1>6. \A c, v : Doc(c, v) \in {Doc(a, w) : w \in D} <=> c = a /\ v \in D
  BY KeyOf
<1> HIDE DEF st, de
<1>7. CASE D = {}
  BY <1>1, <1>4, <1>7
<1>8. CASE D # {}
  <2>1. DOMAIN b = DOMAIN de \cup DOMAIN st /\ \A k \in DOMAIN de : b[k] = de[k]
    <3>1. DOMAIN (de ++ st) = DOMAIN de \cup DOMAIN st /\ \A k \in DOMAIN de : (de ++ st)[k] = de[k]
      BY Together
    <3> QED BY <1>1, <1>8, <3>1
  <2>2. \A k \in DOMAIN b : k[1] \in {"doc", "stats"}
    BY <1>2, <1>3, <2>1, Kinds
  <2>3. \A c, v : Doc(c, v) \in DOMAIN b <=> Doc(c, v) \in DOMAIN de
    BY <1>2, <1>5, <2>1
  <2>4. \A c, v : Doc(c, v) \in DOMAIN b <=> c = a /\ v \in D
    BY <1>3, <1>6, <2>3
  <2>5. \A c, v : Doc(c, v) \in DOMAIN b => b[Doc(c, v)] = Absent
    BY <1>3, <2>1, <2>3
  <2> QED BY <2>2, <2>4, <2>5
<1> QED BY <1>7, <1>8

\* What a store holds after a forgetting.
LEMMA ForgetStore ==
    ASSUME Typed(kv), NEW a \in Agents, NEW I \in SUBSET Memories(a),
           NEW t, t = Apply(kv, ForgetBatch(a, I))
    PROVE  LET V == {kv[Rec(a, i)].vec : i \in I}
           IN /\ V \subseteq VecIds
              /\ \A c \in Agents, j \in Ids :
                    t[Rec(c, j)] = IF c = a /\ j \in I THEN Absent ELSE kv[Rec(c, j)]
              /\ \A v \in VecIds : t[Map(v)] = IF v \in V THEN Absent ELSE kv[Map(v)]
              /\ \A v \in VecIds : t[Node(v)] = IF v \in V /\ kv[Node(v)] = "live" THEN "dead" ELSE kv[Node(v)]
              /\ \A c \in Agents, v \in VecIds :
                    t[Doc(c, v)] = IF c = a /\ v \in V THEN Absent ELSE kv[Doc(c, v)]
              /\ \A c \in Agents, u \in Times, j \in Ids :
                    t[Exp(c, u, j)] = IF c = a /\ j \in I /\ kv[Rec(a, j)].until = u
                                      THEN Absent ELSE kv[Exp(c, u, j)]
              /\ t[Alloc] = kv[Alloc] /\ \A c \in Agents : t[Reg(c)] = kv[Reg(c)]
<1> DEFINE V == {kv[Rec(a, i)].vec : i \in I}
           X1 == {Rec(a, i) : i \in I}
           X2 == {Map(v) : v \in V}
           X3 == {Exp(a, kv[Rec(a, i)].until, i) : i \in {i \in I : kv[Rec(a, i)].until # Never}}
           L  == {v \in V : kv[Node(v)] = "live"}
           p1 == Dels(X1 \cup X2 \cup X3)
           p2 == StageDelete(a, V)
           p3 == Puts(L, Node, LAMBDA v : "dead")
           q  == p1 ++ p2
           b  == ForgetBatch(a, I)
<1>0. I \subseteq Ids /\ V \subseteq VecIds
  <2>1. I \subseteq Ids /\ \A i \in I : kv[Rec(a, i)] # Absent
    BY DEF Memories
  <2>2. \A i \in I : kv[Rec(a, i)].vec \in VecIds
    BY <2>1 DEF Typed, Record
  <2> QED BY <2>1, <2>2
<1>1. DOMAIN p1 = X1 \cup X2 \cup X3 /\ \A k \in DOMAIN p1 : p1[k] = Absent
  BY DEF Dels
<1>2. /\ \A c, v : Doc(c, v) \in DOMAIN p2 <=> c = a /\ v \in V /\ kv[Doc(a, v)] # Absent
      /\ \A c, v : Doc(c, v) \in DOMAIN p2 => p2[Doc(c, v)] = Absent
      /\ \A k \in DOMAIN p2 : k[1] \in {"doc", "stats"}
  <2> HIDE DEF V
  <2> QED BY StageDeleteWrites
<1>3. DOMAIN p3 = {Node(v) : v \in L} /\ \A k \in DOMAIN p3 : p3[k] = "dead"
  BY DEF Puts
<1>4. b = q ++ p3
  BY DEF ForgetBatch
<1> HIDE DEF p1, p2, p3
<1>5. /\ DOMAIN q = DOMAIN p1 \cup DOMAIN p2
      /\ \A k \in DOMAIN p1 : q[k] = p1[k]
      /\ \A k \in DOMAIN p2 : k \notin DOMAIN p1 => q[k] = p2[k]
  BY Together
<1> HIDE DEF q, b
<1>6. /\ DOMAIN b = DOMAIN q \cup DOMAIN p3
      /\ \A k \in DOMAIN q : b[k] = q[k]
      /\ \A k \in DOMAIN p3 : k \notin DOMAIN q => b[k] = p3[k]
  <2>1. /\ DOMAIN (q ++ p3) = DOMAIN q \cup DOMAIN p3
        /\ \A k \in DOMAIN q : (q ++ p3)[k] = q[k]
        /\ \A k \in DOMAIN p3 : k \notin DOMAIN q => (q ++ p3)[k] = p3[k]
    BY Together
  <2> QED BY <1>4, <2>1
<1>7. \A k \in DOMAIN p1 : k[1] \in {"rec", "map", "exp"}
  BY <1>1, Kinds
<1>8. \A k \in DOMAIN p3 : k[1] = "node"
  BY <1>3, Kinds
<1>9. /\ \A c, j : Rec(c, j) \in X1 <=> c = a /\ j \in I
      /\ \A v : Map(v) \in X2 <=> v \in V
      /\ \A c, u, j : Exp(c, u, j) \in X3 <=> c = a /\ j \in I /\ kv[Rec(a, j)].until = u /\ u # Never
      /\ \A v : Node(v) \in DOMAIN p3 <=> v \in L
  <2>1. \A c, j : Rec(c, j) \in X1 <=> c = a /\ j \in I
    BY KeyOf
  <2>2. \A c, u, j : Exp(c, u, j) \in X3 <=> c = a /\ j \in I /\ kv[Rec(a, j)].until = u /\ u # Never
    BY KeyOf
  <2> HIDE DEF V, L
  <2>3. /\ \A v : Map(v) \in X2 <=> v \in V
        /\ \A v : Node(v) \in DOMAIN p3 <=> v \in L
    BY <1>3, KeyOf
  <2> QED BY <2>1, <2>2, <2>3
<1>10. /\ \A k \in X1 : k[1] = "rec"
       /\ \A k \in X2 : k[1] = "map"
       /\ \A k \in X3 : k[1] = "exp"
  BY Kinds
<1> HIDE DEF X1, X2, X3, V
<1>11. \A k \in Keys : /\ k \in DOMAIN b => t[k] = b[k]
                       /\ k \notin DOMAIN b => t[k] = kv[k]
  BY Applied DEF b
<1>12. \A c \in Agents, j \in Ids : t[Rec(c, j)] = IF c = a /\ j \in I THEN Absent ELSE kv[Rec(c, j)]
  <2> TAKE c \in Agents, j \in Ids
  <2>1. Rec(c, j) \in Keys /\ Rec(c, j)[1] = "rec"
    BY KeysThere, Kinds
  <2>2. Rec(c, j) \in DOMAIN b <=> Rec(c, j) \in X1
    BY <1>1, <1>2, <1>5, <1>6, <1>8, <1>10, <2>1
  <2> QED BY <1>1, <1>5, <1>6, <1>9, <1>11, <2>1, <2>2
<1>13. \A v \in VecIds : t[Map(v)] = IF v \in V THEN Absent ELSE kv[Map(v)]
  <2> TAKE v \in VecIds
  <2>1. Map(v) \in Keys /\ Map(v)[1] = "map"
    BY KeysThere, Kinds
  <2>2. Map(v) \in DOMAIN b <=> Map(v) \in X2
    BY <1>1, <1>2, <1>5, <1>6, <1>8, <1>10, <2>1
  <2> QED BY <1>1, <1>5, <1>6, <1>9, <1>11, <2>1, <2>2
<1>14. \A v \in VecIds : t[Node(v)] = IF v \in V /\ kv[Node(v)] = "live" THEN "dead" ELSE kv[Node(v)]
  <2> TAKE v \in VecIds
  <2>1. Node(v) \in Keys /\ Node(v)[1] = "node"
    BY KeysThere, Kinds
  <2>2. Node(v) \notin DOMAIN q
    BY <1>1, <1>2, <1>5, <1>10, <2>1
  <2>3. v \in L <=> v \in V /\ kv[Node(v)] = "live"
    OBVIOUS
  <2> QED BY <1>3, <1>6, <1>9, <1>11, <2>1, <2>2, <2>3
<1>15. \A c \in Agents, v \in VecIds : t[Doc(c, v)] = IF c = a /\ v \in V THEN Absent ELSE kv[Doc(c, v)]
  <2> TAKE c \in Agents, v \in VecIds
  <2>1. Doc(c, v) \in Keys /\ Doc(c, v)[1] = "doc"
    BY KeysThere, Kinds
  <2>2. Doc(c, v) \notin DOMAIN p1 /\ Doc(c, v) \notin DOMAIN p3
    BY <1>7, <1>8, <2>1
  <2>3. Doc(c, v) \in DOMAIN b <=> Doc(c, v) \in DOMAIN p2
    BY <1>5, <1>6, <2>2
  <2>4. Doc(c, v) \in DOMAIN b => b[Doc(c, v)] = Absent
    BY <1>2, <1>5, <1>6, <2>2, <2>3
  <2> QED BY <1>2, <1>11, <2>1, <2>3, <2>4
<1>16. \A c \in Agents, u \in Times, j \in Ids :
          t[Exp(c, u, j)] = IF c = a /\ j \in I /\ kv[Rec(a, j)].until = u
                            THEN Absent ELSE kv[Exp(c, u, j)]
  <2> TAKE c \in Agents, u \in Times, j \in Ids
  <2>1. Exp(c, u, j) \in Keys /\ Exp(c, u, j)[1] = "exp"
    BY KeysThere, Kinds
  <2>2. Exp(c, u, j) \in DOMAIN b <=> Exp(c, u, j) \in X3
    BY <1>1, <1>2, <1>5, <1>6, <1>8, <1>10, <2>1
  <2>3. u # Never
    BY MemoryIndexAssumption
  <2> QED BY <1>1, <1>5, <1>6, <1>9, <1>11, <2>1, <2>2, <2>3
<1>17. t[Alloc] = kv[Alloc] /\ \A c \in Agents : t[Reg(c)] = kv[Reg(c)]
  <2>1. Alloc \in Keys /\ Alloc[1] = "alloc" /\ \A c \in Agents : Reg(c) \in Keys /\ Reg(c)[1] = "reg"
    BY KeysThere, Kinds
  <2>2. \A k \in DOMAIN b : k[1] \in {"rec", "map", "exp", "doc", "stats", "node"}
    BY <1>2, <1>5, <1>6, <1>7, <1>8
  <2> QED BY <1>11, <2>1, <2>2
<1> QED BY <1>0, <1>12, <1>13, <1>14, <1>15, <1>16, <1>17 DEF V

\* The vector id of a record is one, and mapped to it.
LEMMA VecFacts ==
    ASSUME Typed(kv), NEW l, Linked(kv, l), NEW c \in Agents, NEW j \in Ids, kv[Rec(c, j)] # Absent
    PROVE  /\ kv[Rec(c, j)] \in Record /\ kv[Rec(c, j)].vec \in VecIds
           /\ kv[Rec(c, j)].terms \in Lengths /\ kv[Rec(c, j)].terms \in Nat
           /\ kv[Map(kv[Rec(c, j)].vec)] = <<c, j>> /\ <<c, j>> # Absent
<1>1. kv[Rec(c, j)] \in Record
  BY DEF Typed
<1>2. kv[Rec(c, j)].vec \in VecIds /\ kv[Rec(c, j)].terms \in Lengths
  BY <1>1 DEF Record
<1>3. kv[Map(kv[Rec(c, j)].vec)] = <<c, j>>
  BY DEF Linked
<1>4. <<c, j>> # Absent
  BY <1>2, Values
<1> QED BY <1>1, <1>2, <1>3, <1>4, MemoryIndexAssumption

\* A forgetting.
LEMMA ForgetKeeps ==
    ASSUME Typed(kv), Linked(kv, lost), Documented(kv, repairing), Listed(kv),
           NEW a \in Agents, NEW I \in SUBSET Memories(a),
           NEW t, t = Apply(kv, ForgetBatch(a, I))
    PROVE  /\ Typed(t) /\ Linked(t, lost) /\ Documented(t, repairing) /\ Listed(t)
           /\ t[Alloc] = kv[Alloc]
           /\ \A n : Below(kv, n, repairing) => Below(t, n, repairing)
           /\ \A c \in Agents, j \in Ids :
                 t[Rec(c, j)] = IF c = a /\ j \in I THEN Absent ELSE kv[Rec(c, j)]
<1> DEFINE V == {kv[Rec(a, i)].vec : i \in I}
<1>1. /\ V \subseteq VecIds
      /\ \A c \in Agents, j \in Ids :
            t[Rec(c, j)] = IF c = a /\ j \in I THEN Absent ELSE kv[Rec(c, j)]
      /\ \A v \in VecIds : t[Map(v)] = IF v \in V THEN Absent ELSE kv[Map(v)]
      /\ \A v \in VecIds : t[Node(v)] = IF v \in V /\ kv[Node(v)] = "live" THEN "dead" ELSE kv[Node(v)]
      /\ \A c \in Agents, v \in VecIds :
            t[Doc(c, v)] = IF c = a /\ v \in V THEN Absent ELSE kv[Doc(c, v)]
      /\ \A c \in Agents, u \in Times, j \in Ids :
            t[Exp(c, u, j)] = IF c = a /\ j \in I /\ kv[Rec(a, j)].until = u
                              THEN Absent ELSE kv[Exp(c, u, j)]
      /\ t[Alloc] = kv[Alloc] /\ \A c \in Agents : t[Reg(c)] = kv[Reg(c)]
  BY ForgetStore
<1>2. \A i \in I : i \in Ids /\ kv[Rec(a, i)] # Absent
  BY DEF Memories
<1>3. \A v \in V : \E i \in I : kv[Map(v)] = <<a, i>> /\ kv[Rec(a, i)].vec = v
  BY <1>2, VecFacts
<1>4. \A c \in Agents, j \in Ids : kv[Rec(c, j)] # Absent =>
         (kv[Rec(c, j)].vec \in V <=> c = a /\ j \in I)
  <2> TAKE c \in Agents, j \in Ids
  <2> HAVE kv[Rec(c, j)] # Absent
  <2>1. kv[Map(kv[Rec(c, j)].vec)] = <<c, j>>
    BY VecFacts
  <2>2. kv[Rec(c, j)].vec \in V => c = a /\ j \in I
    BY <1>3, <2>1
  <2> QED BY <2>2
<1> HIDE DEF V
<1>5. Typed(t)
  BY <1>1 DEF Typed
<1>6. Linked(t, lost)
  <2>1. ASSUME NEW c \in Agents, NEW j \in Ids, t[Rec(c, j)] # Absent
        PROVE  /\ t[Map(t[Rec(c, j)].vec)] = <<c, j>>
               /\ t[Node(t[Rec(c, j)].vec)] = "live" \/ t[Rec(c, j)].vec \in lost
    <3>1. t[Rec(c, j)] = kv[Rec(c, j)] /\ ~(c = a /\ j \in I)
      BY <1>1, <2>1
    <3> DEFINE v == kv[Rec(c, j)].vec
    <3>2. v \in VecIds /\ v \notin V /\ kv[Map(v)] = <<c, j>> /\ (kv[Node(v)] = "live" \/ v \in lost)
      BY <1>4, <2>1, <3>1, VecFacts DEF Linked
    <3> HIDE DEF v
    <3>3. t[Map(v)] = <<c, j>> /\ (t[Node(v)] = "live" \/ v \in lost)
      BY <1>1, <3>2
    <3> QED BY <3>1, <3>3 DEF v
  <2>2. ASSUME NEW v \in VecIds, t[Map(v)] # Absent
        PROVE  \E c \in Agents, j \in Ids : /\ t[Map(v)] = <<c, j>>
                                           /\ t[Rec(c, j)] # Absent /\ t[Rec(c, j)].vec = v
    <3>1. v \notin V /\ t[Map(v)] = kv[Map(v)]
      BY <1>1, <2>2
    <3>2. PICK c \in Agents, j \in Ids : /\ kv[Map(v)] = <<c, j>>
                                        /\ kv[Rec(c, j)] # Absent /\ kv[Rec(c, j)].vec = v
      BY <2>2, <3>1 DEF Linked
    <3>3. ~(c = a /\ j \in I)
      BY <1>4, <3>1, <3>2
    <3> QED BY <1>1, <3>1, <3>2, <3>3
  <2>3. ASSUME NEW v \in VecIds, t[Node(v)] = "live" PROVE t[Map(v)] # Absent
    <3>1. v \notin V /\ kv[Node(v)] = "live"
      BY <1>1, <2>3
    <3> QED BY <1>1, <3>1 DEF Linked
  <2> QED BY ONLY <2>1, <2>2, <2>3 DEF Linked
<1>7. Documented(t, repairing)
  <2>1. ASSUME NEW c \in Agents, NEW v \in VecIds, t[Doc(c, v)] # Absent
        PROVE  \E j \in Ids : t[Map(v)] = <<c, j>>
    <3>1. t[Doc(c, v)] = kv[Doc(c, v)] /\ ~(c = a /\ v \in V)
      BY <1>1, <2>1
    <3>2. PICK j \in Ids : kv[Map(v)] = <<c, j>>
      BY <2>1, <3>1 DEF Documented
    <3>3. v \notin V
      BY <1>3, <3>1, <3>2
    <3> QED BY <1>1, <3>2, <3>3
  <2>2. ASSUME ~repairing, NEW c \in Agents, NEW j \in Ids, t[Rec(c, j)] # Absent, t[Rec(c, j)].terms > 0
        PROVE  t[Doc(c, t[Rec(c, j)].vec)] # Absent
    <3> DEFINE v == kv[Rec(c, j)].vec
    <3>1. t[Rec(c, j)] = kv[Rec(c, j)] /\ ~(c = a /\ j \in I)
      BY <1>1, <2>2
    <3>2. v \in VecIds /\ v \notin V
      BY <1>4, <2>2, <3>1, VecFacts
    <3>3. kv[Doc(c, v)] # Absent
      BY <2>2, <3>1 DEF Documented
    <3> QED BY <1>1, <3>1, <3>2, <3>3
  <2> QED BY <2>1, <2>2 DEF Documented
<1>8. Listed(t)
  <2>1. ASSUME NEW c \in Agents, NEW j \in Ids, NEW u \in Times
        PROVE  t[Exp(c, u, j)] # Absent <=> t[Rec(c, j)] # Absent /\ t[Rec(c, j)].until = u
    BY <1>1, <1>2 DEF Listed
  <2>2. ASSUME NEW c \in Agents, NEW j \in Ids, t[Rec(c, j)] # Absent PROVE t[Reg(c)] # Absent
    BY <1>1, <2>2 DEF Listed
  <2> QED BY <2>1, <2>2 DEF Listed
<1>9. \A n : Below(kv, n, repairing) => Below(t, n, repairing)
  <2> TAKE n
  <2> HAVE Below(kv, n, repairing)
  <2>1. ASSUME NEW v \in VecIds
        PROVE  /\ t[Node(v)] = "live" \/ t[Map(v)] # Absent => v < n
               /\ ~repairing /\ t[Node(v)] # Absent => v < n
    <3>1. /\ t[Node(v)] = "live" => kv[Node(v)] = "live"
          /\ t[Map(v)] # Absent => kv[Map(v)] # Absent
          /\ t[Node(v)] # Absent => kv[Node(v)] # Absent
      BY <1>1, Values
    <3>2. kv[Node(v)] = "live" \/ kv[Map(v)] # Absent => v < n
      BY DEF Below
    <3>3. ~repairing /\ kv[Node(v)] # Absent => v < n
      BY DEF Below
    <3> QED BY <3>1, <3>2, <3>3
  <2> QED BY <2>1 DEF Below
<1> QED BY <1>1, <1>5, <1>6, <1>7, <1>8, <1>9

\* t is kv but for keys of these kinds.
Only(t, kinds) == \A k \in Keys : k[1] \notin kinds => t[k] = kv[k]

\* t has the records of kv, with their vector ids and terms.
Kept(t) ==
    \A c \in Agents, j \in Ids : /\ t[Rec(c, j)] # Absent <=> kv[Rec(c, j)] # Absent
                                 /\ t[Rec(c, j)].vec = kv[Rec(c, j)].vec
                                 /\ t[Rec(c, j)].terms = kv[Rec(c, j)].terms

\* Keys of the other kinds.
LEMMA OnlyFacts ==
    ASSUME NEW t, NEW kinds, Only(t, kinds)
    PROVE  /\ "rec" \notin kinds => \A c \in Agents, j \in Ids : t[Rec(c, j)] = kv[Rec(c, j)]
           /\ "map" \notin kinds => \A v \in VecIds : t[Map(v)] = kv[Map(v)]
           /\ "node" \notin kinds => \A v \in VecIds : t[Node(v)] = kv[Node(v)]
           /\ "doc" \notin kinds => \A c \in Agents, v \in VecIds : t[Doc(c, v)] = kv[Doc(c, v)]
           /\ "exp" \notin kinds => \A c \in Agents, u \in Times, j \in Ids : t[Exp(c, u, j)] = kv[Exp(c, u, j)]
           /\ "reg" \notin kinds => \A c \in Agents : t[Reg(c)] = kv[Reg(c)]
           /\ "alloc" \notin kinds => t[Alloc] = kv[Alloc]
           /\ "rec" \notin kinds => Kept(t)
<1>1. "rec" \notin kinds => \A c \in Agents, j \in Ids : t[Rec(c, j)] = kv[Rec(c, j)]
  BY KeysThere, Kinds DEF Only
<1>2. "rec" \notin kinds => Kept(t)
  BY <1>1 DEF Kept
<1>3. /\ "map" \notin kinds => \A v \in VecIds : t[Map(v)] = kv[Map(v)]
      /\ "node" \notin kinds => \A v \in VecIds : t[Node(v)] = kv[Node(v)]
      /\ "doc" \notin kinds => \A c \in Agents, v \in VecIds : t[Doc(c, v)] = kv[Doc(c, v)]
  BY KeysThere, Kinds DEF Only
<1>4. /\ "exp" \notin kinds => \A c \in Agents, u \in Times, j \in Ids : t[Exp(c, u, j)] = kv[Exp(c, u, j)]
      /\ "reg" \notin kinds => \A c \in Agents : t[Reg(c)] = kv[Reg(c)]
      /\ "alloc" \notin kinds => t[Alloc] = kv[Alloc]
  BY KeysThere, Kinds DEF Only
<1> QED BY <1>1, <1>2, <1>3, <1>4

\* Where records keep their vector ids, and mappings and nodes stay, links stay.
LEMMA LinksKept ==
    ASSUME Typed(kv), NEW l, Linked(kv, l), NEW t, Kept(t), Only(t, {"rec", "doc", "stats", "exp", "reg", "alloc"})
    PROVE  Linked(t, l) /\ \A n, r : Below(kv, n, r) => Below(t, n, r)
<1>1. \A v \in VecIds : t[Map(v)] = kv[Map(v)] /\ t[Node(v)] = kv[Node(v)]
  BY OnlyFacts
<1>2. ASSUME NEW c \in Agents, NEW j \in Ids, t[Rec(c, j)] # Absent
      PROVE  /\ t[Map(t[Rec(c, j)].vec)] = <<c, j>>
             /\ t[Node(t[Rec(c, j)].vec)] = "live" \/ t[Rec(c, j)].vec \in l
  <2>1. kv[Rec(c, j)] # Absent /\ t[Rec(c, j)].vec = kv[Rec(c, j)].vec
    BY <1>2 DEF Kept
  <2>2. kv[Rec(c, j)].vec \in VecIds
    BY <2>1, VecFacts
  <2>3. kv[Map(kv[Rec(c, j)].vec)] = <<c, j>>
        /\ (kv[Node(kv[Rec(c, j)].vec)] = "live" \/ kv[Rec(c, j)].vec \in l)
    BY <2>1 DEF Linked
  <2> QED BY <1>1, <2>1, <2>2, <2>3
<1>3. ASSUME NEW v \in VecIds, t[Map(v)] # Absent
      PROVE  \E c \in Agents, j \in Ids : /\ t[Map(v)] = <<c, j>>
                                         /\ t[Rec(c, j)] # Absent /\ t[Rec(c, j)].vec = v
  <2>1. PICK c \in Agents, j \in Ids : /\ kv[Map(v)] = <<c, j>>
                                      /\ kv[Rec(c, j)] # Absent /\ kv[Rec(c, j)].vec = v
    BY <1>1, <1>3 DEF Linked
  <2> QED BY <1>1, <2>1 DEF Kept
<1>4. ASSUME NEW v \in VecIds, t[Node(v)] = "live" PROVE t[Map(v)] # Absent
  BY <1>1, <1>4 DEF Linked
<1>5. Linked(t, l)
  BY <1>2, <1>3, <1>4 DEF Linked
<1>6. \A n, r : Below(kv, n, r) => Below(t, n, r)
  BY <1>1 DEF Below
<1> QED BY <1>5, <1>6

\* And documents, where they stay too.
LEMMA DocumentsKept ==
    ASSUME Typed(kv), Linked(kv, lost), NEW r, Documented(kv, r), NEW t, Kept(t),
           Only(t, {"rec", "node", "exp", "reg", "alloc"})
    PROVE  Documented(t, r)
<1>1. /\ \A v \in VecIds : t[Map(v)] = kv[Map(v)]
      /\ \A c \in Agents, v \in VecIds : t[Doc(c, v)] = kv[Doc(c, v)]
  BY OnlyFacts
<1>2. \A c \in Agents, v \in VecIds : t[Doc(c, v)] # Absent => \E j \in Ids : t[Map(v)] = <<c, j>>
  BY <1>1 DEF Documented
<1>3. ASSUME ~r, NEW c \in Agents, NEW j \in Ids, t[Rec(c, j)] # Absent, t[Rec(c, j)].terms > 0
      PROVE  t[Doc(c, t[Rec(c, j)].vec)] # Absent
  <2>1. /\ kv[Rec(c, j)] # Absent /\ t[Rec(c, j)].vec = kv[Rec(c, j)].vec
        /\ t[Rec(c, j)].terms = kv[Rec(c, j)].terms
    BY <1>3 DEF Kept
  <2>2. kv[Rec(c, j)].vec \in VecIds
    BY <2>1, VecFacts
  <2>3. kv[Doc(c, kv[Rec(c, j)].vec)] # Absent
    BY <1>3, <2>1 DEF Documented
  <2> QED BY <1>1, <2>1, <2>2, <2>3
<1> QED BY <1>2, <1>3 DEF Documented

\* An update.
LEMMA UpdateStore ==
    ASSUME NEW a \in Agents, NEW i \in Memories(a), NEW until \in Times \cup {Never},
           NEW r, r = [kv[Rec(a, i)] EXCEPT !.until = until],
           NEW old, old = kv[Rec(a, i)].until,
           NEW b, b = Put(Rec(a, i), r)
                      ++ (IF until \in {old, Never} THEN Nothing ELSE Put(Exp(a, until, i), "set"))
                      ++ (IF old \in {until, Never} THEN Nothing ELSE Dels({Exp(a, old, i)})),
           NEW t, t = Apply(kv, b)
    PROVE  /\ \A k \in Keys : k[1] \notin {"rec", "exp"} => t[k] = kv[k]
           /\ \A c \in Agents, j \in Ids : t[Rec(c, j)] = IF c = a /\ j = i THEN r ELSE kv[Rec(c, j)]
           /\ \A c \in Agents, u \in Times, j \in Ids :
                 t[Exp(c, u, j)] = IF c # a \/ j # i \/ until = old \/ u \notin {until, old} THEN kv[Exp(c, u, j)]
                                   ELSE IF u = until THEN "set" ELSE Absent
<1> DEFINE p1 == Put(Rec(a, i), r)
           p2 == IF until \in {old, Never} THEN Nothing ELSE Put(Exp(a, until, i), "set")
           p3 == IF old \in {until, Never} THEN Nothing ELSE Dels({Exp(a, old, i)})
           q  == p1 ++ p2
<1>1. DOMAIN p1 = {Rec(a, i)} /\ p1[Rec(a, i)] = r
  BY DEF Put
<1>2. /\ until \in {old, Never} => DOMAIN p2 = {}
      /\ until \notin {old, Never} => DOMAIN p2 = {Exp(a, until, i)} /\ p2[Exp(a, until, i)] = "set"
  BY DEF Put, Nothing
<1>3. /\ old \in {until, Never} => DOMAIN p3 = {}
      /\ old \notin {until, Never} => DOMAIN p3 = {Exp(a, old, i)} /\ p3[Exp(a, old, i)] = Absent
  BY DEF Dels, Nothing
<1>4. b = q ++ p3
  OBVIOUS
<1> HIDE DEF p1, p2, p3
<1>5. /\ DOMAIN q = DOMAIN p1 \cup DOMAIN p2
      /\ \A k \in DOMAIN p1 : q[k] = p1[k]
      /\ \A k \in DOMAIN p2 : k \notin DOMAIN p1 => q[k] = p2[k]
  BY Together
<1> HIDE DEF q
<1>6. /\ DOMAIN b = DOMAIN q \cup DOMAIN p3
      /\ \A k \in DOMAIN q : b[k] = q[k]
      /\ \A k \in DOMAIN p3 : k \notin DOMAIN q => b[k] = p3[k]
  <2>1. /\ DOMAIN (q ++ p3) = DOMAIN q \cup DOMAIN p3
        /\ \A k \in DOMAIN q : (q ++ p3)[k] = q[k]
        /\ \A k \in DOMAIN p3 : k \notin DOMAIN q => (q ++ p3)[k] = p3[k]
    BY Together
  <2> QED BY <1>4, <2>1
<1>7. \A k \in Keys : /\ k \in DOMAIN b => t[k] = b[k]
                      /\ k \notin DOMAIN b => t[k] = kv[k]
  BY Applied
<1>8. /\ \A k \in DOMAIN p1 : k[1] = "rec"
      /\ \A k \in DOMAIN p2 : k[1] = "exp"
      /\ \A k \in DOMAIN p3 : k[1] = "exp"
  BY <1>1, <1>2, <1>3, Kinds
<1>9. \A k \in Keys : k[1] \notin {"rec", "exp"} => t[k] = kv[k]
  BY <1>5, <1>6, <1>7, <1>8
<1>10. ASSUME NEW c \in Agents, NEW j \in Ids
       PROVE  t[Rec(c, j)] = IF c = a /\ j = i THEN r ELSE kv[Rec(c, j)]
  <2> DEFINE k == Rec(c, j)
  <2>1. k \in Keys /\ k[1] = "rec"
    BY KeysThere, Kinds
  <2>2. k = Rec(a, i) <=> c = a /\ j = i
    BY KeyOf
  <2> HIDE DEF k
  <2>3. k \in DOMAIN b <=> k \in DOMAIN p1
    BY <1>5, <1>6, <1>8, <2>1
  <2>4. CASE c = a /\ j = i
    <3>1. k \in DOMAIN p1 /\ p1[k] = r
      BY <1>1, <2>2, <2>4
    <3>2. k \in DOMAIN q /\ q[k] = r
      BY <1>5, <3>1
    <3>3. k \in DOMAIN b /\ b[k] = r
      BY <1>6, <3>2
    <3>4. t[k] = r
      BY <1>7, <2>1, <3>3
    <3> QED BY <2>4, <3>4 DEF k
  <2>5. CASE ~(c = a /\ j = i)
    <3>1. k \notin DOMAIN p1
      BY <1>1, <2>2, <2>5
    <3> QED BY <1>7, <2>1, <2>3, <2>5, <3>1 DEF k
  <2> QED BY <2>4, <2>5
<1>11. ASSUME NEW c \in Agents, NEW u \in Times, NEW j \in Ids
       PROVE  t[Exp(c, u, j)] = IF c # a \/ j # i \/ until = old \/ u \notin {until, old} THEN kv[Exp(c, u, j)]
                                ELSE IF u = until THEN "set" ELSE Absent
  <2> DEFINE k == Exp(c, u, j)
  <2>1. k \in Keys /\ k[1] = "exp" /\ u # Never
    BY KeysThere, Kinds, MemoryIndexAssumption
  <2>2. /\ k = Exp(a, until, i) <=> c = a /\ u = until /\ j = i
        /\ k = Exp(a, old, i) <=> c = a /\ u = old /\ j = i
    BY KeyOf
  <2> HIDE DEF k
  <2>3. k \notin DOMAIN p1
    BY <1>8, <2>1
  <2>4. k \in DOMAIN p2 <=> c = a /\ u = until /\ j = i /\ until # old
    BY <1>2, <2>1, <2>2
  <2>5. k \in DOMAIN p3 <=> c = a /\ u = old /\ j = i /\ until # old
    BY <1>3, <2>1, <2>2
  <2>6. CASE k \in DOMAIN p2
    <3>1. p2[k] = "set"
      BY <1>2, <2>6
    <3> QED BY <1>5, <1>6, <1>7, <2>1, <2>3, <2>4, <2>6, <3>1 DEF k
  <2>7. CASE k \in DOMAIN p3 /\ k \notin DOMAIN p2
    <3>1. p3[k] = Absent
      BY <1>3, <2>7
    <3>2. t[k] = Absent
      BY <1>5, <1>6, <1>7, <2>1, <2>3, <2>7, <3>1
    <3> QED BY <2>4, <2>5, <2>7, <3>2 DEF k
  <2>8. CASE k \notin DOMAIN p2 /\ k \notin DOMAIN p3
    <3>1. t[k] = kv[k]
      BY <1>5, <1>6, <1>7, <2>1, <2>3, <2>8
    <3> QED BY <2>4, <2>5, <2>8, <3>1 DEF k
  <2> QED BY <2>6, <2>7, <2>8
<1> QED BY <1>9, <1>10, <1>11

\* An update keeps what the records and the expiry index say of each other.
LEMMA UpdateKeeps ==
    ASSUME Typed(kv), Linked(kv, lost), Documented(kv, repairing), Listed(kv),
           NEW a \in Agents, NEW i \in Memories(a), NEW until \in Times \cup {Never},
           NEW t, t = Apply(kv, UpdateBatch(a, i, until))
    PROVE  /\ Typed(t) /\ Linked(t, lost) /\ Documented(t, repairing) /\ Listed(t)
           /\ t[Alloc] = kv[Alloc]
           /\ \A n : Below(kv, n, repairing) => Below(t, n, repairing)
<1> DEFINE old == kv[Rec(a, i)].until
           r == [kv[Rec(a, i)] EXCEPT !.until = until]
<1>1. /\ Only(t, {"rec", "exp"})
      /\ \A c \in Agents, j \in Ids : t[Rec(c, j)] = IF c = a /\ j = i THEN r ELSE kv[Rec(c, j)]
      /\ \A c \in Agents, u \in Times, j \in Ids :
            t[Exp(c, u, j)] = IF c # a \/ j # i \/ until = old \/ u \notin {until, old} THEN kv[Exp(c, u, j)]
                              ELSE IF u = until THEN "set" ELSE Absent
  BY UpdateStore DEF Only, UpdateBatch
<1>2. i \in Ids /\ kv[Rec(a, i)] # Absent /\ kv[Rec(a, i)] \in Record
  BY DEF Memories, Typed
<1>3. /\ r \in Record /\ r.vec = kv[Rec(a, i)].vec /\ r.terms = kv[Rec(a, i)].terms /\ r.until = until
  BY <1>2 DEF Record
<1>4. r # Absent
  BY <1>2, <1>3, Values
<1> HIDE DEF r, old
<1>5. Kept(t)
  BY <1>1, <1>2, <1>3, <1>4 DEF Kept
<1>6. Only(t, {"rec", "doc", "stats", "exp", "reg", "alloc"}) /\ Only(t, {"rec", "node", "exp", "reg", "alloc"})
  BY <1>1 DEF Only
<1>7. Linked(t, lost) /\ Documented(t, repairing) /\ \A n : Below(kv, n, repairing) => Below(t, n, repairing)
  BY <1>5, <1>6, LinksKept, DocumentsKept
<1>8. /\ \A v \in VecIds : t[Map(v)] = kv[Map(v)] /\ t[Node(v)] = kv[Node(v)]
      /\ \A c \in Agents : t[Reg(c)] = kv[Reg(c)]
      /\ t[Alloc] = kv[Alloc]
  BY <1>1, OnlyFacts
<1>9. Typed(t)
  BY <1>1, <1>3, <1>8 DEF Typed
<1>10. Listed(t)
  <2>1. ASSUME NEW c \in Agents, NEW j \in Ids, NEW u \in Times
        PROVE  t[Exp(c, u, j)] # Absent <=> t[Rec(c, j)] # Absent /\ t[Rec(c, j)].until = u
    <3>1. kv[Exp(c, u, j)] # Absent <=> kv[Rec(c, j)] # Absent /\ kv[Rec(c, j)].until = u
      BY DEF Listed
    <3>2. CASE c = a /\ j = i
      <4>1. t[Rec(c, j)] = r /\ r.until = until /\ kv[Rec(c, j)].until = old /\ kv[Rec(c, j)] # Absent
        BY <1>1, <1>2, <1>3, <3>2 DEF old
      <4>2. t[Exp(c, u, j)] # Absent <=> u = until
        <5>1. t[Exp(c, u, j)] = IF until = old \/ u \notin {until, old} THEN kv[Exp(c, u, j)]
                                ELSE IF u = until THEN "set" ELSE Absent
          BY <1>1, <3>2
        <5>2. kv[Exp(c, u, j)] # Absent <=> u = old
          BY <3>1, <4>1
        <5> QED BY <5>1, <5>2, Values
      <4> QED BY <1>4, <4>1, <4>2
    <3>3. CASE ~(c = a /\ j = i)
      BY <1>1, <3>1, <3>3
    <3> QED BY <3>2, <3>3
  <2>2. \A c \in Agents, j \in Ids : t[Rec(c, j)] # Absent => t[Reg(c)] # Absent
    BY <1>5, <1>8 DEF Kept, Listed
  <2> QED BY <2>1, <2>2 DEF Listed
<1> QED BY <1>7, <1>8, <1>9, <1>10

\* What no kind in question touches stays typed and listed.
LEMMA OthersKept ==
    ASSUME NEW t
    PROVE  /\ Typed(kv) /\ Only(t, {"doc", "stats", "exp", "reg"}) => Typed(t)
           /\ Listed(kv) /\ Only(t, {"map", "node", "doc", "stats", "alloc"}) => Listed(t)
<1>1. ASSUME Typed(kv), Only(t, {"doc", "stats", "exp", "reg"}) PROVE Typed(t)
  <2>1. /\ \A c \in Agents, j \in Ids : t[Rec(c, j)] = kv[Rec(c, j)]
        /\ \A v \in VecIds : t[Map(v)] = kv[Map(v)] /\ t[Node(v)] = kv[Node(v)]
        /\ t[Alloc] = kv[Alloc]
    BY <1>1, OnlyFacts
  <2> QED BY <1>1, <2>1 DEF Typed
<1>2. ASSUME Listed(kv), Only(t, {"map", "node", "doc", "stats", "alloc"}) PROVE Listed(t)
  <2>1. /\ \A c \in Agents, j \in Ids : t[Rec(c, j)] = kv[Rec(c, j)]
        /\ \A c \in Agents, u \in Times, j \in Ids : t[Exp(c, u, j)] = kv[Exp(c, u, j)]
        /\ \A c \in Agents : t[Reg(c)] = kv[Reg(c)]
    BY <1>2, OnlyFacts
  <2> QED BY <1>2, <2>1 DEF Listed
<1> QED BY <1>1, <1>2

\* A batch that writes vector nodes only: live ones where there is a mapping, and
\* where one goes it is in m.
LEMMA NodesKeep ==
    ASSUME Typed(kv), NEW l, Linked(kv, l), NEW r, Documented(kv, r), Listed(kv), NEW t, NEW m,
           Only(t, {"node"}),
           \A v \in VecIds : /\ t[Node(v)] \in {"live", "dead", Absent}
                             /\ t[Node(v)] = "live" => kv[Map(v)] # Absent
                             /\ kv[Map(v)] # Absent => t[Node(v)] = "live" \/ v \in m
    PROVE  /\ Typed(t) /\ Linked(t, m) /\ Documented(t, r) /\ Listed(t)
           /\ Kept(t) /\ t[Alloc] = kv[Alloc]
           /\ (\A v \in VecIds : t[Node(v)] # Absent => kv[Node(v)] # Absent \/ kv[Map(v)] # Absent) =>
                 \A n, q : Below(kv, n, q) => Below(t, n, q)
           /\ (\A v \in VecIds : t[Node(v)] # Absent => kv[Map(v)] # Absent) =>
                 \A n, q : Below(kv, n, q) => Below(t, n, FALSE)
<1> DEFINE Sound(v) == /\ t[Node(v)] \in {"live", "dead", Absent}
                       /\ t[Node(v)] = "live" => kv[Map(v)] # Absent
                       /\ kv[Map(v)] # Absent => t[Node(v)] = "live" \/ v \in m
<1>1. \A v \in VecIds : Sound(v)
  OBVIOUS
<1>2. /\ \A c \in Agents, j \in Ids : t[Rec(c, j)] = kv[Rec(c, j)]
      /\ \A v \in VecIds : t[Map(v)] = kv[Map(v)]
      /\ t[Alloc] = kv[Alloc] /\ Kept(t)
  BY OnlyFacts
<1>3. Typed(t)
  BY <1>1, <1>2 DEF Typed
<1>4. Listed(t)
  <2>1. Only(t, {"map", "node", "doc", "stats", "alloc"})
    BY DEF Only
  <2> QED BY <2>1, OthersKept
<1>5. Documented(t, r)
  <2>1. /\ \A c \in Agents, v \in VecIds : t[Doc(c, v)] = kv[Doc(c, v)]
    BY OnlyFacts
  <2>2. ASSUME NEW c \in Agents, NEW j \in Ids, t[Rec(c, j)] # Absent
        PROVE  t[Rec(c, j)] = kv[Rec(c, j)] /\ t[Doc(c, t[Rec(c, j)].vec)] = kv[Doc(c, kv[Rec(c, j)].vec)]
    BY <1>2, <2>1, <2>2, VecFacts
  <2> QED BY <1>2, <2>1, <2>2 DEF Documented
<1>6. Linked(t, m)
  <2>1. ASSUME NEW c \in Agents, NEW j \in Ids, t[Rec(c, j)] # Absent
        PROVE  /\ t[Map(t[Rec(c, j)].vec)] = <<c, j>>
               /\ t[Node(t[Rec(c, j)].vec)] = "live" \/ t[Rec(c, j)].vec \in m
    <3>1. t[Rec(c, j)] = kv[Rec(c, j)]
      BY <1>2
    <3>2. kv[Rec(c, j)].vec \in VecIds /\ kv[Map(kv[Rec(c, j)].vec)] = <<c, j>> /\ <<c, j>> # Absent
      BY <2>1, <3>1, VecFacts
    <3> QED BY <1>1, <1>2, <3>1, <3>2
  <2>2. ASSUME NEW v \in VecIds, t[Map(v)] # Absent
        PROVE  \E c \in Agents, j \in Ids : /\ t[Map(v)] = <<c, j>>
                                           /\ t[Rec(c, j)] # Absent /\ t[Rec(c, j)].vec = v
    BY <1>2, <2>2 DEF Linked
  <2>3. ASSUME NEW v \in VecIds, t[Node(v)] = "live" PROVE t[Map(v)] # Absent
    BY <1>1, <1>2, <2>3
  <2> QED BY ONLY <2>1, <2>2, <2>3 DEF Linked
<1>7. ASSUME \A v \in VecIds : t[Node(v)] # Absent => kv[Node(v)] # Absent \/ kv[Map(v)] # Absent,
             NEW n, NEW q, Below(kv, n, q)
      PROVE  Below(t, n, q)
  <2>1. ASSUME NEW v \in VecIds
        PROVE  /\ t[Node(v)] = "live" \/ t[Map(v)] # Absent => v < n
               /\ ~q /\ t[Node(v)] # Absent => v < n
    <3>1. /\ kv[Node(v)] = "live" \/ kv[Map(v)] # Absent => v < n
          /\ ~q /\ kv[Node(v)] # Absent => v < n
      BY <1>7 DEF Below
    <3> QED BY <1>1, <1>2, <1>7, <3>1
  <2> QED BY <2>1 DEF Below
<1>8. ASSUME \A v \in VecIds : t[Node(v)] # Absent => kv[Map(v)] # Absent,
             NEW n, NEW q, Below(kv, n, q)
      PROVE  Below(t, n, FALSE)
  <2>1. ASSUME NEW v \in VecIds
        PROVE  /\ t[Node(v)] = "live" \/ t[Map(v)] # Absent => v < n
               /\ t[Node(v)] # Absent => v < n
    <3>1. kv[Map(v)] # Absent => v < n
      BY <1>8 DEF Below
    <3> QED BY <1>1, <1>2, <1>8, <3>1
  <2> QED BY <2>1 DEF Below
<1> QED BY <1>2, <1>3, <1>4, <1>5, <1>6, <1>7, <1>8

\* A set of vector ids has a highest one.
LEMMA HighestExists ==
    ASSUME NEW V, V \subseteq VecIds, V # {}
    PROVE  \E v \in V : \A u \in V : u <= v
<1> DEFINE T == {n \in Nat : \E v \in V : n = MaxVec - v}
<1>1. \A v \in V : v \in Nat /\ MaxVec - v \in T
  BY MemoryIndexAssumption DEF VecIds
<1>2. T # {} /\ T \subseteq Nat
  BY <1>1
<1> HIDE DEF T
<1>3. PICK n \in T : \A x \in T : ~(<<x, n>> \in OpToRel(<, Nat))
  BY <1>2, NatLessThanWellFounded, WFMin, Zenon
<1>4. \A x \in T : n \in Nat /\ x \in Nat /\ ~(x < n)
  BY <1>2, <1>3 DEF OpToRel
<1>5. PICK v \in V : n = MaxVec - v
  BY <1>3 DEF T
<1>6. \A u \in V : u <= v
  BY <1>1, <1>4, <1>5, MemoryIndexAssumption
<1> QED BY <1>6

\* After(V) is above V.
LEMMA AfterAbove ==
    ASSUME NEW V, V \subseteq VecIds
    PROVE  After(V) \in 0 .. MaxVec + 1 /\ \A v \in V : v < After(V)
<1>1. CASE V = {}
  BY <1>1, MemoryIndexAssumption DEF After
<1>2. CASE V # {}
  <2>1. Highest(V) \in V /\ \A u \in V : u <= Highest(V)
    BY <1>2, HighestExists DEF Highest
  <2>2. \A u \in V : u \in 0 .. MaxVec
    BY DEF VecIds
  <2> QED BY <1>2, <2>1, <2>2, MemoryIndexAssumption DEF After
<1> QED BY <1>1, <1>2

\* The records, as pairs.
LEMMA RecordFacts ==
    /\ \A m \in Records : /\ m \in Agents \X Ids /\ m[1] \in Agents /\ m[2] \in Ids /\ m = <<m[1], m[2]>>
                          /\ kv[Rec(m[1], m[2])] # Absent /\ VecOf(m) = kv[Rec(m[1], m[2])].vec
    /\ \A c \in Agents, j \in Ids : /\ <<c, j>> \in Records <=> kv[Rec(c, j)] # Absent
                                    /\ VecOf(<<c, j>>) = kv[Rec(c, j)].vec
BY DEF Records, Memories, VecOf

\* Rebuilding the mappings of a store whose links agree changes the allocator only.
LEMMA MappingsStore ==
    ASSUME Typed(kv), NEW l, Linked(kv, l),
           NEW b, b = Puts(Records, LAMBDA m : Map(VecOf(m)), LAMBDA m : m)
                      ++ Put(Alloc, After({VecOf(m) : m \in Records}))
                      ++ Dels({Map(v) : v \in VecIds}),
           NEW t, t = Apply(kv, b)
    PROVE  Only(t, {"alloc"}) /\ t[Alloc] = After({VecOf(m) : m \in Records})
<1> DEFINE A  == After({VecOf(m) : m \in Records})
           p1 == Puts(Records, LAMBDA m : Map(VecOf(m)), LAMBDA m : m)
           p2 == Put(Alloc, A)
           p3 == Dels({Map(v) : v \in VecIds})
           q  == p1 ++ p2
<1>1. \A m, n \in Records : VecOf(m) = VecOf(n) => m = n
  <2> SUFFICES ASSUME NEW m \in Records, NEW n \in Records, VecOf(m) = VecOf(n) PROVE m = n
    OBVIOUS
  <2>1. kv[Map(VecOf(m))] = m /\ kv[Map(VecOf(n))] = n
    BY RecordFacts, VecFacts
  <2> QED BY <2>1
<1>2. DOMAIN p1 = {Map(VecOf(m)) : m \in Records} /\ \A m \in Records : p1[Map(VecOf(m))] = m
  <2>1. DOMAIN p1 = {Map(VecOf(m)) : m \in Records}
    BY DEF Puts
  <2>2. ASSUME NEW m \in Records PROVE (CHOOSE x \in Records : Map(VecOf(x)) = Map(VecOf(m))) = m
    BY <1>1, KeyOf
  <2> QED BY <2>1, <2>2 DEF Puts
<1>3. DOMAIN p2 = {Alloc} /\ p2[Alloc] = A
  BY DEF Put
<1>4. DOMAIN p3 = {Map(v) : v \in VecIds} /\ \A k \in DOMAIN p3 : p3[k] = Absent
  BY DEF Dels
<1>5. b = q ++ p3
  OBVIOUS
<1> HIDE DEF p1, p2, p3, A
<1>6. /\ DOMAIN q = DOMAIN p1 \cup DOMAIN p2
      /\ \A k \in DOMAIN p1 : q[k] = p1[k]
      /\ \A k \in DOMAIN p2 : k \notin DOMAIN p1 => q[k] = p2[k]
  BY Together
<1> HIDE DEF q
<1>7. /\ DOMAIN b = DOMAIN q \cup DOMAIN p3
      /\ \A k \in DOMAIN q : b[k] = q[k]
      /\ \A k \in DOMAIN p3 : k \notin DOMAIN q => b[k] = p3[k]
  <2>1. /\ DOMAIN (q ++ p3) = DOMAIN q \cup DOMAIN p3
        /\ \A k \in DOMAIN q : (q ++ p3)[k] = q[k]
        /\ \A k \in DOMAIN p3 : k \notin DOMAIN q => (q ++ p3)[k] = p3[k]
    BY Together
  <2> QED BY <1>5, <2>1
<1>8. \A k \in Keys : /\ k \in DOMAIN b => t[k] = b[k]
                      /\ k \notin DOMAIN b => t[k] = kv[k]
  BY Applied
<1>9. /\ \A k \in DOMAIN p1 : k[1] = "map"
      /\ \A k \in DOMAIN p3 : k[1] = "map"
      /\ Alloc[1] = "alloc" /\ Alloc \in Keys
  BY <1>2, <1>4, Kinds, KeysThere
<1>10. t[Alloc] = A
  BY <1>3, <1>6, <1>7, <1>8, <1>9
<1>11. ASSUME NEW v \in VecIds PROVE t[Map(v)] = kv[Map(v)]
  <2>1. Map(v) \in Keys /\ Map(v) \in DOMAIN p3 /\ Map(v) # Alloc
    BY <1>4, <1>9, KeysThere
  <2>2. CASE \E m \in Records : VecOf(m) = v
    <3>1. PICK m \in Records : VecOf(m) = v
      BY <2>2
    <3>2. kv[Map(v)] = m
      BY <3>1, RecordFacts, VecFacts
    <3>3. Map(v) \in DOMAIN p1 /\ p1[Map(v)] = m
      BY <1>2, <3>1
    <3> QED BY <1>6, <1>7, <1>8, <2>1, <3>2, <3>3
  <2>3. CASE \A m \in Records : VecOf(m) # v
    <3>1. kv[Map(v)] = Absent
      <4> SUFFICES ASSUME kv[Map(v)] # Absent PROVE FALSE
        OBVIOUS
      <4>1. PICK c \in Agents, j \in Ids : kv[Rec(c, j)] # Absent /\ kv[Rec(c, j)].vec = v
        BY DEF Linked
      <4> QED BY <2>3, <4>1, RecordFacts
    <3>2. Map(v) \notin DOMAIN p1
      BY <1>2, <2>3, KeyOf
    <3>3. Map(v) \notin DOMAIN q
      BY <1>3, <1>6, <2>1, <3>2
    <3> QED BY <1>4, <1>7, <1>8, <2>1, <3>1, <3>3
  <2> QED BY <2>2, <2>3
<1>12. ASSUME NEW k \in Keys, k[1] # "alloc" PROVE t[k] = kv[k]
  <2>1. CASE k \in {Map(v) : v \in VecIds}
    BY <1>11, <2>1
  <2>2. CASE k \notin {Map(v) : v \in VecIds}
    <3>1. k \notin DOMAIN p1
      <4>1. \A m \in Records : VecOf(m) \in VecIds
        BY RecordFacts, VecFacts
      <4> QED BY <1>2, <2>2, <4>1
    <3> QED BY <1>3, <1>4, <1>6, <1>7, <1>8, <1>9, <1>12, <2>2, <3>1
  <2> QED BY <2>1, <2>2
<1> QED BY <1>10, <1>12 DEF Only, A

\* It keeps the invariant, but an allocator may now be below a tombstoned node.
LEMMA MappingsKeep ==
    ASSUME Typed(kv), NEW l, Linked(kv, l), NEW r, Documented(kv, r), Listed(kv), NEW t,
           Only(t, {"alloc"}), t[Alloc] = After({VecOf(m) : m \in Records})
    PROVE  Typed(t) /\ Linked(t, l) /\ Documented(t, TRUE) /\ Listed(t) /\ Below(t, t[Alloc], TRUE)
<1>1. /\ \A c \in Agents, j \in Ids : t[Rec(c, j)] = kv[Rec(c, j)]
      /\ \A v \in VecIds : t[Map(v)] = kv[Map(v)] /\ t[Node(v)] = kv[Node(v)]
      /\ \A c \in Agents, v \in VecIds : t[Doc(c, v)] = kv[Doc(c, v)]
      /\ Kept(t)
  BY OnlyFacts
<1>2. Only(t, {"rec", "doc", "stats", "exp", "reg", "alloc"}) /\ Only(t, {"map", "node", "doc", "stats", "alloc"})
  BY DEF Only
<1>3. Linked(t, l) /\ Listed(t)
  BY <1>1, <1>2, LinksKept, OthersKept
<1>4. Documented(t, TRUE)
  BY <1>1 DEF Documented
<1> DEFINE V == {VecOf(m) : m \in Records}
<1>5. V \subseteq VecIds
  BY RecordFacts, VecFacts
<1>6. t[Alloc] \in 0 .. MaxVec + 1 /\ \A v \in V : v < t[Alloc]
  BY <1>5, AfterAbove
<1>7. Typed(t)
  BY <1>1, <1>6 DEF Typed
<1>8. ASSUME NEW v \in VecIds, t[Node(v)] = "live" \/ t[Map(v)] # Absent PROVE v < t[Alloc]
  <2>1. kv[Map(v)] # Absent
    BY <1>1, <1>8 DEF Linked
  <2>2. PICK c \in Agents, j \in Ids : kv[Rec(c, j)] # Absent /\ kv[Rec(c, j)].vec = v
    BY <2>1 DEF Linked
  <2>3. v \in V
    BY <2>2, RecordFacts
  <2> QED BY <1>6, <2>3
<1> QED BY <1>3, <1>4, <1>7, <1>8 DEF Below

\* The documents of t are their agent's.
Mapped(t) == \A c \in Agents, v \in VecIds : t[Doc(c, v)] # Absent => \E j \in Ids : kv[Map(v)] = <<c, j>>

\* A batch that writes documents of mapped vector ids, or none, and statistics.
LEMMA TextKeeps ==
    ASSUME Typed(kv), NEW l, Linked(kv, l), Listed(kv), NEW t, Only(t, {"doc", "stats"}), Mapped(t)
    PROVE  /\ Typed(t) /\ Linked(t, l) /\ Documented(t, TRUE) /\ Listed(t)
           /\ \A n, r : Below(kv, n, r) => Below(t, n, r)
<1>1. /\ Only(t, {"rec", "doc", "stats", "exp", "reg", "alloc"}) /\ Only(t, {"map", "node", "doc", "stats", "alloc"})
      /\ Only(t, {"doc", "stats", "exp", "reg"})
  BY DEF Only
<1>2. Kept(t) /\ \A v \in VecIds : t[Map(v)] = kv[Map(v)]
  BY OnlyFacts
<1>3. Documented(t, TRUE)
  BY <1>2 DEF Documented, Mapped
<1> QED BY <1>1, <1>2, <1>3, LinksKept, OthersKept

\* Clearing the documents.
LEMMA FtsStore ==
    ASSUME NEW t, t = Apply(kv, Dels({Doc(a, v) : a \in Agents, v \in VecIds} \cup {Stats(a) : a \in Agents}))
    PROVE  Only(t, {"doc", "stats"}) /\ \A c \in Agents, v \in VecIds : t[Doc(c, v)] = Absent
<1> DEFINE S == {Doc(a, v) : a \in Agents, v \in VecIds} \cup {Stats(a) : a \in Agents}
           b == Dels(S)
<1>1. DOMAIN b = S /\ \A k \in S : b[k] = Absent
  BY DEF Dels
<1>2. \A k \in S : k[1] \in {"doc", "stats"}
  BY Kinds
<1>3. \A c \in Agents, v \in VecIds : Doc(c, v) \in S /\ Doc(c, v) \in Keys
  BY KeysThere
<1> HIDE DEF S, b
<1>4. \A k \in Keys : /\ k \in DOMAIN b => t[k] = b[k]
                      /\ k \notin DOMAIN b => t[k] = kv[k]
  BY Applied DEF b, S
<1> QED BY <1>1, <1>2, <1>3, <1>4 DEF Only

\* Staging the document of one record.
LEMMA DocStore ==
    ASSUME Typed(kv), NEW l, Linked(kv, l), NEW m \in Records,
           NEW t, t = Apply(kv, StageInsert(m[1], Put(VecOf(m), kv[Rec(m[1], m[2])].terms)))
    PROVE  /\ Only(t, {"doc", "stats"})
           /\ \A c \in Agents, v \in VecIds :
                 /\ t[Doc(c, v)] # Absent => kv[Doc(c, v)] # Absent \/ (c = m[1] /\ v = VecOf(m))
                 /\ kv[Doc(c, v)] # Absent => t[Doc(c, v)] # Absent
           /\ kv[Rec(m[1], m[2])].terms > 0 => t[Doc(m[1], VecOf(m))] # Absent
<1> DEFINE n == kv[Rec(m[1], m[2])].terms
           w == VecOf(m)
           docs == Put(w, n)
           b == StageInsert(m[1], docs)
<1>1. n \in Nat /\ n \in Lengths /\ w \in VecIds /\ m[1] \in Agents
  BY RecordFacts, VecFacts
<1>2. n # Absent
  BY <1>1, Values
<1>3. DOMAIN docs = {w} /\ docs[w] = n
  BY DEF Put
<1> HIDE DEF docs, n, w
<1>4. /\ \A c, v : Doc(c, v) \in DOMAIN b <=> c = m[1] /\ v \in DOMAIN docs /\ docs[v] > 0
      /\ \A v \in DOMAIN docs : docs[v] > 0 => b[Doc(m[1], v)] = docs[v]
  <2>1. \A v \in DOMAIN docs : docs[v] \in Nat
    BY <1>1, <1>3
  <2> QED BY <2>1, StageInsertWrites
<1>5. \A k \in DOMAIN b : k[1] \in {"doc", "stats"}
  BY StagedKeys
<1> HIDE DEF b
<1>6. \A k \in Keys : /\ k \in DOMAIN b => t[k] = b[k]
                      /\ k \notin DOMAIN b => t[k] = kv[k]
  BY Applied DEF b, docs, n, w
<1>7. Only(t, {"doc", "stats"})
  BY <1>5, <1>6 DEF Only
<1>8. ASSUME NEW c \in Agents, NEW v \in VecIds
      PROVE  IF c = m[1] /\ v = w /\ n > 0 THEN t[Doc(c, v)] = n ELSE t[Doc(c, v)] = kv[Doc(c, v)]
  BY <1>3, <1>4, <1>6, KeysThere
<1>9. \A c \in Agents, v \in VecIds :
         /\ t[Doc(c, v)] # Absent => kv[Doc(c, v)] # Absent \/ (c = m[1] /\ v = w)
         /\ kv[Doc(c, v)] # Absent => t[Doc(c, v)] # Absent
  BY <1>2, <1>8
<1>10. n > 0 => t[Doc(m[1], w)] # Absent
  BY <1>1, <1>2, <1>8
<1> QED BY <1>7, <1>9, <1>10 DEF n, w

\* Striking an agent without memories off the registry.
LEMMA RegistryKeeps ==
    ASSUME Typed(kv), NEW l, Linked(kv, l), NEW r, Documented(kv, r), Listed(kv),
           NEW a \in Agents, Memories(a) = {}, NEW t, t = Apply(kv, Dels({Reg(a)}))
    PROVE  /\ Typed(t) /\ Linked(t, l) /\ Documented(t, r) /\ Listed(t)
           /\ t[Alloc] = kv[Alloc]
           /\ \A n, q : Below(kv, n, q) => Below(t, n, q)
<1> DEFINE b == Dels({Reg(a)})
<1>1. DOMAIN b = {Reg(a)}
  BY DEF Dels
<1>2. \A k \in Keys : k \notin DOMAIN b => t[k] = kv[k]
  BY Applied
<1> HIDE DEF b
<1>3. Only(t, {"reg"}) /\ \A c \in Agents : c # a => t[Reg(c)] = kv[Reg(c)]
  <2>1. Reg(a)[1] = "reg"
    BY Kinds
  <2>2. \A c \in Agents : c # a => Reg(c) \in Keys /\ Reg(c) # Reg(a)
    BY KeysThere, KeyOf
  <2> QED BY <1>1, <1>2, <2>1, <2>2 DEF Only
<1>4. /\ Only(t, {"rec", "doc", "stats", "exp", "reg", "alloc"}) /\ Only(t, {"rec", "node", "exp", "reg", "alloc"})
      /\ Only(t, {"doc", "stats", "exp", "reg"})
  BY <1>3 DEF Only
<1>5. /\ \A c \in Agents, j \in Ids : t[Rec(c, j)] = kv[Rec(c, j)]
      /\ \A c \in Agents, u \in Times, j \in Ids : t[Exp(c, u, j)] = kv[Exp(c, u, j)]
      /\ \A c \in Agents, v \in VecIds : t[Doc(c, v)] = kv[Doc(c, v)] /\ t[Map(v)] = kv[Map(v)]
      /\ t[Alloc] = kv[Alloc] /\ Kept(t)
  BY <1>3, OnlyFacts
<1>6. \A j \in Ids : kv[Rec(a, j)] = Absent
  BY DEF Memories
<1>7. Listed(t)
  BY <1>3, <1>5, <1>6 DEF Listed
<1>8. Linked(t, l) /\ \A n, q : Below(kv, n, q) => Below(t, n, q)
  BY <1>4, <1>5, LinksKept
<1>9. Typed(t)
  BY <1>4, OthersKept
<1>10. Documented(t, r)
  <2>1. ASSUME NEW c \in Agents, NEW v \in VecIds, t[Doc(c, v)] # Absent
        PROVE  \E j \in Ids : t[Map(v)] = <<c, j>>
    <3>1. t[Doc(c, v)] = kv[Doc(c, v)] /\ t[Map(v)] = kv[Map(v)]
      BY <1>5
    <3>2. \E j \in Ids : kv[Map(v)] = <<c, j>>
      BY <2>1, <3>1 DEF Documented
    <3> QED BY <3>1, <3>2
  <2>2. ASSUME ~r, NEW c \in Agents, NEW j \in Ids, t[Rec(c, j)] # Absent, t[Rec(c, j)].terms > 0
        PROVE  t[Doc(c, t[Rec(c, j)].vec)] # Absent
    <3>1. t[Rec(c, j)] = kv[Rec(c, j)] /\ kv[Rec(c, j)].vec \in VecIds
      BY <1>5, <2>2, VecFacts
    <3>2. kv[Doc(c, kv[Rec(c, j)].vec)] # Absent
      BY <2>2, <3>1 DEF Documented
    <3> QED BY <1>5, <3>1, <3>2
  <2> QED BY <2>1, <2>2 DEF Documented
<1> QED BY <1>5, <1>7, <1>8, <1>9, <1>10

-----------------------------------------------------------------------------
(* Each step keeps it. *)

\* What committing and failing do, where a batch that fails has written nothing.
LEMMA Outcomes ==
    ASSUME disk = kv, Faults \subseteq {"rejected"}, NEW b
    PROVE  /\ Commits(b) => kv' = Apply(kv, b) /\ disk' = kv' /\ DOMAIN kv' = Keys
           /\ Fails(b) => kv' = kv /\ disk' = disk
<1>1. DOMAIN Apply(kv, b) = Keys
  BY DEF Apply
<1> QED BY <1>1 DEF Commits, Fails

\* The invariant in the next state, put together.
LEMMA Assembled ==
    ASSUME disk' = kv', DOMAIN kv' = Keys, Typed(kv'), Linked(kv', lost'), Documented(kv', repairing'),
           Listed(kv'), Calls', Numbered'
    PROVE  IndexInv'
BY DEF IndexInv

\* Where the allocator stays and no vector id goes higher.
LEMMA NumberedKept ==
    ASSUME Numbered, kv'[Alloc] = kv[Alloc], repairing' = repairing,
           \A n : Below(kv, n, repairing) => Below(kv', n, repairing),
           pc' \in {"idle", "forget", "purge"} => pc \in {"idle", "forget", "purge"} /\ next' = next
    PROVE  Numbered'
<1>1. kv'[Alloc] \notin {Absent, Corrupt} => Below(kv', kv'[Alloc], repairing')
  BY DEF Numbered
<1>2. pc' \in {"idle", "forget", "purge"} => next' \in 0 .. MaxVec + 1 /\ Below(kv', next', repairing')
  BY DEF Numbered
<1> QED BY <1>1, <1>2 DEF Numbered

\* It holds of the empty store,
LEMMA IndexInit == Init => IndexInv
<1> SUFFICES ASSUME Init PROVE IndexInv
  OBVIOUS
<1>1. /\ disk = kv /\ DOMAIN kv = Keys /\ \A k \in Keys : kv[k] = Absent
      /\ pc = "closed" /\ who = Nobody
  BY DEF Init
<1>2. /\ \A a \in Agents, i \in Ids : kv[Rec(a, i)] = Absent
      /\ \A v \in VecIds : kv[Map(v)] = Absent /\ kv[Node(v)] = Absent
      /\ \A a \in Agents, v \in VecIds : kv[Doc(a, v)] = Absent
      /\ \A a \in Agents, t \in Times, i \in Ids : kv[Exp(a, t, i)] = Absent
      /\ kv[Alloc] = Absent
  BY <1>1, KeysThere
<1>3. Typed(kv)
  BY <1>2 DEF Typed
<1>4. Linked(kv, lost)
  BY <1>2, Values DEF Linked
<1>5. Documented(kv, repairing) /\ Listed(kv)
  BY <1>2 DEF Documented, Listed
<1>6. Calls /\ Numbered
  BY <1>1, <1>2 DEF Calls, Numbered
<1> QED BY <1>1, <1>3, <1>4, <1>5, <1>6 DEF IndexInv

\* is kept by a put,
LEMMA PutManyStep ==
    ASSUME Faults \subseteq {"rejected"}, IndexInv, NEW a \in Agents, NEW s \in Groups, PutMany(a, s)
    PROVE  IndexInv'
<1> DEFINE b == PutBatch(a, s)
<1>0. /\ disk = kv /\ DOMAIN kv = Keys /\ Typed(kv) /\ Linked(kv, lost) /\ Documented(kv, repairing) /\ Listed(kv)
      /\ Calls /\ Numbered
  BY DEF IndexInv
<1>1. /\ pc = "idle" /\ next + Len(s) <= MaxVec + 1 /\ \A n \in DOMAIN s : s[n].id \notin Memories(a)
      /\ \/ /\ Commits(b) /\ next' = next + Len(s)
            /\ lost' = lost \ {next + n - 1 : n \in DOMAIN s}
         \/ Fails(b) /\ UNCHANGED <<next, lost>>
      /\ UNCHANGED <<pc, who, todo, repairing>>
  BY DEF PutMany
<1>2. next \in 0 .. MaxVec + 1 /\ next \in Nat /\ Below(kv, next, repairing) /\ who = Nobody
  BY <1>0, <1>1, MemoryIndexAssumption DEF Numbered, Calls
<1>3. Calls'
  BY <1>1, <1>2 DEF Calls
<1>4. CASE /\ Commits(b) /\ next' = next + Len(s)
           /\ lost' = lost \ {next + n - 1 : n \in DOMAIN s}
  <2>1. kv' = Apply(kv, b) /\ disk' = kv' /\ DOMAIN kv' = Keys
    BY <1>0, <1>4, Outcomes
  <2>2. /\ Typed(kv') /\ Linked(kv', lost \ {next + n - 1 : n \in DOMAIN s})
        /\ Documented(kv', repairing) /\ Listed(kv')
        /\ Below(kv', next + Len(s), repairing) /\ kv'[Alloc] = next + Len(s)
    BY <1>0, <1>1, <1>2, <2>1, PutKeeps
  <2>3. next' \in 0 .. MaxVec + 1
    BY <1>1, <1>2, <1>4, GroupFacts, MemoryIndexAssumption
  <2>4. Numbered'
    BY <1>1, <1>4, <2>2, <2>3 DEF Numbered
  <2> QED BY <1>1, <1>3, <1>4, <2>1, <2>2, <2>4, Assembled
<1>5. CASE Fails(b) /\ UNCHANGED <<next, lost>>
  <2>1. kv' = kv /\ disk' = disk
    BY <1>0, <1>5, Outcomes
  <2> QED BY <1>0, <1>1, <1>3, <1>5, <2>1 DEF IndexInv, Numbered
<1> QED BY <1>1, <1>4, <1>5

\* an update,
LEMMA UpdateStep ==
    ASSUME Faults \subseteq {"rejected"}, IndexInv,
           NEW a \in Agents, NEW i \in Ids, NEW until \in Times \cup {Never}, Update(a, i, until)
    PROVE  IndexInv'
<1> DEFINE b == UpdateBatch(a, i, until)
<1>0. /\ disk = kv /\ DOMAIN kv = Keys /\ Typed(kv) /\ Linked(kv, lost) /\ Documented(kv, repairing) /\ Listed(kv)
      /\ Calls /\ Numbered
  BY DEF IndexInv
<1>1. pc = "idle" /\ i \in Memories(a) /\ UNCHANGED <<next, pc, who, todo, repairing, lost>>
      /\ (Commits(b) \/ Fails(b))
  BY DEF Update
<1>2. Calls'
  BY <1>0, <1>1 DEF Calls
<1>3. CASE Commits(b)
  <2>1. kv' = Apply(kv, b) /\ disk' = kv' /\ DOMAIN kv' = Keys
    BY <1>0, <1>3, Outcomes
  <2>2. /\ Typed(kv') /\ Linked(kv', lost) /\ Documented(kv', repairing) /\ Listed(kv')
        /\ kv'[Alloc] = kv[Alloc]
        /\ \A n : Below(kv, n, repairing) => Below(kv', n, repairing)
    BY <1>0, <1>1, <2>1, UpdateKeeps
  <2>3. Numbered'
    BY <1>0, <1>1, <2>2, NumberedKept
  <2> QED BY <1>1, <1>2, <2>1, <2>2, <2>3, Assembled
<1>4. CASE Fails(b)
  <2>1. kv' = kv /\ disk' = disk
    BY <1>0, <1>4, Outcomes
  <2> QED BY <1>0, <1>1, <1>2, <2>1 DEF IndexInv, Numbered
<1> QED BY <1>1, <1>3, <1>4

\* The invariant where the store stays as it is.
LEMMA StoreStays ==
    ASSUME IndexInv, kv' = kv, disk' = disk, UNCHANGED <<repairing, lost>>, Calls',
           pc' \in {"idle", "forget", "purge"} => pc \in {"idle", "forget", "purge"} /\ next' = next
    PROVE  IndexInv'
BY DEF IndexInv, Numbered

\* the beginning of a forgetting or of a purge,
LEMMA StartStep ==
    ASSUME IndexInv, NEW a \in Agents,
           StartPurge(a) \/ \E I \in SUBSET Ids : StartForget(a, I)
    PROVE  IndexInv'
<1>1. /\ pc = "idle" /\ UNCHANGED <<kv, disk, next, repairing, lost>>
      /\ pc' \in {"forget", "purge"} /\ who' = a /\ todo' \subseteq Memories(a)
      /\ pc' = "purge" => Memories(a) \subseteq todo'
  BY DEF StartPurge, StartForget
<1>2. Calls'
  BY <1>1 DEF Calls, Memories
<1> QED BY <1>1, <1>2, StoreStays

\* a chunk of a forgetting,
LEMMA ForgetChunkStep ==
    ASSUME Faults \subseteq {"rejected"}, IndexInv, ForgetChunk
    PROVE  IndexInv'
<1>0. /\ disk = kv /\ DOMAIN kv = Keys /\ Typed(kv) /\ Linked(kv, lost) /\ Documented(kv, repairing) /\ Listed(kv)
      /\ Calls /\ Numbered
  BY DEF IndexInv
<1>1. pc = "forget" /\ UNCHANGED <<next, repairing, lost>> /\ who \in Agents /\ todo \subseteq Memories(who)
  BY <1>0 DEF ForgetChunk, Calls
<1>2. PICK I \in SUBSET todo :
         \/ /\ Commits(ForgetBatch(who, I))
            /\ IF I = todo THEN Returns
               ELSE todo' = todo \ I /\ UNCHANGED <<pc, who>>
         \/ Fails(ForgetBatch(who, I)) /\ Returns
  BY DEF ForgetChunk
<1>3. CASE Commits(ForgetBatch(who, I)) /\ IF I = todo THEN Returns ELSE todo' = todo \ I /\ UNCHANGED <<pc, who>>
  <2>1. kv' = Apply(kv, ForgetBatch(who, I)) /\ disk' = kv' /\ DOMAIN kv' = Keys
    BY <1>0, <1>3, Outcomes
  <2>2. /\ Typed(kv') /\ Linked(kv', lost) /\ Documented(kv', repairing) /\ Listed(kv')
        /\ kv'[Alloc] = kv[Alloc]
        /\ \A n : Below(kv, n, repairing) => Below(kv', n, repairing)
        /\ \A c \in Agents, j \in Ids :
              kv'[Rec(c, j)] = IF c = who /\ j \in I THEN Absent ELSE kv[Rec(c, j)]
    BY <1>0, <1>1, <2>1, ForgetKeeps
  <2>3. Calls'
    <3>1. CASE I = todo
      BY <1>3, <3>1 DEF Calls, Returns
    <3>2. CASE I # todo
      <4>1. todo' = todo \ I /\ pc' = "forget" /\ who' = who
        BY <1>1, <1>3, <3>2
      <4>2. \A i \in todo' : i \in Ids /\ kv'[Rec(who, i)] # Absent
        BY <1>1, <2>2, <4>1 DEF Memories
      <4> QED BY <1>1, <4>1, <4>2 DEF Calls, Memories
    <3> QED BY <3>1, <3>2
  <2>4. pc' \in {"forget", "idle"}
    BY <1>1, <1>3 DEF Returns
  <2>5. Numbered'
    BY <1>0, <1>1, <2>2, <2>4, NumberedKept
  <2> QED BY <1>1, <2>1, <2>2, <2>3, <2>5, Assembled
<1>4. CASE Fails(ForgetBatch(who, I)) /\ Returns
  <2>1. kv' = kv /\ disk' = disk
    BY <1>0, <1>4, Outcomes
  <2>2. Calls' /\ pc' = "idle"
    BY <1>4 DEF Calls, Returns
  <2> QED BY <1>1, <2>1, <2>2, StoreStays
<1> QED BY <1>2, <1>3, <1>4

\* one memory of a purge,
LEMMA PurgeOneStep ==
    ASSUME Faults \subseteq {"rejected"}, IndexInv, PurgeOne
    PROVE  IndexInv'
<1>0. /\ disk = kv /\ DOMAIN kv = Keys /\ Typed(kv) /\ Linked(kv, lost) /\ Documented(kv, repairing) /\ Listed(kv)
      /\ Calls /\ Numbered
  BY DEF IndexInv
<1>1. /\ pc = "purge" /\ UNCHANGED <<next, repairing, lost>>
      /\ who \in Agents /\ todo \subseteq Memories(who) /\ Memories(who) \subseteq todo
  BY <1>0 DEF PurgeOne, Calls
<1>2. PICK i \in todo :
         \/ /\ Commits(ForgetBatch(who, {i}))
            /\ todo' = todo \ {i} /\ UNCHANGED <<pc, who>>
         \/ Fails(ForgetBatch(who, {i})) /\ Returns
  BY DEF PurgeOne
<1>3. CASE Commits(ForgetBatch(who, {i})) /\ todo' = todo \ {i} /\ UNCHANGED <<pc, who>>
  <2> DEFINE I == {i}
  <2>0. I \in SUBSET Memories(who)
    BY <1>1
  <2>1. kv' = Apply(kv, ForgetBatch(who, I)) /\ disk' = kv' /\ DOMAIN kv' = Keys
    BY <1>0, <1>3, Outcomes
  <2> HIDE DEF I
  <2>2. /\ Typed(kv') /\ Linked(kv', lost) /\ Documented(kv', repairing) /\ Listed(kv')
        /\ kv'[Alloc] = kv[Alloc]
        /\ \A n : Below(kv, n, repairing) => Below(kv', n, repairing)
        /\ \A c \in Agents, j \in Ids :
              kv'[Rec(c, j)] = IF c = who /\ j \in I THEN Absent ELSE kv[Rec(c, j)]
    BY <1>0, <1>1, <2>0, <2>1, ForgetKeeps
  <2>3. Calls'
    <3>1. \A j \in Ids : kv'[Rec(who, j)] # Absent <=> kv[Rec(who, j)] # Absent /\ j # i
      BY <1>1, <2>2 DEF I
    <3>2. todo' = {j \in Ids : kv'[Rec(who, j)] # Absent}
      BY <1>1, <1>3, <3>1 DEF Memories
    <3> QED BY <1>1, <1>3, <3>2 DEF Calls, Memories
  <2>4. Numbered'
    BY <1>0, <1>1, <1>3, <2>2, NumberedKept
  <2> QED BY <1>1, <2>1, <2>2, <2>3, <2>4, Assembled
<1>4. CASE Fails(ForgetBatch(who, {i})) /\ Returns
  <2>1. kv' = kv /\ disk' = disk
    BY <1>0, <1>4, Outcomes
  <2>2. Calls' /\ pc' = "idle"
    BY <1>4 DEF Calls, Returns
  <2> QED BY <1>1, <2>1, <2>2, StoreStays
<1> QED BY <1>2, <1>3, <1>4

\* and its end,
LEMMA PurgeRegistryStep ==
    ASSUME Faults \subseteq {"rejected"}, IndexInv, PurgeRegistry
    PROVE  IndexInv'
<1>0. /\ disk = kv /\ DOMAIN kv = Keys /\ Typed(kv) /\ Linked(kv, lost) /\ Documented(kv, repairing) /\ Listed(kv)
      /\ Calls /\ Numbered
  BY DEF IndexInv
<1>1. /\ pc = "purge" /\ UNCHANGED <<next, repairing, lost>> /\ Returns
      /\ who \in Agents /\ Memories(who) = {}
      /\ (Commits(Dels({Reg(who)})) \/ Fails(Dels({Reg(who)})))
  BY <1>0 DEF PurgeRegistry, Calls
<1>2. Calls' /\ pc' = "idle"
  BY <1>1 DEF Calls, Returns
<1>3. CASE Commits(Dels({Reg(who)}))
  <2>1. kv' = Apply(kv, Dels({Reg(who)})) /\ disk' = kv' /\ DOMAIN kv' = Keys
    BY <1>0, <1>3, Outcomes
  <2>2. /\ Typed(kv') /\ Linked(kv', lost) /\ Documented(kv', repairing) /\ Listed(kv')
        /\ kv'[Alloc] = kv[Alloc]
        /\ \A n, q : Below(kv, n, q) => Below(kv', n, q)
    BY <1>0, <1>1, <2>1, RegistryKeeps
  <2>3. Numbered'
    BY <1>0, <1>1, <1>2, <2>2, NumberedKept
  <2> QED BY <1>1, <1>2, <2>1, <2>2, <2>3, Assembled
<1>4. CASE Fails(Dels({Reg(who)}))
  <2>1. kv' = kv /\ disk' = disk
    BY <1>0, <1>4, Outcomes
  <2> QED BY <1>1, <1>2, <2>1, StoreStays
<1> QED BY <1>1, <1>3, <1>4

\* Writing vector nodes: x to those of V.
Writes(b, V, x) == DOMAIN b = {Node(v) : v \in V} /\ \A k \in DOMAIN b : b[k] = x
NodesAre(t, V, x) == \A v \in VecIds : t[Node(v)] = IF v \in V THEN x ELSE kv[Node(v)]

\* What such a batch leaves.
LEMMA NodesStore ==
    ASSUME NEW b, NEW V, NEW x, Writes(b, V, x), NEW t, t = Apply(kv, b)
    PROVE  Only(t, {"node"}) /\ NodesAre(t, V, x)
<1> USE DEF Writes, NodesAre
<1>1. \A k \in Keys : /\ k \in DOMAIN b => t[k] = b[k]
                      /\ k \notin DOMAIN b => t[k] = kv[k]
  BY Applied
<1>2. \A k \in DOMAIN b : k[1] = "node"
  BY Kinds
<1>3. \A v \in VecIds : Node(v) \in Keys /\ (Node(v) \in DOMAIN b <=> v \in V)
  BY KeyOf, KeysThere
<1> QED BY <1>1, <1>2, <1>3 DEF Only

\* the removal of tombstoned nodes,
LEMMA ConsolidateStep ==
    ASSUME Faults \subseteq {"rejected"}, IndexInv, Consolidate
    PROVE  IndexInv'
<1>0. /\ disk = kv /\ DOMAIN kv = Keys /\ Typed(kv) /\ Linked(kv, lost) /\ Documented(kv, repairing) /\ Listed(kv)
      /\ Calls /\ Numbered
  BY DEF IndexInv
<1>1. pc = "idle" /\ UNCHANGED <<next, pc, who, todo, repairing, lost>>
  BY DEF Consolidate
<1>2. PICK V \in SUBSET Dead : Commits(Dels({Node(v) : v \in V}))
  BY DEF Consolidate
<1>3. kv' = Apply(kv, Dels({Node(v) : v \in V})) /\ disk' = kv' /\ DOMAIN kv' = Keys
  BY <1>0, <1>2, Outcomes
<1>4. Only(kv', {"node"}) /\ \A v \in VecIds : kv'[Node(v)] = IF v \in V THEN Absent ELSE kv[Node(v)]
  <2>1. Writes(Dels({Node(v) : v \in V}), V, Absent)
    BY DEF Dels, Writes
  <2>2. Only(kv', {"node"}) /\ NodesAre(kv', V, Absent)
    BY <1>3, <2>1, NodesStore
  <2> QED BY <2>2 DEF NodesAre
<1>5. \A v \in V : kv[Node(v)] = "dead"
  BY DEF Dead
<1>6. \A v \in VecIds : /\ kv'[Node(v)] \in {"live", "dead", Absent}
                        /\ kv'[Node(v)] = "live" => kv[Map(v)] # Absent
                        /\ kv[Map(v)] # Absent => kv'[Node(v)] = "live" \/ v \in lost
  <2> TAKE v \in VecIds
  <2>1. kv[Node(v)] \in {"live", "dead", Absent} /\ (kv[Node(v)] = "live" => kv[Map(v)] # Absent)
    BY <1>0 DEF Typed, Linked
  <2>2. kv[Map(v)] # Absent => kv[Node(v)] = "live" \/ v \in lost
    BY <1>0 DEF Linked
  <2>3. Absent # "live"
    BY Values
  <2> QED BY <1>4, <1>5, <2>1, <2>2, <2>3
<1>7. \A v \in VecIds : kv'[Node(v)] # Absent => kv[Node(v)] # Absent \/ kv[Map(v)] # Absent
  BY <1>4
<1>8. /\ Typed(kv') /\ Linked(kv', lost) /\ Documented(kv', repairing) /\ Listed(kv')
      /\ kv'[Alloc] = kv[Alloc] /\ \A n, q : Below(kv, n, q) => Below(kv', n, q)
  BY <1>0, <1>4, <1>6, <1>7, NodesKeep
<1>9. Calls'
  BY <1>0, <1>1 DEF Calls
<1>10. Numbered'
  BY <1>0, <1>1, <1>8, NumberedKept
<1> QED BY <1>1, <1>3, <1>8, <1>9, <1>10, Assembled

\* closing and dying,
LEMMA StopStep ==
    ASSUME IndexInv, Stop
    PROVE  IndexInv'
<1>1. kv' = kv /\ disk' = disk /\ pc' = "closed" /\ who' = Nobody /\ UNCHANGED <<repairing, lost>>
  BY DEF Stop, IndexInv
<1>2. Calls'
  BY <1>1 DEF Calls
<1> QED BY <1>1, <1>2, StoreStays

\* the loss of the allocator record,
LEMMA RotStep ==
    ASSUME IndexInv, Rot
    PROVE  IndexInv'
<1>0. /\ disk = kv /\ DOMAIN kv = Keys /\ Typed(kv) /\ Linked(kv, lost) /\ Documented(kv, repairing) /\ Listed(kv)
      /\ Calls /\ Numbered
  BY DEF IndexInv
<1>1. /\ pc = "closed" /\ kv' = [kv EXCEPT ![Alloc] = Corrupt] /\ disk' = kv'
      /\ UNCHANGED <<next, pc, who, todo, repairing, lost>>
  BY DEF Rot
<1>2. /\ DOMAIN kv' = Keys /\ kv'[Alloc] = Corrupt /\ Only(kv', {"alloc"})
      /\ Only(kv', {"rec", "doc", "stats", "exp", "reg", "alloc"}) /\ Only(kv', {"rec", "node", "exp", "reg", "alloc"})
      /\ Only(kv', {"map", "node", "doc", "stats", "alloc"})
  <2>1. Alloc \in Keys /\ Alloc[1] = "alloc"
    BY KeysThere, Kinds
  <2>2. DOMAIN kv' = Keys /\ kv'[Alloc] = Corrupt /\ \A k \in Keys : k # Alloc => kv'[k] = kv[k]
    BY <1>0, <1>1, <2>1
  <2> QED BY <2>1, <2>2 DEF Only
<1>3. /\ \A c \in Agents, j \in Ids : kv'[Rec(c, j)] = kv[Rec(c, j)]
      /\ \A v \in VecIds : kv'[Map(v)] = kv[Map(v)] /\ kv'[Node(v)] = kv[Node(v)]
      /\ Kept(kv')
  BY <1>2, OnlyFacts
<1>4. Linked(kv', lost) /\ Documented(kv', repairing) /\ Listed(kv')
  BY <1>0, <1>2, <1>3, LinksKept, DocumentsKept, OthersKept
<1>5. Typed(kv')
  BY <1>0, <1>2, <1>3 DEF Typed
<1>6. Calls'
  BY <1>0, <1>1 DEF Calls
<1>7. Numbered'
  BY <1>1, <1>2 DEF Numbered
<1> QED BY <1>1, <1>2, <1>4, <1>5, <1>6, <1>7, Assembled

\* opening,
LEMMA OpenStep ==
    ASSUME IndexInv, Open
    PROVE  IndexInv'
<1>0. disk = kv /\ Typed(kv) /\ Calls /\ Numbered
  BY DEF IndexInv
<1>1. /\ pc = "closed" /\ pc' = "idle" /\ UNCHANGED <<kv, disk, who, todo, repairing, lost>>
      /\ next' = IF kv[Alloc] \in {Absent, Corrupt} THEN After(Used(kv)) ELSE kv[Alloc]
  BY DEF Open
<1>2. Calls'
  BY <1>0, <1>1 DEF Calls
<1>3. next' \in 0 .. MaxVec + 1 /\ Below(kv, next', repairing)
  <2>1. CASE kv[Alloc] \in {Absent, Corrupt}
    <3>1. Used(kv) \subseteq VecIds
      BY DEF Used
    <3>2. next' \in 0 .. MaxVec + 1 /\ \A v \in Used(kv) : v < next'
      BY <1>1, <2>1, <3>1, AfterAbove
    <3>3. \A v \in VecIds : kv[Node(v)] = "live" \/ kv[Map(v)] # Absent \/ kv[Node(v)] # Absent => v \in Used(kv)
      BY Values DEF Used
    <3> QED BY <3>2, <3>3 DEF Below
  <2>2. CASE kv[Alloc] \notin {Absent, Corrupt}
    BY <1>0, <1>1, <2>2 DEF Typed, Numbered
  <2> QED BY <2>1, <2>2
<1>4. Numbered'
  BY <1>0, <1>1, <1>3 DEF Numbered
<1> QED BY <1>1, <1>2, <1>4 DEF IndexInv

\* the steps of rebuild_indexes,
LEMMA RepairMappingsStep ==
    ASSUME Faults \subseteq {"rejected"}, IndexInv, RepairMappings
    PROVE  IndexInv'
<1> DEFINE b == Puts(Records, LAMBDA m : Map(VecOf(m)), LAMBDA m : m)
                ++ Put(Alloc, After({VecOf(m) : m \in Records}))
                ++ Dels({Map(v) : v \in VecIds})
<1>0. /\ disk = kv /\ DOMAIN kv = Keys /\ Typed(kv) /\ Linked(kv, lost) /\ Documented(kv, repairing) /\ Listed(kv)
      /\ Calls /\ Numbered
  BY DEF IndexInv
<1>1. /\ pc = "closed" /\ UNCHANGED <<next, who, todo, lost>>
      /\ \/ Commits(b) /\ pc' = "fts" /\ repairing' = TRUE
         \/ Fails(b) /\ UNCHANGED <<pc, repairing>>
  BY DEF RepairMappings
<1>2. CASE Commits(b) /\ pc' = "fts" /\ repairing' = TRUE
  <2>1. kv' = Apply(kv, b) /\ disk' = kv' /\ DOMAIN kv' = Keys
    BY <1>0, <1>2, Outcomes
  <2>2. Only(kv', {"alloc"}) /\ kv'[Alloc] = After({VecOf(m) : m \in Records})
    BY <1>0, <2>1, MappingsStore
  <2>3. Typed(kv') /\ Linked(kv', lost) /\ Documented(kv', TRUE) /\ Listed(kv') /\ Below(kv', kv'[Alloc], TRUE)
    BY <1>0, <2>2, MappingsKeep
  <2>4. Calls'
    BY <1>0, <1>1, <1>2 DEF Calls
  <2>5. Numbered'
    BY <1>2, <2>3 DEF Numbered
  <2> QED BY <1>1, <1>2, <2>1, <2>3, <2>4, <2>5, Assembled
<1>3. CASE Fails(b) /\ UNCHANGED <<pc, repairing>>
  <2>1. kv' = kv /\ disk' = disk
    BY <1>0, <1>3, Outcomes
  <2>2. Calls'
    BY <1>0, <1>1, <1>3 DEF Calls
  <2> QED BY <1>1, <1>3, <2>1, <2>2, StoreStays
<1> QED BY <1>1, <1>2, <1>3

\* (the text index goes,
LEMMA RepairFtsStep ==
    ASSUME Faults \subseteq {"rejected"}, IndexInv, RepairFts
    PROVE  IndexInv'
<1> DEFINE b == Dels({Doc(a, v) : a \in Agents, v \in VecIds} \cup {Stats(a) : a \in Agents})
<1>0. /\ disk = kv /\ DOMAIN kv = Keys /\ Typed(kv) /\ Linked(kv, lost) /\ Documented(kv, repairing) /\ Listed(kv)
      /\ Calls /\ Numbered
  BY DEF IndexInv
<1>1. /\ pc = "fts" /\ UNCHANGED <<next, who, repairing, lost>> /\ who = Nobody /\ repairing
      /\ \/ Commits(b) /\ pc' = "docs" /\ todo' = Records
         \/ Fails(b) /\ pc' = "closed" /\ UNCHANGED todo
  BY <1>0 DEF RepairFts, Calls
<1>2. CASE Commits(b) /\ pc' = "docs" /\ todo' = Records
  <2>1. kv' = Apply(kv, b) /\ disk' = kv' /\ DOMAIN kv' = Keys
    BY <1>0, <1>2, Outcomes
  <2>2. Only(kv', {"doc", "stats"}) /\ \A c \in Agents, v \in VecIds : kv'[Doc(c, v)] = Absent
    BY <2>1, FtsStore
  <2>3. /\ Typed(kv') /\ Linked(kv', lost) /\ Documented(kv', TRUE) /\ Listed(kv')
        /\ kv'[Alloc] = kv[Alloc] /\ \A n, r : Below(kv, n, r) => Below(kv', n, r)
    <3>1. Mapped(kv')
      BY <2>2 DEF Mapped
    <3>2. Only(kv', {"doc", "stats"})
      BY <2>2
    <3>3. kv'[Alloc] = kv[Alloc]
      BY <3>2, OnlyFacts
    <3>4. /\ Typed(kv') /\ Linked(kv', lost) /\ Documented(kv', TRUE) /\ Listed(kv')
          /\ \A n, r : Below(kv, n, r) => Below(kv', n, r)
      BY <1>0, <3>1, <3>2, TextKeeps
    <3> QED BY <3>3, <3>4
  <2>4. \A c \in Agents, j \in Ids : kv'[Rec(c, j)] = kv[Rec(c, j)]
    BY <2>2, OnlyFacts
  <2>5. todo' = Records'
    BY <1>2, <2>4 DEF Records, Memories
  <2>6. \A c \in Agents, j \in Ids : kv'[Rec(c, j)] # Absent => <<c, j>> \in todo'
    BY <1>2, <2>4, RecordFacts
  <2>7. Calls'
    BY <1>1, <1>2, <2>5, <2>6 DEF Calls
  <2>8. Numbered'
    BY <1>0, <1>1, <1>2, <2>3, NumberedKept
  <2>9. Documented(kv', repairing')
    BY <1>1, <2>3 DEF Documented
  <2> QED BY <1>1, <2>1, <2>3, <2>7, <2>8, <2>9, Assembled
<1>3. CASE Fails(b) /\ pc' = "closed" /\ UNCHANGED todo
  <2>1. kv' = kv /\ disk' = disk
    BY <1>0, <1>3, Outcomes
  <2>2. Calls'
    BY <1>1, <1>3 DEF Calls
  <2> QED BY <1>1, <1>3, <2>1, <2>2, StoreStays
<1> QED BY <1>1, <1>2, <1>3

\* comes back one record after the other,
LEMMA RepairDocStep ==
    ASSUME Faults \subseteq {"rejected"}, IndexInv, RepairDoc
    PROVE  IndexInv'
<1>0. /\ disk = kv /\ DOMAIN kv = Keys /\ Typed(kv) /\ Linked(kv, lost) /\ Documented(kv, repairing) /\ Listed(kv)
      /\ Calls /\ Numbered
  BY DEF IndexInv
<1>1. /\ pc = "docs" /\ UNCHANGED <<next, who, repairing, lost>> /\ who = Nobody /\ repairing
      /\ todo \subseteq Records
  BY <1>0 DEF RepairDoc, Calls
<1>2. PICK m \in todo :
         LET b == StageInsert(m[1], Put(VecOf(m), kv[Rec(m[1], m[2])].terms))
         IN \/ Commits(b) /\ todo' = todo \ {m} /\ UNCHANGED pc
            \/ Fails(b) /\ todo' = {} /\ pc' = "closed"
  BY DEF RepairDoc
<1> DEFINE b == StageInsert(m[1], Put(VecOf(m), kv[Rec(m[1], m[2])].terms))
<1>3. m \in Records
  BY <1>1
<1>4. CASE Commits(b) /\ todo' = todo \ {m} /\ UNCHANGED pc
  <2>1. kv' = Apply(kv, b) /\ disk' = kv' /\ DOMAIN kv' = Keys
    BY <1>0, <1>4, Outcomes
  <2>2. /\ Only(kv', {"doc", "stats"})
        /\ \A c \in Agents, v \in VecIds :
              /\ kv'[Doc(c, v)] # Absent => kv[Doc(c, v)] # Absent \/ (c = m[1] /\ v = VecOf(m))
              /\ kv[Doc(c, v)] # Absent => kv'[Doc(c, v)] # Absent
        /\ kv[Rec(m[1], m[2])].terms > 0 => kv'[Doc(m[1], VecOf(m))] # Absent
    BY <1>0, <1>3, <2>1, DocStore
  <2>3. Mapped(kv')
    <3>1. m[2] \in Ids /\ kv[Map(VecOf(m))] = <<m[1], m[2]>>
      BY <1>0, <1>3, RecordFacts, VecFacts
    <3>2. \A c \in Agents, v \in VecIds : kv[Doc(c, v)] # Absent => \E j \in Ids : kv[Map(v)] = <<c, j>>
      BY <1>0 DEF Documented
    <3> QED BY <2>2, <3>1, <3>2 DEF Mapped
  <2>4. /\ Typed(kv') /\ Linked(kv', lost) /\ Documented(kv', TRUE) /\ Listed(kv')
        /\ kv'[Alloc] = kv[Alloc] /\ \A n, r : Below(kv, n, r) => Below(kv', n, r)
    <3>2. Only(kv', {"doc", "stats"})
      BY <2>2
    <3>3. kv'[Alloc] = kv[Alloc]
      BY <3>2, OnlyFacts
    <3>4. /\ Typed(kv') /\ Linked(kv', lost) /\ Documented(kv', TRUE) /\ Listed(kv')
          /\ \A n, r : Below(kv, n, r) => Below(kv', n, r)
      BY <1>0, <2>3, <3>2, TextKeeps
    <3> QED BY <3>3, <3>4
  <2>5. \A c \in Agents, j \in Ids : kv'[Rec(c, j)] = kv[Rec(c, j)]
    BY <2>2, OnlyFacts
  <2>6. Records' = Records
    BY <2>5 DEF Records, Memories
  <2>7. ASSUME NEW c \in Agents, NEW j \in Ids, kv'[Rec(c, j)] # Absent, kv'[Rec(c, j)].terms > 0
        PROVE  kv'[Doc(c, kv'[Rec(c, j)].vec)] # Absent \/ <<c, j>> \in todo'
    <3>1. kv'[Rec(c, j)] = kv[Rec(c, j)] /\ kv[Rec(c, j)].vec \in VecIds
      BY <1>0, <2>5, <2>7, VecFacts
    <3>2. kv[Doc(c, kv[Rec(c, j)].vec)] # Absent \/ <<c, j>> \in todo
      BY <1>0, <1>1, <2>7, <3>1 DEF Calls
    <3>3. CASE <<c, j>> = m
      <4>1. m[1] = c /\ m[2] = j /\ VecOf(m) = kv[Rec(c, j)].vec
        BY <3>3, RecordFacts
      <4> QED BY <2>2, <2>7, <3>1, <4>1
    <3>4. CASE <<c, j>> # m
      BY <1>4, <2>2, <3>1, <3>2, <3>4
    <3> QED BY <3>3, <3>4
  <2>8. Calls'
    <3>1. todo' \subseteq Records' /\ pc' = "docs" /\ who' = Nobody /\ repairing'
      BY <1>1, <1>4, <2>6
    <3> QED BY <2>7, <3>1 DEF Calls
  <2>9. Numbered'
    BY <1>0, <1>1, <1>4, <2>4, NumberedKept
  <2>10. Documented(kv', repairing')
    BY <1>1, <2>4 DEF Documented
  <2> QED BY <1>1, <2>1, <2>4, <2>8, <2>9, <2>10, Assembled
<1>5. CASE Fails(b) /\ todo' = {} /\ pc' = "closed"
  <2>1. kv' = kv /\ disk' = disk
    BY <1>0, <1>5, Outcomes
  <2>2. Calls'
    BY <1>1, <1>5 DEF Calls
  <2> QED BY <1>1, <1>5, <2>1, <2>2, StoreStays
<1> QED BY <1>2, <1>4, <1>5

\* and the tombstoned nodes go),
LEMMA RepairVectorsStep ==
    ASSUME Faults \subseteq {"rejected"}, IndexInv, RepairVectors
    PROVE  IndexInv'
<1> DEFINE b == Dels({Node(v) : v \in Dead})
<1>0. /\ disk = kv /\ DOMAIN kv = Keys /\ Typed(kv) /\ Linked(kv, lost) /\ Documented(kv, repairing) /\ Listed(kv)
      /\ Calls /\ Numbered
  BY DEF IndexInv
<1>1. /\ pc = "docs" /\ todo = {} /\ UNCHANGED <<next, who, lost>> /\ who = Nobody
      /\ \/ /\ Commits(b) /\ repairing' = FALSE
            /\ \/ pc' = "closed" /\ UNCHANGED todo
               \/ ReembedMissing
         \/ Fails(b) /\ pc' = "closed" /\ UNCHANGED <<repairing, todo>>
  BY <1>0 DEF RepairVectors, Calls
<1>2. CASE Commits(b) /\ repairing' = FALSE /\ (pc' = "closed" \/ ReembedMissing)
  <2>1. kv' = Apply(kv, b) /\ disk' = kv' /\ DOMAIN kv' = Keys
    BY <1>0, <1>2, Outcomes
  <2>2. DOMAIN b = {Node(v) : v \in Dead} /\ \A k \in DOMAIN b : b[k] = Absent
    BY DEF Dels
  <2>3. Only(kv', {"node"}) /\ \A v \in VecIds : kv'[Node(v)] = IF v \in Dead THEN Absent ELSE kv[Node(v)]
    <3>1. Writes(b, Dead, Absent)
      BY <2>2 DEF Writes
    <3> HIDE DEF b
    <3>2. kv' = Apply(kv, b)
      BY <2>1
    <3>3. Only(kv', {"node"}) /\ NodesAre(kv', Dead, Absent)
      BY <3>1, <3>2, NodesStore
    <3> QED BY <3>3 DEF NodesAre
  <2>4. \A v \in VecIds : /\ kv'[Node(v)] \in {"live", "dead", Absent}
                          /\ kv'[Node(v)] = "live" => kv[Map(v)] # Absent
                          /\ kv[Map(v)] # Absent => kv'[Node(v)] = "live" \/ v \in lost
                          /\ kv[Node(v)] = "live" => kv'[Node(v)] = "live"
                          /\ kv'[Node(v)] # Absent => kv[Map(v)] # Absent
    <3> TAKE v \in VecIds
    <3>1. kv[Node(v)] \in {"live", "dead", Absent} /\ (kv[Node(v)] = "live" => kv[Map(v)] # Absent)
      BY <1>0 DEF Typed, Linked
    <3>2. kv[Map(v)] # Absent => kv[Node(v)] = "live" \/ v \in lost
      BY <1>0 DEF Linked
    <3>3. Absent # "live" /\ (v \in Dead <=> kv[Node(v)] = "dead")
      BY Values DEF Dead
    <3> QED BY <2>3, <3>1, <3>2, <3>3
  <2>5. Documented(kv, FALSE)
    <3>1. \A c \in Agents, v \in VecIds : kv[Doc(c, v)] # Absent => \E j \in Ids : kv[Map(v)] = <<c, j>>
      BY <1>0 DEF Documented
    <3>2. \A c \in Agents, j \in Ids :
             kv[Rec(c, j)] # Absent /\ kv[Rec(c, j)].terms > 0 => kv[Doc(c, kv[Rec(c, j)].vec)] # Absent
      BY <1>0, <1>1 DEF Calls
    <3> QED BY <3>1, <3>2 DEF Documented
  <2>6. /\ Typed(kv') /\ Linked(kv', lost) /\ Documented(kv', FALSE) /\ Listed(kv')
        /\ \A n, q : Below(kv, n, q) => Below(kv', n, FALSE)
    <3>1. Only(kv', {"node"})
      BY <2>3
    <3> QED BY <1>0, <2>4, <2>5, <3>1, NodesKeep
  <2>7. \A c \in Agents, j \in Ids : kv'[Rec(c, j)] = kv[Rec(c, j)]
    BY <2>3, OnlyFacts
  <2>8. kv'[Alloc] = kv[Alloc]
    BY <2>3, OnlyFacts
  <2>9. Calls'
    <3>1. CASE pc' = "closed"
      BY <1>1, <3>1 DEF Calls
    <3>2. CASE ReembedMissing
      <4>1. pc' = "missing" /\ todo' \subseteq Records /\ who' = Nobody
        BY <1>1, <3>2 DEF ReembedMissing, Missing
      <4>2. Records' = Records
        BY <2>7 DEF Records, Memories
      <4>3. ASSUME NEW c \in Agents, NEW j \in Ids, kv'[Rec(c, j)] # Absent
            PROVE  kv'[Node(kv'[Rec(c, j)].vec)] = "live" \/ <<c, j>> \in todo'
        <5>1. kv'[Rec(c, j)] = kv[Rec(c, j)] /\ kv[Rec(c, j)].vec \in VecIds
          BY <1>0, <2>7, <4>3, VecFacts
        <5>2. <<c, j>> \in Records /\ VecOf(<<c, j>>) = kv[Rec(c, j)].vec
          BY <4>3, <5>1, RecordFacts
        <5>3. kv[Node(kv[Rec(c, j)].vec)] = "live" \/ <<c, j>> \in todo'
          BY <3>2, <5>2 DEF ReembedMissing, Missing
        <5> QED BY <2>4, <5>1, <5>3
      <4> QED BY <4>1, <4>2, <4>3 DEF Calls
    <3> QED BY <1>2, <3>1, <3>2
  <2>10. pc' \in {"closed", "missing"}
    BY <1>2 DEF ReembedMissing
  <2>11. Numbered'
    BY <1>0, <1>2, <2>6, <2>8, <2>10 DEF Numbered
  <2>12. Documented(kv', repairing') /\ Linked(kv', lost')
    BY <1>1, <1>2, <2>6
  <2> QED BY <2>1, <2>6, <2>9, <2>11, <2>12, Assembled
<1>3. CASE Fails(b) /\ pc' = "closed" /\ UNCHANGED <<repairing, todo>>
  <2>1. kv' = kv /\ disk' = disk
    BY <1>0, <1>3, Outcomes
  <2>2. Calls'
    BY <1>1, <1>3 DEF Calls
  <2> QED BY <1>1, <1>3, <2>1, <2>2, StoreStays
<1> QED BY <1>1, <1>2, <1>3

\* the beginning of an embedding of records again,
LEMMA ReembedIdsStep ==
    ASSUME IndexInv, NEW a \in Agents, ReembedAll(a) \/ \E i \in Ids : ReembedIds(a, {i})
    PROVE  IndexInv'
<1>1. PICK I : ReembedIds(a, I)
  BY DEF ReembedAll
<1>2. /\ pc = "closed" /\ pc' = "reembed" /\ todo' \subseteq Records
      /\ UNCHANGED <<kv, disk, next, who, repairing, lost>>
  BY <1>1 DEF ReembedIds
<1>3. Calls'
  BY <1>2 DEF IndexInv, Calls, Records, Memories
<1> QED BY <1>2, <1>3, StoreStays

\* its deletion of a vector,
LEMMA DeleteVectorStep ==
    ASSUME Faults \subseteq {"rejected"}, IndexInv, DeleteVector
    PROVE  IndexInv'
<1>0. /\ disk = kv /\ DOMAIN kv = Keys /\ Typed(kv) /\ Linked(kv, lost) /\ Documented(kv, repairing) /\ Listed(kv)
      /\ Calls /\ Numbered
  BY DEF IndexInv
<1>1. /\ pc \in {"reembed", "missing"} /\ who = Nobody /\ UNCHANGED <<next, repairing>>
      /\ todo \subseteq Records
  BY <1>0 DEF DeleteVector, Calls
<1>2. PICK m \in todo :
         LET v == VecOf(m)
             b == IF kv[Node(v)] = "live" THEN Put(Node(v), "dead") ELSE Nothing
         IN \/ Commits(b) /\ who' = m /\ lost' = lost \cup {v} /\ UNCHANGED <<pc, todo>>
            \/ Fails(b) /\ pc' = "closed" /\ todo' = {} /\ UNCHANGED <<who, lost>>
  BY DEF DeleteVector
<1> DEFINE w == VecOf(m)
           b == IF kv[Node(w)] = "live" THEN Put(Node(w), "dead") ELSE Nothing
           V == IF kv[Node(w)] = "live" THEN {w} ELSE {}
<1>3. /\ m \in Records /\ w \in VecIds /\ m = <<m[1], m[2]>> /\ kv[Map(w)] = m
      /\ m[1] \in Agents /\ m[2] \in Ids
  BY <1>0, <1>1, RecordFacts, VecFacts
<1>4. CASE Commits(b) /\ who' = m /\ lost' = lost \cup {w} /\ UNCHANGED <<pc, todo>>
  <2>1. kv' = Apply(kv, b) /\ disk' = kv' /\ DOMAIN kv' = Keys
    BY <1>0, <1>4, Outcomes
  <2>2. DOMAIN b = {Node(v) : v \in V} /\ \A k \in DOMAIN b : b[k] = "dead"
    BY DEF Put, Nothing
  <2>3. Only(kv', {"node"}) /\ \A v \in VecIds : kv'[Node(v)] = IF v \in V THEN "dead" ELSE kv[Node(v)]
    <3>1. Writes(b, V, "dead")
      BY <2>2 DEF Writes
    <3> HIDE DEF b, V
    <3>2. kv' = Apply(kv, b)
      BY <2>1
    <3>3. Only(kv', {"node"}) /\ NodesAre(kv', V, "dead")
      BY <3>1, <3>2, NodesStore
    <3> QED BY <3>3 DEF NodesAre
  <2>4. \A v \in VecIds : /\ kv'[Node(v)] \in {"live", "dead", Absent}
                          /\ kv'[Node(v)] = "live" => kv[Map(v)] # Absent
                          /\ kv[Map(v)] # Absent => kv'[Node(v)] = "live" \/ v \in lost \cup {w}
                          /\ kv[Node(v)] = "live" /\ v # w => kv'[Node(v)] = "live"
                          /\ kv'[Node(v)] # Absent => kv[Node(v)] # Absent \/ kv[Map(v)] # Absent
    <3> TAKE v \in VecIds
    <3>1. kv[Node(v)] \in {"live", "dead", Absent} /\ (kv[Node(v)] = "live" => kv[Map(v)] # Absent)
      BY <1>0 DEF Typed, Linked
    <3>2. kv[Map(v)] # Absent => kv[Node(v)] = "live" \/ v \in lost
      BY <1>0 DEF Linked
    <3>3. Absent # "live" /\ (v \in V <=> v = w /\ kv[Node(v)] = "live")
      BY Values
    <3> HIDE DEF V, w
    <3> QED BY <2>3, <3>1, <3>2, <3>3
  <2>5. Only(kv', {"node"}) /\ kv'[Alloc] = kv[Alloc] /\ \A c \in Agents, j \in Ids : kv'[Rec(c, j)] = kv[Rec(c, j)]
    BY <2>3, OnlyFacts
  <2>6. /\ Typed(kv') /\ Linked(kv', lost \cup {w}) /\ Documented(kv', repairing) /\ Listed(kv')
        /\ \A n, q : Below(kv, n, q) => Below(kv', n, q)
    <3>1. Only(kv', {"node"})
      BY <2>3
    <3> HIDE DEF w
    <3> QED BY <1>0, <2>4, <3>1, NodesKeep
  <2>7. Calls'
    <3>1. Records' = Records
      BY <2>5 DEF Records, Memories
    <3>2. /\ pc' \in {"reembed", "missing"} /\ todo' \subseteq Records' /\ who' \in todo'
      BY <1>1, <1>4, <3>1
    <3>3. ASSUME pc' = "missing", NEW c \in Agents, NEW j \in Ids, kv'[Rec(c, j)] # Absent
          PROVE  kv'[Node(kv'[Rec(c, j)].vec)] = "live" \/ <<c, j>> \in todo'
      <4>1. kv'[Rec(c, j)] = kv[Rec(c, j)] /\ kv[Rec(c, j)].vec \in VecIds /\ kv[Map(kv[Rec(c, j)].vec)] = <<c, j>>
        BY <1>0, <2>5, <3>3, VecFacts
      <4>2. kv[Node(kv[Rec(c, j)].vec)] = "live" \/ <<c, j>> \in todo
        BY <1>0, <1>4, <3>3, <4>1 DEF Calls
      <4>3. kv[Rec(c, j)].vec = w => <<c, j>> = m
        BY <1>3, <4>1
      <4> HIDE DEF w
      <4> QED BY <1>4, <2>4, <4>1, <4>2, <4>3
    <3> QED BY <3>2, <3>3 DEF Calls
  <2>8. Numbered'
    BY <1>0, <1>1, <1>4, <2>5, <2>6, NumberedKept
  <2> QED BY <1>1, <1>4, <2>1, <2>6, <2>7, <2>8, Assembled
<1>5. CASE Fails(b) /\ pc' = "closed" /\ todo' = {} /\ UNCHANGED <<who, lost>>
  <2>1. kv' = kv /\ disk' = disk
    BY <1>0, <1>5, Outcomes
  <2>2. Calls'
    BY <1>1, <1>5 DEF Calls
  <2> QED BY <1>1, <1>5, <2>1, <2>2, StoreStays
<1> QED BY <1>2, <1>4, <1>5

\* the insertion of a new one,
LEMMA InsertVectorStep ==
    ASSUME Faults \subseteq {"rejected"}, IndexInv, InsertVector
    PROVE  IndexInv'
<1> DEFINE w == VecOf(who)
           b == Put(Node(w), "live")
<1>0. /\ disk = kv /\ DOMAIN kv = Keys /\ Typed(kv) /\ Linked(kv, lost) /\ Documented(kv, repairing) /\ Listed(kv)
      /\ Calls /\ Numbered
  BY DEF IndexInv
<1>1. /\ pc \in {"reembed", "missing"} /\ who \in todo /\ todo \subseteq Records
      /\ who' = Nobody /\ UNCHANGED <<next, repairing>>
      /\ \/ /\ Commits(b)
            /\ todo' = todo \ {who} /\ lost' = lost \ {w} /\ UNCHANGED pc
         \/ Fails(b) /\ pc' = "closed" /\ todo' = {} /\ UNCHANGED lost
  BY <1>0 DEF InsertVector, Calls
<1>3. /\ who \in Records /\ w \in VecIds /\ who = <<who[1], who[2]>> /\ kv[Map(w)] = who /\ who # Absent
      /\ who[1] \in Agents /\ who[2] \in Ids /\ w = kv[Rec(who[1], who[2])].vec
  <2>1. /\ who \in Records /\ who[1] \in Agents /\ who[2] \in Ids /\ who = <<who[1], who[2]>>
        /\ kv[Rec(who[1], who[2])] # Absent /\ w = kv[Rec(who[1], who[2])].vec
    BY <1>1, RecordFacts
  <2> HIDE DEF w
  <2> QED BY <1>0, <2>1, VecFacts
<1>4. CASE Commits(b) /\ todo' = todo \ {who} /\ lost' = lost \ {w} /\ UNCHANGED pc
  <2>1. kv' = Apply(kv, b) /\ disk' = kv' /\ DOMAIN kv' = Keys
    BY <1>0, <1>4, Outcomes
  <2>2. DOMAIN b = {Node(v) : v \in {w}} /\ \A k \in DOMAIN b : b[k] = "live"
    BY DEF Put
  <2>3. Only(kv', {"node"}) /\ \A v \in VecIds : kv'[Node(v)] = IF v \in {w} THEN "live" ELSE kv[Node(v)]
    <3>1. Writes(b, {w}, "live")
      BY <2>2 DEF Writes
    <3> HIDE DEF b, w
    <3>2. kv' = Apply(kv, b)
      BY <2>1
    <3>3. Only(kv', {"node"}) /\ NodesAre(kv', {w}, "live")
      BY <3>1, <3>2, NodesStore
    <3> QED BY <3>3 DEF NodesAre
  <2>4. \A v \in VecIds : /\ kv'[Node(v)] \in {"live", "dead", Absent}
                          /\ kv'[Node(v)] = "live" => kv[Map(v)] # Absent
                          /\ kv[Map(v)] # Absent => kv'[Node(v)] = "live" \/ v \in lost \ {w}
                          /\ kv[Node(v)] = "live" \/ v = w => kv'[Node(v)] = "live"
                          /\ kv'[Node(v)] # Absent => kv[Node(v)] # Absent \/ kv[Map(v)] # Absent
    <3> TAKE v \in VecIds
    <3>1. kv[Node(v)] \in {"live", "dead", Absent} /\ (kv[Node(v)] = "live" => kv[Map(v)] # Absent)
      BY <1>0 DEF Typed, Linked
    <3>2. kv[Map(v)] # Absent => kv[Node(v)] = "live" \/ v \in lost
      BY <1>0 DEF Linked
    <3> HIDE DEF w
    <3> QED BY <1>3, <2>3, <3>1, <3>2
  <2>5. kv'[Alloc] = kv[Alloc] /\ \A c \in Agents, j \in Ids : kv'[Rec(c, j)] = kv[Rec(c, j)]
    BY <2>3, OnlyFacts
  <2>6. /\ Typed(kv') /\ Linked(kv', lost \ {w}) /\ Documented(kv', repairing) /\ Listed(kv')
        /\ \A n, q : Below(kv, n, q) => Below(kv', n, q)
    <3>1. Only(kv', {"node"})
      BY <2>3
    <3> HIDE DEF w
    <3> QED BY <1>0, <2>4, <3>1, NodesKeep
  <2>7. Calls'
    <3>1. Records' = Records
      BY <2>5 DEF Records, Memories
    <3>2. /\ pc' \in {"reembed", "missing"} /\ todo' \subseteq Records' /\ who' = Nobody
      BY <1>1, <1>4, <3>1
    <3>3. ASSUME pc' = "missing", NEW c \in Agents, NEW j \in Ids, kv'[Rec(c, j)] # Absent
          PROVE  kv'[Node(kv'[Rec(c, j)].vec)] = "live" \/ <<c, j>> \in todo'
      <4>1. kv'[Rec(c, j)] = kv[Rec(c, j)] /\ kv[Rec(c, j)].vec \in VecIds
        BY <1>0, <2>5, <3>3, VecFacts
      <4>2. kv[Node(kv[Rec(c, j)].vec)] = "live" \/ <<c, j>> \in todo
        BY <1>0, <1>4, <3>3, <4>1 DEF Calls
      <4>3. <<c, j>> = who => kv[Rec(c, j)].vec = w
        BY RecordFacts
      <4> HIDE DEF w
      <4> QED BY <1>4, <2>4, <4>1, <4>2, <4>3
    <3> QED BY <3>2, <3>3 DEF Calls
  <2>8. Numbered'
    BY <1>0, <1>1, <1>4, <2>5, <2>6, NumberedKept
  <2> QED BY <1>1, <1>4, <2>1, <2>6, <2>7, <2>8, Assembled
<1>5. CASE Fails(b) /\ pc' = "closed" /\ todo' = {} /\ UNCHANGED lost
  <2>1. kv' = kv /\ disk' = disk
    BY <1>0, <1>5, Outcomes
  <2>2. Calls'
    BY <1>1, <1>5 DEF Calls
  <2> QED BY <1>1, <1>5, <2>1, <2>2, StoreStays
<1> QED BY <1>1, <1>4, <1>5

\* and its end.
LEMMA ReembeddedStep ==
    ASSUME IndexInv, Reembedded
    PROVE  IndexInv'
<1>0. /\ disk = kv /\ DOMAIN kv = Keys /\ Typed(kv) /\ Linked(kv, lost) /\ Documented(kv, repairing) /\ Listed(kv)
      /\ Calls /\ Numbered
  BY DEF IndexInv
<1>1. /\ pc \in {"reembed", "missing"} /\ todo = {} /\ pc' = "closed"
      /\ lost' = IF pc = "missing" THEN {} ELSE lost
      /\ UNCHANGED <<kv, disk, next, who, todo, repairing>>
  BY DEF Reembedded
<1>2. who = Nobody
  BY <1>0, <1>1 DEF Calls
<1>3. Calls'
  BY <1>1, <1>2 DEF Calls
<1>4. pc = "missing" => Linked(kv, {})
  <2> SUFFICES ASSUME pc = "missing" PROVE Linked(kv, {})
    OBVIOUS
  <2>1. \A c \in Agents, j \in Ids : kv[Rec(c, j)] # Absent => kv[Node(kv[Rec(c, j)].vec)] = "live"
    BY <1>0, <1>1 DEF Calls
  <2> QED BY <1>0, <2>1 DEF Linked
<1>5. Linked(kv, lost')
  BY <1>0, <1>1, <1>4
<1>6. Numbered'
  BY <1>0, <1>1 DEF Numbered
<1> QED BY <1>0, <1>1, <1>3, <1>5, <1>6 DEF IndexInv

-----------------------------------------------------------------------------
(* The theorems. *)

\* Every step keeps the invariant.
LEMMA IndexStep ==
    ASSUME Faults \subseteq {"rejected"}, IndexInv, [Next]_vars
    PROVE  IndexInv'
<1>1. CASE \E a \in Agents, s \in Groups : PutMany(a, s)
  BY <1>1, PutManyStep
<1>2. CASE \E a \in Agents, i \in Ids, t \in Times \cup {Never} : Update(a, i, t)
  BY <1>2, UpdateStep
<1>3. CASE \E a \in Agents : StartPurge(a) \/ \E I \in SUBSET Ids : StartForget(a, I)
  BY <1>3, StartStep
<1>4. CASE \E a \in Agents : ReembedAll(a) \/ \E i \in Ids : ReembedIds(a, {i})
  BY <1>4, ReembedIdsStep
<1>5. CASE ForgetChunk \/ PurgeOne \/ PurgeRegistry \/ Consolidate
  BY <1>5, ForgetChunkStep, PurgeOneStep, PurgeRegistryStep, ConsolidateStep
<1>6. CASE Stop \/ Rot \/ Open
  BY <1>6, StopStep, RotStep, OpenStep
<1>7. CASE RepairMappings \/ RepairFts \/ RepairDoc \/ RepairVectors
  BY <1>7, RepairMappingsStep, RepairFtsStep, RepairDocStep, RepairVectorsStep
<1>8. CASE DeleteVector \/ InsertVector \/ Reembedded
  BY <1>8, DeleteVectorStep, InsertVectorStep, ReembeddedStep
<1>9. CASE UNCHANGED vars
  <2>1. UNCHANGED <<kv, disk, next, pc, who, todo, repairing, lost>>
    BY <1>9 DEF vars
  <2>2. Calls'
    BY <2>1 DEF IndexInv, Calls, Memories, Records
  <2> QED BY <2>1, <2>2, StoreStays
<1> QED BY <1>1, <1>2, <1>3, <1>4, <1>5, <1>6, <1>7, <1>8, <1>9 DEF Next

\* Whatever calls are made, and wherever they are cut short, what the process reads is
\* what opening the store again would show, and the indexes say what the records say.
THEOREM IndexInvariance ==
    ASSUME Faults \subseteq {"rejected"}
    PROVE  Spec => []IndexInv
<1>1. Init => IndexInv
  BY IndexInit
<1>2. IndexInv /\ [Next]_vars => IndexInv'
  BY IndexStep
<1> QED BY <1>1, <1>2, PTL DEF Spec

\* check_memory_links finds nothing, whatever the last batch before a kill was.
THEOREM LinksAgreeAlways ==
    ASSUME Faults \subseteq {"rejected"}
    PROVE  Spec => []LinksAgree
<1>1. ASSUME IndexInv PROVE LinksAgree
  <2>1. disk = kv /\ Typed(kv) /\ Linked(kv, lost)
    BY <1>1 DEF IndexInv
  <2>2. ASSUME NEW m \in Agents \X Ids, Present(m)
        PROVE  /\ disk[Map(DiskVec(m))] = m
               /\ disk[Node(DiskVec(m))] = "live" \/ DiskVec(m) \in lost
    <3>1. m[1] \in Agents /\ m[2] \in Ids /\ m = <<m[1], m[2]>>
      OBVIOUS
    <3> QED BY <2>1, <2>2, <3>1 DEF Linked, Present, DiskVec
  <2>3. ASSUME NEW v \in VecIds, disk[Map(v)] # Absent
        PROVE  Present(disk[Map(v)]) /\ DiskVec(disk[Map(v)]) = v
    BY <2>1, <2>3 DEF Linked, Present, DiskVec
  <2>4. \A v \in VecIds : disk[Node(v)] = "live" => disk[Map(v)] # Absent
    BY <2>1 DEF Linked
  <2> QED BY <2>2, <2>3, <2>4 DEF LinksAgree
<1> QED BY <1>1, IndexInvariance, PTL

\* No vector id that is in use is allocated again after the next opening.
THEOREM AllocatorFreshAlways ==
    ASSUME Faults \subseteq {"rejected"}
    PROVE  Spec => []AllocatorFresh
<1>1. ASSUME IndexInv PROVE AllocatorFresh
  <2>1. disk = kv /\ Numbered
    BY <1>1 DEF IndexInv
  <2> QED BY <2>1 DEF Numbered, Below, AllocatorFresh, Used
<1> QED BY <1>1, IndexInvariance, PTL

\* The documents, the expiry index and the registry say what the records say, at
\* every kill and however a purge or a repair was cut short.
THEOREM SidecarsAgreeAlways ==
    ASSUME Faults \subseteq {"rejected"}
    PROVE  Spec => []SidecarsAgree
<1>1. ASSUME IndexInv PROVE SidecarsAgree
  <2>1. disk = kv /\ Typed(kv) /\ Documented(kv, repairing) /\ Listed(kv)
    BY <1>1 DEF IndexInv
  <2>2. DocumentsAgree
    <3>1. ASSUME NEW a \in Agents, NEW v \in VecIds, kv[Doc(a, v)] # Absent
          PROVE  kv[Map(v)] # Absent /\ kv[Map(v)][1] = a
      <4>1. PICK i \in Ids : kv[Map(v)] = <<a, i>>
        BY <2>1, <3>1 DEF Documented
      <4> QED BY <4>1, Values
    <3>2. ASSUME ~repairing, NEW a \in Agents, NEW i \in Ids, Present(<<a, i>>), kv[Rec(a, i)].terms > 0
          PROVE  kv[Doc(a, DiskVec(<<a, i>>))] # Absent
      BY <2>1, <3>2 DEF Documented, Present, DiskVec
    <3> QED BY <2>1, <3>1, <3>2 DEF DocumentsAgree
  <2>3. ExpiryAgrees /\ Registered
    BY <2>1 DEF Listed, ExpiryAgrees, Registered, Present
  <2> QED BY <2>2, <2>3 DEF SidecarsAgree
<1> QED BY <1>1, IndexInvariance, PTL
-----------------------------------------------------------------------------
(* Sums: the fold that adds up terms, of the values of f over a finite set. *)

\* h sums the values of f over each subset of S, as MapThenSumSet does.
First(s) == CHOOSE x \in s : TRUE
Sums(h, S, f) ==
    h = [s \in SUBSET S |-> IF s = {} THEN 0 ELSE f[First(s)] + h[s \ {First(s)}]]

\* The sum of the values of f over S.
Sum(f, S) == (CHOOSE h : Sums(h, S, f))[S]

\* The fold of the library is this sum.
LEMMA TotalIs ==
    ASSUME NEW f
    PROVE  Total(f) = Sum(f, DOMAIN f)
BY DEF Total, MapThenSumSet, MapThenFoldSet, Sums, Sum, First

\* Induction over the subsets of a finite set: the set G of those that are good holds
\* each one of which every proper subset is good.
LEMMA SubsetInduction ==
    ASSUME NEW S, IsFiniteSet(S), NEW G,
           \A R \in SUBSET S : (\A Q \in SUBSET R : Q # R => Q \in G) => R \in G
    PROVE  \A R \in SUBSET S : R \in G
<1> DEFINE T == {R \in SUBSET S : R \notin G}
<1>1. SUFFICES ASSUME T # {} PROVE FALSE
  OBVIOUS
<1>2. IsWellFoundedOn(StrictSubsetOrdering(S), SUBSET S)
  BY FS_StrictSubsetOrderingWellFounded, FS_FiniteSubsetsOfFinite
<1>3. T \subseteq SUBSET S
  OBVIOUS
<1> HIDE DEF T
<1>4. PICK R \in T : \A Q \in T : ~ (<<Q, R>> \in StrictSubsetOrdering(S))
  BY <1>1, <1>2, <1>3, WFMin
<1> USE DEF T
<1>5. ASSUME NEW Q \in SUBSET R, Q # R PROVE Q \in G
  BY <1>4, <1>5 DEF StrictSubsetOrdering
<1> QED BY <1>4, <1>5

\* The first element of a set is one of it.
LEMMA FirstIn == ASSUME NEW s, s # {} PROVE First(s) \in s
BY DEF First

\* Two such functions agree where both are defined.
LEMMA SumsAgree ==
    ASSUME NEW f, NEW R, NEW Q, NEW h, NEW g, Sums(h, R, f), Sums(g, Q, f), IsFiniteSet(R)
    PROVE  \A s \in SUBSET (R \cap Q) : h[s] = g[s]
<1> DEFINE G == {s \in SUBSET (R \cap Q) : h[s] = g[s]}
<1>1. IsFiniteSet(R \cap Q)
  BY FS_Subset
<1>2. ASSUME NEW s \in SUBSET (R \cap Q), \A q \in SUBSET s : q # s => q \in G PROVE s \in G
  <2>1. CASE s = {}
    BY <2>1 DEF Sums
  <2>2. CASE s # {}
    <3>1. First(s) \in s
      BY <2>2, FirstIn
    <3>2. h[s \ {First(s)}] = g[s \ {First(s)}]
      BY <1>2, <3>1
    <3>3. h[s] = f[First(s)] + h[s \ {First(s)}]
      BY <2>2 DEF Sums
    <3>4. g[s] = f[First(s)] + g[s \ {First(s)}]
      BY <2>2 DEF Sums
    <3> QED BY <3>2, <3>3, <3>4
  <2> QED BY <2>1, <2>2
<1> HIDE DEF G
<1>3. \A s \in SUBSET (R \cap Q) : s \in G
  BY <1>1, <1>2, SubsetInduction
<1> QED BY <1>3 DEF G

\* There is such a function, and the sum over a set is its first element's value and the
\* sum over the others.
LEMMA SumOver ==
    ASSUME NEW f, NEW S, IsFiniteSet(S)
    PROVE  /\ Sum(f, {}) = 0
           /\ S # {} => Sum(f, S) = f[First(S)] + Sum(f, S \ {First(S)})
<1> DEFINE H(R) == CHOOSE h : Sums(h, R, f)
           G == {R \in SUBSET S : Sums(H(R), R, f)}
           Step(R) == IF R = {} THEN 0 ELSE f[First(R)] + Sum(f, R \ {First(R)})
<1>1. ASSUME NEW R \in SUBSET S, Sums(H(R), R, f),
             \A Q \in SUBSET R : Q # R => Sums(H(Q), Q, f)
      PROVE  Sum(f, R) = Step(R)
  <2>1. CASE R = {}
    BY <1>1, <2>1 DEF Sums, Sum
  <2>2. CASE R # {}
    <3> DEFINE q == R \ {First(R)}
    <3>1. q \in SUBSET R /\ q # R
      BY <2>2, FirstIn
    <3>2. Sums(H(q), q, f)
      BY <1>1, <3>1
    <3>3. IsFiniteSet(R)
      BY FS_Subset
    <3>4. q \in SUBSET (R \cap q)
      OBVIOUS
    <3> HIDE DEF H
    <3>5. H(R)[q] = H(q)[q]
      BY <1>1, <3>2, <3>3, <3>4, SumsAgree
    <3>6. H(R)[R] = f[First(R)] + H(R)[q]
      BY <1>1, <2>2 DEF Sums
    <3> USE DEF H
    <3> QED BY <2>2, <3>5, <3>6 DEF Sum
  <2> QED BY <2>1, <2>2
<1>2. ASSUME NEW R \in SUBSET S, \A Q \in SUBSET R : Q # R => Q \in G PROVE R \in G
  <2> DEFINE h == [s \in SUBSET R |-> Step(s)]
  <2>1. ASSUME NEW s \in SUBSET R, s # {} PROVE h[s \ {First(s)}] = Sum(f, s \ {First(s)})
    <3> DEFINE q == s \ {First(s)}
    <3>1. q \in SUBSET R /\ q # R
      BY <2>1, FirstIn
    <3>2. q \in G /\ \A Q \in SUBSET q : Q \in G
      <4>1. \A Q \in SUBSET q : Q \in SUBSET R /\ Q # R
        BY <2>1, FirstIn
      <4> QED BY <1>2, <4>1, <3>1
    <3>3. Sum(f, q) = Step(q)
      <4> HIDE DEF Step, H, q
      <4> QED BY <1>1, <3>1, <3>2
    <3> HIDE DEF Step, q
    <3>4. h[q] = Step(q)
      BY <3>1
    <3> QED BY <3>3, <3>4 DEF q
  <2>2. ASSUME NEW s \in SUBSET R
        PROVE  Step(s) = IF s = {} THEN 0 ELSE f[First(s)] + h[s \ {First(s)}]
    BY <2>1
  <2>3. Sums(h, R, f)
    <3> HIDE DEF Step
    <3> QED BY <2>2 DEF Sums
  <2>4. Sums(H(R), R, f)
    <3> HIDE DEF h
    <3> QED BY <2>3
  <2> QED BY <2>4
<1>3. \A R \in SUBSET S : R \in G
  <2> HIDE DEF G
  <2> QED BY <1>2, SubsetInduction
<1>4. \A R \in SUBSET S : Sum(f, R) = Step(R)
  <2> HIDE DEF Step, H
  <2> QED BY <1>1, <1>3
<1>5. {} \in SUBSET S /\ S \in SUBSET S
  OBVIOUS
<1>6. Sum(f, {}) = Step({}) /\ Sum(f, S) = Step(S)
  <2> HIDE DEF Step
  <2> QED BY <1>4, <1>5
<1> QED BY <1>6

\* A sum depends on the values over its set only.
LEMMA SumSame ==
    ASSUME NEW f, NEW g, NEW S, \A x \in S : f[x] = g[x]
    PROVE  Sum(f, S) = Sum(g, S)
<1>1. ASSUME NEW s \in SUBSET S, s # {} PROVE f[First(s)] = g[First(s)]
  BY <1>1, FirstIn
<1>2. ASSUME NEW h PROVE Sums(h, S, f) = Sums(h, S, g)
  <2>1. [s \in SUBSET S |-> IF s = {} THEN 0 ELSE f[First(s)] + h[s \ {First(s)}]]
        = [s \in SUBSET S |-> IF s = {} THEN 0 ELSE g[First(s)] + h[s \ {First(s)}]]
    BY <1>1
  <2> QED BY <2>1 DEF Sums
<1>3. (CHOOSE h : Sums(h, S, f)) = (CHOOSE h : Sums(h, S, g))
  BY <1>2
<1> QED BY <1>3 DEF Sum

\* A sum of naturals is one.
LEMMA SumNat ==
    ASSUME NEW f, NEW S, IsFiniteSet(S), \A x \in S : f[x] \in Nat
    PROVE  Sum(f, S) \in Nat
<1> DEFINE G == {R \in SUBSET S : Sum(f, R) \in Nat}
<1>1. ASSUME NEW R \in SUBSET S, \A Q \in SUBSET R : Q # R => Q \in G PROVE R \in G
  <2>1. IsFiniteSet(R)
    BY FS_Subset
  <2>2. CASE R = {}
    <3>1. Sum(f, {}) = 0
      BY <2>1, SumOver
    <3> QED BY <2>2, <3>1
  <2>3. CASE R # {}
    <3>1. First(R) \in R
      BY <2>3, FirstIn
    <3>2. Sum(f, R \ {First(R)}) \in Nat
      BY <1>1, <3>1
    <3>3. Sum(f, R) = f[First(R)] + Sum(f, R \ {First(R)})
      BY <2>1, <2>3, SumOver
    <3> QED BY <3>1, <3>2, <3>3
  <2> QED BY <2>2, <2>3
<1> HIDE DEF G
<1>2. S \in G
  BY <1>1, SubsetInduction
<1> QED BY <1>2 DEF G

\* Any element can be taken out of a sum.
LEMMA SumOne ==
    ASSUME NEW f, NEW S, IsFiniteSet(S), \A x \in S : f[x] \in Nat, NEW y \in S
    PROVE  Sum(f, S) = f[y] + Sum(f, S \ {y})
<1> DEFINE G == {R \in SUBSET S : \A x \in R : Sum(f, R) = f[x] + Sum(f, R \ {x})}
<1>1. ASSUME NEW R \in SUBSET S, \A Q \in SUBSET R : Q # R => Q \in G PROVE R \in G
  <2>1. SUFFICES ASSUME NEW x \in R PROVE Sum(f, R) = f[x] + Sum(f, R \ {x})
    OBVIOUS
  <2> DEFINE p == First(R)
  <2>2. IsFiniteSet(R) /\ R # {} /\ p \in R
    BY FS_Subset, FirstIn
  <2>3. Sum(f, R) = f[p] + Sum(f, R \ {p})
    BY <2>2, SumOver
  <2> HIDE DEF p
  <2>4. CASE x = p
    BY <2>3, <2>4
  <2>5. CASE x # p
    <3>1. R \ {p} \in G /\ R \ {x} \in G
      BY <1>1, <2>2
    <3>2. Sum(f, R \ {p}) = f[x] + Sum(f, (R \ {p}) \ {x})
      BY <3>1, <2>5
    <3>3. Sum(f, R \ {x}) = f[p] + Sum(f, (R \ {x}) \ {p})
      BY <3>1, <2>2, <2>5
    <3>4. (R \ {p}) \ {x} = (R \ {x}) \ {p}
      OBVIOUS
    <3>5. IsFiniteSet((R \ {x}) \ {p}) /\ \A z \in (R \ {x}) \ {p} : f[z] \in Nat
      BY <2>2, FS_Subset
    <3>6. Sum(f, (R \ {x}) \ {p}) \in Nat
      BY <3>5, SumNat
    <3>7. f[x] \in Nat /\ f[p] \in Nat
      BY <2>2
    <3> QED BY <2>3, <3>2, <3>3, <3>4, <3>6, <3>7
  <2> QED BY <2>4, <2>5
<1> HIDE DEF G
<1>2. S \in G
  BY <1>1, SubsetInduction
<1> QED BY <1>2 DEF G

\* The sum over two sets without a common element.
LEMMA SumSplit ==
    ASSUME NEW f, NEW A, NEW B, IsFiniteSet(A), IsFiniteSet(B), A \cap B = {},
           \A x \in A \cup B : f[x] \in Nat
    PROVE  Sum(f, A \cup B) = Sum(f, A) + Sum(f, B)
<1> DEFINE G == {R \in SUBSET B : Sum(f, A \cup R) = Sum(f, A) + Sum(f, R)}
<1>0. Sum(f, A) \in Nat
  BY SumNat
<1>1. ASSUME NEW R \in SUBSET B, \A Q \in SUBSET R : Q # R => Q \in G PROVE R \in G
  <2>1. IsFiniteSet(R) /\ IsFiniteSet(A \cup R) /\ \A x \in A \cup R : f[x] \in Nat
    BY FS_Subset, FS_Union
  <2>2. CASE R = {}
    <3>0. Sum(f, {}) = 0
      BY <2>1, SumOver
    <3>1. Sum(f, R) = 0 /\ A \cup R = A
      BY <2>2, <3>0
    <3>2. Sum(f, A \cup R) = Sum(f, A) + Sum(f, R)
      BY <1>0, <3>1
    <3> QED BY <3>2
  <2>3. CASE R # {}
    <3> DEFINE p == First(R)
               Q == R \ {p}
    <3>1. p \in R /\ p \notin A /\ Q \in SUBSET R /\ Q # R
      BY <2>3, FirstIn
    <3>2. Sum(f, A \cup Q) = Sum(f, A) + Sum(f, Q)
      BY <1>1, <3>1
    <3>3. Sum(f, R) = f[p] + Sum(f, Q)
      BY <2>1, <2>3, SumOver
    <3>4. Sum(f, A \cup R) = f[p] + Sum(f, (A \cup R) \ {p})
      BY <2>1, <3>1, SumOne
    <3>5. (A \cup R) \ {p} = A \cup Q
      BY <3>1
    <3>6. IsFiniteSet(Q) /\ \A x \in Q : f[x] \in Nat
      BY <2>1, <3>1, FS_Subset
    <3>7. Sum(f, Q) \in Nat /\ f[p] \in Nat
      BY <3>1, <3>6, <2>1, SumNat
    <3> HIDE DEF p, Q
    <3>8. Sum(f, A \cup R) = f[p] + (Sum(f, A) + Sum(f, Q))
      BY <3>2, <3>4, <3>5
    <3>9. Sum(f, A \cup R) = Sum(f, A) + Sum(f, R)
      BY <1>0, <3>3, <3>7, <3>8
    <3> QED BY <3>9
  <2> QED BY <2>2, <2>3
<1> HIDE DEF G
<1>2. B \in G
  BY <1>1, SubsetInduction
<1> QED BY <1>2 DEF G

-----------------------------------------------------------------------------
(* The statistics, of a store s. *)

Docs(s, a)  == {v \in VecIds : s[Doc(a, v)] # Absent}
Terms(s, a) == [v \in Docs(s, a) |-> s[Doc(a, v)]]
Loaded(s, a) == IF s[Stats(a)] = Absent THEN [docs |-> 0, terms |-> 0] ELSE s[Stats(a)]
Counted(s, a) == [docs |-> Cardinality(Docs(s, a)), terms |-> Sum(Terms(s, a), Docs(s, a))]

Totalled(s) == \A a \in Agents : /\ \A v \in Docs(s, a) : s[Doc(a, v)] \in Lengths
                                 /\ Loaded(s, a) = Counted(s, a)

\* Two stores have the same documents and statistics of agent a.
SameText(s, t, a) == s[Stats(a)] = t[Stats(a)] /\ \A v \in VecIds : s[Doc(a, v)] = t[Doc(a, v)]

\* A vector id is one of finitely many, and the statistics are no Absent.
LEMMA TextFacts ==
    ASSUME NEW a \in Agents
    PROVE  /\ \A V \in SUBSET VecIds : IsFiniteSet(V) /\ Cardinality(V) \in Nat
           /\ \A m, n \in Nat : [docs |-> m, terms |-> n] # Absent
           /\ \A v \in VecIds : Absent \notin Lengths
           /\ Lengths \subseteq Nat
<1>1. \A V \in SUBSET VecIds : IsFiniteSet(V) /\ Cardinality(V) \in Nat
  <2>1. IsFiniteSet(VecIds)
    BY MemoryIndexAssumption, FS_Interval DEF VecIds
  <2> QED BY <2>1, FS_Subset, FS_CardinalityType
<1>2. Stats(a) \in Keys /\ Stats(a)[1] = "stats"
  BY KeysThere, Kinds
<1>3. Value(Stats(a)) = [docs : Nat, terms : Nat]
  BY <1>2 DEF Value
<1>4. \A m, n \in Nat : [docs |-> m, terms |-> n] # Absent
  BY <1>2, <1>3, AbsentAssumption
<1> QED BY <1>1, <1>4, Values, MemoryIndexAssumption

\* Where the text is the same so are the counts.
LEMMA SameCounts ==
    ASSUME NEW s, NEW t, NEW a, SameText(s, t, a)
    PROVE  Docs(s, a) = Docs(t, a) /\ Loaded(s, a) = Loaded(t, a) /\ Counted(s, a) = Counted(t, a)
<1>1. Docs(s, a) = Docs(t, a)
  BY DEF SameText, Docs
<1>2. Terms(s, a) = Terms(t, a)
  BY <1>1 DEF SameText, Terms, Docs
<1> QED BY <1>1, <1>2 DEF SameText, Loaded, Counted

\* Stores with the same text are both right about it, or neither is.
LEMMA SameTotalled ==
    ASSUME NEW s, NEW t, Totalled(s), \A a \in Agents : SameText(s, t, a)
    PROVE  Totalled(t)
<1> SUFFICES ASSUME NEW a \in Agents
             PROVE  /\ \A v \in Docs(t, a) : t[Doc(a, v)] \in Lengths
                    /\ Loaded(t, a) = Counted(t, a)
  BY DEF Totalled
<1>1. /\ Docs(s, a) = Docs(t, a) /\ Loaded(s, a) = Loaded(t, a) /\ Counted(s, a) = Counted(t, a)
  BY SameCounts
<1> QED BY <1>1 DEF Totalled, SameText, Docs

\* No document at all: the statistics are gone too.
LEMMA EmptyTotalled ==
    ASSUME NEW t, \A a \in Agents : t[Stats(a)] = Absent /\ \A v \in VecIds : t[Doc(a, v)] = Absent
    PROVE  Totalled(t)
<1> SUFFICES ASSUME NEW a \in Agents
             PROVE  Docs(t, a) = {} /\ Loaded(t, a) = Counted(t, a)
  BY DEF Totalled
<1>1. Docs(t, a) = {}
  BY DEF Docs
<1>2. Cardinality({}) = 0 /\ Sum(Terms(t, a), {}) = 0
  BY FS_EmptySet, SumOver
<1> QED BY <1>1, <1>2 DEF Loaded, Counted

\* Documents under new vector ids are added to the counts,
LEMMA InsertTotals ==
    ASSUME Totalled(kv), NEW a \in Agents, NEW docs, DOMAIN docs \subseteq VecIds,
           \A v \in DOMAIN docs : docs[v] \in Lengths /\ kv[Doc(a, v)] = Absent,
           NEW t, \A c \in Agents : SameText(t, Apply(kv, StageInsert(a, docs)), c)
    PROVE  Totalled(t)
<1> DEFINE b == StageInsert(a, docs)
           D == {v \in DOMAIN docs : docs[v] > 0}
           O == Docs(kv, a)
           st == [docs |-> LoadStats(a).docs + Cardinality(D),
                  terms |-> LoadStats(a).terms + Total([v \in D |-> docs[v]])]
           p  == Puts(D, LAMBDA v : Doc(a, v), LAMBDA v : docs[v])
           q  == Put(Stats(a), st)
<1>0. \A v \in DOMAIN docs : docs[v] \in Nat
  BY TextFacts
<1>1. /\ \A c, v : Doc(c, v) \in DOMAIN b <=> c = a /\ v \in D
      /\ \A v \in D : b[Doc(a, v)] = docs[v]
  BY <1>0, StageInsertWrites
<1>2. CASE D = {}
  <2>1. b = Nothing
    BY <1>2 DEF StageInsert
  <2>2. \A k \in Keys : Apply(kv, b)[k] = kv[k]
    BY <2>1 DEF Apply, Nothing
  <2>3. \A c \in Agents : SameText(kv, t, c)
    BY <2>2, KeysThere DEF SameText
  <2> QED BY <2>3, SameTotalled
<1>3. CASE D # {}
  <2>1. /\ \A c : Stats(c) \in DOMAIN b <=> c = a
        /\ b[Stats(a)] = st
    <3>1. b = p ++ q
      BY <1>3 DEF StageInsert
    <3>2. DOMAIN p = {Doc(a, v) : v \in D}
      BY DEF Puts
    <3>3. DOMAIN q = {Stats(a)} /\ q[Stats(a)] = st
      BY DEF Put
    <3> HIDE DEF p, q, st, b
    <3>4. \A c : Stats(c) \notin DOMAIN p
      BY <3>2, Kinds
    <3>5. DOMAIN b = DOMAIN p \cup DOMAIN q /\ \A k \in DOMAIN q : k \notin DOMAIN p => b[k] = q[k]
      <4>1. /\ DOMAIN (p ++ q) = DOMAIN p \cup DOMAIN q
            /\ \A k \in DOMAIN q : k \notin DOMAIN p => (p ++ q)[k] = q[k]
        BY Together
      <4> QED BY <3>1, <4>1
    <3>6. \A c : Stats(c) = Stats(a) <=> c = a
      BY KeyOf
    <3>7. \A c : Stats(c) \in DOMAIN b <=> c = a
      BY <3>3, <3>4, <3>5, <3>6
    <3>8. b[Stats(a)] = st
      BY <3>3, <3>4, <3>5
    <3> QED BY <3>7, <3>8
  <2>2. \A k \in Keys : /\ k \in DOMAIN b => Apply(kv, b)[k] = b[k]
                        /\ k \notin DOMAIN b => Apply(kv, b)[k] = kv[k]
    BY Applied
  <2> HIDE DEF b, st, p, q
  <2>3. ASSUME NEW c \in Agents, c # a PROVE SameText(kv, t, c)
    BY <1>1, <2>1, <2>2, <2>3, KeysThere DEF SameText, b
  <2>4. /\ t[Stats(a)] = st
        /\ \A v \in VecIds : t[Doc(a, v)] = IF v \in D THEN docs[v] ELSE kv[Doc(a, v)]
    BY <1>1, <2>1, <2>2, KeysThere DEF SameText, b
  <2>5. Docs(t, a) = O \cup D /\ O \cap D = {}
    <3>1. \A v \in D : v \in VecIds /\ docs[v] # Absent /\ kv[Doc(a, v)] = Absent
      BY TextFacts
    <3> QED BY <2>4, <3>1 DEF Docs
  <2>6. IsFiniteSet(O) /\ IsFiniteSet(D) /\ Cardinality(O) \in Nat /\ Cardinality(D) \in Nat
    <3>1. O \in SUBSET VecIds /\ D \in SUBSET VecIds
      BY DEF Docs
    <3> QED BY <3>1, TextFacts
  <2>7. Cardinality(Docs(t, a)) = Cardinality(O) + Cardinality(D)
    <3>1. Cardinality(O \cup D) = Cardinality(O) + Cardinality(D) - Cardinality(O \cap D)
      BY <2>6, FS_Union
    <3>2. Cardinality(O \cap D) = 0
      BY <2>5, FS_EmptySet
    <3> QED BY <2>5, <2>6, <3>1, <3>2
  <2>8. /\ \A v \in O : Terms(t, a)[v] = Terms(kv, a)[v] /\ Terms(t, a)[v] \in Lengths
        /\ \A v \in D : Terms(t, a)[v] = docs[v] /\ docs[v] \in Lengths
    <3>1. \A v \in O : v \in VecIds /\ v \notin D /\ kv[Doc(a, v)] \in Lengths
      BY <2>5 DEF Docs, Totalled
    <3>2. \A v \in D : v \in VecIds
      OBVIOUS
    <3> HIDE DEF O, D
    <3>3. \A v \in Docs(t, a) : Terms(t, a)[v] = t[Doc(a, v)]
      BY DEF Terms
    <3>4. \A v \in O : Terms(kv, a)[v] = kv[Doc(a, v)]
      BY DEF Terms, O
    <3>5. \A v \in D : docs[v] \in Lengths
      BY DEF D
    <3> QED BY <2>4, <2>5, <3>1, <3>2, <3>3, <3>4, <3>5
  <2>9. Sum(Terms(t, a), Docs(t, a)) = Sum(Terms(kv, a), O) + Total([v \in D |-> docs[v]])
    <3> DEFINE g == [v \in D |-> docs[v]]
    <3>1. Sum(Terms(t, a), O) = Sum(Terms(kv, a), O)
      BY <2>8, SumSame
    <3>2. Sum(Terms(t, a), D) = Sum(g, D)
      BY <2>8, SumSame
    <3>3. Total(g) = Sum(g, D)
      BY TotalIs
    <3>4. \A v \in O \cup D : Terms(t, a)[v] \in Nat
      BY <2>8, TextFacts
    <3> HIDE DEF g, O, D
    <3>5. Sum(Terms(t, a), O \cup D) = Sum(Terms(t, a), O) + Sum(Terms(t, a), D)
      BY <2>5, <2>6, <3>4, SumSplit
    <3>6. Sum(Terms(t, a), Docs(t, a)) = Sum(Terms(kv, a), O) + Total(g)
      BY <2>5, <3>1, <3>2, <3>3, <3>5
    <3> QED BY <3>6 DEF g
  <2>10. LoadStats(a) = [docs |-> Cardinality(O), terms |-> Sum(Terms(kv, a), O)]
    BY DEF LoadStats, Loaded, Counted, Totalled
  <2>11. st = Counted(t, a)
    BY <2>7, <2>9, <2>10 DEF Counted, st
  <2>12. st # Absent
    <3>1. Sum(Terms(t, a), Docs(t, a)) \in Nat
      <4>1. \A v \in O \cup D : Terms(t, a)[v] \in Nat
        BY <2>8, TextFacts
      <4>2. IsFiniteSet(O \cup D)
        BY <2>6, FS_Union
      <4> QED BY <2>5, <4>1, <4>2, SumNat
    <3>2. Cardinality(Docs(t, a)) \in Nat
      BY <2>6, <2>7
    <3> QED BY <2>11, <3>1, <3>2, TextFacts DEF Counted
  <2>13. Loaded(t, a) = Counted(t, a)
    BY <2>4, <2>11, <2>12 DEF Loaded
  <2>14. \A v \in Docs(t, a) : t[Doc(a, v)] \in Lengths
    BY <2>5, <2>8 DEF Terms
  <2>15. ASSUME NEW c \in Agents, c # a
         PROVE  /\ \A v \in Docs(t, c) : t[Doc(c, v)] \in Lengths
                /\ Loaded(t, c) = Counted(t, c)
    <3>1. SameText(kv, t, c)
      BY <2>3, <2>15
    <3>2. Docs(kv, c) = Docs(t, c) /\ Loaded(kv, c) = Loaded(t, c) /\ Counted(kv, c) = Counted(t, c)
      BY <3>1, SameCounts
    <3> QED BY <3>1, <3>2 DEF Totalled, SameText, Docs
  <2> QED BY <2>13, <2>14, <2>15 DEF Totalled
<1> QED BY <1>2, <1>3

\* and those of forgotten vector ids are taken off.
LEMMA DeleteTotals ==
    ASSUME Totalled(kv), NEW a \in Agents, NEW V \in SUBSET VecIds,
           NEW t, \A c \in Agents : SameText(t, Apply(kv, StageDelete(a, V)), c)
    PROVE  Totalled(t)
<1> DEFINE b == StageDelete(a, V)
           D == {v \in V : kv[Doc(a, v)] # Absent}
           O == Docs(kv, a)
           g == [v \in D |-> kv[Doc(a, v)]]
           st == [docs |-> Minus(LoadStats(a).docs, Cardinality(D)),
                  terms |-> Minus(LoadStats(a).terms, Total(g))]
           p  == Dels({Doc(a, v) : v \in D})
           q  == Put(Stats(a), st)
<1>1. /\ \A c, v : Doc(c, v) \in DOMAIN b <=> c = a /\ v \in D
      /\ \A v \in D : b[Doc(a, v)] = Absent
  BY StageDeleteWrites
<1>2. CASE D = {}
  <2>1. b = Nothing
    BY <1>2 DEF StageDelete
  <2>2. \A k \in Keys : Apply(kv, b)[k] = kv[k]
    BY <2>1 DEF Apply, Nothing
  <2>3. \A c \in Agents : SameText(kv, t, c)
    BY <2>2, KeysThere DEF SameText
  <2> QED BY <2>3, SameTotalled
<1>3. CASE D # {}
  <2>1. /\ \A c : Stats(c) \in DOMAIN b <=> c = a
        /\ b[Stats(a)] = st
    <3>1. b = p ++ q
      BY <1>3 DEF StageDelete
    <3>2. DOMAIN p = {Doc(a, v) : v \in D}
      BY DEF Dels
    <3>3. DOMAIN q = {Stats(a)} /\ q[Stats(a)] = st
      BY DEF Put
    <3> HIDE DEF p, q, st, b
    <3>4. \A c : Stats(c) \notin DOMAIN p
      BY <3>2, Kinds
    <3>5. DOMAIN b = DOMAIN p \cup DOMAIN q /\ \A k \in DOMAIN q : k \notin DOMAIN p => b[k] = q[k]
      <4>1. /\ DOMAIN (p ++ q) = DOMAIN p \cup DOMAIN q
            /\ \A k \in DOMAIN q : k \notin DOMAIN p => (p ++ q)[k] = q[k]
        BY Together
      <4> QED BY <3>1, <4>1
    <3>6. \A c : Stats(c) = Stats(a) <=> c = a
      BY KeyOf
    <3>7. \A c : Stats(c) \in DOMAIN b <=> c = a
      BY <3>3, <3>4, <3>5, <3>6
    <3>8. b[Stats(a)] = st
      BY <3>3, <3>4, <3>5
    <3> QED BY <3>7, <3>8
  <2>2. \A k \in Keys : /\ k \in DOMAIN b => Apply(kv, b)[k] = b[k]
                        /\ k \notin DOMAIN b => Apply(kv, b)[k] = kv[k]
    BY Applied
  <2> HIDE DEF b, st, p, q
  <2>3. ASSUME NEW c \in Agents, c # a PROVE SameText(kv, t, c)
    BY <1>1, <2>1, <2>2, <2>3, KeysThere DEF SameText, b
  <2>4. /\ t[Stats(a)] = st
        /\ \A v \in VecIds : t[Doc(a, v)] = IF v \in D THEN Absent ELSE kv[Doc(a, v)]
    BY <1>1, <2>1, <2>2, KeysThere DEF SameText, b
  <2>5. D \subseteq O /\ Docs(t, a) = O \ D
    BY <2>4 DEF Docs
  <2>6. /\ IsFiniteSet(O) /\ IsFiniteSet(D) /\ IsFiniteSet(O \ D)
        /\ Cardinality(O) \in Nat /\ Cardinality(D) \in Nat /\ Cardinality(O \ D) \in Nat
    <3>1. O \in SUBSET VecIds /\ D \in SUBSET VecIds /\ O \ D \in SUBSET VecIds
      BY DEF Docs
    <3> QED BY <3>1, TextFacts
  <2> DEFINE R == O \ D
  <2>7. O = R \cup D /\ R \cap D = {}
    BY <2>5
  <2>8. Cardinality(O) = Cardinality(R) + Cardinality(D)
    <3>1. Cardinality(R \cup D) = Cardinality(R) + Cardinality(D) - Cardinality(R \cap D)
      BY <2>6, FS_Union
    <3>2. Cardinality(R \cap D) = 0
      BY <2>7, FS_EmptySet
    <3>3. Cardinality(R) \in Nat /\ Cardinality(D) \in Nat /\ O = R \cup D
      BY <2>6, <2>7
    <3> HIDE DEF O, R, D
    <3> QED BY <3>1, <3>2, <3>3
  <2>9. \A v \in O : kv[Doc(a, v)] \in Lengths /\ kv[Doc(a, v)] \in Nat /\ Terms(kv, a)[v] = kv[Doc(a, v)]
    BY TextFacts DEF Totalled, Terms
  <2>10. \A v \in R : v \in VecIds /\ Terms(t, a)[v] = t[Doc(a, v)] /\ t[Doc(a, v)] = kv[Doc(a, v)]
    <3>1. \A v \in R : v \in VecIds /\ v \notin D
      BY DEF Docs
    <3> QED BY <2>4, <2>5, <3>1 DEF Terms
  <2>11. \A v \in D : g[v] = kv[Doc(a, v)]
    OBVIOUS
  <2>12. Total(g) = Sum(g, D)
    BY TotalIs
  <2> HIDE DEF g, O, D
  <2>13. /\ Sum(Terms(kv, a), O) = Sum(Terms(kv, a), R) + Sum(Terms(kv, a), D)
         /\ Sum(Terms(kv, a), R) \in Nat /\ Sum(Terms(kv, a), D) \in Nat
    <3>1. /\ \A v \in R \cup D : Terms(kv, a)[v] \in Nat
          /\ \A v \in R : Terms(kv, a)[v] \in Nat
          /\ \A v \in D : Terms(kv, a)[v] \in Nat
      BY <2>5, <2>9
    <3>2. Sum(Terms(kv, a), R \cup D) = Sum(Terms(kv, a), R) + Sum(Terms(kv, a), D)
      <4>1. IsFiniteSet(R) /\ IsFiniteSet(D) /\ R \cap D = {}
        BY <2>6, <2>7
      <4> HIDE DEF R
      <4> QED BY <3>1, <4>1, SumSplit
    <3>3. Sum(Terms(kv, a), R) \in Nat /\ Sum(Terms(kv, a), D) \in Nat
      BY <2>6, <3>1, SumNat
    <3> QED BY <2>7, <3>2, <3>3
  <2>14. Sum(Terms(t, a), R) = Sum(Terms(kv, a), R)
    <3>1. \A v \in R : Terms(t, a)[v] = Terms(kv, a)[v]
      BY <2>9, <2>10
    <3> QED BY <3>1, SumSame
  <2>15. Sum(g, D) = Sum(Terms(kv, a), D)
    <3>1. \A v \in D : g[v] = Terms(kv, a)[v]
      BY <2>5, <2>9, <2>11
    <3> QED BY <3>1, SumSame
  <2>16. LoadStats(a) = [docs |-> Cardinality(O), terms |-> Sum(Terms(kv, a), O)]
    BY DEF LoadStats, Loaded, Counted, Totalled, O
  <2>17. st = [docs |-> Cardinality(R), terms |-> Sum(Terms(kv, a), R)]
    <3>1. Minus(Cardinality(O), Cardinality(D)) = Cardinality(R)
      BY <2>6, <2>8 DEF Minus
    <3>2. Minus(Sum(Terms(kv, a), O), Total(g)) = Sum(Terms(kv, a), R)
      BY <2>12, <2>13, <2>15 DEF Minus
    <3> QED BY <2>16, <3>1, <3>2 DEF st
  <2>18. st = Counted(t, a)
    BY <2>5, <2>14, <2>17 DEF Counted
  <2>19. st # Absent
    BY <2>6, <2>13, <2>17, TextFacts
  <2>20. Loaded(t, a) = Counted(t, a)
    BY <2>4, <2>18, <2>19 DEF Loaded
  <2>21. \A v \in Docs(t, a) : t[Doc(a, v)] \in Lengths
    BY <2>5, <2>9, <2>10
  <2>22. ASSUME NEW c \in Agents, c # a
         PROVE  /\ \A v \in Docs(t, c) : t[Doc(c, v)] \in Lengths
                /\ Loaded(t, c) = Counted(t, c)
    <3>1. SameText(kv, t, c)
      BY <2>3, <2>22
    <3>2. Docs(kv, c) = Docs(t, c) /\ Loaded(kv, c) = Loaded(t, c) /\ Counted(kv, c) = Counted(t, c)
      BY <3>1, SameCounts
    <3> QED BY <3>1, <3>2 DEF Totalled, SameText, Docs
  <2> QED BY <2>20, <2>21, <2>22 DEF Totalled
<1> QED BY <1>2, <1>3

-----------------------------------------------------------------------------
(* What the batches do to documents and statistics. *)

TextFree(b) == \A k \in DOMAIN b : k[1] \notin {"doc", "stats"}

\* b writes there what c writes.
SameWrites(b, c) ==
    \A k : k[1] \in {"doc", "stats"} =>
        (k \in DOMAIN b <=> k \in DOMAIN c) /\ (k \in DOMAIN c => b[k] = c[k])

\* A batch that writes none of them leaves the counts right.
LEMMA TextFreeKeeps ==
    ASSUME Totalled(kv), NEW b, TextFree(b), NEW t, t = Apply(kv, b)
    PROVE  Totalled(t)
<1>1. \A k \in Keys : k[1] \in {"doc", "stats"} => t[k] = kv[k]
  BY Applied DEF TextFree
<1>2. \A a \in Agents : SameText(kv, t, a)
  BY <1>1, KeysThere, Kinds DEF SameText
<1> QED BY <1>2, SameTotalled

\* Nothing else shows in the documents and statistics than what is written there.
LEMMA SameWritesText ==
    ASSUME NEW b, NEW c, SameWrites(b, c)
    PROVE  \A a \in Agents : SameText(Apply(kv, b), Apply(kv, c), a)
<1>1. ASSUME NEW k \in Keys, k[1] \in {"doc", "stats"}
      PROVE  Apply(kv, b)[k] = Apply(kv, c)[k]
  BY <1>1, Applied DEF SameWrites
<1> QED BY <1>1, KeysThere, Kinds DEF SameText

\* What else a batch writes does not matter.
LEMMA WritesBeside ==
    ASSUME NEW x, TextFree(x), NEW b, NEW c, SameWrites(b, c)
    PROVE  SameWrites(x ++ b, c) /\ SameWrites(b ++ x, c)
<1>1. /\ DOMAIN (x ++ b) = DOMAIN x \cup DOMAIN b
      /\ \A k \in DOMAIN b : k \notin DOMAIN x => (x ++ b)[k] = b[k]
  BY Together
<1>2. /\ DOMAIN (b ++ x) = DOMAIN b \cup DOMAIN x
      /\ \A k \in DOMAIN b : (b ++ x)[k] = b[k]
  BY Together
<1>3. SameWrites(x ++ b, c)
  BY <1>1 DEF SameWrites, TextFree
<1>4. SameWrites(b ++ x, c)
  BY <1>2 DEF SameWrites, TextFree
<1> QED BY <1>3, <1>4

\* Two batches that write no text write none together.
LEMMA TextFreeTogether ==
    ASSUME NEW x, NEW y, TextFree(x), TextFree(y)
    PROVE  TextFree(x ++ y)
<1>1. DOMAIN (x ++ y) = DOMAIN x \cup DOMAIN y
  BY Together
<1> QED BY <1>1 DEF TextFree

\* What batches are made of writes no text, unless it is a document's or a statistics' key.
LEMMA TextFreeSmall ==
    /\ TextFree(Nothing)
    /\ \A k, x : k[1] \notin {"doc", "stats"} => TextFree(Put(k, x))
    /\ \A S : (\A k \in S : k[1] \notin {"doc", "stats"}) => TextFree(Dels(S))
BY DEF TextFree, Nothing, Put, Dels

\* A put stages the documents of its memories,
LEMMA PutText ==
    ASSUME NEW a, NEW s, NEW b, b = PutBatch(a, s)
    PROVE  SameWrites(b,
                      StageInsert(a, [v \in {next + n - 1 : n \in DOMAIN s} |-> s[v - next + 1].terms]))
<1> DEFINE N == DOMAIN s
           vec(n) == next + n - 1
           p1 == Puts(N, LAMBDA n : Rec(a, s[n].id),
                         LAMBDA n : [vec |-> vec(n), until |-> s[n].until, terms |-> s[n].terms])
           p2 == Puts(N, LAMBDA n : Map(vec(n)), LAMBDA n : <<a, s[n].id>>)
           p3 == Puts(N, LAMBDA n : Node(vec(n)), LAMBDA n : "live")
           p4 == Puts({n \in N : s[n].until # Never},
                      LAMBDA n : Exp(a, s[n].until, s[n].id), LAMBDA n : "set")
           p5 == StageInsert(a, [v \in {vec(n) : n \in N} |-> s[v - next + 1].terms])
           p6 == Put(Alloc, next + Len(s))
           p7 == Put(Reg(a), "set")
<1>1. b = p1 ++ p2 ++ p3 ++ p4 ++ p5 ++ p6 ++ p7
  BY DEF PutBatch
<1>2. TextFree(p1)
  <2>1. DOMAIN p1 = {Rec(a, s[n].id) : n \in N}
    BY DEF Puts
  <2> HIDE DEF p1, p2, p3, p4
  <2> QED BY <2>1, Kinds DEF TextFree
<1>3. TextFree(p2) /\ TextFree(p3)
  <2>1. DOMAIN p2 = {Map(vec(n)) : n \in N} /\ DOMAIN p3 = {Node(vec(n)) : n \in N}
    BY DEF Puts
  <2> HIDE DEF p1, p2, p3, p4
  <2> QED BY <2>1, Kinds DEF TextFree
<1>4. TextFree(p4)
  <2>1. DOMAIN p4 = {Exp(a, s[n].until, s[n].id) : n \in {n \in N : s[n].until # Never}}
    BY DEF Puts
  <2> HIDE DEF p1, p2, p3, p4
  <2> QED BY <2>1, Kinds DEF TextFree
<1>5. TextFree(p6) /\ TextFree(p7)
  BY TextFreeSmall, Kinds
<1> HIDE DEF p1, p2, p3, p4, p5, p6, p7
<1>6. TextFree(p1 ++ p2 ++ p3 ++ p4)
  BY <1>2, <1>3, <1>4, TextFreeTogether
<1>7. SameWrites(p5, p5)
  BY DEF SameWrites
<1>8. SameWrites(p1 ++ p2 ++ p3 ++ p4 ++ p5, p5)
  BY <1>6, <1>7, WritesBeside
<1>9. SameWrites(p1 ++ p2 ++ p3 ++ p4 ++ p5 ++ p6, p5)
  BY <1>5, <1>8, WritesBeside
<1>10. SameWrites(p1 ++ p2 ++ p3 ++ p4 ++ p5 ++ p6 ++ p7, p5)
  BY <1>5, <1>9, WritesBeside
<1> QED BY <1>1, <1>10 DEF p5

\* and a forgetting takes away those of its own.
LEMMA ForgetText ==
    ASSUME NEW a, NEW I, NEW b, b = ForgetBatch(a, I)
    PROVE  SameWrites(b, StageDelete(a, {kv[Rec(a, i)].vec : i \in I}))
<1> DEFINE V == {kv[Rec(a, i)].vec : i \in I}
           M == {i \in I : kv[Rec(a, i)].until # Never}
           S == {Rec(a, i) : i \in I} \cup {Map(v) : v \in V} \cup {Exp(a, kv[Rec(a, i)].until, i) : i \in M}
           L == {v \in V : kv[Node(v)] = "live"}
           p1 == Dels(S)
           p2 == StageDelete(a, V)
           p3 == Puts(L, Node, LAMBDA v : "dead")
<1>1. b = p1 ++ p2 ++ p3
  BY DEF ForgetBatch
<1>2. TextFree(p1)
  <2>1. \A k \in S : k[1] \notin {"doc", "stats"}
    BY Kinds
  <2> QED BY <2>1, TextFreeSmall
<1>3. TextFree(p3)
  <2>1. DOMAIN p3 = {Node(v) : v \in L}
    BY DEF Puts
  <2> HIDE DEF p3
  <2> QED BY <2>1, Kinds DEF TextFree
<1> HIDE DEF p1, p2, p3
<1>4. SameWrites(p2, p2)
  BY DEF SameWrites
<1>5. SameWrites(p1 ++ p2, p2)
  BY <1>2, <1>4, WritesBeside
<1>6. SameWrites(p1 ++ p2 ++ p3, p2)
  BY <1>3, <1>5, WritesBeside
<1> QED BY <1>1, <1>6 DEF p2

-----------------------------------------------------------------------------
(* The statistics count the documents, whatever the step. *)

\* Those that rebuild_fts has still to stage are not there yet.
Counting ==
    /\ Totalled(kv)
    /\ pc = "docs" => \A m \in todo : kv[Doc(m[1], VecOf(m))] = Absent

\* A step that writes none of them.
LEMMA TextFreeStep ==
    ASSUME Faults \subseteq {"rejected"}, IndexInv, Counting, NEW b, TextFree(b),
           Commits(b) \/ Fails(b), pc' # "docs"
    PROVE  Counting'
<1>1. kv' = Apply(kv, b) \/ kv' = kv
  BY Outcomes DEF IndexInv
<1>2. Totalled(kv')
  BY <1>1, TextFreeKeeps DEF Counting
<1> QED BY <1>2 DEF Counting

\* A put,
LEMMA PutCounts ==
    ASSUME Faults \subseteq {"rejected"}, IndexInv, Counting,
           NEW a \in Agents, NEW s \in Groups, PutMany(a, s)
    PROVE  Counting'
<1> DEFINE V == {next + n - 1 : n \in DOMAIN s}
           docs == [v \in V |-> s[v - next + 1].terms]
           b == PutBatch(a, s)
<1>1. /\ pc' = "idle" /\ pc = "idle" /\ next + Len(s) <= MaxVec + 1
      /\ Commits(b) \/ Fails(b)
  BY DEF PutMany
<1>2. next \in Nat /\ Below(kv, next, repairing) /\ Documented(kv, repairing) /\ disk = kv
  BY <1>1, MemoryIndexAssumption DEF IndexInv, Numbered
<1>3. kv' = kv \/ kv' = Apply(kv, b)
  BY <1>1, <1>2, Outcomes
<1>4. CASE kv' = kv
  BY <1>1, <1>4 DEF Counting
<1>5. CASE kv' = Apply(kv, b)
  <2>1. \A n \in DOMAIN s : /\ next + n - 1 \in VecIds /\ next + n - 1 >= next
                            /\ n \in Int /\ s[n].terms \in Lengths
    BY <1>1, <1>2, GroupFacts, MemoryIndexAssumption DEF VecIds
  <2>2. ASSUME NEW v \in DOMAIN docs
        PROVE  v \in VecIds /\ docs[v] \in Lengths /\ kv[Doc(a, v)] = Absent
    <3>1. PICK n \in DOMAIN s : v = next + n - 1
      OBVIOUS
    <3>2. v \in VecIds /\ v >= next /\ docs[v] \in Lengths
      <4>1. v \in V /\ v \in VecIds /\ v >= next
        BY <2>1, <3>1
      <4>2. docs[v] = s[v - next + 1].terms
        BY <4>1
      <4>3. v - next + 1 = n
        BY <1>2, <2>1, <3>1
      <4> QED BY <2>1, <4>1, <4>2, <4>3
    <3>3. ASSUME kv[Doc(a, v)] # Absent PROVE FALSE
      <4>1. PICK i \in Ids : kv[Map(v)] = <<a, i>>
        BY <1>2, <3>2, <3>3 DEF Documented
      <4>2. kv[Map(v)] # Absent
        BY <3>2, <4>1, Values
      <4>3. v < next
        BY <1>2, <3>2, <4>2 DEF Below
      <4>4. v \in Int
        BY <3>2 DEF VecIds
      <4> QED BY <1>2, <3>2, <4>3, <4>4
    <3> QED BY <3>2, <3>3
  <2>3. SameWrites(b, StageInsert(a, docs))
    BY PutText
  <2> HIDE DEF b, docs
  <2>4. \A c \in Agents : SameText(kv', Apply(kv, StageInsert(a, docs)), c)
    BY <1>5, <2>3, SameWritesText
  <2>5. Totalled(kv')
    BY <2>2, <2>4, InsertTotals DEF Counting
  <2> QED BY <1>1, <2>5 DEF Counting
<1> QED BY <1>3, <1>4, <1>5

\* a chunk of a forgetting or one memory of a purge,
LEMMA ForgetCounts ==
    ASSUME Faults \subseteq {"rejected"}, IndexInv, Counting, NEW a \in Agents, NEW I \in SUBSET Memories(a),
           Commits(ForgetBatch(a, I)) \/ Fails(ForgetBatch(a, I)), pc' # "docs"
    PROVE  Counting'
<1> DEFINE V == {kv[Rec(a, i)].vec : i \in I}
           b == ForgetBatch(a, I)
<1>1. kv' = kv \/ kv' = Apply(kv, b)
  BY Outcomes DEF IndexInv
<1>2. CASE kv' = kv
  BY <1>2 DEF Counting
<1>3. CASE kv' = Apply(kv, b)
  <2>1. V \in SUBSET VecIds
    BY DEF Memories, IndexInv, Typed, Record
  <2>2. SameWrites(b, StageDelete(a, V))
    BY ForgetText
  <2> HIDE DEF b, V
  <2>3. \A c \in Agents : SameText(kv', Apply(kv, StageDelete(a, V)), c)
    BY <1>3, <2>2, SameWritesText
  <2>4. Totalled(kv')
    BY <2>1, <2>3, DeleteTotals DEF Counting
  <2> QED BY <2>4 DEF Counting
<1> QED BY <1>1, <1>2, <1>3

\* the removal of all documents,
LEMMA FtsCounts ==
    ASSUME Faults \subseteq {"rejected"}, IndexInv, Counting, RepairFts
    PROVE  Counting'
<1> DEFINE S == {Doc(a, v) : a \in Agents, v \in VecIds} \cup {Stats(a) : a \in Agents}
           b == Dels(S)
<1>1. \/ Commits(b) /\ pc' = "docs" /\ todo' = Records
      \/ Fails(b) /\ pc' = "closed"
  BY DEF RepairFts
<1>2. disk = kv /\ Typed(kv)
  BY DEF IndexInv
<1>3. CASE Commits(b) /\ pc' = "docs" /\ todo' = Records
  <2>1. kv' = Apply(kv, b)
    BY <1>2, <1>3, Outcomes
  <2>2. Only(kv', {"doc", "stats"}) /\ \A c \in Agents, v \in VecIds : kv'[Doc(c, v)] = Absent
    BY <2>1, FtsStore
  <2>3. \A c \in Agents : kv'[Stats(c)] = Absent
    <3>1. DOMAIN b = S /\ \A k \in S : b[k] = Absent
      BY DEF Dels
    <3>2. \A c \in Agents : Stats(c) \in S /\ Stats(c) \in Keys
      BY KeysThere
    <3> HIDE DEF S, b
    <3> QED BY <2>1, <3>1, <3>2, Applied
  <2>4. Totalled(kv')
    BY <2>2, <2>3, EmptyTotalled
  <2>5. \A c \in Agents, j \in Ids : kv'[Rec(c, j)] = kv[Rec(c, j)]
    BY <2>2, OnlyFacts
  <2>6. ASSUME NEW m \in todo' PROVE kv'[Doc(m[1], kv'[Rec(m[1], m[2])].vec)] = Absent
    <3>1. m \in Records
      BY <1>3
    <3>2. m[1] \in Agents /\ m[2] \in Ids /\ kv[Rec(m[1], m[2])] # Absent
      BY <3>1, RecordFacts
    <3>3. kv[Rec(m[1], m[2])].vec \in VecIds
      BY <1>2, <3>2 DEF Typed, Record
    <3> QED BY <2>2, <2>5, <3>2, <3>3
  <2> QED BY <2>4, <2>6 DEF Counting, VecOf
<1>4. CASE Fails(b) /\ pc' = "closed"
  <2>1. kv' = kv
    BY <1>2, <1>4, Outcomes
  <2> QED BY <1>4, <2>1 DEF Counting
<1> QED BY <1>1, <1>3, <1>4

\* and one coming back.
LEMMA DocCounts ==
    ASSUME Faults \subseteq {"rejected"}, IndexInv, Counting, RepairDoc
    PROVE  Counting'
<1>0. disk = kv /\ Typed(kv) /\ Linked(kv, lost) /\ todo \subseteq Records /\ pc = "docs"
  BY DEF IndexInv, Calls, RepairDoc
<1>1. PICK m \in todo :
         LET b == StageInsert(m[1], Put(VecOf(m), kv[Rec(m[1], m[2])].terms))
         IN \/ Commits(b) /\ todo' = todo \ {m} /\ UNCHANGED pc
            \/ Fails(b) /\ todo' = {} /\ pc' = "closed"
  BY DEF RepairDoc
<1> DEFINE docs == Put(VecOf(m), kv[Rec(m[1], m[2])].terms)
           b == StageInsert(m[1], docs)
<1>2. m \in Records /\ m[1] \in Agents /\ m[2] \in Ids /\ kv[Rec(m[1], m[2])] # Absent /\ m = <<m[1], m[2]>>
  BY <1>0, RecordFacts
<1>3. CASE Commits(b) /\ todo' = todo \ {m} /\ UNCHANGED pc
  <2>1. kv' = Apply(kv, b)
    BY <1>0, <1>3, Outcomes
  <2>2. DOMAIN docs \subseteq VecIds /\ \A v \in DOMAIN docs : docs[v] \in Lengths /\ kv[Doc(m[1], v)] = Absent
    <3>1. VecOf(m) \in VecIds /\ kv[Rec(m[1], m[2])].terms \in Lengths
      BY <1>0, <1>2 DEF Typed, Record, VecOf
    <3>2. kv[Doc(m[1], VecOf(m))] = Absent
      BY <1>0 DEF Counting
    <3> QED BY <3>1, <3>2 DEF Put
  <2>3. \A c \in Agents : SameText(kv', Apply(kv, b), c)
    BY <2>1 DEF SameText
  <2>4. Totalled(kv')
    <3> HIDE DEF docs
    <3> QED BY <1>2, <2>2, <2>3, InsertTotals DEF Counting
  <2>5. /\ Only(kv', {"doc", "stats"})
        /\ \A c \in Agents, v \in VecIds :
              kv'[Doc(c, v)] # Absent => kv[Doc(c, v)] # Absent \/ (c = m[1] /\ v = VecOf(m))
    BY <1>0, <1>2, <2>1, DocStore
  <2>6. \A c \in Agents, j \in Ids : kv'[Rec(c, j)] = kv[Rec(c, j)]
    BY <2>5, OnlyFacts
  <2>7. ASSUME NEW n \in todo' PROVE kv'[Doc(n[1], kv'[Rec(n[1], n[2])].vec)] = Absent
    <3>1. n \in todo /\ n # m
      BY <1>3
    <3>2. n[1] \in Agents /\ n[2] \in Ids /\ kv[Rec(n[1], n[2])] # Absent /\ n = <<n[1], n[2]>>
      BY <1>0, <3>1, RecordFacts
    <3>3. VecOf(n) \in VecIds /\ kv[Doc(n[1], VecOf(n))] = Absent
      BY <1>0, <3>1, <3>2 DEF Typed, Record, VecOf, Counting
    <3>4. kv[Map(VecOf(m))] = m /\ kv[Map(VecOf(n))] = n
      BY <1>0, <1>2, <3>2 DEF Linked, VecOf
    <3>5. VecOf(n) # VecOf(m)
      BY <3>1, <3>4
    <3>6. kv'[Doc(n[1], VecOf(n))] = Absent
      BY <2>5, <3>2, <3>3, <3>5
    <3> QED BY <2>6, <3>2, <3>6 DEF VecOf
  <2> QED BY <2>4, <2>7 DEF Counting, VecOf
<1>4. CASE Fails(b) /\ todo' = {} /\ pc' = "closed"
  <2>1. kv' = kv
    BY <1>0, <1>4, Outcomes
  <2> QED BY <1>4, <2>1 DEF Counting
<1> QED BY <1>1, <1>3, <1>4

\* Every step keeps the counts right.
LEMMA CountingStep ==
    ASSUME Faults \subseteq {"rejected"}, IndexInv, Counting, [Next]_vars
    PROVE  Counting'
<1>0. disk = kv /\ Calls
  BY DEF IndexInv
<1>1. ASSUME NEW a \in Agents, NEW i \in Ids, NEW t \in Times \cup {Never}, Update(a, i, t)
      PROVE  Counting'
  <2> DEFINE old == kv[Rec(a, i)].until
             p1 == Put(Rec(a, i), [kv[Rec(a, i)] EXCEPT !.until = t])
             p2 == IF t \in {old, Never} THEN Nothing ELSE Put(Exp(a, t, i), "set")
             p3 == IF old \in {t, Never} THEN Nothing ELSE Dels({Exp(a, old, i)})
             b == UpdateBatch(a, i, t)
  <2>1. b = p1 ++ p2 ++ p3
    BY DEF UpdateBatch
  <2>2. TextFree(p1) /\ TextFree(p2) /\ TextFree(p3)
    BY TextFreeSmall, Kinds
  <2> HIDE DEF p1, p2, p3
  <2>3. TextFree(b)
    BY <2>1, <2>2, TextFreeTogether
  <2>4. (Commits(b) \/ Fails(b)) /\ pc' # "docs"
    BY <1>1 DEF Update
  <2> HIDE DEF b
  <2> QED BY <2>3, <2>4, TextFreeStep
<1>2. CASE ForgetChunk
  <2>1. pc = "forget" /\ pc' # "docs" /\ who \in Agents /\ todo \subseteq Memories(who)
    BY <1>0, <1>2 DEF ForgetChunk, Calls, Returns
  <2>2. PICK I \in SUBSET todo : Commits(ForgetBatch(who, I)) \/ Fails(ForgetBatch(who, I))
    BY <1>2 DEF ForgetChunk
  <2>3. I \in SUBSET Memories(who)
    BY <2>1
  <2> QED BY <2>1, <2>2, <2>3, ForgetCounts
<1>3. CASE PurgeOne
  <2>1. pc = "purge" /\ pc' # "docs" /\ who \in Agents /\ todo \subseteq Memories(who)
    BY <1>0, <1>3 DEF PurgeOne, Calls, Returns
  <2>2. PICK i \in todo : Commits(ForgetBatch(who, {i})) \/ Fails(ForgetBatch(who, {i}))
    BY <1>3 DEF PurgeOne
  <2>3. {i} \in SUBSET Memories(who)
    BY <2>1
  <2> QED BY <2>1, <2>2, <2>3, ForgetCounts
<1>4. CASE PurgeRegistry
  <2>1. pc' # "docs" /\ (Commits(Dels({Reg(who)})) \/ Fails(Dels({Reg(who)})))
    BY <1>4 DEF PurgeRegistry, Returns
  <2>2. TextFree(Dels({Reg(who)}))
    BY TextFreeSmall, Kinds
  <2> QED BY <2>1, <2>2, TextFreeStep
<1>5. ASSUME NEW V PROVE TextFree(Dels({Node(v) : v \in V}))
  <2>1. \A k \in {Node(v) : v \in V} : k[1] \notin {"doc", "stats"}
    BY Kinds
  <2> QED BY <2>1, TextFreeSmall
<1>6. CASE Consolidate
  <2>1. PICK V \in SUBSET Dead : Commits(Dels({Node(v) : v \in V}))
    BY <1>6 DEF Consolidate
  <2>2. pc' # "docs"
    BY <1>6 DEF Consolidate
  <2> QED BY <1>5, <2>1, <2>2, TextFreeStep
<1>7. ASSUME kv' = kv, pc' # "docs" PROVE Counting'
  BY <1>7 DEF Counting
<1>8. CASE Rot
  <2>1. \A c \in Agents : SameText(kv, kv', c)
    <3>1. \A k : k # Alloc => kv'[k] = kv[k]
      BY <1>8 DEF Rot, IndexInv
    <3> QED BY <3>1, Kinds DEF SameText
  <2>2. Totalled(kv')
    BY <2>1, SameTotalled DEF Counting
  <2> QED BY <1>8, <2>2 DEF Rot, Counting
<1>9. CASE RepairMappings
  <2> DEFINE p1 == Puts(Records, LAMBDA m : Map(VecOf(m)), LAMBDA m : m)
             p2 == Put(Alloc, After({VecOf(m) : m \in Records}))
             p3 == Dels({Map(v) : v \in VecIds})
             b == p1 ++ p2 ++ p3
  <2>1. pc' # "docs" /\ (Commits(b) \/ Fails(b))
    BY <1>9 DEF RepairMappings
  <2>2. TextFree(p1)
    <3>1. DOMAIN p1 = {Map(VecOf(m)) : m \in Records}
      BY DEF Puts
    <3> HIDE DEF p1
    <3> QED BY <3>1, Kinds DEF TextFree
  <2>3. TextFree(p2)
    BY TextFreeSmall, Kinds
  <2>4. TextFree(p3)
    <3>1. \A k \in {Map(v) : v \in VecIds} : k[1] \notin {"doc", "stats"}
      BY Kinds
    <3> QED BY <3>1, TextFreeSmall
  <2> HIDE DEF p1, p2, p3
  <2>5. TextFree(b)
    BY <2>2, <2>3, <2>4, TextFreeTogether
  <2> HIDE DEF b
  <2> QED BY <2>1, <2>5, TextFreeStep
<1>10. CASE RepairVectors
  <2> DEFINE b == Dels({Node(v) : v \in Dead})
  <2>1. pc' # "docs" /\ (Commits(b) \/ Fails(b))
    BY <1>10 DEF RepairVectors, ReembedMissing
  <2>2. TextFree(b)
    BY <1>5
  <2> HIDE DEF b
  <2> QED BY <2>1, <2>2, TextFreeStep
<1>11. CASE DeleteVector
  <2>1. PICK m \in todo :
           LET v == VecOf(m)
               b == IF kv[Node(v)] = "live" THEN Put(Node(v), "dead") ELSE Nothing
           IN (Commits(b) \/ Fails(b)) /\ pc' \in {pc, "closed"}
    BY <1>11 DEF DeleteVector
  <2> DEFINE b == IF kv[Node(VecOf(m))] = "live" THEN Put(Node(VecOf(m)), "dead") ELSE Nothing
  <2>2. TextFree(b)
    BY TextFreeSmall, Kinds
  <2>3. (Commits(b) \/ Fails(b)) /\ pc' # "docs"
    BY <1>11, <2>1 DEF DeleteVector
  <2> HIDE DEF b
  <2> QED BY <2>2, <2>3, TextFreeStep
<1>12. CASE InsertVector
  <2> DEFINE b == Put(Node(VecOf(who)), "live")
  <2>1. (Commits(b) \/ Fails(b)) /\ pc' # "docs"
    BY <1>12 DEF InsertVector
  <2>2. TextFree(b)
    BY TextFreeSmall, Kinds
  <2> HIDE DEF b
  <2> QED BY <2>1, <2>2, TextFreeStep
<1>13. CASE Stop \/ Open \/ Reembedded
  BY <1>0, <1>7, <1>13 DEF Stop, Open, Reembedded
<1>14. CASE \E a \in Agents : StartPurge(a) \/ \E I \in SUBSET Ids : StartForget(a, I)
  BY <1>7, <1>14 DEF StartPurge, StartForget
<1>15. CASE \E a \in Agents : ReembedAll(a) \/ \E i \in Ids : ReembedIds(a, {i})
  BY <1>7, <1>15 DEF ReembedAll, ReembedIds
<1>16. CASE UNCHANGED vars
  <2>1. kv' = kv /\ pc' = pc /\ todo' = todo
    BY <1>16 DEF vars
  <2> QED BY <2>1 DEF Counting, VecOf
<1>17. CASE RepairFts \/ RepairDoc
  BY <1>17, FtsCounts, DocCounts
<1>18. CASE \E a \in Agents, s \in Groups : PutMany(a, s)
  BY <1>18, PutCounts
<1> QED BY <1>1, <1>2, <1>3, <1>4, <1>6, <1>8, <1>9, <1>10, <1>11, <1>12, <1>13, <1>14, <1>15, <1>16, <1>17,
           <1>18 DEF Next

\* check_fts finds the statistics the ranking divides by to be the counts of the documents
\* there are and of their terms, wherever staging, forgetting or a repair was cut short.
THEOREM StatisticsAgreeAlways ==
    ASSUME Faults \subseteq {"rejected"}
    PROVE  Spec => []StatisticsAgree
<1>1. Init => Counting
  <2> SUFFICES ASSUME Init PROVE Counting
    OBVIOUS
  <2>1. \A a \in Agents : kv[Stats(a)] = Absent /\ \A v \in VecIds : kv[Doc(a, v)] = Absent
    BY KeysThere DEF Init
  <2>2. Totalled(kv)
    BY <2>1, EmptyTotalled
  <2> QED BY <2>2 DEF Init, Counting
<1>2. IndexInv /\ Counting /\ [Next]_vars => Counting'
  BY CountingStep
<1>3. ASSUME IndexInv, Counting PROVE StatisticsAgree
  <2> SUFFICES ASSUME NEW a \in Agents
               PROVE  LET D == {v \in VecIds : disk[Doc(a, v)] # Absent}
                          s == IF disk[Stats(a)] = Absent THEN [docs |-> 0, terms |-> 0] ELSE disk[Stats(a)]
                      IN s = [docs |-> Cardinality(D), terms |-> Total([v \in D |-> disk[Doc(a, v)]])]
    BY DEF StatisticsAgree
  <2>1. disk = kv
    BY <1>3 DEF IndexInv
  <2>2. Loaded(kv, a) = Counted(kv, a)
    BY <1>3 DEF Counting, Totalled
  <2>3. Total(Terms(kv, a)) = Sum(Terms(kv, a), Docs(kv, a))
    <3>1. DOMAIN Terms(kv, a) = Docs(kv, a)
      BY DEF Terms
    <3> QED BY <3>1, TotalIs
  <2>4. Loaded(kv, a) = [docs |-> Cardinality(Docs(kv, a)), terms |-> Total(Terms(kv, a))]
    BY <2>2, <2>3 DEF Counted
  <2> QED BY <2>1, <2>4 DEF Loaded, Docs, Terms
<1> QED BY <1>1, <1>2, <1>3, IndexInvariance, PTL DEF Spec

===============================================================================
