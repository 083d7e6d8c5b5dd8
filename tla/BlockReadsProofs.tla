-------------------------- MODULE BlockReadsProofs --------------------------
(***************************************************************************)
(* Theorems about BlockReads, and about the keys of KeySpace.              *)
(***************************************************************************)
EXTENDS BlockReads, KeyCases, FiniteSetTheorems, SequenceTheorems, WellFoundedInduction, TLAPS

(* --------------------------- the order of keys ------------------------- *)
Key == Seq(Nat)

(* A nonempty set of numbers has a least one.                              *)
LEMMA LeastNumber ==
    ASSUME NEW S \in SUBSET Nat, S # {}
    PROVE  \E n \in S : \A m \in S : n <= m
<1>1. PICK n \in S : \A m \in S : ~(<<m, n>> \in OpToRel(<, Nat))
  BY NatLessThanWellFounded, WFMin, Zenon
<1>2. ASSUME NEW m \in S PROVE n <= m
  <2>1. ~(m < n) BY <1>1 DEF OpToRel
  <2> QED BY <2>1
<1> QED BY <1>2

(* A key is the sequence of its bytes.                                     *)
LEMMA KeyBytes ==
    ASSUME NEW a \in Key
    PROVE  Len(a) \in Nat /\ a = [i \in 1..Len(a) |-> a[i]]
  BY DEF Key

(* Less(a, b) at "n": they agree up to there, and a ends or is smaller.    *)
PartAt(a, b, n) ==
    /\ n \in Nat /\ n <= Len(a) /\ n < Len(b)
    /\ \A i \in 1..n : a[i] = b[i]
    /\ n = Len(a) \/ a[n + 1] < b[n + 1]

(* The order of keys (key/mod.rs), position by position.                   *)
LEMMA LessAt ==
    ASSUME NEW a \in Key, NEW b \in Key
    PROVE  Less(a, b) <=> \E n \in Nat : PartAt(a, b, n)
<1>1. ASSUME NEW n \in Nat, n <= Len(a), n < Len(b)
      PROVE  SubSeq(a, 1, n) = SubSeq(b, 1, n) <=> \A i \in 1..n : a[i] = b[i]
  <2>1. SubSeq(a, 1, n) = [i \in 1..n |-> a[i]] /\ SubSeq(b, 1, n) = [i \in 1..n |-> b[i]]
    BY <1>1 DEF Key
  <2> QED BY <2>1, Zenon
<1>2. Len(a) \in Nat /\ Len(b) \in Nat BY DEF Key
<1>3. ASSUME Less(a, b) PROVE \E n \in Nat : PartAt(a, b, n)
  BY <1>1, <1>2, <1>3 DEF Less, PartAt
<1>4. ASSUME NEW n \in Nat, PartAt(a, b, n) PROVE Less(a, b)
  BY <1>1, <1>2, <1>4 DEF Less, PartAt
<1> QED BY <1>3, <1>4

(* No key is below itself (key/mod.rs).                                    *)
LEMMA LessIrreflexive ==
    ASSUME NEW a \in Key PROVE ~Less(a, a)
<1>1. \A i \in 1..Len(a) : a[i] \in Nat BY DEF Key
<1>2. Len(a) \in Nat BY DEF Key
<1> QED BY LessAt, <1>1, <1>2 DEF PartAt

(* The order is transitive (key/mod.rs).                                   *)
LEMMA LessTransitive ==
    ASSUME NEW a \in Key, NEW b \in Key, NEW c \in Key, Less(a, b), Less(b, c)
    PROVE  Less(a, c)
<1>1. PICK n \in Nat : PartAt(a, b, n) BY LessAt
<1>2. PICK m \in Nat : PartAt(b, c, m) BY LessAt
<1>3. /\ Len(a) \in Nat /\ Len(b) \in Nat /\ Len(c) \in Nat
      /\ \A i \in 1..Len(a) : a[i] \in Nat
      /\ \A i \in 1..Len(b) : b[i] \in Nat
      /\ \A i \in 1..Len(c) : c[i] \in Nat
  BY DEF Key
<1>4. CASE n <= m
  <2>1. n < Len(c) /\ n <= Len(a) /\ \A i \in 1..n : a[i] = c[i] BY <1>1, <1>2, <1>3, <1>4 DEF PartAt
  <2>2. n = Len(a) \/ a[n + 1] < c[n + 1]
    <3>1. CASE n = Len(a) BY <3>1
    <3>2. CASE n # Len(a)
      <4>1. a[n + 1] < b[n + 1] /\ n < Len(b) BY <1>1, <3>2 DEF PartAt
      <4>2. CASE n = m
        <5>1. b[n + 1] < c[n + 1] BY <1>2, <4>1, <4>2 DEF PartAt
        <5>2. n + 1 \in 1..Len(a) /\ n + 1 \in 1..Len(b) /\ n + 1 \in 1..Len(c) BY <1>3, <2>1, <3>2, <4>1
        <5> QED BY <1>3, <4>1, <5>1, <5>2
      <4>3. CASE n < m
        <5>1. b[n + 1] = c[n + 1] BY <1>2, <4>3 DEF PartAt
        <5> QED BY <4>1, <5>1
      <4>4. m \in Nat BY <1>2
      <4> QED BY <1>4, <4>2, <4>3, <4>4
    <3> QED BY <3>1, <3>2
  <2>3. PartAt(a, c, n) BY <2>1, <2>2 DEF PartAt
  <2> QED BY <2>3, LessAt
<1>5. CASE m < n
  <2>1. PartAt(a, c, m) BY <1>1, <1>2, <1>3, <1>5 DEF PartAt
  <2> QED BY <2>1, LessAt
<1> QED BY <1>4, <1>5

(* Of two keys one is below the other, or they are one (key/mod.rs).       *)
LEMMA LessTotal ==
    ASSUME NEW a \in Key, NEW b \in Key
    PROVE  a = b \/ Less(a, b) \/ Less(b, a)
<1>3. /\ Len(a) \in Nat /\ Len(b) \in Nat
      /\ \A i \in 1..Len(a) : a[i] \in Nat
      /\ \A i \in 1..Len(b) : b[i] \in Nat
  BY DEF Key
<1> DEFINE S == {n \in Nat : n = Len(a) \/ n = Len(b) \/ a[n + 1] # b[n + 1]}
<1>1. S # {} BY <1>3
<1>2. PICK n \in S : \A m \in S : n <= m
  <2>1. S \in SUBSET Nat BY Zenon
  <2> HIDE DEF S
  <2> QED BY <1>1, <2>1, LeastNumber, Zenon
<1>4. n \in Nat /\ n <= Len(a) /\ n <= Len(b)
  BY <1>2, <1>3
<1>5. \A i \in 1..n : a[i] = b[i]
  <2>1. ASSUME NEW i \in 1..n PROVE a[i] = b[i]
    <3>1. i - 1 \in Nat /\ i - 1 < n /\ i - 1 + 1 = i BY <1>4
    <3>2. i - 1 \notin S
      <4> HIDE DEF S
      <4> QED BY <1>2, <1>4, <3>1
    <3> QED BY <3>1, <3>2
  <2> QED BY <2>1
<1>6. CASE n = Len(a) /\ n = Len(b)
  <2>1. a = [i \in 1..n |-> a[i]] /\ b = [i \in 1..n |-> b[i]] BY <1>6, KeyBytes
  <2> QED BY <1>5, <2>1, Zenon
<1>7. CASE n = Len(a) /\ n # Len(b)
  <2>1. PartAt(a, b, n) BY <1>3, <1>4, <1>5, <1>7 DEF PartAt
  <2> QED BY <2>1, LessAt
<1>8. CASE n # Len(a) /\ n = Len(b)
  <2>1. PartAt(b, a, n) BY <1>3, <1>4, <1>5, <1>8 DEF PartAt
  <2> QED BY <2>1, LessAt
<1>9. CASE n # Len(a) /\ n # Len(b)
  <2>1. a[n + 1] # b[n + 1] BY <1>9
  <2>2. a[n + 1] \in Nat /\ b[n + 1] \in Nat BY <1>3, <1>4, <1>9
  <2>3. PartAt(a, b, n) \/ PartAt(b, a, n)
    BY <1>3, <1>4, <1>5, <1>9, <2>1, <2>2 DEF PartAt
  <2> QED BY <2>3, LessAt
<1> QED BY <1>6, <1>7, <1>8, <1>9

(* The three together, as the proofs below use them.                       *)
LEMMA KeyOrder ==
    /\ \A a \in Key : ~Less(a, a)
    /\ \A a, b \in Key : a = b \/ Less(a, b) \/ Less(b, a)
    /\ \A a, b, c \in Key : Less(a, b) /\ Less(b, c) => Less(a, c)
  BY LessIrreflexive, LessTotal, LessTransitive

(* A key with a zero byte behind it comes next: scan_range_page            *)
(* (store/engine.rs) goes on from there.                                   *)
LEMMA NextKey ==
    ASSUME NEW k \in Key, NEW f \in Key
    PROVE  /\ Append(f, 0) \in Key
           /\ Less(k, Append(f, 0)) <=> AtMost(k, f)
<1> DEFINE g == Append(f, 0)
<1>1. /\ Len(k) \in Nat /\ Len(f) \in Nat /\ g \in Key /\ Len(g) = Len(f) + 1 /\ g[Len(f) + 1] = 0
      /\ \A i \in 1..Len(f) : g[i] = f[i]
      /\ \A i \in 1..Len(k) : k[i] \in Nat
      /\ \A i \in 1..Len(f) : f[i] \in Nat
  BY DEF Key
<1> HIDE DEF g
<1>2. ASSUME Less(k, g) PROVE AtMost(k, f)
  <2>1. PICK n \in Nat : PartAt(k, g, n) BY <1>1, <1>2, LessAt
  <2>2. CASE n < Len(f)
    <3>1. PartAt(k, f, n) BY <1>1, <2>1, <2>2 DEF PartAt
    <3> QED BY <3>1, LessAt DEF AtMost
  <2>3. CASE n = Len(f)
    <3>1. n = Len(k) BY <1>1, <2>1, <2>3 DEF PartAt
    <3>2. \A i \in 1..Len(f) : k[i] = f[i] BY <1>1, <2>1, <2>3 DEF PartAt
    <3>3. k = [i \in 1..Len(f) |-> k[i]] /\ f = [i \in 1..Len(f) |-> f[i]] BY <2>3, <3>1, KeyBytes
    <3>4. k = f BY <3>2, <3>3, Zenon
    <3> QED BY <3>4 DEF AtMost
  <2>4. n \in Nat /\ n < Len(f) + 1 BY <1>1, <2>1 DEF PartAt
  <2> QED BY <1>1, <2>2, <2>3, <2>4
<1>3. Less(f, g)
  <2>1. PartAt(f, g, Len(f)) BY <1>1 DEF PartAt
  <2> QED BY <1>1, <2>1, LessAt
<1>4. ASSUME AtMost(k, f) PROVE Less(k, g)
  BY <1>1, <1>3, <1>4, LessTransitive DEF AtMost
<1> QED BY <1>1, <1>2, <1>4 DEF g

(* IsPrefix position by position.                                          *)
LEMMA PrefixAt ==
    ASSUME NEW p \in Key, NEW k \in Key
    PROVE  IsPrefix(p, k) <=> Len(p) <= Len(k) /\ \A i \in 1..Len(p) : p[i] = k[i]
<1>1. Len(p) \in Nat /\ Len(k) \in Nat BY DEF Key
<1>2. ASSUME Len(p) <= Len(k)
      PROVE  SubSeq(p, 1, Len(p)) = SubSeq(k, 1, Len(p)) <=> \A i \in 1..Len(p) : p[i] = k[i]
  <2>1. /\ SubSeq(p, 1, Len(p)) = [i \in 1..Len(p) |-> p[i]]
        /\ SubSeq(k, 1, Len(p)) = [i \in 1..Len(p) |-> k[i]]
    BY <1>2 DEF Key
  <2> QED BY <2>1, Zenon
<1> QED BY <1>1, <1>2 DEF IsPrefix

(* A prefix is not above the keys it begins, and no key past it that it    *)
(* does not begin is followed by one that it does                          *)
(* (entries_with_prefix, store/sst_block.rs).                              *)
LEMMA PrefixesTogether ==
    ASSUME NEW p \in Key, NEW k \in Key, IsPrefix(p, k)
    PROVE  /\ AtMost(p, k)
           /\ \A a \in Key : Less(p, a) /\ AtMost(a, k) => IsPrefix(p, a)
<1>1. Len(p) \in Nat /\ Len(k) \in Nat /\ Len(p) <= Len(k) /\ \A i \in 1..Len(p) : p[i] = k[i]
  BY PrefixAt DEF Key
<1>2. AtMost(p, k)
  <2>1. CASE Len(p) = Len(k)
    <3>1. p = [i \in 1..Len(p) |-> p[i]] /\ k = [i \in 1..Len(p) |-> k[i]] BY <2>1, KeyBytes
    <3>2. p = k BY <1>1, <3>1, Zenon
    <3> QED BY <3>2 DEF AtMost
  <2>2. CASE Len(p) < Len(k)
    <3>1. PartAt(p, k, Len(p)) BY <1>1, <2>2 DEF PartAt
    <3> QED BY <3>1, LessAt DEF AtMost
  <2> QED BY <1>1, <2>1, <2>2
<1>3. ASSUME NEW a \in Key, Less(p, a), Less(a, k) PROVE IsPrefix(p, a)
  <2>1. PICK n \in Nat : PartAt(p, a, n) BY <1>3, LessAt
  <2>2. PICK m \in Nat : PartAt(a, k, m) BY <1>3, LessAt
  <2>3. /\ Len(a) \in Nat /\ \A i \in 1..Len(a) : a[i] \in Nat
        /\ \A i \in 1..Len(p) : p[i] \in Nat
        /\ \A i \in 1..Len(k) : k[i] \in Nat
    BY DEF Key
  <2>4. CASE n = Len(p)
    BY <2>1, <2>3, <2>4, <1>1, PrefixAt DEF PartAt
  <2>5. CASE n < Len(p)
    <3>1. p[n + 1] < a[n + 1] /\ n < Len(a) /\ \A i \in 1..n : p[i] = a[i]
      BY <1>1, <2>1, <2>5 DEF PartAt
    <3>2. p[n + 1] = k[n + 1] BY <1>1, <2>5
    <3>3. CASE m > n
      <4>1. a[n + 1] = k[n + 1] BY <2>2, <3>3 DEF PartAt
      <4> QED BY <3>1, <3>2, <4>1, <2>3, <2>5, <1>1
    <3>4. CASE m = n
      <4>1. a[n + 1] < k[n + 1] BY <2>2, <3>1, <3>4 DEF PartAt
      <4>2. p[n + 1] \in Nat /\ a[n + 1] \in Nat BY <2>3, <3>1, <2>5, <1>1
      <4> QED BY <3>1, <3>2, <4>1, <4>2
    <3>5. CASE m < n
      <4>1. a[m + 1] < k[m + 1] BY <2>2, <3>1, <3>5, <2>3 DEF PartAt
      <4>2. a[m + 1] = p[m + 1] BY <3>1, <3>5
      <4>3. p[m + 1] = k[m + 1] /\ p[m + 1] \in Nat BY <1>1, <2>3, <2>5, <3>5
      <4> QED BY <4>1, <4>2, <4>3
    <3> QED BY <3>3, <3>4, <3>5
  <2>6. n \in Nat /\ n <= Len(p) BY <2>1 DEF PartAt
  <2> QED BY <1>1, <2>4, <2>5, <2>6
<1> QED BY <1>2, <1>3 DEF AtMost

(* ------------------------- finite sets of keys ------------------------- *)
KeySet(S) == S \subseteq Key /\ IsFiniteSet(S)
Below(S, k) == {l \in S : Less(l, k)}
Rank(S, k) == Cardinality(Below(S, k))

(* A smaller key has fewer keys below it, strictly so when it is one of    *)
(* them.                                                                   *)
LEMMA RankGrows ==
    ASSUME NEW S, KeySet(S), NEW k \in Key, NEW l \in Key
    PROVE  /\ Rank(S, k) \in Nat /\ Rank(S, k) <= Cardinality(S) /\ Cardinality(S) \in Nat
           /\ AtMost(k, l) => Rank(S, k) <= Rank(S, l)
           /\ k \in S /\ Less(k, l) => Rank(S, k) < Rank(S, l)
           /\ k \in S => Rank(S, k) < Cardinality(S)
<1>1. /\ IsFiniteSet(Below(S, k)) /\ IsFiniteSet(Below(S, l))
      /\ Rank(S, k) \in Nat /\ Rank(S, l) \in Nat /\ Rank(S, k) <= Cardinality(S) /\ Cardinality(S) \in Nat
  <2>1. Below(S, k) \in SUBSET S /\ Below(S, l) \in SUBSET S BY DEF Below
  <2> QED BY <2>1, FS_Subset, FS_CardinalityType DEF KeySet, Rank
<1>2. ASSUME AtMost(k, l) PROVE Below(S, k) \in SUBSET Below(S, l)
  BY <1>2, KeyOrder DEF Below, AtMost, KeySet
<1>3. ASSUME AtMost(k, l) PROVE Rank(S, k) <= Rank(S, l)
  BY <1>1, <1>2, <1>3, FS_Subset DEF Rank
<1>4. k \notin Below(S, k) BY KeyOrder DEF Below
<1>5. ASSUME k \in S, Less(k, l) PROVE Rank(S, k) < Rank(S, l)
  <2>1. k \in Below(S, l) BY <1>5 DEF Below
  <2>2. AtMost(k, l) BY <1>5 DEF AtMost
  <2>3. Below(S, k) # Below(S, l) BY <1>4, <2>1
  <2>4. Cardinality(Below(S, l)) # Cardinality(Below(S, k))
    BY <1>1, <1>2, <2>2, <2>3, FS_Subset
  <2> QED BY <1>1, <1>3, <2>2, <2>4 DEF Rank
<1>6. ASSUME k \in S PROVE Rank(S, k) < Cardinality(S)
  <2>1. Below(S, k) \in SUBSET S BY DEF Below
  <2>2. Cardinality(S) # Cardinality(Below(S, k))
    BY <1>4, <1>6, <2>1, FS_Subset DEF KeySet
  <2> QED BY <1>1, <2>2 DEF Rank
<1> QED BY <1>1, <1>3, <1>5, <1>6

(* Every rank below the number of keys is that of one of them.             *)
LEMMA RankTaken ==
    ASSUME NEW S, KeySet(S), NEW m \in Nat, m < Cardinality(S)
    PROVE  \E k \in S : Rank(S, k) = m
<1> DEFINE T == 0..(Cardinality(S) - 1)
           f == [k \in S |-> Rank(S, k)]
<1>1. Cardinality(S) \in Nat BY FS_CardinalityType DEF KeySet
<1>2. ASSUME NEW k \in S PROVE Rank(S, k) \in T
  BY <1>1, RankGrows DEF KeySet
<1>3. f \in [S -> T] BY <1>2
<1>4. ASSUME NEW k \in S, NEW l \in S, k # l PROVE f[k] # f[l]
  <2>1. k \in Key /\ l \in Key BY DEF KeySet
  <2>2. Less(k, l) \/ Less(l, k) BY <1>4, <2>1, KeyOrder
  <2>3. Rank(S, k) # Rank(S, l) BY <2>1, <2>2, RankGrows
  <2> QED BY <2>3
<1>5. f \in Injection(S, T) BY <1>3, <1>4 DEF Injection, IsInjective
<1>6. IsFiniteSet(T) /\ Cardinality(T) = Cardinality(S)
  <2>1. 0 \in Int /\ Cardinality(S) - 1 \in Int BY <1>1
  <2>2. IsFiniteSet(T) /\ Cardinality(T) = IF 0 > Cardinality(S) - 1 THEN 0 ELSE Cardinality(S) - 1 - 0 + 1
    BY ONLY <2>1, FS_Interval, Zenon
  <2> QED BY <1>1, <2>2
<1>7. f \in Surjection(S, T)
  <2> HIDE DEF f, T
  <2> QED BY <1>5, <1>6, FS_Injection
<1>8. m \in T BY <1>1
<1> QED BY <1>7, <1>8 DEF Surjection

(* A nonempty set of keys has a least and a greatest one.                  *)
LEMMA Extremes ==
    ASSUME NEW S, KeySet(S), S # {}
    PROVE  /\ LeastKey(S) \in S /\ \A l \in S : AtMost(LeastKey(S), l)
           /\ GreatestKey(S) \in S /\ \A l \in S : AtMost(l, GreatestKey(S))
<1>1. Cardinality(S) \in Nat /\ Cardinality(S) # 0
  BY FS_EmptySet, FS_CardinalityType DEF KeySet
<1>2. PICK a \in S : Rank(S, a) = 0 BY <1>1, RankTaken
<1>3. PICK z \in S : Rank(S, z) = Cardinality(S) - 1 BY <1>1, RankTaken
<1>4. ASSUME NEW l \in S PROVE AtMost(a, l) /\ AtMost(l, z)
  <2>1. a \in Key /\ z \in Key /\ l \in Key BY DEF KeySet
  <2>2. ~Less(l, a) BY <1>2, <2>1, RankGrows
  <2>3. ~Less(z, l) BY <1>1, <1>3, <2>1, RankGrows
  <2> QED BY <2>1, <2>2, <2>3, KeyOrder DEF AtMost
<1>5. \E k \in S : \A l \in S : AtMost(k, l) BY <1>4
<1>6. \E k \in S : \A l \in S : AtMost(l, k) BY <1>4
<1> QED BY <1>5, <1>6 DEF LeastKey, GreatestKey

(* ------------------------------ the blocks ----------------------------- *)
IsRun(run) == KeySet(DOMAIN run) /\ run = [k \in DOMAIN run |-> run[k]]

Layers(runs) == Len(runs) \in Nat /\ runs = [i \in 1..Len(runs) |-> runs[i]]

(* parts has the entries of the run, in order; in a cut no part is empty.  *)
IsSplit(run, parts) ==
    /\ Layers(parts)
    /\ \A i \in 1..Len(parts) :
         IsRun(parts[i]) /\ \A k \in DOMAIN parts[i] : k \in DOMAIN run /\ parts[i][k] = run[k]
    /\ \A k \in DOMAIN run : \E i \in 1..Len(parts) : k \in DOMAIN parts[i]
    /\ \A i, j \in 1..Len(parts) : i < j => \A k \in DOMAIN parts[i], l \in DOMAIN parts[j] : Less(k, l)
IsCut(run, blocks) == IsSplit(run, blocks) /\ \A i \in 1..Len(blocks) : DOMAIN blocks[i] # {}

(* A restriction of a run is a run (store/memtable.rs).                    *)
LEMMA RestrictedRun ==
    ASSUME NEW run, IsRun(run), NEW S \in SUBSET DOMAIN run
    PROVE  /\ IsRun(Restrict(run, S)) /\ DOMAIN Restrict(run, S) = S
           /\ \A k \in S : Restrict(run, S)[k] = run[k]
<1>1. /\ Restrict(run, S) = [k \in S |-> Restrict(run, S)[k]] /\ DOMAIN Restrict(run, S) = S
      /\ \A k \in S : Restrict(run, S)[k] = run[k]
  BY DEF Restrict
<1>2. KeySet(S) BY FS_Subset DEF IsRun, KeySet
<1> QED BY <1>1, <1>2, Zenon DEF IsRun

(* Ends that have the last key cut a run (write_new, store/sst_block.rs).  *)
LEMMA CutIsCut ==
    ASSUME NEW run, IsRun(run), NEW ends \in SUBSET DOMAIN run,
           DOMAIN run # {} => GreatestKey(DOMAIN run) \in ends
    PROVE  IsCut(run, Cut(run, ends))
<1> DEFINE n == Cardinality(ends)
           B(i) == {k \in DOMAIN run : Rank(ends, k) = i - 1}
           blocks == Cut(run, ends)
<1>1. KeySet(ends) BY FS_Subset DEF IsRun, KeySet
<1>2. n \in Nat BY <1>1, FS_CardinalityType DEF KeySet
<1>3. blocks = [i \in 1..n |-> Restrict(run, B(i))]
  BY DEF Cut, Rank, Below
<1>4. DOMAIN blocks = 1..n /\ \A i \in 1..n : blocks[i] = Restrict(run, B(i)) BY <1>3
<1>5. Len(blocks) = n BY <1>2, <1>3
<1> HIDE DEF blocks
<1>6. ASSUME NEW i \in 1..n
      PROVE  /\ IsRun(blocks[i]) /\ DOMAIN blocks[i] = B(i)
             /\ \A k \in DOMAIN blocks[i] : k \in DOMAIN run /\ blocks[i][k] = run[k]
  <2>1. B(i) \in SUBSET DOMAIN run OBVIOUS
  <2> HIDE DEF B
  <2> QED BY <1>4, <2>1, RestrictedRun
<1>7. ASSUME NEW i \in 1..n PROVE B(i) # {}
  <2>1. i - 1 \in Nat /\ i - 1 < n BY <1>2
  <2>2. PICK e \in ends : Rank(ends, e) = i - 1 BY <1>1, <2>1, RankTaken
  <2> QED BY <2>2
<1>8. ASSUME NEW k \in DOMAIN run PROVE \E i \in 1..n : k \in B(i)
  <2> DEFINE g == GreatestKey(DOMAIN run)
  <2>1. g \in ends /\ g \in Key /\ k \in Key /\ AtMost(k, g)
    BY Extremes DEF IsRun, KeySet
  <2>2. Rank(ends, k) \in Nat /\ Rank(ends, k) <= Rank(ends, g) /\ Rank(ends, g) < n
    BY <1>1, <2>1, RankGrows
  <2>3. Rank(ends, k) + 1 \in 1..n /\ Rank(ends, k) = Rank(ends, k) + 1 - 1
    <3>1. Rank(ends, g) \in Nat BY <1>1, <2>1, RankGrows
    <3> QED BY <1>2, <2>2, <3>1
  <2> DEFINE i == Rank(ends, k) + 1
  <2>4. k \in B(i)
    <3>1. Rank(ends, k) = i - 1 BY <2>2
    <3> HIDE DEF i
    <3> QED BY <3>1
  <2>5. i \in 1..n BY <2>3
  <2> HIDE DEF n, B, i
  <2> QED BY <2>4, <2>5
<1>9. ASSUME NEW i \in 1..n, NEW j \in 1..n, i < j, NEW k \in B(i), NEW l \in B(j) PROVE Less(k, l)
  <2>1. k \in Key /\ l \in Key /\ Rank(ends, k) = i - 1 /\ Rank(ends, l) = j - 1 BY DEF IsRun, KeySet
  <2>2. ~AtMost(l, k) BY <1>1, <1>2, <1>9, <2>1, RankGrows
  <2> QED BY <2>1, <2>2, KeyOrder DEF AtMost
<1> HIDE DEF n, B
<1>10. Layers(blocks) /\ \A i \in 1..n : DOMAIN blocks[i] = B(i)
  <2>1. blocks = [i \in 1..n |-> blocks[i]] BY <1>3, Zenon
  <2> QED BY <1>2, <1>5, <1>6, <2>1 DEF Layers
<1>11. \A i \in 1..Len(blocks) :
         IsRun(blocks[i]) /\ \A k \in DOMAIN blocks[i] : k \in DOMAIN run /\ blocks[i][k] = run[k]
  BY <1>5, <1>6
<1>12. \A k \in DOMAIN run : \E i \in 1..Len(blocks) : k \in DOMAIN blocks[i]
  BY <1>5, <1>8, <1>10
<1>13. \A i, j \in 1..Len(blocks) : i < j => \A k \in DOMAIN blocks[i], l \in DOMAIN blocks[j] : Less(k, l)
  BY <1>5, <1>9, <1>10
<1>14. \A i \in 1..Len(blocks) : DOMAIN blocks[i] # {} BY <1>5, <1>7, <1>10
<1>15. IsSplit(run, blocks) BY <1>10, <1>11, <1>12, <1>13 DEF IsSplit
<1> QED BY <1>14, <1>15 DEF IsCut, blocks

(* A key's block so far depends on the ends below the key only.            *)
LEMMA CurrentBelow ==
    ASSUME NEW run, NEW ends, NEW more, NEW k, Below(ends, k) = Below(more, k)
    PROVE  Current(run, ends, k) = Current(run, more, k)
<1>1. \A e : e \in ends /\ Less(e, k) <=> e \in more /\ Less(e, k) BY DEF Below
<1> QED BY <1>1 DEF Current

(* The blocks of a run exist: going through its keys in order, as          *)
(* write_new (store/sst_block.rs) does, decides which of them end a block. *)
LEMMA EndsExist ==
    ASSUME NEW run, IsRun(run), NEW size
    PROVE  \E ends \in SUBSET DOMAIN run : ends = {k \in DOMAIN run : EndsBlock(run, ends, size, k)}
<1> DEFINE K == DOMAIN run
           Full(ends, k) == SizeOf(Restrict(run, Current(run, ends, k))) >= size
           Upto(n) == {k \in K : Rank(K, k) < n}
           Ends(n) == {ends \in SUBSET K : ends = {k \in Upto(n) : Full(ends, k)}}
           Bad == {n \in Nat : n <= Cardinality(K) /\ Ends(n) = {}}
<1>1. KeySet(K) /\ Cardinality(K) \in Nat BY FS_CardinalityType DEF IsRun, KeySet
<1>2. ASSUME NEW ends, NEW more, NEW k, Below(ends, k) = Below(more, k)
      PROVE  Full(ends, k) <=> Full(more, k)
  BY <1>2, CurrentBelow
<1> HIDE DEF Full
<1>3. Ends(0) # {}
  <2>1. Upto(0) = {} BY <1>1, RankGrows DEF KeySet
  <2>2. {} \in Ends(0) BY <2>1
  <2> QED BY <2>2
<1>4. ASSUME NEW n \in Nat, n < Cardinality(K), Ends(n) # {} PROVE Ends(n + 1) # {}
  <2>1. PICK ends \in SUBSET K : ends = {k \in Upto(n) : Full(ends, k)} BY <1>4
  <2>2. PICK x \in K : Rank(K, x) = n BY <1>1, <1>4, RankTaken
  <2>3. x \in Key /\ \A k \in K : k \in Key BY <1>1 DEF KeySet
  <2>4. ASSUME NEW k \in K PROVE (Rank(K, k) < n => Less(k, x)) /\ (Rank(K, k) = n => k = x)
    <3>1. k \in Key BY <2>3
    <3>2. ASSUME Less(x, k) PROVE n < Rank(K, k) BY <1>1, <2>2, <2>3, <3>1, <3>2, RankGrows
    <3>3. ASSUME Less(k, x) PROVE Rank(K, k) < n BY <1>1, <2>2, <2>3, <3>1, <3>3, RankGrows
    <3>4. Rank(K, k) \in Nat BY <1>1, <3>1, RankGrows
    <3>5. k = x \/ Less(k, x) \/ Less(x, k) BY <2>3, <3>1, KeyOrder
    <3> QED BY <2>2, <3>2, <3>3, <3>4, <3>5
  <2>5. Upto(n + 1) = Upto(n) \cup {x}
    <3>1. \A k \in K : Rank(K, k) \in Nat BY <1>1, <2>3, RankGrows
    <3> QED BY <2>2, <2>4, <3>1
  <2>6. x \notin Upto(n) BY <2>2
  <2> DEFINE more == IF Full(ends, x) THEN ends \cup {x} ELSE ends
  <2>7. ASSUME NEW k \in K, k = x \/ Less(k, x) PROVE Full(ends, k) <=> Full(more, k)
    <3>1. ~Less(x, k) BY <2>3, <2>7, KeyOrder
    <3>2. Below(ends, k) = Below(more, k) BY <3>1 DEF Below
    <3> QED BY <1>2, <3>2
  <2>8. \A k \in Upto(n + 1) : k \in K /\ (k = x \/ Less(k, x)) BY <2>4, <2>5
  <2>9. more = {k \in Upto(n + 1) : Full(more, k)}
    <3>1. more = {k \in Upto(n) \cup {x} : Full(ends, k)} BY <2>1, <2>6
    <3>2. \A k \in Upto(n + 1) : Full(ends, k) <=> Full(more, k) BY <2>7, <2>8
    <3> HIDE DEF more, Upto
    <3> QED BY <2>5, <3>1, <3>2
  <2>10. more \in SUBSET K BY <2>1
  <2> QED BY <2>9, <2>10
<1>5. Bad = {}
  <2>1. SUFFICES ASSUME Bad # {} PROVE FALSE OBVIOUS
  <2>2. Bad \in SUBSET Nat OBVIOUS
  <2>3. PICK n \in Bad : \A m \in Bad : n <= m
    <3> HIDE DEF Bad
    <3> QED BY <2>1, <2>2, LeastNumber
  <2>4. n \in Nat /\ n <= Cardinality(K) /\ Ends(n) = {}
    <3> HIDE DEF Ends
    <3> QED BY <2>3
  <2> HIDE DEF Ends
  <2>5. n # 0 BY <1>3, <2>4
  <2>6. n - 1 \in Nat /\ n - 1 < Cardinality(K) /\ n - 1 + 1 = n BY <1>1, <2>4, <2>5
  <2>7. n - 1 \notin Bad
    <3> HIDE DEF Bad
    <3> QED BY <2>2, <2>3, <2>6
  <2>8. Ends(n - 1) # {}
    <3> DEFINE m == n - 1
    <3>1. m \in Nat /\ m <= Cardinality(K) BY <1>1, <2>4, <2>6
    <3>2. m \notin Bad BY <2>7
    <3> HIDE DEF m
    <3>3. Ends(m) # {} BY <3>1, <3>2
    <3> QED BY <3>3 DEF m
  <2>9. Ends(n - 1 + 1) # {} BY <1>4, <2>6, <2>8, Zenon
  <2> QED BY <2>4, <2>6, <2>9
<1>6. PICK ends \in SUBSET K : ends = {k \in K : Full(ends, k)}
  <2>1. Cardinality(K) \notin Bad BY <1>5
  <2>2. Ends(Cardinality(K)) # {}
    <3> HIDE DEF Ends
    <3> QED BY <1>1, <2>1
  <2>3. Upto(Cardinality(K)) = K BY <1>1, RankGrows DEF KeySet
  <2> QED BY <2>2, <2>3
<1>7. \A k, e : EndsBlock(run, e, size, k) <=> Full(e, k) \/ \A l \in K : AtMost(l, k)
  BY DEF EndsBlock, Full
<1>8. CASE K = {}
  BY <1>8
<1>9. CASE K # {}
  <2> DEFINE g == GreatestKey(K)
             all == ends \cup {g}
  <2>1. g \in K /\ \A l \in K : AtMost(l, g) BY <1>1, <1>9, Extremes
  <2> HIDE DEF g
  <2>2. \A l \in K : l \in Key BY <1>1 DEF KeySet
  <2>3. ASSUME NEW k \in K PROVE Full(ends, k) <=> Full(all, k)
    <3>1. ~Less(g, k) BY <2>1, <2>2, KeyOrder DEF AtMost
    <3>2. Below(ends, k) = Below(all, k) BY <3>1 DEF Below
    <3> QED BY <1>2, <3>2
  <2>4. ASSUME NEW k \in K PROVE (\A l \in K : AtMost(l, k)) <=> k = g
    BY <2>1, <2>2, KeyOrder DEF AtMost
  <2>5. all = {k \in K : Full(all, k) \/ k = g} BY <1>6, <2>1, <2>3
  <2>6. all = {k \in K : EndsBlock(run, all, size, k)}
    <3> HIDE DEF all
    <3> QED BY <1>7, <2>4, <2>5
  <2>7. all \in SUBSET K BY <2>1
  <2> QED BY <2>6, <2>7
<1> QED BY <1>8, <1>9

(* An SST has the entries of the run it is written from, in blocks that    *)
(* are in order (write_new, store/sst_block.rs).                           *)
LEMMA BlocksAreCut ==
    ASSUME NEW run, IsRun(run), NEW size
    PROVE  IsCut(run, Blocks(run, size))
<1> DEFINE ends == BlockEnds(run, size)
<1>1. ends \in SUBSET DOMAIN run /\ ends = {k \in DOMAIN run : EndsBlock(run, ends, size, k)}
  BY EndsExist DEF BlockEnds
<1> HIDE DEF ends
<1>2. ASSUME DOMAIN run # {} PROVE GreatestKey(DOMAIN run) \in ends
  <2>1. GreatestKey(DOMAIN run) \in DOMAIN run /\ \A l \in DOMAIN run : AtMost(l, GreatestKey(DOMAIN run))
    BY <1>2, Extremes DEF IsRun
  <2>2. EndsBlock(run, ends, size, GreatestKey(DOMAIN run)) BY <2>1 DEF EndsBlock
  <2> QED BY <1>1, <2>1, <2>2
<1>3. IsCut(run, Cut(run, ends)) BY <1>1, <1>2, CutIsCut
<1> QED BY <1>3 DEF Blocks, ends

(* ------------------------------ layering ------------------------------- *)
Value(run, k) == IF k \in DOMAIN run THEN run[k] ELSE None

(* The i-th run is the last that has the key.                              *)
Top(runs, k, i) == k \in DOMAIN runs[i] /\ \A j \in (i + 1)..Len(runs) : k \notin DOMAIN runs[j]

(* Of the runs laid over one another the last that has a key says what its *)
(* value is (scan_prefix, store/engine.rs).                                *)
LEMMA OverlayAt ==
    ASSUME NEW runs, Layers(runs), NEW k
    PROVE  /\ k \in DOMAIN Overlay(runs) <=> \E i \in 1..Len(runs) : k \in DOMAIN runs[i]
           /\ \A i \in 1..Len(runs) : Top(runs, k, i) => Overlay(runs)[k] = runs[i][k]
           /\ k \in DOMAIN Overlay(runs) => \E i \in 1..Len(runs) : Top(runs, k, i)
<1> DEFINE n == Len(runs)
           D == UNION {DOMAIN runs[i] : i \in DOMAIN runs}
<1>1. n \in Nat /\ DOMAIN runs = 1..n BY DEF Layers
<1>2. Overlay(runs) = [l \in D |-> runs[LastWith(runs, l)][l]] BY DEF Overlay
<1>3. DOMAIN Overlay(runs) = D /\ \A l \in D : Overlay(runs)[l] = runs[LastWith(runs, l)][l] BY <1>2
<1>4. k \in D <=> \E i \in 1..n : k \in DOMAIN runs[i] BY <1>1
<1> HIDE DEF D, n
<1>5. ASSUME NEW i \in 1..n, k \in DOMAIN runs[i], \A j \in (i + 1)..n : k \notin DOMAIN runs[j]
      PROVE  Overlay(runs)[k] = runs[i][k]
  <2>1. \A j \in DOMAIN runs : k \in DOMAIN runs[j] => j <= i
    <3>1. \A j \in 1..n : j <= i \/ j \in (i + 1)..n BY <1>1
    <3> QED BY <1>1, <1>5, <3>1
  <2>2. i \in DOMAIN runs BY <1>1
  <2>3. LastWith(runs, k) = i
    <3> DEFINE C(m) == k \in DOMAIN runs[m] /\ \A j \in DOMAIN runs : k \in DOMAIN runs[j] => j <= m
    <3>1. C(i) BY <1>5, <2>1
    <3>2. \A m \in DOMAIN runs : C(m) => m = i
      <4>1. ASSUME NEW m \in DOMAIN runs, C(m) PROVE m = i
        <5>1. i <= m /\ m <= i BY <1>5, <2>1, <2>2, <4>1
        <5> QED BY <1>1, <5>1
      <4> QED BY <4>1
    <3>3. LastWith(runs, k) = CHOOSE m \in DOMAIN runs : C(m) BY DEF LastWith
    <3> HIDE DEF C
    <3> QED BY <2>2, <3>1, <3>2, <3>3
  <2>4. k \in D BY <1>4, <1>5
  <2> QED BY <1>3, <2>3, <2>4
<1>6. ASSUME NEW i \in 1..n, k \in DOMAIN runs[i]
      PROVE  \E m \in 1..n : k \in DOMAIN runs[m] /\ \A j \in (m + 1)..n : k \notin DOMAIN runs[j]
  <2> DEFINE S == {d \in Nat : d <= n /\ n - d \in 1..n /\ k \in DOMAIN runs[n - d]}
  <2>1. n - i \in Nat /\ n - i <= n /\ n - (n - i) = i BY <1>1
  <2>2. n - i \in S BY <1>6, <2>1
  <2>3. S \in SUBSET Nat OBVIOUS
  <2>4. PICK d \in S : \A e \in S : d <= e
    <3> HIDE DEF S
    <3> QED BY <2>2, <2>3, LeastNumber
  <2> DEFINE m == n - d
  <2>5. d \in Nat /\ d <= n /\ m \in 1..n /\ k \in DOMAIN runs[m] BY <2>4
  <2>6. ASSUME NEW j \in (m + 1)..n PROVE k \notin DOMAIN runs[j]
    <3> DEFINE e == n - j
    <3>1. e \in Nat /\ e <= n /\ e < d /\ n - e = j /\ j \in 1..n BY <1>1, <2>5
    <3>2. e \notin S
      <4> HIDE DEF S, e
      <4> QED BY <2>4, <2>5, <3>1
    <3> HIDE DEF e
    <3> QED BY <3>1, <3>2
  <2> HIDE DEF m
  <2> QED BY <2>5, <2>6
<1>7. k \in DOMAIN Overlay(runs) <=> \E i \in 1..n : k \in DOMAIN runs[i] BY <1>3, <1>4
<1> QED BY <1>5, <1>6, <1>7 DEF n, Top

(* Two runs say the same of a key.                                         *)
AgreeAt(a, b, k) == (k \in DOMAIN a <=> k \in DOMAIN b) /\ (k \in DOMAIN a => a[k] = b[k])

(* Layers that agree at a key, one by one, agree there laid over one       *)
(* another (scan_prefix, store/engine.rs).                                 *)
LEMMA OverlayAgree ==
    ASSUME NEW as, NEW bs, NEW k, Layers(as), Layers(bs), Len(as) = Len(bs),
           \A i \in 1..Len(as) : AgreeAt(as[i], bs[i], k)
    PROVE  AgreeAt(Overlay(as), Overlay(bs), k)
<1>0. \A i \in 1..Len(as) : /\ k \in DOMAIN as[i] <=> k \in DOMAIN bs[i]
                            /\ k \in DOMAIN as[i] => as[i][k] = bs[i][k]
  BY DEF AgreeAt
<1>1. k \in DOMAIN Overlay(as) <=> k \in DOMAIN Overlay(bs)
  <2>1. k \in DOMAIN Overlay(as) <=> \E i \in 1..Len(as) : k \in DOMAIN as[i] BY OverlayAt
  <2>2. k \in DOMAIN Overlay(bs) <=> \E i \in 1..Len(as) : k \in DOMAIN bs[i] BY OverlayAt
  <2> QED BY <1>0, <2>1, <2>2
<1>2. ASSUME k \in DOMAIN Overlay(as) PROVE Overlay(as)[k] = Overlay(bs)[k]
  <2>1. PICK i \in 1..Len(as) : Top(as, k, i) BY <1>2, OverlayAt
  <2>2. Overlay(as)[k] = as[i][k] BY <2>1, OverlayAt
  <2>3. Len(as) \in Nat BY DEF Layers
  <2>4. \A j \in (i + 1)..Len(as) : j \in 1..Len(as) BY <2>3
  <2>5. Top(bs, k, i) BY <1>0, <2>1, <2>4 DEF Top
  <2>6. Overlay(bs)[k] = bs[i][k]
    <3>1. i \in 1..Len(bs) OBVIOUS
    <3> QED BY <2>5, <3>1, OverlayAt
  <2>7. k \in DOMAIN as[i] BY <2>1 DEF Top
  <2> QED BY <1>0, <2>2, <2>6, <2>7
<1> QED BY <1>1, <1>2 DEF AgreeAt

(* The layers with one more (scan_prefix, store/engine.rs).                *)
LEMMA AppendLayers ==
    ASSUME NEW runs, Layers(runs), NEW run
    PROVE  /\ Layers(Append(runs, run)) /\ Len(Append(runs, run)) = Len(runs) + 1
           /\ \A i \in 1..Len(runs) : Append(runs, run)[i] = runs[i]
           /\ Append(runs, run)[Len(runs) + 1] = run
<1> DEFINE n == Len(runs)
           all == Append(runs, run)
<1>1. n \in Nat /\ DOMAIN runs = 1..n BY DEF Layers
<1>2. runs \in Seq({runs[i] : i \in 1..n} \cup {run})
  <2> DEFINE U == {runs[i] : i \in 1..n} \cup {run}
  <2>1. \A i \in 1..n : runs[i] \in U OBVIOUS
  <2> HIDE DEF U
  <2>2. runs = [i \in 1..n |-> runs[i]] BY DEF Layers
  <2>3. runs \in Seq(U) BY <1>1, <2>1, <2>2
  <2> QED BY <2>3 DEF U
<1>3. Len(all) = n + 1 /\ DOMAIN all = 1..(n + 1) BY <1>1, <1>2
<1>4. all[n + 1] = run /\ \A i \in 1..n : all[i] = runs[i] BY <1>1, <1>2
<1>5. all = [i \in 1..Len(all) |-> all[i]]
  <2>1. all \in Seq({runs[i] : i \in 1..n} \cup {run}) BY <1>2
  <2> HIDE DEF all
  <2> QED BY <2>1
<1>6. Layers(all) BY <1>1, <1>3, <1>5 DEF Layers
<1> QED BY <1>3, <1>4, <1>6

(* A layer more is over all the others (scan_prefix, store/engine.rs).     *)
LEMMA OverlayAppend ==
    ASSUME NEW runs, Layers(runs), NEW run, NEW k
    PROVE  /\ k \in DOMAIN Overlay(Append(runs, run)) <=> k \in DOMAIN run \/ k \in DOMAIN Overlay(runs)
           /\ k \in DOMAIN run => Overlay(Append(runs, run))[k] = run[k]
           /\ k \notin DOMAIN run /\ k \in DOMAIN Overlay(runs) => Overlay(Append(runs, run))[k] = Overlay(runs)[k]
<1> DEFINE n == Len(runs)
           all == Append(runs, run)
<1>1. n \in Nat BY DEF Layers
<1>2. Layers(all) /\ Len(all) = n + 1 /\ all[n + 1] = run /\ \A i \in 1..n : all[i] = runs[i]
  BY AppendLayers
<1>3. Len(all) = n + 1 BY <1>2
<1>4. all[n + 1] = run /\ \A i \in 1..n : all[i] = runs[i] BY <1>2
<1>6. Layers(all) BY <1>2
<1> HIDE DEF all, n
<1>7. k \in DOMAIN Overlay(all) <=> k \in DOMAIN run \/ k \in DOMAIN Overlay(runs)
  <2>1. k \in DOMAIN Overlay(all) <=> \E i \in 1..(n + 1) : k \in DOMAIN all[i] BY <1>3, <1>6, OverlayAt
  <2>2. k \in DOMAIN Overlay(runs) <=> \E i \in 1..n : k \in DOMAIN runs[i] BY OverlayAt DEF n
  <2>3. \A i : i \in 1..(n + 1) <=> i \in 1..n \/ i = n + 1 BY <1>1
  <2> QED BY <1>4, <2>1, <2>2, <2>3
<1>8. ASSUME k \in DOMAIN run PROVE Overlay(all)[k] = run[k]
  <2>1. n + 1 \in 1..Len(all) /\ Top(all, k, n + 1) BY <1>1, <1>3, <1>4, <1>8 DEF Top
  <2> QED BY <1>4, <1>6, <2>1, OverlayAt
<1>9. ASSUME k \notin DOMAIN run, k \in DOMAIN Overlay(runs) PROVE Overlay(all)[k] = Overlay(runs)[k]
  <2>1. PICK i \in 1..n : Top(runs, k, i) BY <1>9, OverlayAt DEF n
  <2>2. Overlay(runs)[k] = runs[i][k] BY <2>1, OverlayAt DEF n
  <2>3. i \in 1..Len(all) /\ \A j \in (i + 1)..Len(all) : j \in (i + 1)..n \/ j = n + 1 BY <1>1, <1>3
  <2>4. \A j \in (i + 1)..n : j \in 1..n BY <1>1
  <2>5. Top(all, k, i) BY <1>4, <1>9, <2>1, <2>3, <2>4 DEF Top, n
  <2>6. Overlay(all)[k] = all[i][k] BY <1>6, <2>3, <2>5, OverlayAt
  <2> QED BY <1>4, <2>2, <2>6
<1> QED BY <1>7, <1>8, <1>9 DEF all, n

(* Runs over one another are a run (scan_prefix, store/engine.rs).         *)
LEMMA OverlayIsRun ==
    ASSUME NEW runs, Layers(runs), \A i \in 1..Len(runs) : IsRun(runs[i])
    PROVE  IsRun(Overlay(runs))
<1> DEFINE D == UNION {DOMAIN runs[i] : i \in DOMAIN runs}
           F == {DOMAIN runs[i] : i \in 1..Len(runs)}
<1>1. Len(runs) \in Nat /\ DOMAIN runs = 1..Len(runs) BY DEF Layers
<1>2. D = UNION F BY <1>1
<1>3. IsFiniteSet(1..Len(runs)) 
  <2>1. 1 \in Int /\ Len(runs) \in Int BY <1>1
  <2> QED BY ONLY <2>1, FS_Interval, Zenon
<1>4. IsFiniteSet(F)
  <2> DEFINE f == [i \in 1..Len(runs) |-> DOMAIN runs[i]]
  <2>1. f \in Surjection(1..Len(runs), F) BY DEF Surjection
  <2> HIDE DEF f, F
  <2> QED BY <1>3, <2>1, FS_Surjection, Zenon
<1>5. \A S \in F : IsFiniteSet(S) /\ S \subseteq Key BY DEF IsRun, KeySet
<1>6. IsFiniteSet(UNION F)
  <2> HIDE DEF F
  <2> QED BY <1>4, <1>5, FS_UNION
<1>7. UNION F \subseteq Key
  <2> HIDE DEF F
  <2> QED BY <1>5
<1>8. Overlay(runs) = [l \in D |-> runs[LastWith(runs, l)][l]] BY DEF Overlay
<1>9. KeySet(D)
  <2> HIDE DEF D, F
  <2> QED BY <1>2, <1>6, <1>7 DEF KeySet
<1>10. DOMAIN Overlay(runs) = D /\ Overlay(runs) = [l \in D |-> Overlay(runs)[l]]
  <2> HIDE DEF D
  <2> QED BY <1>8
<1> HIDE DEF D
<1> QED BY <1>9, <1>10, Zenon DEF IsRun

(* Two runs with the same entries are one (store/memtable.rs).             *)
LEMMA SameRun ==
    ASSUME NEW a, NEW b, IsRun(a), IsRun(b), DOMAIN a = DOMAIN b, \A k \in DOMAIN a : a[k] = b[k]
    PROVE  a = b
<1>1. a = [k \in DOMAIN a |-> a[k]] /\ b = [k \in DOMAIN a |-> b[k]] BY DEF IsRun
<1> QED BY <1>1, Zenon

(* The parts of a run laid over one another are the run (entries,          *)
(* store/sst_block.rs).                                                    *)
LEMMA OverlayOfSplit ==
    ASSUME NEW run, IsRun(run), NEW parts, IsSplit(run, parts)
    PROVE  Overlay(parts) = run
<1>1. Layers(parts) BY DEF IsSplit
<1>2. IsRun(Overlay(parts)) BY <1>1, OverlayIsRun DEF IsSplit
<1>3. ASSUME NEW k PROVE k \in DOMAIN Overlay(parts) <=> k \in DOMAIN run
  BY <1>1, OverlayAt DEF IsSplit
<1>4. ASSUME NEW k \in DOMAIN Overlay(parts) PROVE Overlay(parts)[k] = run[k]
  <2>1. PICK i \in 1..Len(parts) : Top(parts, k, i) BY <1>1, OverlayAt
  <2>2. Overlay(parts)[k] = parts[i][k] BY <1>1, <2>1, OverlayAt
  <2>3. k \in DOMAIN parts[i] BY <2>1 DEF Top
  <2> QED BY <2>2, <2>3 DEF IsSplit
<1>5. DOMAIN Overlay(parts) = DOMAIN run BY <1>3
<1> QED BY <1>2, <1>4, <1>5, SameRun

(* part is what W asks for of the run.                                     *)
Selects(W, run, part) == part = Restrict(run, DOMAIN run \cap W)

(* What is asked for of a run is split as the run is                       *)
(* (entries_with_prefix, entries_with_range, store/sst_block.rs).          *)
LEMMA SplitWanted ==
    ASSUME NEW W, NEW run, IsRun(run), NEW blocks, IsSplit(run, blocks),
           NEW wanted, Selects(W, run, wanted),
           NEW parts, Layers(parts), Len(parts) = Len(blocks),
           \A i \in 1..Len(blocks) : Selects(W, blocks[i], parts[i])
    PROVE  IsRun(wanted) /\ IsSplit(wanted, parts)
<1>1. IsRun(wanted) /\ DOMAIN wanted = DOMAIN run \cap W /\ \A k \in DOMAIN run \cap W : wanted[k] = run[k]
  BY RestrictedRun DEF Selects
<1>4. ASSUME NEW i \in 1..Len(blocks)
      PROVE  /\ IsRun(parts[i]) /\ DOMAIN parts[i] = DOMAIN blocks[i] \cap W
             /\ \A k \in DOMAIN blocks[i] \cap W : parts[i][k] = blocks[i][k]
  <2>1. IsRun(blocks[i]) BY DEF IsSplit
  <2>2. parts[i] = Restrict(blocks[i], DOMAIN blocks[i] \cap W) BY DEF Selects
  <2> QED BY <2>1, <2>2, RestrictedRun
<1>5. \A i \in 1..Len(parts) :
         IsRun(parts[i]) /\ \A k \in DOMAIN parts[i] : k \in DOMAIN wanted /\ parts[i][k] = wanted[k]
  BY <1>1, <1>4 DEF IsSplit
<1>6. \A k \in DOMAIN wanted : \E i \in 1..Len(parts) : k \in DOMAIN parts[i]
  BY <1>1, <1>4 DEF IsSplit
<1>7. \A i, j \in 1..Len(parts) : i < j => \A k \in DOMAIN parts[i], l \in DOMAIN parts[j] : Less(k, l)
  BY <1>4 DEF IsSplit
<1>8. IsSplit(wanted, parts) BY <1>5, <1>6, <1>7 DEF IsSplit
<1> QED BY <1>1, <1>8

(* The layers from one to another (read_blocks, store/sst_block.rs).       *)
LEMMA SubLayers ==
    ASSUME NEW runs, Layers(runs), NEW m \in Nat, NEW n \in Nat, 1 <= m, m <= n + 1, n <= Len(runs)
    PROVE  /\ Layers(SubSeq(runs, m, n)) /\ Len(SubSeq(runs, m, n)) = n + 1 - m
           /\ \A i \in 1..(n + 1 - m) : SubSeq(runs, m, n)[i] = runs[m + i - 1]
<1> DEFINE sub == SubSeq(runs, m, n)
           U == {runs[i] : i \in 1..Len(runs)}
<1>1. Len(runs) \in Nat BY DEF Layers
<1>2. \A i \in m..n : runs[i] \in U BY <1>1
<1>3. m \in Int /\ n \in Int OBVIOUS
<1> HIDE DEF U
<1>4. /\ sub \in Seq(U)
      /\ Len(sub) = IF m <= n THEN n - m + 1 ELSE 0
      /\ \A i \in 1..(n - m + 1) : sub[i] = runs[m + i - 1]
  BY <1>2, <1>3, SubSeqProperties
<1>5. Layers(sub)
  <2> HIDE DEF sub
  <2> QED BY <1>4 DEF Layers
<1> HIDE DEF sub
<1>6. Len(sub) = n + 1 - m /\ n - m + 1 = n + 1 - m BY <1>4
<1>7. \A i \in 1..(n + 1 - m) : sub[i] = runs[m + i - 1] BY <1>4, <1>6
<1> QED BY <1>5, <1>6, <1>7 DEF sub

(* What a read of several blocks gives (read_blocks, store/sst_block.rs):  *)
(* all that is asked for, or, cut short, all of it up to its last key.     *)
GoodPart(run, part) ==
    /\ IsRun(part.out)
    /\ \A k \in DOMAIN part.out : k \in DOMAIN run /\ part.out[k] = run[k]
    /\ ~part.truncated => part.out = run
    /\ part.truncated =>
         /\ DOMAIN part.out # {}
         /\ \A k \in DOMAIN run, l \in DOMAIN part.out : AtMost(k, l) => k \in DOMAIN part.out

(* A read that starts behind blocks of no interest, and stops before a     *)
(* block past what is asked for or at the limit, gives a good part         *)
(* (read_blocks, store/sst_block.rs).                                      *)
LEMMA ReadBlocksAt ==
    ASSUME NEW run, IsRun(run), NEW parts, IsSplit(run, parts),
           NEW from \in 1..(Len(parts) + 1), NEW past \in SUBSET (1..Len(parts)),
           NEW limit \in Int, limit # 0, limit >= -1,
           \A i \in 1..Len(parts) : i < from => DOMAIN parts[i] = {},
           \A i \in past, j \in 1..Len(parts) : i <= j => DOMAIN parts[j] = {}
    PROVE  /\ GoodPart(run, ReadBlocks(parts, from, past, limit))
           /\ limit = Unlimited => ReadBlocks(parts, from, past, limit).out = run
<1> DEFINE n == Len(parts)
           stops == {i \in from..n : i \in past \/ Enough(parts, from, i, limit)}
           end == IF stops = {} THEN n + 1 ELSE Min(stops)
           out == Overlay(SubSeq(parts, from, end - 1))
           truncated == stops # {} /\ end \notin past
<1>1. ReadBlocks(parts, from, past, limit) = [out |-> out, truncated |-> truncated]
  BY DEF ReadBlocks
<1>2. n \in Nat /\ Layers(parts) BY DEF IsSplit, Layers
<1>3. /\ end \in from..(n + 1) /\ (stops # {} => end \in stops)
      /\ (stops = {} => end = n + 1)
  <2>1. CASE stops = {} BY <1>2, <2>1
  <2>2. CASE stops # {}
    <3>1. stops \in SUBSET Nat BY <1>2
    <3>2. stops \in SUBSET (from..n) OBVIOUS
    <3>3. PICK m \in stops : \A i \in stops : m <= i
      <4> HIDE DEF stops
      <4> QED BY <2>2, <3>1, LeastNumber
    <3>4. Min(stops) \in stops
      <4> HIDE DEF stops
      <4>1. \E x \in stops : \A y \in stops : x <= y BY <3>3
      <4> QED BY <4>1 DEF Min
    <3>5. end = Min(stops) BY <2>2
    <3> HIDE DEF stops, end
    <3>6. end \in stops BY <3>4, <3>5, Zenon
    <3>7. end \in from..n BY <3>2, <3>6
    <3>8. end \in from..(n + 1) BY <1>2, <3>7
    <3> QED BY <2>2, <3>6, <3>8
  <2> QED BY <2>1, <2>2
<1>4. end \in Nat /\ from \in Nat /\ 1 <= from /\ from <= end /\ end <= n + 1 BY <1>2, <1>3
<1> HIDE DEF end
<1> DEFINE sub == SubSeq(parts, from, end - 1)
<1>5. /\ Layers(sub) /\ Len(sub) = end - from
      /\ \A i \in 1..(end - from) : sub[i] = parts[from + i - 1]
  <2>1. end - 1 \in Nat /\ from <= end - 1 + 1 /\ end - 1 <= Len(parts) /\ end - 1 + 1 - from = end - from
    BY <1>4
  <2> QED BY <1>2, <1>4, <2>1, SubLayers
<1> HIDE DEF sub
<1>6. ASSUME NEW i \in 1..Len(sub)
      PROVE  /\ from + i - 1 \in from..(end - 1) /\ from + i - 1 \in 1..n
             /\ sub[i] = parts[from + i - 1] /\ IsRun(sub[i])
             /\ \A k \in DOMAIN sub[i] : k \in DOMAIN run /\ sub[i][k] = run[k]
  <2>1. from + i - 1 \in from..(end - 1) /\ from + i - 1 \in 1..n BY <1>2, <1>4, <1>5
  <2>2. sub[i] = parts[from + i - 1] BY <1>5
  <2> QED BY <2>1, <2>2 DEF IsSplit
<1>7. out = Overlay(sub) BY DEF sub
<1> HIDE DEF out
<1>8. IsRun(out)
  <2>1. \A i \in 1..Len(sub) : IsRun(sub[i]) BY <1>6
  <2> QED BY <1>5, <1>7, <2>1, OverlayIsRun
<1>9. ASSUME NEW k
      PROVE  k \in DOMAIN out <=> \E j \in from..(end - 1) : k \in DOMAIN parts[j]
  <2>1. k \in DOMAIN out <=> \E i \in 1..Len(sub) : k \in DOMAIN sub[i] BY <1>5, <1>7, OverlayAt
  <2>2. ASSUME NEW j \in from..(end - 1), k \in DOMAIN parts[j] PROVE \E i \in 1..Len(sub) : k \in DOMAIN sub[i]
    <3> DEFINE i == j + 1 - from
    <3>1. i \in 1..Len(sub) /\ from + i - 1 = j BY <1>4, <1>5
    <3> HIDE DEF i
    <3> QED BY <1>6, <2>2, <3>1
  <2> QED BY <1>6, <2>1, <2>2
<1>10. ASSUME NEW k \in DOMAIN out PROVE k \in DOMAIN run /\ out[k] = run[k]
  <2>1. PICK i \in 1..Len(sub) : Top(sub, k, i) BY <1>5, <1>7, OverlayAt
  <2>2. k \in DOMAIN sub[i] /\ out[k] = sub[i][k] BY <1>5, <1>7, <2>1, OverlayAt DEF Top
  <2> QED BY <1>6, <2>2
<1>11. ASSUME end = n + 1 \/ end \in past PROVE out = run
  <2>1. ASSUME NEW k \in DOMAIN run PROVE k \in DOMAIN out
    <3>1. PICK j \in 1..n : k \in DOMAIN parts[j] BY DEF IsSplit
    <3>2. ~(j < from) BY <3>1
    <3>3. ASSUME end \in past PROVE ~(end <= j) BY <3>1, <3>3
    <3>4. j < end BY <1>2, <1>4, <1>11, <3>3
    <3>5. j \in from..(end - 1) BY <1>2, <1>4, <3>2, <3>4
    <3> QED BY <1>9, <3>1, <3>5
  <2>2. DOMAIN out = DOMAIN run BY <1>10, <2>1
  <2> QED BY <1>8, <1>10, <2>2, SameRun
<1>12. ASSUME NEW k \in DOMAIN run, NEW l \in DOMAIN out, AtMost(k, l) PROVE k \in DOMAIN out
  <2>1. PICK j \in from..(end - 1) : l \in DOMAIN parts[j] BY <1>9
  <2>2. PICK i \in 1..n : k \in DOMAIN parts[i] BY DEF IsSplit
  <2>3. j \in 1..n /\ j < end BY <1>2, <1>4
  <2>4. k \in Key /\ l \in Key BY <2>1, <2>2, <2>3 DEF IsSplit, IsRun, KeySet
  <2>5. ~(j < i)
    <3>1. ASSUME j < i PROVE FALSE
      <4>1. Less(l, k) BY <2>1, <2>2, <2>3, <3>1 DEF IsSplit
      <4> QED BY <1>12, <2>4, <4>1, KeyOrder DEF AtMost
    <3> QED BY <3>1
  <2>6. ~(i < from) BY <2>2
  <2>7. i \in from..(end - 1) BY <1>2, <1>4, <2>3, <2>5, <2>6
  <2> QED BY <1>9, <2>2, <2>7
<1>13. ASSUME truncated PROVE limit # Unlimited /\ DOMAIN out # {}
  <2>1. end \in from..n /\ Enough(parts, from, end, limit) BY <1>3, <1>13
  <2>2. limit # Unlimited /\ Cardinality(FoundBefore(parts, from, end)) >= limit BY <2>1 DEF Enough
  <2>3. limit > 0 BY <2>2 DEF Unlimited
  <2>4. FoundBefore(parts, from, end) # {}
    <3>1. ASSUME FoundBefore(parts, from, end) = {} PROVE FALSE
      <4>1. Cardinality(FoundBefore(parts, from, end)) = 0 BY <3>1, FS_EmptySet
      <4> QED BY <2>2, <2>3, <4>1
    <3> QED BY <3>1
  <2>5. PICK j \in from..(end - 1) : DOMAIN parts[j] # {} BY <2>4 DEF FoundBefore
  <2>6. PICK k \in DOMAIN parts[j] : TRUE BY <2>5
  <2>7. k \in DOMAIN out BY <1>9, <2>6
  <2> QED BY <2>2, <2>7
<1>14. ASSUME ~truncated PROVE out = run
  <2>1. end = n + 1 \/ end \in past BY <1>3, <1>14
  <2> QED BY <1>11, <2>1
<1> DEFINE r == ReadBlocks(parts, from, past, limit)
<1> HIDE DEF stops, truncated
<1>15. r.out = out /\ r.truncated = truncated BY <1>1
<1> HIDE DEF r
<1>16. GoodPart(run, r) BY <1>8, <1>10, <1>12, <1>13, <1>14, <1>15 DEF GoodPart
<1>17. limit = Unlimited => r.out = run BY <1>13, <1>14, <1>15
<1> QED BY <1>16, <1>17 DEF r

(* ------------------------------- routing ------------------------------- *)
(* An SST as it is written: blocks in order, and the first and last key of *)
(* each in the index.                                                      *)
Written(sst) ==
    /\ IsRun(AllEntries(sst)) /\ IsCut(AllEntries(sst), sst.blocks)
    /\ sst.index = [i \in DOMAIN sst.blocks |-> Routing(sst.blocks[i])]

Indexed(blocks, index) ==
    /\ DOMAIN index = 1..Len(blocks) /\ Len(index) = Len(blocks)
    /\ \A i \in 1..Len(blocks) :
         /\ index[i].first_key \in DOMAIN blocks[i] /\ \A k \in DOMAIN blocks[i] : AtMost(index[i].first_key, k)
         /\ index[i].last_key \in DOMAIN blocks[i] /\ \A k \in DOMAIN blocks[i] : AtMost(k, index[i].last_key)

(* The index has the first and the last key of each block (write_new,      *)
(* store/sst_block.rs).                                                    *)
LEMMA IndexOfCut ==
    ASSUME NEW run, NEW blocks, IsCut(run, blocks), NEW index,
           index = [i \in DOMAIN blocks |-> Routing(blocks[i])]
    PROVE  Indexed(blocks, index)
<1>1. Len(blocks) \in Nat /\ DOMAIN blocks = 1..Len(blocks) BY DEF IsCut, IsSplit, Layers
<1>2. DOMAIN index = 1..Len(blocks) /\ Len(index) = Len(blocks) BY <1>1
<1>3. ASSUME NEW i \in 1..Len(blocks)
      PROVE  /\ index[i].first_key = LeastKey(DOMAIN blocks[i])
             /\ index[i].last_key = GreatestKey(DOMAIN blocks[i])
  <2>1. index[i] = Routing(blocks[i]) BY <1>1
  <2> QED BY <2>1 DEF Routing
<1>4. \A i \in 1..Len(blocks) : KeySet(DOMAIN blocks[i]) /\ DOMAIN blocks[i] # {}
  BY DEF IsCut, IsSplit, IsRun
<1> QED BY <1>2, <1>3, <1>4, Extremes DEF Indexed

(* partition_point finds the first block that does not end below the key   *)
(* (route, store/sst_block.rs): the blocks that do are the first ones.     *)
LEMMA FirstBlockAt ==
    ASSUME NEW run, NEW blocks, IsCut(run, blocks), NEW index, Indexed(blocks, index), NEW key \in Key
    PROVE  /\ FirstBlock(index, key) \in 1..(Len(blocks) + 1)
           /\ \A i \in 1..Len(blocks) : i < FirstBlock(index, key) <=> Less(index[i].last_key, key)
<1> DEFINE n == Len(blocks)
           S == {i \in DOMAIN index : Less(index[i].last_key, key)}
           T == {m \in Nat : \A i \in S : i <= m}
<1>1. n \in Nat /\ DOMAIN index = 1..n BY DEF IsCut, IsSplit, Layers, Indexed
<1>2. ASSUME NEW i \in 1..n PROVE index[i].last_key \in DOMAIN blocks[i] /\ index[i].last_key \in Key
  BY DEF Indexed, IsCut, IsSplit, IsRun, KeySet
<1>3. ASSUME NEW i \in 1..n, NEW j \in S, i < j PROVE i \in S
  <2>1. j \in 1..n /\ Less(index[j].last_key, key) BY <1>1
  <2>2. Less(index[i].last_key, index[j].last_key)
    BY <1>2, <1>3, <2>1 DEF IsCut, IsSplit
  <2>3. Less(index[i].last_key, key) BY <1>2, <2>1, <2>2, KeyOrder
  <2> QED BY <1>1, <2>3
<1>4. n \in T BY <1>1
<1>5. T \in SUBSET Nat OBVIOUS
<1>6. PICK p \in T : \A m \in T : p <= m
  <2> HIDE DEF T
  <2> QED BY <1>4, <1>5, LeastNumber
<1>7. p \in Nat /\ p <= n /\ \A i \in S : i <= p BY <1>4, <1>6
<1>8. p = 0 \/ p \in S
  <2>1. SUFFICES ASSUME p # 0, p \notin S PROVE FALSE OBVIOUS
  <2> DEFINE m == p - 1
  <2>2. m \in Nat /\ m < p BY <1>7, <2>1
  <2>3. \A i \in S : i \in Nat BY <1>1
  <2>4. \A i \in S : i <= m
    <3>1. ASSUME NEW i \in S PROVE i <= m
      <4>1. i \in Nat /\ i <= p /\ i # p
        <5> HIDE DEF S
        <5> QED BY <1>7, <2>1, <2>3
      <4> QED BY <1>7, <4>1
    <3> QED BY <3>1
  <2>5. m \in T
    <3> HIDE DEF m, S
    <3> QED BY <2>2, <2>4
  <2> HIDE DEF m, T
  <2> QED BY <1>6, <1>7, <2>2, <2>5
<1>9. S = 1..p
  <2>1. ASSUME NEW i \in S PROVE i \in 1..p BY <1>1, <1>7
  <2>2. ASSUME NEW i \in 1..p PROVE i \in S
    <3>1. p \in S /\ i \in 1..n BY <1>7, <1>8
    <3>2. i = p \/ i < p BY <1>7
    <3> HIDE DEF S
    <3> QED BY <1>3, <3>1, <3>2
  <2> HIDE DEF S
  <2> QED BY <2>1, <2>2
<1>10. Cardinality(S) = p
  <2>1. 1 \in Int /\ p \in Int BY <1>7
  <2>2. Cardinality(1..p) = IF 1 > p THEN 0 ELSE p - 1 + 1
    BY ONLY <2>1, FS_Interval, Zenon
  <2> HIDE DEF S
  <2> QED BY <1>7, <1>9, <2>2
<1>11. FirstBlock(index, key) = 1 + p BY <1>10 DEF FirstBlock
<1>12. \A i \in 1..n : i < 1 + p <=> i \in S
  <2> HIDE DEF S
  <2> QED BY <1>1, <1>7, <1>9
<1>13. \A i \in 1..n : i \in S <=> Less(index[i].last_key, key) BY <1>1
<1>14. 1 + p \in 1..(n + 1) BY <1>1, <1>7
<1> QED BY <1>11, <1>12, <1>13, <1>14

(* A key that is in the file is in the block it is routed to, and a block  *)
(* says of a key routed to it what the file does (get, store/sst_block.rs). *)
LEMMA RouteRight ==
    ASSUME NEW sst, Written(sst), NEW key \in Key
    PROVE  /\ Route(sst.index, key) \in 0..Len(sst.blocks)
           /\ key \in DOMAIN AllEntries(sst) => Route(sst.index, key) # 0
           /\ Route(sst.index, key) # 0 =>
                /\ Route(sst.index, key) \in DOMAIN sst.blocks
                /\ Hit(sst.blocks[Route(sst.index, key)], key) = Hit(AllEntries(sst), key)
<1> DEFINE run == AllEntries(sst)
           blocks == sst.blocks
           index == sst.index
           n == Len(blocks)
           f == FirstBlock(index, key)
           r == Route(index, key)
<1>1. IsCut(run, blocks) /\ Indexed(blocks, index)
  BY IndexOfCut DEF Written
<1> HIDE DEF run, blocks, index
<1>2. /\ f \in 1..(n + 1) /\ \A i \in 1..n : i < f <=> Less(index[i].last_key, key)
      /\ n \in Nat /\ Len(index) = n /\ DOMAIN blocks = 1..n
  <2>1. n \in Nat /\ Len(index) = n /\ DOMAIN blocks = 1..n
    BY <1>1 DEF IsCut, IsSplit, Layers, Indexed
  <2>2. f \in 1..(n + 1) /\ \A i \in 1..n : i < f <=> Less(index[i].last_key, key)
    BY <1>1, FirstBlockAt
  <2> QED BY <2>1, <2>2
<1>3. r = IF f > n THEN 0 ELSE IF Less(key, index[f].first_key) THEN 0 ELSE f
  BY <1>2 DEF Route
<1>4. r \in 0..n BY <1>2, <1>3
<1>5. ASSUME key \in DOMAIN run PROVE r # 0 /\ key \in DOMAIN blocks[r]
  <2>1. PICK i \in 1..n : key \in DOMAIN blocks[i] BY <1>1, <1>5 DEF IsCut, IsSplit
  <2>2. AtMost(index[i].first_key, key) /\ AtMost(key, index[i].last_key)
        /\ index[i].last_key \in DOMAIN blocks[i] /\ index[i].first_key \in DOMAIN blocks[i]
    BY <1>1, <2>1 DEF Indexed
  <2>3. index[i].last_key \in Key /\ index[i].first_key \in Key
    BY <1>1, <2>2 DEF IsCut, IsSplit, IsRun, KeySet
  <2>4. ~Less(index[i].last_key, key) /\ ~Less(key, index[i].first_key)
    BY <2>2, <2>3, KeyOrder DEF AtMost
  <2>5. f <= i BY <1>2, <2>4
  <2>6. ASSUME f < i PROVE FALSE
    <3>1. f \in 1..n BY <1>2, <2>6
    <3>2. index[f].last_key \in DOMAIN blocks[f] BY <1>1, <3>1 DEF Indexed
    <3>3. Less(index[f].last_key, key) BY <1>1, <2>1, <2>6, <3>1, <3>2 DEF IsCut, IsSplit
    <3>4. ~(f < f) BY <1>2
    <3> HIDE DEF f
    <3> QED BY <1>2, <3>1, <3>3, <3>4
  <2>7. f = i BY <1>2, <2>5, <2>6
  <2>8. r = i
    <3> HIDE DEF f, r
    <3> QED BY <1>2, <1>3, <2>4, <2>7
  <2> HIDE DEF r
  <2> QED BY <2>1, <2>8
<1>6. ASSUME r # 0 PROVE r \in DOMAIN blocks /\ Hit(blocks[r], key) = Hit(run, key)
  <2>1. r \in 1..n
    <3> HIDE DEF r
    <3> QED BY <1>2, <1>4, <1>6
  <2> HIDE DEF r
  <2>2. \A k \in DOMAIN blocks[r] : k \in DOMAIN run /\ blocks[r][k] = run[k]
    BY <1>1, <2>1 DEF IsCut, IsSplit
  <2>3. key \in DOMAIN run => key \in DOMAIN blocks[r] BY <1>5
  <2> QED BY <1>2, <2>1, <2>2, <2>3 DEF Hit
<1> QED BY <1>4, <1>5, <1>6 DEF run, blocks, index

(* In a cut the keys of a block are not below the first key of an earlier  *)
(* one, nor above the last key of a later one (store/sst_block.rs).        *)
LEMMA AcrossBlocks ==
    ASSUME NEW run, NEW blocks, IsCut(run, blocks), NEW index, Indexed(blocks, index),
           NEW i \in 1..Len(blocks), NEW j \in 1..Len(blocks), i <= j
    PROVE  /\ \A k \in DOMAIN blocks[j] : k \in Key /\ AtMost(index[i].first_key, k)
           /\ \A k \in DOMAIN blocks[i] : k \in Key /\ AtMost(k, index[j].last_key)
           /\ index[i].first_key \in Key /\ index[j].last_key \in Key
<1>1. /\ index[i].first_key \in DOMAIN blocks[i] /\ \A k \in DOMAIN blocks[i] : AtMost(index[i].first_key, k)
      /\ index[j].last_key \in DOMAIN blocks[j] /\ \A k \in DOMAIN blocks[j] : AtMost(k, index[j].last_key)
  BY DEF Indexed
<1>2. DOMAIN blocks[i] \subseteq Key /\ DOMAIN blocks[j] \subseteq Key BY DEF IsCut, IsSplit, IsRun, KeySet
<1>3. i = j \/ i < j BY DEF IsCut, IsSplit, Layers
<1>4. ASSUME i < j PROVE \A k \in DOMAIN blocks[i], l \in DOMAIN blocks[j] : Less(k, l)
  BY <1>4 DEF IsCut, IsSplit
<1> QED BY <1>1, <1>2, <1>3, <1>4 DEF AtMost

(* A read of a prefix from a file gives what the file has of it            *)
(* (entries_with_prefix, store/sst_block.rs).                              *)
LEMMA PrefixRead ==
    ASSUME NEW sst, Written(sst), NEW p \in Key
    PROVE  EntriesWithPrefix(sst, p) = WithPrefix(AllEntries(sst), p)
<1> DEFINE run == AllEntries(sst)
           blocks == sst.blocks
           index == sst.index
           n == Len(blocks)
           W == {k \in Key : IsPrefix(p, k)}
           from == FirstBlock(index, p)
           past == {i \in DOMAIN index : Less(p, index[i].first_key) /\ ~IsPrefix(p, index[i].first_key)}
           parts == [i \in DOMAIN blocks |-> WithPrefix(blocks[i], p)]
           wanted == WithPrefix(run, p)
<1>1. EntriesWithPrefix(sst, p) = ReadBlocks(parts, from, past, Unlimited).out
  BY DEF EntriesWithPrefix
<1>2. IsRun(run) /\ IsCut(run, blocks) /\ Indexed(blocks, index)
  BY IndexOfCut DEF Written
<1> HIDE DEF run, blocks, index
<1>3. n \in Nat /\ DOMAIN blocks = 1..n /\ DOMAIN index = 1..n /\ IsSplit(run, blocks)
  BY <1>2 DEF IsCut, IsSplit, Layers, Indexed
<1>4. ASSUME NEW i \in 1..n PROVE Selects(W, blocks[i], WithPrefix(blocks[i], p))
  <2>1. DOMAIN blocks[i] \subseteq Key BY <1>3 DEF IsSplit, IsRun, KeySet
  <2>2. {k \in DOMAIN blocks[i] : IsPrefix(p, k)} = DOMAIN blocks[i] \cap W BY <2>1
  <2> QED BY <2>2 DEF WithPrefix, Selects
<1>5. Selects(W, run, wanted)
  <2>1. DOMAIN run \subseteq Key BY <1>2 DEF IsRun, KeySet
  <2>2. {k \in DOMAIN run : IsPrefix(p, k)} = DOMAIN run \cap W BY <2>1
  <2> QED BY <2>2 DEF WithPrefix, Selects
<1>6. Len(parts) = n /\ Layers(parts) /\ \A i \in 1..n : Selects(W, blocks[i], parts[i])
  <2> HIDE DEF W
  <2> QED BY <1>3, <1>4 DEF Layers
<1>7. IsRun(wanted) /\ IsSplit(wanted, parts)
  <2> HIDE DEF W, wanted, parts
  <2> QED BY <1>2, <1>3, <1>5, <1>6, SplitWanted
<1>9. ASSUME NEW i \in 1..n PROVE DOMAIN parts[i] = {k \in DOMAIN blocks[i] : IsPrefix(p, k)}
  BY <1>3 DEF WithPrefix, Restrict
<1>10. from \in 1..(n + 1) /\ \A i \in 1..n : i < from <=> Less(index[i].last_key, p)
  BY <1>2, FirstBlockAt
<1>11. past \in SUBSET (1..n) BY <1>3
<1> HIDE DEF parts, wanted, W, from
<1>12. ASSUME NEW i \in 1..n, i < from PROVE DOMAIN parts[i] = {}
  <2>1. SUFFICES ASSUME NEW k \in DOMAIN blocks[i], IsPrefix(p, k) PROVE FALSE BY <1>9
  <2>2. k \in Key /\ AtMost(k, index[i].last_key) /\ index[i].last_key \in Key
    <3>1. i <= i BY <1>3
    <3> QED BY <1>2, <3>1, AcrossBlocks
  <2>3. Less(index[i].last_key, p) BY <1>10, <1>12
  <2>4. AtMost(p, k) BY <2>1, <2>2, PrefixesTogether
  <2> QED BY <2>2, <2>3, <2>4, KeyOrder DEF AtMost
<1>13. ASSUME NEW i \in past, NEW j \in 1..n, i <= j PROVE DOMAIN parts[j] = {}
  <2>1. SUFFICES ASSUME NEW k \in DOMAIN blocks[j], IsPrefix(p, k) PROVE FALSE BY <1>9
  <2>2. i \in 1..n /\ Less(p, index[i].first_key) /\ ~IsPrefix(p, index[i].first_key) BY <1>11
  <2>3. k \in Key /\ AtMost(index[i].first_key, k) /\ index[i].first_key \in Key
    BY <1>2, <1>13, <2>2, AcrossBlocks
  <2> QED BY <2>1, <2>2, <2>3, PrefixesTogether
<1> HIDE DEF past
<1>14. ReadBlocks(parts, from, past, Unlimited).out = wanted
  <2>1. Unlimited \in Int /\ Unlimited # 0 /\ Unlimited >= -1 BY DEF Unlimited
  <2> HIDE DEF n
  <2> QED BY <1>6, <1>7, <1>10, <1>11, <1>12, <1>13, <2>1, ReadBlocksAt
<1> QED BY <1>1, <1>14 DEF wanted, run

(* A read of a range from a file gives what the file has of it, all of it  *)
(* or, when it is limited, all up to some key (entries_with_range_limited, *)
(* store/sst_block.rs).                                                    *)
LEMMA RangeRead ==
    ASSUME NEW sst, Written(sst), NEW a \in Key, NEW z \in Key, Less(a, z)
    PROVE  /\ EntriesWithRange(sst, a, z) = WithRange(AllEntries(sst), a, z)
           /\ \A limit \in Nat \ {0} :
                GoodPart(WithRange(AllEntries(sst), a, z), EntriesWithRangeLimited(sst, a, z, limit))
<1> DEFINE run == AllEntries(sst)
           blocks == sst.blocks
           index == sst.index
           n == Len(blocks)
           W == {k \in Key : InRange(k, a, z)}
           from == FirstBlock(index, a)
           past == {i \in DOMAIN index : AtMost(z, index[i].first_key)}
           parts == [i \in DOMAIN blocks |-> WithRange(blocks[i], a, z)]
           wanted == WithRange(run, a, z)
<1>1. ASSUME NEW limit \in Int, limit # 0
      PROVE  EntriesWithRangeLimited(sst, a, z, limit) = ReadBlocks(parts, from, past, limit)
  BY <1>1 DEF EntriesWithRangeLimited
<1>2. IsRun(run) /\ IsCut(run, blocks) /\ Indexed(blocks, index)
  BY IndexOfCut DEF Written
<1> HIDE DEF run, blocks, index
<1>3. n \in Nat /\ DOMAIN blocks = 1..n /\ DOMAIN index = 1..n /\ IsSplit(run, blocks)
  BY <1>2 DEF IsCut, IsSplit, Layers, Indexed
<1>4. ASSUME NEW i \in 1..n PROVE Selects(W, blocks[i], WithRange(blocks[i], a, z))
  <2>1. DOMAIN blocks[i] \subseteq Key BY <1>3 DEF IsSplit, IsRun, KeySet
  <2>2. {k \in DOMAIN blocks[i] : InRange(k, a, z)} = DOMAIN blocks[i] \cap W BY <2>1
  <2> QED BY <2>2 DEF WithRange, Selects
<1>5. Selects(W, run, wanted)
  <2>1. DOMAIN run \subseteq Key BY <1>2 DEF IsRun, KeySet
  <2>2. {k \in DOMAIN run : InRange(k, a, z)} = DOMAIN run \cap W BY <2>1
  <2> QED BY <2>2 DEF WithRange, Selects
<1>6. Len(parts) = n /\ Layers(parts) /\ \A i \in 1..n : Selects(W, blocks[i], parts[i])
  <2> HIDE DEF W
  <2> QED BY <1>3, <1>4 DEF Layers
<1>7. IsRun(wanted) /\ IsSplit(wanted, parts)
  <2> HIDE DEF W, wanted, parts
  <2> QED BY <1>2, <1>3, <1>5, <1>6, SplitWanted
<1>9. ASSUME NEW i \in 1..n PROVE DOMAIN parts[i] = {k \in DOMAIN blocks[i] : InRange(k, a, z)}
  BY <1>3 DEF WithRange, Restrict
<1>10. from \in 1..(n + 1) /\ \A i \in 1..n : i < from <=> Less(index[i].last_key, a)
  BY <1>2, FirstBlockAt
<1>11. past \in SUBSET (1..n) BY <1>3
<1> HIDE DEF parts, wanted, W, from
<1>12. ASSUME NEW i \in 1..n, i < from PROVE DOMAIN parts[i] = {}
  <2>1. SUFFICES ASSUME NEW k \in DOMAIN blocks[i], InRange(k, a, z) PROVE FALSE BY <1>9
  <2>2. k \in Key /\ AtMost(k, index[i].last_key) /\ index[i].last_key \in Key
    <3>1. i <= i BY <1>3
    <3> QED BY <1>2, <3>1, AcrossBlocks
  <2>3. Less(index[i].last_key, a) BY <1>10, <1>12
  <2> QED BY <2>1, <2>2, <2>3, KeyOrder DEF AtMost, InRange
<1>13. ASSUME NEW i \in past, NEW j \in 1..n, i <= j PROVE DOMAIN parts[j] = {}
  <2>1. SUFFICES ASSUME NEW k \in DOMAIN blocks[j], InRange(k, a, z) PROVE FALSE BY <1>9
  <2>2. i \in 1..n /\ AtMost(z, index[i].first_key) BY <1>11
  <2>3. k \in Key /\ AtMost(index[i].first_key, k) /\ index[i].first_key \in Key
    BY <1>2, <1>13, <2>2, AcrossBlocks
  <2> QED BY <2>1, <2>2, <2>3, KeyOrder DEF AtMost, InRange
<1> HIDE DEF past, n
<1>14. ASSUME NEW limit \in Int, limit # 0, limit >= -1
       PROVE  /\ GoodPart(wanted, ReadBlocks(parts, from, past, limit))
              /\ limit = Unlimited => ReadBlocks(parts, from, past, limit).out = wanted
  BY <1>6, <1>7, <1>10, <1>11, <1>12, <1>13, <1>14, ReadBlocksAt
<1>15. EntriesWithRange(sst, a, z) = wanted
  <2>1. Unlimited \in Int /\ Unlimited # 0 /\ Unlimited >= -1 BY DEF Unlimited
  <2> QED BY <1>1, <1>14, <2>1 DEF EntriesWithRange
<1>16. ASSUME NEW limit \in Nat \ {0} PROVE GoodPart(wanted, EntriesWithRangeLimited(sst, a, z, limit))
  <2>1. limit \in Int /\ limit # 0 /\ limit >= -1 OBVIOUS
  <2> QED BY <1>1, <1>14, <2>1
<1> QED BY <1>15, <1>16 DEF wanted, run

(* -------------------------- flush and compact -------------------------- *)
Runs(files) == [i \in DOMAIN files |-> AllEntries(files[i])]

FilesWritten(files) ==
    Layers(files) /\ \A i \in 1..Len(files) : Written(files[i]) /\ DOMAIN AllEntries(files[i]) \subseteq Keys

(* No two files have one id, and the next is above them all.               *)
IdsApart(files, next) ==
    /\ next \in Nat
    /\ \A i \in 1..Len(files) : files[i].id \in Nat /\ files[i].id < next
    /\ \A i, j \in 1..Len(files) : files[i].id = files[j].id => i = j

(* A block under a file's id is a block of that file.                      *)
BlockOf(file, p, entry) ==
    p[1] = file.id => p[2] \in DOMAIN file.blocks /\ entry.block = file.blocks[p[2]]
CacheRight(c, files, next) ==
    /\ c = [p \in DOMAIN c |-> c[p]]
    /\ \A p \in DOMAIN c :
         /\ c[p] = [block |-> c[p].block, last_used |-> c[p].last_used]
         /\ p[1] \in Nat /\ p[1] < next
         /\ \A i \in 1..Len(files) : BlockOf(files[i], p, c[p])

MemtableRight(run) == IsRun(run) /\ DOMAIN run \subseteq Keys

GoodFiles(f) ==
    /\ f = [memtable |-> f.memtable, ssts |-> f.ssts, nextId |-> f.nextId, cache |-> f.cache]
    /\ MemtableRight(f.memtable) /\ FilesWritten(f.ssts) /\ IdsApart(f.ssts, f.nextId)
    /\ CacheRight(f.cache, f.ssts, f.nextId)

(* The value the engine's files hold of a key.                             *)
Held(f, k) == IF k \in DOMAIN f.memtable THEN f.memtable[k] ELSE Value(Overlay(Runs(f.ssts)), k)

(* Keeping the entries that have a value changes no value (compact,        *)
(* store/engine.rs).                                                       *)
LEMMA PresentRun ==
    ASSUME NEW run, IsRun(run)
    PROVE  /\ IsRun(Present(run)) /\ DOMAIN Present(run) = {k \in DOMAIN run : run[k] # None}
           /\ \A k \in DOMAIN Present(run) : Present(run)[k] = run[k]
           /\ \A k : Value(Present(run), k) = Value(run, k)
<1> DEFINE S == {k \in DOMAIN run : run[k] # None}
<1>1. Present(run) = Restrict(run, S) BY DEF Present
<1>2. S \in SUBSET DOMAIN run OBVIOUS
<1>3. IsRun(Present(run)) /\ DOMAIN Present(run) = S /\ \A k \in S : Present(run)[k] = run[k]
  <2> HIDE DEF S
  <2> QED BY <1>1, <1>2, RestrictedRun
<1>4. \A k : Value(Present(run), k) = Value(run, k) BY <1>3 DEF Value
<1> QED BY <1>3, <1>4

(* The empty run (store/memtable.rs).                                      *)
LEMMA EmptyRun == IsRun(Empty) /\ DOMAIN Empty = {}
<1>1. Empty = [k \in {} |-> <<>>[LastWith(<<>>, k)][k]] BY DEF Empty, Overlay
<1>2. DOMAIN Empty = {} /\ Empty = [k \in DOMAIN Empty |-> Empty[k]] BY <1>1
<1>3. KeySet({}) BY FS_EmptySet DEF KeySet
<1> QED BY <1>2, <1>3 DEF IsRun

(* A write of one key (store/memtable.rs).                                 *)
LEMMA PutRun ==
    ASSUME NEW run, IsRun(run), NEW k \in Key, NEW v
    PROVE  /\ IsRun(Put(run, k, v)) /\ DOMAIN Put(run, k, v) = DOMAIN run \cup {k}
           /\ Put(run, k, v)[k] = v
           /\ \A l \in DOMAIN run : l # k => Put(run, k, v)[l] = run[l]
<1> DEFINE new == Put(run, k, v)
<1>1. new = [l \in DOMAIN run \cup {k} |-> IF l = k THEN v ELSE run[l]] BY DEF Put
<1>2. DOMAIN new = DOMAIN run \cup {k} BY <1>1
<1>3. KeySet(DOMAIN run \cup {k}) BY FS_AddElement DEF IsRun, KeySet
<1>4. new = [l \in DOMAIN new |-> new[l]] /\ new[k] = v /\ \A l \in DOMAIN run : l # k => new[l] = run[l]
  <2> HIDE DEF new
  <2> QED BY <1>1
<1> HIDE DEF new
<1>5. IsRun(new) BY <1>2, <1>3, <1>4 DEF IsRun
<1> QED BY <1>2, <1>4, <1>5 DEF new

(* A file has what it was written with (Sst::write_new and Sst::entries,   *)
(* store/sst_block.rs).                                                    *)
LEMMA SstWritten ==
    ASSUME NEW run, IsRun(run), NEW id
    PROVE  /\ Sst(id, run).id = id /\ AllEntries(Sst(id, run)) = run
           /\ Written(Sst(id, run))
<1> DEFINE blocks == Blocks(run, BlockSize)
           sst == Sst(id, run)
<1>1. /\ sst.id = id /\ sst.blocks = blocks
      /\ sst.index = [i \in DOMAIN blocks |-> Routing(blocks[i])]
  BY DEF Sst
<1> HIDE DEF sst
<1>2. IsCut(run, blocks) BY BlocksAreCut
<1> HIDE DEF blocks
<1>3. AllEntries(sst) = run BY <1>1, <1>2, OverlayOfSplit DEF AllEntries, IsCut
<1> QED BY <1>1, <1>2, <1>3 DEF Written, sst

(* The runs of the files, and one over another (scan_range,                *)
(* store/engine.rs).                                                       *)
LEMMA RunsOfFiles ==
    ASSUME NEW files, FilesWritten(files)
    PROVE  /\ Layers(Runs(files)) /\ Len(Runs(files)) = Len(files)
           /\ \A i \in 1..Len(files) :
                Runs(files)[i] = AllEntries(files[i]) /\ IsRun(Runs(files)[i]) /\ DOMAIN Runs(files)[i] \subseteq Keys
           /\ IsRun(Overlay(Runs(files))) /\ DOMAIN Overlay(Runs(files)) \subseteq Keys
<1> DEFINE runs == Runs(files)
<1>1. Len(files) \in Nat /\ DOMAIN files = 1..Len(files) BY DEF FilesWritten, Layers
<1>2. runs = [i \in 1..Len(files) |-> AllEntries(files[i])] BY <1>1 DEF Runs
<1>3. Layers(runs) /\ Len(runs) = Len(files) BY <1>1, <1>2 DEF Layers
<1>4. \A i \in 1..Len(files) :
        runs[i] = AllEntries(files[i]) /\ IsRun(runs[i]) /\ DOMAIN runs[i] \subseteq Keys
  BY <1>2 DEF FilesWritten, Written
<1> HIDE DEF runs
<1>5. IsRun(Overlay(runs)) BY <1>3, <1>4, OverlayIsRun
<1>6. ASSUME NEW k \in DOMAIN Overlay(runs) PROVE k \in Keys
  <2>1. PICK i \in 1..Len(runs) : k \in DOMAIN runs[i] BY <1>3, OverlayAt
  <2> QED BY <1>3, <1>4, <2>1
<1> QED BY <1>3, <1>4, <1>5, <1>6 DEF runs

(* A flush puts the memtable in a file over the others, and changes no     *)
(* value (flush, store/engine.rs).                                         *)
LEMMA FlushedGood ==
    ASSUME NEW f, GoodFiles(f)
    PROVE  GoodFiles(Flushed(f)) /\ \A k : Held(Flushed(f), k) = Held(f, k)
<1>1. CASE DOMAIN f.memtable = {} BY <1>1 DEF Flushed
<1>2. CASE DOMAIN f.memtable # {}
  <2> DEFINE g == Flushed(f)
             new == Sst(f.nextId, f.memtable)
             n == Len(f.ssts)
  <2>1. /\ g = [memtable |-> Empty, ssts |-> Append(f.ssts, new), nextId |-> f.nextId + 1, cache |-> f.cache]
    BY <1>2 DEF Flushed, GoodFiles
  <2>2. /\ g.memtable = Empty /\ g.ssts = Append(f.ssts, new) /\ g.nextId = f.nextId + 1 /\ g.cache = f.cache
        /\ g = [memtable |-> g.memtable, ssts |-> g.ssts, nextId |-> g.nextId, cache |-> g.cache]
    BY <2>1
  <2> HIDE DEF g
  <2>3. /\ IsRun(f.memtable) /\ DOMAIN f.memtable \subseteq Keys
        /\ FilesWritten(f.ssts) /\ IdsApart(f.ssts, f.nextId) /\ CacheRight(f.cache, f.ssts, f.nextId)
    BY DEF GoodFiles, MemtableRight
  <2>4. new.id = f.nextId /\ AllEntries(new) = f.memtable /\ Written(new) BY <2>3, SstWritten
  <2> HIDE DEF new
  <2>5. Layers(f.ssts) /\ n \in Nat BY <2>3 DEF FilesWritten, Layers
  <2>6. /\ Layers(g.ssts) /\ Len(g.ssts) = n + 1
        /\ \A i \in 1..n : g.ssts[i] = f.ssts[i]
        /\ g.ssts[n + 1] = new
    BY <2>2, <2>5, AppendLayers
  <2>7. \A i : i \in 1..(n + 1) <=> i \in 1..n \/ i = n + 1 BY <2>5
  <2>8. FilesWritten(g.ssts) BY <2>3, <2>4, <2>6, <2>7 DEF FilesWritten
  <2>9. IdsApart(g.ssts, g.nextId)
    <3>1. f.nextId \in Nat /\ g.nextId = f.nextId + 1 BY <2>2, <2>3 DEF IdsApart
    <3>2. \A i \in 1..n : f.ssts[i].id \in Nat /\ f.ssts[i].id < f.nextId BY <2>3 DEF IdsApart
    <3>3. \A i, j \in 1..n : f.ssts[i].id = f.ssts[j].id => i = j BY <2>3 DEF IdsApart
    <3>4. \A i \in 1..n : g.ssts[i].id = f.ssts[i].id BY <2>6
    <3>5. g.ssts[n + 1].id = f.nextId BY <2>4, <2>6
    <3>6. ASSUME NEW i \in 1..(n + 1) PROVE g.ssts[i].id \in Nat /\ g.ssts[i].id < g.nextId
      <4>1. CASE i \in 1..n
        <5>1. f.ssts[i].id \in Nat /\ f.ssts[i].id < f.nextId BY <3>2, <4>1
        <5>2. g.ssts[i].id = f.ssts[i].id BY <3>4, <4>1
        <5> QED BY <3>1, <5>1, <5>2
      <4>2. CASE i = n + 1 BY <3>1, <3>5, <4>2
      <4> QED BY <2>7, <4>1, <4>2
    <3>7. ASSUME NEW i \in 1..(n + 1), NEW j \in 1..(n + 1), g.ssts[i].id = g.ssts[j].id PROVE i = j
      <4>1. CASE i \in 1..n /\ j \in 1..n BY <3>3, <3>4, <3>7, <4>1
      <4>2. CASE i \in 1..n /\ j = n + 1 BY <3>1, <3>2, <3>4, <3>5, <3>7, <4>2
      <4>3. CASE i = n + 1 /\ j \in 1..n BY <3>1, <3>2, <3>4, <3>5, <3>7, <4>3
      <4> QED BY <2>7, <4>1, <4>2, <4>3
    <3> QED BY <2>6, <3>1, <3>6, <3>7 DEF IdsApart
  <2>10. CacheRight(g.cache, g.ssts, g.nextId)
    <3>1. f.nextId \in Nat BY <2>3 DEF IdsApart
    <3>2. ASSUME NEW p \in DOMAIN f.cache, NEW i \in 1..(n + 1) PROVE BlockOf(g.ssts[i], p, f.cache[p])
      <4>1. p[1] \in Nat /\ p[1] < f.nextId BY <2>3 DEF CacheRight
      <4>2. CASE i \in 1..n
        <5>1. BlockOf(f.ssts[i], p, f.cache[p]) BY <2>3, <4>2 DEF CacheRight
        <5> QED BY <2>6, <4>2, <5>1
      <4>3. CASE i = n + 1 BY <2>4, <2>6, <3>1, <4>1, <4>3 DEF BlockOf
      <4> QED BY <2>7, <4>2, <4>3
    <3>3. ASSUME NEW p \in DOMAIN f.cache PROVE p[1] \in Nat /\ p[1] < f.nextId + 1
      <4>1. p[1] \in Nat /\ p[1] < f.nextId BY <2>3 DEF CacheRight
      <4> QED BY <3>1, <4>1
    <3> QED BY <2>2, <2>3, <2>6, <3>2, <3>3 DEF CacheRight
  <2>11. MemtableRight(g.memtable) BY <2>2, EmptyRun DEF MemtableRight
  <2>12. GoodFiles(g) BY <2>2, <2>8, <2>9, <2>10, <2>11 DEF GoodFiles
  <2>13. Runs(g.ssts) = Append(Runs(f.ssts), f.memtable)
    <3> DEFINE rs == Runs(g.ssts)
               qs == Append(Runs(f.ssts), f.memtable)
    <3>1. Layers(Runs(f.ssts)) /\ Len(Runs(f.ssts)) = n /\ \A i \in 1..n : Runs(f.ssts)[i] = AllEntries(f.ssts[i])
      BY <2>3, RunsOfFiles
    <3>2. Layers(qs) /\ Len(qs) = n + 1 /\ (\A i \in 1..n : qs[i] = Runs(f.ssts)[i]) /\ qs[n + 1] = f.memtable
      BY <3>1, AppendLayers
    <3>3. Layers(rs) /\ Len(rs) = n + 1 /\ \A i \in 1..(n + 1) : rs[i] = AllEntries(g.ssts[i])
      BY <2>6, <2>8, RunsOfFiles
    <3> HIDE DEF rs, qs
    <3>4. \A i \in 1..(n + 1) : rs[i] = qs[i] BY <2>4, <2>6, <2>7, <3>1, <3>2, <3>3
    <3>5. rs = [i \in 1..(n + 1) |-> rs[i]] /\ qs = [i \in 1..(n + 1) |-> qs[i]]
      BY <3>2, <3>3 DEF Layers
    <3>6. rs = qs BY <3>4, <3>5, Zenon
    <3> QED BY <3>6 DEF rs, qs
  <2>14. ASSUME NEW k PROVE Held(g, k) = Held(f, k)
    <3>1. Layers(Runs(f.ssts)) BY <2>3, RunsOfFiles
    <3>2. Held(g, k) = Value(Overlay(Append(Runs(f.ssts), f.memtable)), k)
      BY <2>2, <2>13, EmptyRun DEF Held
    <3> QED BY <3>1, <3>2, OverlayAppend DEF Held, Value
  <2> QED BY <2>12, <2>14 DEF g
<1> QED BY <1>1, <1>2

(* A cache with some of another's blocks is as right as that one           *)
(* (store/block_cache.rs).                                                 *)
LEMMA CacheKept ==
    ASSUME NEW files, NEW next, NEW c, CacheRight(c, files, next),
           NEW d, d = [p \in DOMAIN d |-> d[p]],
           \A p \in DOMAIN d :
             /\ p \in DOMAIN c /\ d[p].block = c[p].block
             /\ d[p] = [block |-> d[p].block, last_used |-> d[p].last_used]
    PROVE  CacheRight(d, files, next)
<1>1. ASSUME NEW p \in DOMAIN d PROVE p[1] \in Nat /\ p[1] < next
  BY DEF CacheRight
<1>2. ASSUME NEW p \in DOMAIN d, NEW i \in 1..Len(files) PROVE BlockOf(files[i], p, d[p])
  <2>1. BlockOf(files[i], p, c[p]) BY DEF CacheRight
  <2>2. d[p].block = c[p].block OBVIOUS
  <2> QED BY <2>1, <2>2 DEF BlockOf
<1> QED BY <1>1, <1>2 DEF CacheRight

(* Renumbering the ticks changes no block (touch, store/block_cache.rs).   *)
LEMMA RenumberedKeeps ==
    ASSUME NEW c, \A p \in DOMAIN c : c[p] = [block |-> c[p].block, last_used |-> c[p].last_used]
    PROVE  /\ DOMAIN Renumbered(c) = DOMAIN c /\ Renumbered(c) = [p \in DOMAIN c |-> Renumbered(c)[p]]
           /\ \A p \in DOMAIN c :
                /\ Renumbered(c)[p].block = c[p].block
                /\ Renumbered(c)[p] = [block |-> Renumbered(c)[p].block, last_used |-> Renumbered(c)[p].last_used]
<1> DEFINE N(p) == Cardinality({q \in DOMAIN c : c[q].last_used <= c[p].last_used})
           d == Renumbered(c)
<1>1. d = [p \in DOMAIN c |-> [c[p] EXCEPT !.last_used = N(p)]] BY DEF Renumbered
<1> HIDE DEF d, N
<1>2. DOMAIN d = DOMAIN c /\ d = [p \in DOMAIN c |-> d[p]] BY <1>1
<1>3. ASSUME NEW p \in DOMAIN c
      PROVE  d[p].block = c[p].block /\ d[p] = [block |-> d[p].block, last_used |-> d[p].last_used]
  <2>1. c[p] = [block |-> c[p].block, last_used |-> c[p].last_used] OBVIOUS
  <2>2. d[p] = [c[p] EXCEPT !.last_used = N(p)] BY <1>1
  <2>3. d[p] = [block |-> c[p].block, last_used |-> N(p)] BY <2>1, <2>2
  <2> QED BY <2>3
<1> QED BY <1>2, <1>3 DEF d

(* A block stays what it was when it is used (get, store/block_cache.rs).  *)
LEMMA TouchedRight ==
    ASSUME NEW files, NEW next, NEW c, CacheRight(c, files, next), NEW p \in DOMAIN c
    PROVE  CacheRight(Touched(c, p), files, next)
<1> DEFINE e == [c EXCEPT ![p].last_used = Tick(c)]
           d == Renumbered(e)
<1>1. \A q \in DOMAIN c : c[q] = [block |-> c[q].block, last_used |-> c[q].last_used] BY DEF CacheRight
<1>2. c = [q \in DOMAIN c |-> c[q]] BY DEF CacheRight
<1>3. DOMAIN e = DOMAIN c /\ \A q \in DOMAIN c : q # p => e[q] = c[q] BY <1>2
<1>4. e[p] = [c[p] EXCEPT !.last_used = Tick(c)] BY <1>2
<1>5. e[p] = [block |-> c[p].block, last_used |-> Tick(c)] BY <1>1, <1>4
<1> HIDE DEF e
<1>6. \A q \in DOMAIN c : e[q].block = c[q].block /\ e[q] = [block |-> e[q].block, last_used |-> e[q].last_used]
  BY <1>1, <1>3, <1>5
<1>7. /\ DOMAIN d = DOMAIN c /\ d = [q \in DOMAIN c |-> d[q]]
      /\ \A q \in DOMAIN c :
           d[q].block = e[q].block /\ d[q] = [block |-> d[q].block, last_used |-> d[q].last_used]
  BY <1>3, <1>6, RenumberedKeeps
<1> HIDE DEF d
<1>8. CacheRight(d, files, next) BY <1>6, <1>7, CacheKept
<1> QED BY <1>8 DEF d, e, Touched

(* Dropping blocks leaves a cache right (invalidate_sst,                   *)
(* store/block_cache.rs).                                                  *)
LEMMA RestrictedRight ==
    ASSUME NEW files, NEW next, NEW c, CacheRight(c, files, next), NEW S \in SUBSET DOMAIN c
    PROVE  /\ CacheRight(Restrict(c, S), files, next) /\ DOMAIN Restrict(c, S) = S
           /\ CacheRight(Renumbered(Restrict(c, S)), files, next)
<1> DEFINE e == Restrict(c, S)
           d == Renumbered(e)
<1>1. DOMAIN e = S /\ e = [p \in S |-> e[p]] /\ \A p \in S : e[p] = c[p] BY DEF Restrict
<1> HIDE DEF e
<1>2. \A p \in S : e[p] = [block |-> e[p].block, last_used |-> e[p].last_used] BY <1>1 DEF CacheRight
<1>3. CacheRight(e, files, next) BY <1>1, <1>2, CacheKept
<1>4. /\ DOMAIN d = S /\ d = [q \in S |-> d[q]]
      /\ \A q \in S : d[q].block = e[q].block /\ d[q] = [block |-> d[q].block, last_used |-> d[q].last_used]
  BY <1>1, <1>2, RenumberedKeeps
<1> HIDE DEF d
<1>5. CacheRight(d, files, next) BY <1>1, <1>3, <1>4, CacheKept
<1> QED BY <1>1, <1>3, <1>5 DEF d, e

(* A block put in the cache under its own file and number leaves the cache *)
(* right, whatever makes room for it (insert, store/block_cache.rs).       *)
LEMMA InsertRight ==
    ASSUME NEW files, NEW next, NEW c, CacheRight(c, files, next), NEW p, p[1] \in Nat, p[1] < next, NEW block,
           \A i \in 1..Len(files) :
             p[1] = files[i].id => p[2] \in DOMAIN files[i].blocks /\ block = files[i].blocks[p[2]]
    PROVE  CacheRight(Insert(c, p, block), files, next)
<1>1. CASE p \in DOMAIN c BY <1>1 DEF Insert
<1>2. CASE p \notin DOMAIN c
  <2> DEFINE n == Min({n \in 0..Cardinality(DOMAIN c) :
                        \/ n = Cardinality(DOMAIN c)
                        \/ Resident(UsedAfter(c, n)) + BlockBytes(block) <= Capacity})
             S == {q \in DOMAIN c : c[q].last_used > n}
             room == Restrict(c, S)
             entry == [block |-> block, last_used |-> Tick(c)]
             e == Put(room, p, entry)
             d == Renumbered(e)
  <2>1. Insert(c, p, block) = d BY <1>2 DEF Insert, Evicted, UsedAfter
  <2> HIDE DEF n
  <2>2. S \in SUBSET DOMAIN c OBVIOUS
  <2> HIDE DEF S
  <2>3. CacheRight(room, files, next) /\ DOMAIN room = S BY <2>2, RestrictedRight
  <2> HIDE DEF room
  <2>4. e = [q \in S \cup {p} |-> IF q = p THEN entry ELSE room[q]] BY <2>3 DEF Put
  <2>5. entry = [block |-> entry.block, last_used |-> entry.last_used] /\ entry.block = block OBVIOUS
  <2> HIDE DEF e, entry
  <2>6. DOMAIN e = S \cup {p} /\ e[p] = entry /\ (\A q \in S : q # p => e[q] = room[q])
    BY <2>4
  <2>7. ASSUME NEW q \in DOMAIN e
        PROVE  /\ e[q] = [block |-> e[q].block, last_used |-> e[q].last_used]
               /\ q[1] \in Nat /\ q[1] < next
               /\ \A i \in 1..Len(files) : BlockOf(files[i], q, e[q])
    <3>1. CASE q = p BY <2>5, <2>6, <3>1 DEF BlockOf
    <3>2. CASE q # p
      <4>1. q \in DOMAIN room /\ e[q] = room[q] BY <2>3, <2>6, <3>2
      <4> QED BY <2>3, <4>1 DEF CacheRight
    <3> QED BY <3>1, <3>2
  <2>8. e = [q \in DOMAIN e |-> e[q]] BY <2>4
  <2>9. CacheRight(e, files, next) BY <2>7, <2>8 DEF CacheRight
  <2>10. /\ DOMAIN d = DOMAIN e /\ d = [q \in DOMAIN e |-> d[q]]
         /\ \A q \in DOMAIN e :
              d[q].block = e[q].block /\ d[q] = [block |-> d[q].block, last_used |-> d[q].last_used]
    BY <2>7, RenumberedKeeps
  <2> HIDE DEF d
  <2>11. CacheRight(d, files, next) BY <2>9, <2>10, CacheKept
  <2> QED BY <2>1, <2>11
<1> QED BY <1>1, <1>2

(* A compaction leaves one file with the last value of every key (compact, *)
(* store/engine.rs).                                                       *)
LEMMA CompactedGood ==
    ASSUME NEW f, GoodFiles(f)
    PROVE  GoodFiles(Compacted(f)) /\ \A k : Held(Compacted(f), k) = Held(f, k)
<1> DEFINE merged == Overlay(Runs(f.ssts))
           new == Sst(f.nextId, Present(merged))
           kept == InvalidateSst(f.cache, {f.ssts[i].id : i \in DOMAIN f.ssts})
           g == Compacted(f)
<1>1. g = [memtable |-> f.memtable, ssts |-> <<new>>, nextId |-> f.nextId + 1, cache |-> kept]
  <2>1. f = [memtable |-> f.memtable, ssts |-> f.ssts, nextId |-> f.nextId, cache |-> f.cache]
    BY DEF GoodFiles
  <2> HIDE DEF kept
  <2>2. Compacted(f) = [f EXCEPT !.ssts = <<new>>, !.nextId = f.nextId + 1, !.cache = kept]
    BY Zenon DEF Compacted, Runs, kept
  <2> HIDE DEF new
  <2> QED BY <2>1, <2>2
<1>2. /\ g.memtable = f.memtable /\ g.ssts = <<new>> /\ g.nextId = f.nextId + 1 /\ g.cache = kept
      /\ g = [memtable |-> g.memtable, ssts |-> g.ssts, nextId |-> g.nextId, cache |-> g.cache]
  BY <1>1
<1>3. /\ MemtableRight(f.memtable) /\ FilesWritten(f.ssts) /\ IdsApart(f.ssts, f.nextId)
      /\ CacheRight(f.cache, f.ssts, f.nextId) /\ f.nextId \in Nat
  BY DEF GoodFiles, IdsApart
<1>4. CacheRight(kept, f.ssts, f.nextId)
  <2> DEFINE S == {p \in DOMAIN f.cache : p[1] \notin {f.ssts[i].id : i \in DOMAIN f.ssts}}
  <2>1. kept = Renumbered(Restrict(f.cache, S)) BY DEF InvalidateSst
  <2>2. S \in SUBSET DOMAIN f.cache OBVIOUS
  <2> HIDE DEF S, kept
  <2> QED BY <1>3, <2>1, <2>2, RestrictedRight
<1> HIDE DEF g, kept
<1>5. IsRun(merged) /\ DOMAIN merged \subseteq Keys BY <1>3, RunsOfFiles
<1>6. /\ IsRun(Present(merged)) /\ DOMAIN Present(merged) \subseteq Keys
      /\ \A k : Value(Present(merged), k) = Value(merged, k)
  <2> HIDE DEF merged
  <2> QED BY <1>5, PresentRun
<1> DEFINE least == Present(merged)
<1>7. new.id = f.nextId /\ AllEntries(new) = least /\ Written(new)
  <2> HIDE DEF merged
  <2> QED BY <1>6, SstWritten
<1> HIDE DEF new, least
<1>8. Len(g.ssts) = 1 /\ g.ssts[1] = new /\ Layers(g.ssts) BY <1>2 DEF Layers
<1>9. \A i : i \in 1..1 <=> i = 1 OBVIOUS
<1>10. FilesWritten(g.ssts) BY <1>6, <1>7, <1>8, <1>9 DEF FilesWritten, least
<1>11. IdsApart(g.ssts, g.nextId)
  <2>1. new.id \in Nat /\ new.id < g.nextId /\ g.nextId \in Nat BY <1>2, <1>3, <1>7
  <2> QED BY <1>8, <1>9, <2>1 DEF IdsApart
<1>12. CacheRight(g.cache, g.ssts, g.nextId)
  <2>1. ASSUME NEW p \in DOMAIN kept PROVE p[1] \in Nat /\ p[1] < f.nextId BY <1>4 DEF CacheRight
  <2>2. ASSUME NEW p \in DOMAIN kept
        PROVE  p[1] \in Nat /\ p[1] < g.nextId /\ BlockOf(new, p, kept[p])
    <3>1. p[1] \in Nat /\ p[1] < f.nextId BY <2>1
    <3>2. p[1] # new.id BY <1>3, <1>7, <3>1
    <3> QED BY <1>2, <1>3, <3>1, <3>2 DEF BlockOf
  <2> QED BY <1>2, <1>4, <1>8, <1>9, <2>2 DEF CacheRight
<1>13. GoodFiles(g) BY <1>2, <1>3, <1>10, <1>11, <1>12 DEF GoodFiles
<1>14. ASSUME NEW k PROVE Value(Overlay(Runs(g.ssts)), k) = Value(merged, k)
  <2> DEFINE rs == Runs(g.ssts)
  <2>1. Layers(rs) /\ Len(rs) = 1 /\ rs[1] = least BY <1>7, <1>8, <1>9, <1>10, RunsOfFiles
  <2> HIDE DEF rs
  <2>2. k \in DOMAIN Overlay(rs) <=> k \in DOMAIN least BY <1>9, <2>1, OverlayAt
  <2>3. ASSUME k \in DOMAIN least PROVE Overlay(rs)[k] = least[k]
    <3>1. Top(rs, k, 1) /\ 1 \in 1..Len(rs) BY <2>1, <2>3 DEF Top
    <3> QED BY <2>1, <3>1, OverlayAt
  <2>4. Value(Overlay(rs), k) = Value(least, k) BY <2>2, <2>3 DEF Value
  <2>5. Value(least, k) = Value(merged, k) BY <1>6 DEF least
  <2> QED BY <2>4, <2>5 DEF rs
<1>15. ASSUME NEW k PROVE Held(g, k) = Held(f, k) BY <1>2, <1>14 DEF Held
<1> QED BY <1>13, <1>15 DEF g

(* Whatever comes of a flush, it changes no value (flush, store/engine.rs). *)
LEMMA FlushGood ==
    ASSUME NEW f, GoodFiles(f), NEW fails \in BOOLEAN, NEW g \in FlushResults(f, fails)
    PROVE  GoodFiles(g) /\ \A k : Held(g, k) = Held(f, k)
<1>1. GoodFiles(Flushed(f)) /\ \A k : Held(Flushed(f), k) = Held(f, k) BY FlushedGood
<1>2. GoodFiles(Compacted(Flushed(f))) /\ \A k : Held(Compacted(Flushed(f)), k) = Held(f, k)
  BY <1>1, CompactedGood
<1>3. g = f \/ g = Flushed(f) \/ g = Compacted(Flushed(f)) BY DEF FlushResults, FlushDone
<1> QED BY <1>1, <1>2, <1>3

(* -------------------------------- scans -------------------------------- *)
(* Sources that say of a key what memtable and files do, laid over one     *)
(* another, have the value held of it (scan_range, store/engine.rs).       *)
LEMMA PartsAgree ==
    ASSUME NEW f, GoodFiles(f), NEW k, NEW parts, Layers(parts), Len(parts) = Len(f.ssts),
           \A i \in 1..Len(f.ssts) : AgreeAt(parts[i], AllEntries(f.ssts[i]), k),
           NEW mem, AgreeAt(mem, f.memtable, k)
    PROVE  Value(Overlay(Append(parts, mem)), k) = Held(f, k)
<1> DEFINE runs == Runs(f.ssts)
<1>1. FilesWritten(f.ssts) BY DEF GoodFiles
<1>2. Layers(runs) /\ Len(runs) = Len(parts) /\ \A i \in 1..Len(parts) : runs[i] = AllEntries(f.ssts[i])
  BY <1>1, RunsOfFiles
<1> HIDE DEF runs
<1>3. \A i \in 1..Len(parts) : AgreeAt(parts[i], runs[i], k) BY <1>2
<1>4. AgreeAt(Overlay(parts), Overlay(runs), k) BY <1>2, <1>3, OverlayAgree
<1>5. Value(Overlay(Append(parts, mem)), k) = IF k \in DOMAIN mem THEN mem[k] ELSE Value(Overlay(parts), k)
  BY OverlayAppend DEF Value
<1>6. Value(Overlay(parts), k) = Value(Overlay(runs), k) BY <1>4 DEF AgreeAt, Value
<1>7. Held(f, k) = IF k \in DOMAIN f.memtable THEN f.memtable[k] ELSE Value(Overlay(runs), k)
  BY DEF Held, runs
<1> QED BY <1>5, <1>6, <1>7 DEF AgreeAt

(* What no source has is not in a scan, and a scan of runs is a run        *)
(* (scan_range, store/engine.rs).                                          *)
LEMMA ScanOfRuns ==
    ASSUME NEW parts, Layers(parts), \A i \in 1..Len(parts) : IsRun(parts[i]), NEW mem, IsRun(mem)
    PROVE  /\ IsRun(Overlay(Append(parts, mem)))
           /\ \A k : k \in DOMAIN Overlay(Append(parts, mem)) <=>
                       k \in DOMAIN mem \/ \E i \in 1..Len(parts) : k \in DOMAIN parts[i]
<1> DEFINE all == Append(parts, mem)
           n == Len(parts)
<1>1. Layers(all) /\ Len(all) = n + 1 /\ all[n + 1] = mem /\ \A i \in 1..n : all[i] = parts[i]
  BY AppendLayers
<1>2. n \in Nat BY DEF Layers
<1>3. \A i : i \in 1..(n + 1) <=> i \in 1..n \/ i = n + 1 BY <1>2
<1> HIDE DEF all, n
<1>4. \A i \in 1..(n + 1) : IsRun(all[i]) BY <1>1, <1>3 DEF n
<1>5. IsRun(Overlay(all)) BY <1>1, <1>4, OverlayIsRun
<1>6. ASSUME NEW k PROVE k \in DOMAIN Overlay(all) <=> k \in DOMAIN mem \/ \E i \in 1..n : k \in DOMAIN parts[i]
  <2>1. k \in DOMAIN Overlay(all) <=> \E i \in 1..(n + 1) : k \in DOMAIN all[i] BY <1>1, OverlayAt
  <2> QED BY <1>1, <1>3, <2>1
<1> QED BY <1>5, <1>6 DEF all, n

LiveHeld(f) == live = [k \in Keys |-> live[k]] /\ \A k \in Keys : live[k] = Held(f, k)

(* What a source gives that is asked for its part of W.                    *)
LEMMA SelectedRun ==
    ASSUME NEW W, NEW run, IsRun(run), NEW part, Selects(W, run, part)
    PROVE  /\ IsRun(part) /\ DOMAIN part = DOMAIN run \cap W
           /\ \A k \in W : AgreeAt(part, run, k)
<1>1. IsRun(part) /\ DOMAIN part = DOMAIN run \cap W /\ \A k \in DOMAIN run \cap W : part[k] = run[k]
  BY RestrictedRun DEF Selects
<1> QED BY <1>1 DEF AgreeAt

(* parts and mem are what W asks for of the files and of the memtable.     *)
Answers(W, f, parts, mem) ==
    /\ Layers(parts) /\ Len(parts) = Len(f.ssts)
    /\ \A i \in 1..Len(f.ssts) : Selects(W, AllEntries(f.ssts[i]), parts[i])
    /\ Selects(W, f.memtable, mem)

(* A scan of what W asks for gives the keys of W that have a value, with   *)
(* that value (scan_prefix and scan_range, store/engine.rs).               *)
LEMMA ScanLive ==
    ASSUME NEW f, GoodFiles(f), LiveHeld(f), NEW W,
           NEW parts, NEW mem, Answers(W, f, parts, mem)
    PROVE  Present(Overlay(Append(parts, mem))) = Restrict(Live, LiveKeys \cap W)
<1> DEFINE merged == Overlay(Append(parts, mem))
           page == Present(merged)
           right == Restrict(Live, LiveKeys \cap W)
<1>0. Layers(parts) /\ Len(parts) = Len(f.ssts) BY DEF Answers
<1>1. /\ FilesWritten(f.ssts) /\ IsRun(f.memtable) /\ DOMAIN f.memtable \subseteq Keys
      /\ \A i \in 1..Len(f.ssts) : IsRun(AllEntries(f.ssts[i])) /\ DOMAIN AllEntries(f.ssts[i]) \subseteq Keys
  BY DEF GoodFiles, MemtableRight, FilesWritten, Written
<1>2. ASSUME NEW i \in 1..Len(f.ssts)
      PROVE  /\ IsRun(parts[i]) /\ DOMAIN parts[i] = DOMAIN AllEntries(f.ssts[i]) \cap W
             /\ \A k \in W : AgreeAt(parts[i], AllEntries(f.ssts[i]), k)
  BY <1>1, SelectedRun DEF Answers
<1>3. IsRun(mem) /\ DOMAIN mem = DOMAIN f.memtable \cap W /\ \A k \in W : AgreeAt(mem, f.memtable, k)
  BY <1>1, SelectedRun DEF Answers
<1>4. /\ IsRun(merged)
      /\ \A k : k \in DOMAIN merged <=> k \in DOMAIN mem \/ \E i \in 1..Len(parts) : k \in DOMAIN parts[i]
  BY <1>0, <1>2, <1>3, ScanOfRuns
<1>5. ASSUME NEW k \in W PROVE Value(merged, k) = Held(f, k)
  BY <1>0, <1>2, <1>3, PartsAgree
<1> HIDE DEF merged
<1>6. DOMAIN merged \subseteq Keys \cap W BY <1>0, <1>1, <1>2, <1>3, <1>4
<1>7. /\ IsRun(page) /\ DOMAIN page = {k \in DOMAIN merged : merged[k] # None}
      /\ \A k \in DOMAIN page : page[k] = merged[k]
  BY <1>4, PresentRun
<1> HIDE DEF page
<1>8. ASSUME NEW k \in Keys \cap W
      PROVE  (k \in DOMAIN page <=> live[k] # None) /\ (k \in DOMAIN page => page[k] = live[k])
  <2>1. live[k] = Value(merged, k) BY <1>5 DEF LiveHeld
  <2> QED BY <1>7, <2>1 DEF Value
<1>9. DOMAIN page = LiveKeys \cap W BY <1>6, <1>7, <1>8 DEF LiveKeys
<1>10. /\ DOMAIN right = LiveKeys \cap W /\ right = [k \in DOMAIN right |-> right[k]]
       /\ \A k \in LiveKeys \cap W : right[k] = live[k]
  BY DEF Restrict, Live
<1> HIDE DEF right
<1>11. \A k \in DOMAIN page : page[k] = right[k] BY <1>8, <1>9, <1>10 DEF LiveKeys
<1>12. page = [k \in DOMAIN page |-> page[k]] BY <1>7 DEF IsRun
<1>13. page = right BY <1>9, <1>10, <1>11, <1>12, Zenon
<1> QED BY <1>13 DEF page, merged, right

(* A scan of a range gives the keys of the range that have a value         *)
(* (scan_range, store/engine.rs).                                          *)
LEMMA RangeScanLive ==
    ASSUME Keys \subseteq Key, GoodFiles(Files), LiveHeld(Files), NEW a \in Key, NEW z \in Key
    PROVE  ScanRange(a, z) = WithRange(Live, a, z)
<1> DEFINE W == {k \in Keys : InRange(k, a, z)}
           parts == [i \in DOMAIN ssts |-> EntriesWithRange(ssts[i], a, z)]
           mem == WithRange(memtable, a, z)
<1>1. Files.ssts = ssts /\ Files.memtable = memtable BY DEF Files
<1>2. /\ FilesWritten(ssts) /\ IsRun(memtable) /\ DOMAIN memtable \subseteq Keys
      /\ \A i \in 1..Len(ssts) : Written(ssts[i]) /\ DOMAIN AllEntries(ssts[i]) \subseteq Keys
  BY <1>1 DEF GoodFiles, MemtableRight, FilesWritten
<1>3. Len(ssts) \in Nat /\ DOMAIN ssts = 1..Len(ssts) BY <1>2 DEF FilesWritten, Layers
<1>4. \A run : DOMAIN run \subseteq Keys => {k \in DOMAIN run : InRange(k, a, z)} = DOMAIN run \cap W OBVIOUS
<1>5. \A run : DOMAIN run \subseteq Keys => WithRange(run, a, z) = Restrict(run, DOMAIN run \cap W)
  <2> HIDE DEF W
  <2> QED BY <1>4 DEF WithRange
<1>6. DOMAIN Live = LiveKeys /\ LiveKeys \subseteq Keys BY DEF Live, LiveKeys, Restrict
<1>7. WithRange(Live, a, z) = Restrict(Live, LiveKeys \cap W)
  <2> HIDE DEF W
  <2> QED BY <1>5, <1>6
<1>8. CASE ~Less(a, z)
  <2>1. ASSUME NEW k \in Keys PROVE ~InRange(k, a, z)
    BY <1>8, KeyOrder DEF InRange, AtMost
  <2>2. LiveKeys \cap W = {} BY <2>1
  <2>3. Restrict(Live, {}) = Empty
    <3>1. Empty = [k \in {} |-> <<>>[LastWith(<<>>, k)][k]] BY DEF Empty, Overlay
    <3> QED BY <3>1 DEF Restrict
  <2> HIDE DEF W
  <2> QED BY <1>7, <1>8, <2>2, <2>3 DEF ScanRange
<1>9. CASE Less(a, z)
  <2>1. ScanRange(a, z) = Present(Overlay(Append(parts, mem))) BY <1>9 DEF ScanRange
  <2>2. ASSUME NEW i \in 1..Len(ssts) PROVE Selects(W, AllEntries(ssts[i]), parts[i])
    <3>1. parts[i] = EntriesWithRange(ssts[i], a, z) BY <1>3
    <3>2. parts[i] = WithRange(AllEntries(ssts[i]), a, z)
      <4> HIDE DEF parts
      <4> QED BY <1>2, <1>9, <3>1, RangeRead
    <3>3. DOMAIN AllEntries(ssts[i]) \subseteq Keys BY <1>2
    <3> HIDE DEF parts, W
    <3>4. WithRange(AllEntries(ssts[i]), a, z) = Restrict(AllEntries(ssts[i]), DOMAIN AllEntries(ssts[i]) \cap W)
      BY ONLY <1>5, <3>3, Zenon
    <3> QED BY <3>2, <3>4, Zenon DEF Selects
  <2>3. Selects(W, memtable, mem)
    <3> HIDE DEF W
    <3> QED BY <1>2, <1>5 DEF Selects
  <2>4. Layers(parts) /\ Len(parts) = Len(ssts) BY <1>3 DEF Layers
  <2> HIDE DEF parts, mem, W
  <2>5. Answers(W, Files, parts, mem) BY <1>1, <2>2, <2>3, <2>4 DEF Answers
  <2>6. Present(Overlay(Append(parts, mem))) = Restrict(Live, LiveKeys \cap W)
    BY <2>5, ScanLive
  <2> QED BY <1>7, <2>1, <2>6
<1> QED BY <1>8, <1>9

(* A scan of a prefix gives the keys that begin with it and have a value   *)
(* (scan_prefix, store/engine.rs).                                         *)
LEMMA PrefixScanLive ==
    ASSUME Keys \subseteq Key, GoodFiles(Files), LiveHeld(Files), NEW p \in Key
    PROVE  ScanPrefix(p) = WithPrefix(Live, p)
<1> DEFINE W == {k \in Keys : IsPrefix(p, k)}
           parts == [i \in DOMAIN ssts |-> EntriesWithPrefix(ssts[i], p)]
           mem == WithPrefix(memtable, p)
<1>1. Files.ssts = ssts /\ Files.memtable = memtable BY DEF Files
<1>2. /\ FilesWritten(ssts) /\ IsRun(memtable) /\ DOMAIN memtable \subseteq Keys
      /\ \A i \in 1..Len(ssts) : Written(ssts[i]) /\ DOMAIN AllEntries(ssts[i]) \subseteq Keys
  BY <1>1 DEF GoodFiles, MemtableRight, FilesWritten
<1>3. Len(ssts) \in Nat /\ DOMAIN ssts = 1..Len(ssts) BY <1>2 DEF FilesWritten, Layers
<1>4. \A run : DOMAIN run \subseteq Keys => {k \in DOMAIN run : IsPrefix(p, k)} = DOMAIN run \cap W OBVIOUS
<1>5. \A run : DOMAIN run \subseteq Keys => WithPrefix(run, p) = Restrict(run, DOMAIN run \cap W)
  <2> HIDE DEF W
  <2> QED BY <1>4 DEF WithPrefix
<1>6. DOMAIN Live = LiveKeys /\ LiveKeys \subseteq Keys BY DEF Live, LiveKeys, Restrict
<1>7. WithPrefix(Live, p) = Restrict(Live, LiveKeys \cap W)
  <2> HIDE DEF W
  <2> QED BY <1>5, <1>6
<1>8. ScanPrefix(p) = Present(Overlay(Append(parts, mem))) BY DEF ScanPrefix
<1>9. ASSUME NEW i \in 1..Len(ssts) PROVE Selects(W, AllEntries(ssts[i]), parts[i])
  <2>1. parts[i] = EntriesWithPrefix(ssts[i], p) BY <1>3
  <2>2. parts[i] = WithPrefix(AllEntries(ssts[i]), p)
    <3> HIDE DEF parts
    <3> QED BY <1>2, <2>1, PrefixRead
  <2>3. DOMAIN AllEntries(ssts[i]) \subseteq Keys BY <1>2
  <2> HIDE DEF parts, W
  <2>4. WithPrefix(AllEntries(ssts[i]), p) = Restrict(AllEntries(ssts[i]), DOMAIN AllEntries(ssts[i]) \cap W)
    BY ONLY <1>5, <2>3, Zenon
  <2> QED BY <2>2, <2>4, Zenon DEF Selects
<1>10. Selects(W, memtable, mem)
  <2> HIDE DEF W
  <2> QED BY <1>2, <1>5 DEF Selects
<1>11. Layers(parts) /\ Len(parts) = Len(ssts) BY <1>3 DEF Layers
<1> HIDE DEF parts, mem, W
<1>12. Answers(W, Files, parts, mem) BY <1>1, <1>9, <1>10, <1>11 DEF Answers
<1>13. Present(Overlay(Append(parts, mem))) = Restrict(Live, LiveKeys \cap W)
  BY <1>12, ScanLive
<1> QED BY <1>7, <1>8, <1>13

(* -------------------------------- pages -------------------------------- *)
(* The first entries of the memtable are a good part of it                 *)
(* (scan_range_page, store/engine.rs).                                     *)
LEMMA TakenGood ==
    ASSUME NEW run, IsRun(run), NEW limit \in Nat \ {0}
    PROVE  GoodPart(run, [out |-> Taken(run, limit), truncated |-> Taken(run, limit) # run])
<1> DEFINE D == DOMAIN run
           S == {k \in D : Rank(D, k) < limit}
           out == Taken(run, limit)
           part == [out |-> out, truncated |-> out # run]
<1>1. out = Restrict(run, S) BY DEF Taken, Rank, Below
<1>2. IsRun(out) /\ DOMAIN out = S /\ \A k \in S : out[k] = run[k]
  <2>1. S \in SUBSET DOMAIN run OBVIOUS
  <2> HIDE DEF S, out
  <2> QED BY <1>1, <2>1, RestrictedRun
<1>3. KeySet(D) /\ \A k \in D : k \in Key BY DEF IsRun, KeySet
<1>4. ASSUME NEW k \in D, NEW l \in S, AtMost(k, l) PROVE k \in S
  <2>1. Rank(D, k) <= Rank(D, l) /\ Rank(D, k) \in Nat /\ Rank(D, l) \in Nat
    BY <1>3, <1>4, RankGrows
  <2> QED BY <2>1
<1>5. ASSUME out # run PROVE S # {}
  <2>1. D # {}
    <3>1. ASSUME D = {} PROVE out = run
      <4>1. DOMAIN out = DOMAIN run /\ \A k \in DOMAIN out : out[k] = run[k] BY <1>2, <3>1
      <4> HIDE DEF out
      <4> QED BY <1>2, <4>1, SameRun
    <3> QED BY <1>5, <3>1
  <2>2. Cardinality(D) \in Nat /\ 0 < Cardinality(D)
    <3>1. Cardinality(D) \in Nat /\ Cardinality(D) # 0 BY <1>3, <2>1, FS_EmptySet, FS_CardinalityType DEF KeySet
    <3> QED BY <3>1
  <2>3. PICK k \in D : Rank(D, k) = 0
    <3> HIDE DEF D
    <3> QED BY <1>3, <2>2, RankTaken
  <2> QED BY <2>3
<1> HIDE DEF out, S
<1>6. part.out = out /\ (part.truncated <=> out # run) OBVIOUS
<1> HIDE DEF part
<1>7. IsRun(part.out) /\ DOMAIN part.out = S /\ \A k \in DOMAIN part.out : k \in DOMAIN run /\ part.out[k] = run[k]
  BY <1>2, <1>6 DEF S
<1>8. ~part.truncated => part.out = run BY <1>6
<1>9. part.truncated => DOMAIN part.out # {} BY <1>5, <1>6, <1>7
<1>10. \A k \in DOMAIN run, l \in DOMAIN part.out : AtMost(k, l) => k \in DOMAIN part.out BY <1>4, <1>7
<1>11. GoodPart(run, part) BY <1>7, <1>8, <1>9, <1>10 DEF GoodPart
<1> QED BY <1>11 DEF part, out

(* A source vouches for the keys up to its last, or for all of them when   *)
(* it was not cut short (scan_range_page, store/engine.rs).                *)
UpTo(part, k) == part.truncated => AtMost(k, GreatestKey(DOMAIN part.out))

(* Up to there it says what is asked for (scan_range_page,                 *)
(* store/engine.rs).                                                       *)
LEMMA GoodUpTo ==
    ASSUME NEW wanted, NEW part, GoodPart(wanted, part)
    PROVE  /\ part.truncated => GreatestKey(DOMAIN part.out) \in DOMAIN part.out
           /\ \A k : UpTo(part, k) => AgreeAt(part.out, wanted, k)
<1>1. IsRun(part.out) /\ \A k \in DOMAIN part.out : k \in DOMAIN wanted /\ part.out[k] = wanted[k]
  BY DEF GoodPart
<1>2. ASSUME part.truncated PROVE GreatestKey(DOMAIN part.out) \in DOMAIN part.out
  BY <1>1, <1>2, Extremes DEF GoodPart, IsRun
<1>3. ASSUME NEW k, UpTo(part, k), k \in DOMAIN wanted PROVE k \in DOMAIN part.out
  <2>1. CASE part.truncated
    BY <1>2, <1>3, <2>1 DEF GoodPart, UpTo
  <2>2. CASE ~part.truncated
    <3>1. part.out = wanted BY <2>2 DEF GoodPart
    <3> QED BY <1>3, <3>1
  <2> QED BY <2>1, <2>2
<1> QED BY <1>1, <1>2, <1>3 DEF AgreeAt

(* What a page has to be: some of the range from "a" on, all of it up to   *)
(* where the next page starts, with the values of the moment.              *)
Ahead(page, k) == page.next # None => Less(k, page.next[1])
PageOf(a, page) ==
    /\ page.next # None => page.next[1] \in Key /\ Less(a, page.next[1])
    /\ \A k \in DOMAIN page.entries :
         k \in LiveKeys /\ InRange(k, a, End) /\ page.entries[k] = live[k] /\ Ahead(page, k)
    /\ \A k \in LiveKeys : InRange(k, a, End) /\ Ahead(page, k) => k \in DOMAIN page.entries

(* Nothing is left out between two pages, or said twice (scan_range_page,  *)
(* store/engine.rs).                                                       *)
LEMMA PageRight ==
    ASSUME Keys \subseteq Key, End \in Key, PageLimit \in Nat \ {0},
           GoodFiles(Files), LiveHeld(Files), NEW a \in Key
    PROVE  PageOf(a, ScanRangePage(a, End, PageLimit))
<1> DEFINE parts == PageParts(a, End, PageLimit)
           mem == WithRange(memtable, a, End)
           taken == Taken(mem, PageLimit)
           cut == CutShort(parts, mem, taken)
           merged == PageEntries(parts, taken)
           frontier == LeastKey(cut)
           page == ScanRangePage(a, End, PageLimit)
           outs == [i \in DOMAIN parts |-> parts[i].out]
           n == Len(ssts)
           last == [out |-> taken, truncated |-> taken # mem]
<1>1. Files.ssts = ssts /\ Files.memtable = memtable BY DEF Files
<1>2. /\ IsRun(memtable) /\ DOMAIN memtable \subseteq Keys
      /\ \A i \in 1..n : Written(ssts[i]) /\ IsRun(AllEntries(ssts[i])) /\ DOMAIN AllEntries(ssts[i]) \subseteq Keys
  BY <1>1 DEF GoodFiles, MemtableRight, FilesWritten, Written
<1>3. n \in Nat /\ DOMAIN ssts = 1..n BY <1>1 DEF GoodFiles, FilesWritten, Layers
<1>4. ASSUME NEW run, IsRun(run)
      PROVE  /\ IsRun(WithRange(run, a, End)) /\ DOMAIN WithRange(run, a, End) = {k \in DOMAIN run : InRange(k, a, End)}
             /\ \A k : InRange(k, a, End) => AgreeAt(WithRange(run, a, End), run, k)
  <2> DEFINE S == {k \in DOMAIN run : InRange(k, a, End)}
  <2>1. S \in SUBSET DOMAIN run OBVIOUS
  <2>2. WithRange(run, a, End) = Restrict(run, S) BY DEF WithRange
  <2>3. IsRun(Restrict(run, S)) /\ DOMAIN Restrict(run, S) = S /\ \A k \in S : Restrict(run, S)[k] = run[k]
    <3> HIDE DEF S
    <3> QED BY <1>4, <2>1, RestrictedRun
  <2> QED BY <2>2, <2>3 DEF AgreeAt
<1>5. CASE ~Less(a, End)
  <2>1. page = [entries |-> Empty, next |-> None] BY <1>5 DEF ScanRangePage
  <2>2. page.entries = Empty /\ page.next = None BY <2>1
  <2>3. ASSUME NEW k \in LiveKeys PROVE ~InRange(k, a, End)
    <3>1. k \in Key BY DEF LiveKeys
    <3> QED BY <1>5, <3>1, KeyOrder DEF InRange, AtMost
  <2> HIDE DEF page
  <2>4. DOMAIN page.entries = {} BY <2>2, EmptyRun
  <2>5. \A k \in LiveKeys : ~InRange(k, a, End) BY <2>3
  <2>6. PageOf(a, page) BY <2>2, <2>4, <2>5 DEF PageOf
  <2> QED BY <2>6 DEF page
<1>6. CASE Less(a, End)
  <2>1. /\ page = IF cut = {} THEN [entries |-> Present(merged), next |-> None]
                  ELSE [entries |-> Present(Restrict(merged, {k \in DOMAIN merged : AtMost(k, frontier)})),
                        next |-> Some(Append(frontier, 0))]
    BY <1>6 DEF ScanRangePage
  <2>2. DOMAIN parts = 1..n /\ \A i \in 1..n : parts[i] = EntriesWithRangeLimited(ssts[i], a, End, PageLimit)
    BY <1>3 DEF PageParts
  <2>3. ASSUME NEW i \in 1..n PROVE GoodPart(WithRange(AllEntries(ssts[i]), a, End), parts[i])
    <3> HIDE DEF parts
    <3> QED BY <1>2, <1>6, <2>2, RangeRead
  <2>4. GoodPart(mem, last)
    <3>1. IsRun(mem) BY <1>2, <1>4
    <3> HIDE DEF mem
    <3> QED BY <3>1, TakenGood
  <2>5. /\ cut = {GreatestKey(DOMAIN parts[i].out) : i \in {i \in 1..n : parts[i].truncated}}
                 \cup (IF last.truncated THEN {GreatestKey(DOMAIN last.out)} ELSE {})
    <3> HIDE DEF parts, mem, taken
    <3> QED BY <2>2 DEF CutShort
  <2>6. last.out = taken OBVIOUS
  <2>7. merged = Overlay(Append(outs, taken)) BY DEF PageEntries
  <2>8. outs = [i \in 1..n |-> parts[i].out] BY <2>2
  <2> HIDE DEF parts, outs
  <2>9. Len(outs) = n /\ Layers(outs) /\ \A i \in 1..n : outs[i] = parts[i].out
    BY <1>3, <2>8 DEF Layers
  <2> HIDE DEF parts, mem, taken, cut, merged, outs, last, page
  <2>10. /\ IsRun(merged)
         /\ \A k : k \in DOMAIN merged <=> k \in DOMAIN taken \/ \E i \in 1..n : k \in DOMAIN parts[i].out
    <3>1. \A i \in 1..Len(outs) : IsRun(outs[i]) BY <2>3, <2>9 DEF GoodPart
    <3>2. IsRun(taken) BY <2>4, <2>6 DEF GoodPart
    <3>3. /\ IsRun(Overlay(Append(outs, taken)))
          /\ \A k : k \in DOMAIN Overlay(Append(outs, taken)) <=>
                      k \in DOMAIN taken \/ \E i \in 1..Len(outs) : k \in DOMAIN outs[i]
      BY <2>9, <3>1, <3>2, ScanOfRuns
    <3> QED BY <2>7, <2>9, <3>3
  <2>11. ASSUME NEW k \in DOMAIN merged PROVE k \in Keys /\ InRange(k, a, End)
    <3>1. CASE k \in DOMAIN taken
      <4>1. k \in DOMAIN mem BY <2>4, <2>6, <3>1 DEF GoodPart
      <4> QED BY <1>2, <1>4, <4>1 DEF mem
    <3>2. ASSUME NEW i \in 1..n, k \in DOMAIN parts[i].out PROVE k \in Keys /\ InRange(k, a, End)
      <4>1. k \in DOMAIN WithRange(AllEntries(ssts[i]), a, End) BY <2>3, <3>2 DEF GoodPart
      <4> QED BY <1>2, <1>4, <4>1
    <3> QED BY <2>10, <3>1, <3>2
  <2>12. ASSUME NEW k, InRange(k, a, End), UpTo(last, k), \A i \in 1..n : UpTo(parts[i], k)
         PROVE  Value(merged, k) = Held(Files, k)
    <3>1. AgreeAt(taken, memtable, k)
      <4>1. AgreeAt(taken, mem, k) BY <2>4, <2>6, <2>12, GoodUpTo
      <4>2. AgreeAt(mem, memtable, k) BY <1>2, <1>4, <2>12 DEF mem
      <4> QED BY <4>1, <4>2 DEF AgreeAt
    <3>2. ASSUME NEW i \in 1..n PROVE AgreeAt(outs[i], AllEntries(ssts[i]), k)
      <4>1. AgreeAt(parts[i].out, WithRange(AllEntries(ssts[i]), a, End), k) BY <2>3, <2>12, GoodUpTo
      <4>2. AgreeAt(WithRange(AllEntries(ssts[i]), a, End), AllEntries(ssts[i]), k) BY <1>2, <1>4, <2>12
      <4> QED BY <2>9, <4>1, <4>2 DEF AgreeAt
    <3>3. /\ Len(outs) = Len(Files.ssts) /\ AgreeAt(taken, Files.memtable, k)
          /\ \A i \in 1..Len(Files.ssts) : AgreeAt(outs[i], AllEntries(Files.ssts[i]), k)
      BY <1>1, <2>9, <3>1, <3>2
    <3>4. Value(Overlay(Append(outs, taken)), k) = Held(Files, k) BY <2>9, <3>3, PartsAgree
    <3> QED BY <2>7, <3>4
  <2>13. \A k \in Keys : live[k] = Held(Files, k) BY DEF LiveHeld
  <2>14. CASE cut = {}
    <3>1. page.entries = Present(merged) /\ page.next = None BY <2>1, <2>14
    <3>2. ASSUME NEW k PROVE UpTo(last, k) /\ \A i \in 1..n : UpTo(parts[i], k)
      BY <2>5, <2>14 DEF UpTo
    <3>3. ASSUME NEW k \in Keys, InRange(k, a, End) PROVE Value(merged, k) = live[k]
      BY <2>12, <2>13, <3>2, <3>3
    <3>4. /\ DOMAIN Present(merged) = {k \in DOMAIN merged : merged[k] # None}
          /\ \A k \in DOMAIN Present(merged) : Present(merged)[k] = merged[k]
      BY <2>10, PresentRun
    <3>5. ASSUME NEW k \in DOMAIN page.entries
          PROVE  k \in LiveKeys /\ InRange(k, a, End) /\ page.entries[k] = live[k] /\ Ahead(page, k)
      <4>1. k \in Keys /\ InRange(k, a, End) /\ merged[k] # None /\ page.entries[k] = merged[k] /\ k \in DOMAIN merged
        BY <2>11, <3>1, <3>4
      <4>2. live[k] = merged[k] BY <3>3, <4>1 DEF Value
      <4> QED BY <3>1, <4>1, <4>2 DEF LiveKeys, Ahead
    <3>6. ASSUME NEW k \in LiveKeys, InRange(k, a, End) PROVE k \in DOMAIN page.entries
      <4>1. k \in Keys /\ live[k] # None BY DEF LiveKeys
      <4>2. Value(merged, k) = live[k] BY <3>3, <3>6, <4>1
      <4> QED BY <3>1, <3>4, <4>1, <4>2 DEF Value
    <3>7. \A k \in LiveKeys : InRange(k, a, End) /\ Ahead(page, k) => k \in DOMAIN page.entries BY <3>6
    <3>8. PageOf(a, page) BY <3>1, <3>5, <3>7 DEF PageOf
    <3> QED BY <3>8 DEF page
  <2>15. CASE cut # {}
    <3> DEFINE F == {k \in DOMAIN merged : AtMost(k, frontier)}
               kept == Restrict(merged, F)
    <3>1. ASSUME NEW c \in cut PROVE c \in DOMAIN merged
      <4>1. CASE last.truncated /\ c = GreatestKey(DOMAIN last.out)
        BY <2>4, <2>6, <2>10, <4>1, GoodUpTo
      <4>2. ASSUME NEW i \in 1..n, parts[i].truncated, c = GreatestKey(DOMAIN parts[i].out) PROVE c \in DOMAIN merged
        BY <2>3, <2>10, <4>2, GoodUpTo
      <4> QED BY <2>5, <4>1, <4>2
    <3>2. KeySet(cut)
      <4>1. cut \in SUBSET DOMAIN merged BY <3>1
      <4> QED BY <2>10, <4>1, FS_Subset DEF IsRun, KeySet
    <3>3. frontier \in cut /\ \A c \in cut : AtMost(frontier, c) BY <2>15, <3>2, Extremes
    <3>4. frontier \in Key /\ \A c \in cut : c \in Key BY <3>2, <3>3 DEF KeySet
    <3> HIDE DEF frontier
    <3>5. page.entries = Present(kept) /\ page.next = Some(Append(frontier, 0))
      BY <2>1, <2>15
    <3> DEFINE next == Append(frontier, 0)
    <3>6. page.next # None /\ page.next[1] = next BY <3>5 DEF Some, None
    <3>7. next \in Key /\ \A k \in Key : Less(k, next) <=> AtMost(k, frontier) BY <3>4, NextKey
    <3> HIDE DEF next
    <3>8. ASSUME NEW k \in Key, AtMost(k, frontier) PROVE UpTo(last, k) /\ \A i \in 1..n : UpTo(parts[i], k)
      <4>1. \A c \in cut : AtMost(k, c) BY <3>3, <3>4, <3>8, KeyOrder DEF AtMost
      <4> QED BY <2>5, <4>1 DEF UpTo
    <3>9. ASSUME NEW k \in Keys, InRange(k, a, End), AtMost(k, frontier) PROVE Value(merged, k) = live[k]
      <4>1. k \in Key OBVIOUS
      <4> QED BY <2>12, <2>13, <3>8, <3>9, <4>1
    <3>10. IsRun(kept) /\ DOMAIN kept = F /\ \A k \in F : kept[k] = merged[k]
      <4>1. F \in SUBSET DOMAIN merged OBVIOUS
      <4> HIDE DEF F
      <4> QED BY <2>10, <4>1, RestrictedRun
    <3> HIDE DEF kept
    <3>11. /\ DOMAIN Present(kept) = {k \in F : kept[k] # None}
           /\ \A k \in DOMAIN Present(kept) : Present(kept)[k] = kept[k]
      BY <3>10, PresentRun
    <3>12. ASSUME NEW k \in DOMAIN page.entries
          PROVE  k \in LiveKeys /\ InRange(k, a, End) /\ page.entries[k] = live[k] /\ Ahead(page, k)
      <4>1. k \in F /\ merged[k] # None /\ page.entries[k] = merged[k] BY <3>5, <3>10, <3>11
      <4>2. k \in Keys /\ InRange(k, a, End) /\ k \in DOMAIN merged /\ AtMost(k, frontier) /\ k \in Key BY <2>11, <4>1
      <4>3. live[k] = merged[k] BY <3>9, <4>2 DEF Value
      <4>4. Ahead(page, k) BY <3>6, <3>7, <4>2 DEF Ahead
      <4> QED BY <4>1, <4>2, <4>3, <4>4 DEF LiveKeys
    <3>13. ASSUME NEW k \in LiveKeys, InRange(k, a, End), Ahead(page, k) PROVE k \in DOMAIN page.entries
      <4>1. k \in Keys /\ k \in Key /\ live[k] # None BY DEF LiveKeys
      <4>2. AtMost(k, frontier) BY <3>6, <3>7, <3>13, <4>1 DEF Ahead
      <4>3. Value(merged, k) = live[k] BY <3>9, <3>13, <4>1, <4>2
      <4>4. k \in F /\ merged[k] # None BY <4>1, <4>2, <4>3 DEF Value
      <4>5. kept[k] # None BY <3>10, <4>4
      <4> HIDE DEF F
      <4> QED BY <3>5, <3>11, <4>4, <4>5
    <3>14. Less(a, page.next[1])
      <4>1. AtMost(a, frontier) BY <2>11, <3>1, <3>3 DEF InRange
      <4> QED BY <3>6, <3>7, <4>1
    <3>15. PageOf(a, page) BY <3>6, <3>7, <3>12, <3>13, <3>14 DEF PageOf
    <3> QED BY <3>15 DEF page
  <2> QED BY <2>14, <2>15
<1> QED BY <1>5, <1>6

(* ----------------------------- point reads ----------------------------- *)
IsRead(read) ==
    read = [key |-> read.key, left |-> read.left, missed |-> read.missed, answer |-> read.answer]

(* A read under way: while it has no answer, the key is in nothing newer   *)
(* than the files left, and a block missed is the one to look in; an       *)
(* answer is the value last written.                                       *)
ReadRight(read, mem, files, l) ==
    /\ IsRead(read)
    /\ read.key \in Keys /\ read.left \in 0..Len(files)
    /\ read.answer = None =>
         /\ read.left # 0 /\ read.key \notin DOMAIN mem
         /\ \A i \in (read.left + 1)..Len(files) : read.key \notin DOMAIN AllEntries(files[i])
    /\ read.missed # 0 => read.answer = None /\ read.missed = Route(files[read.left].index, read.key)
    /\ read.answer # None => read.answer = Some(l[read.key])

(* The newest file that has a key has the value held of it, unless the     *)
(* memtable has the key (get, store/engine.rs).                            *)
LEMMA HeldInFile ==
    ASSUME NEW f, GoodFiles(f), NEW k, k \notin DOMAIN f.memtable
    PROVE  /\ \A i \in 1..Len(f.ssts) :
                /\ k \in DOMAIN AllEntries(f.ssts[i])
                /\ \A j \in (i + 1)..Len(f.ssts) : k \notin DOMAIN AllEntries(f.ssts[j])
                => Held(f, k) = AllEntries(f.ssts[i])[k]
           /\ (\A i \in 1..Len(f.ssts) : k \notin DOMAIN AllEntries(f.ssts[i])) => Held(f, k) = None
<1> DEFINE runs == Runs(f.ssts)
           n == Len(f.ssts)
<1>1. FilesWritten(f.ssts) /\ n \in Nat BY DEF GoodFiles, FilesWritten, Layers
<1>2. Layers(runs) /\ Len(runs) = n /\ \A i \in 1..n : runs[i] = AllEntries(f.ssts[i])
  BY <1>1, RunsOfFiles
<1>3. Held(f, k) = Value(Overlay(runs), k) BY DEF Held
<1> HIDE DEF runs
<1>4. ASSUME NEW i \in 1..n, k \in DOMAIN AllEntries(f.ssts[i]),
             \A j \in (i + 1)..n : k \notin DOMAIN AllEntries(f.ssts[j])
      PROVE  Held(f, k) = AllEntries(f.ssts[i])[k]
  <2>1. \A j \in (i + 1)..n : j \in 1..n BY <1>1
  <2>2. Top(runs, k, i) /\ i \in 1..Len(runs) BY <1>2, <1>4, <2>1 DEF Top
  <2>3. Overlay(runs)[k] = runs[i][k] BY <1>2, <2>2, OverlayAt
  <2>4. k \in DOMAIN runs[i] BY <1>2, <1>4
  <2>5. k \in DOMAIN Overlay(runs) BY <1>2, <2>2, <2>4, OverlayAt
  <2> QED BY <1>2, <1>3, <2>3, <2>5 DEF Value
<1>5. ASSUME \A i \in 1..n : k \notin DOMAIN AllEntries(f.ssts[i]) PROVE Held(f, k) = None
  <2>1. \A i \in 1..Len(runs) : k \notin DOMAIN runs[i] BY <1>2, <1>5
  <2>2. k \notin DOMAIN Overlay(runs) BY <1>2, <2>1, OverlayAt
  <2> QED BY <1>3, <2>2 DEF Value
<1> QED BY <1>4, <1>5

(* A read that begins is right (get, store/engine.rs).                     *)
LEMMA BegunRight ==
    ASSUME GoodFiles(Files), LiveHeld(Files), NEW k \in Keys
    PROVE  ReadRight(Begun(k), memtable, ssts, live)
<1> DEFINE read == Begun(k)
<1>1. /\ read.key = k /\ read.left = Len(ssts) /\ read.missed = 0
      /\ read.answer = IF k \in DOMAIN memtable THEN Hit(memtable, k)
                       ELSE IF ssts = <<>> THEN Some(None) ELSE None
      /\ IsRead(read)
  BY DEF Begun, IsRead
<1> HIDE DEF read
<1>2. Files.ssts = ssts /\ Files.memtable = memtable BY DEF Files
<1>3. Layers(ssts) /\ Len(ssts) \in Nat BY <1>2 DEF GoodFiles, FilesWritten, Layers
<1>4. live[k] = Held(Files, k) BY DEF LiveHeld
<1>5. ASSUME k \in DOMAIN memtable PROVE ReadRight(read, memtable, ssts, live)
  <2>1. read.answer = Some(live[k]) /\ read.answer # None
    BY <1>1, <1>2, <1>4, <1>5 DEF Held, Hit, Some, None
  <2> QED BY <1>1, <1>3, <2>1 DEF ReadRight
<1>6. ASSUME k \notin DOMAIN memtable, ssts = <<>> PROVE ReadRight(read, memtable, ssts, live)
  <2>1. Len(Files.ssts) = 0 BY <1>2, <1>6
  <2>2. live[k] = None BY <1>2, <1>4, <1>6, <2>1, HeldInFile
  <2>3. read.answer = Some(live[k]) /\ read.answer # None BY <1>1, <1>6, <2>2 DEF Some, None
  <2> QED BY <1>1, <1>3, <2>3 DEF ReadRight
<1>7. ASSUME k \notin DOMAIN memtable, ssts # <<>> PROVE ReadRight(read, memtable, ssts, live)
  <2>1. read.answer = None BY <1>1, <1>7
  <2>2. Len(ssts) # 0 BY <1>3, <1>7 DEF Layers
  <2>3. (Len(ssts) + 1)..Len(ssts) = {} BY <1>3
  <2> QED BY <1>1, <1>3, <1>7, <2>1, <2>2, <2>3 DEF ReadRight
<1>8. ReadRight(read, memtable, ssts, live) BY <1>5, <1>6, <1>7
<1> QED BY <1>8 DEF read

(* A read that has looked at a file is right (get, store/engine.rs).       *)
LEMMA PassedRight ==
    ASSUME GoodFiles(Files), LiveHeld(Files), NEW read, ReadRight(read, memtable, ssts, live),
           read.answer = None, NEW hit, hit = Hit(AllEntries(ssts[read.left]), read.key)
    PROVE  ReadRight(Passed(read, hit), memtable, ssts, live)
<1> DEFINE new == Passed(read, hit)
           k == read.key
           i == read.left
           n == Len(ssts)
<1>1. Files.ssts = ssts /\ Files.memtable = memtable BY DEF Files
<1>2. n \in Nat BY <1>1 DEF GoodFiles, FilesWritten, Layers
<1>3. /\ k \in Keys /\ i \in 1..n /\ k \notin DOMAIN memtable
      /\ \A j \in (i + 1)..n : k \notin DOMAIN AllEntries(ssts[j])
      /\ IsRead(read)
  BY <1>2 DEF ReadRight
<1>4. /\ new.key = k /\ new.left = i - 1 /\ new.missed = 0
      /\ new.answer = IF hit = None /\ i = 1 THEN Some(None) ELSE hit
      /\ IsRead(new)
  <2> DEFINE given == IF hit = None /\ i = 1 THEN Some(None) ELSE hit
             m == read.missed
             g == read.answer
  <2>1. read = [key |-> k, left |-> i, missed |-> m, answer |-> g] BY <1>3 DEF IsRead
  <2>2. new = [read EXCEPT !.left = i - 1, !.missed = 0, !.answer = given]
    BY <2>1 DEF Passed
  <2>3. new = [key |-> k, left |-> i - 1, missed |-> 0, answer |-> given]
    <3> HIDE DEF new, given, k, i, m, g
    <3> QED BY <2>1, <2>2
  <2> HIDE DEF new
  <2> QED BY <2>3 DEF IsRead
<1> HIDE DEF new
<1>5. live[k] = Held(Files, k) BY <1>3 DEF LiveHeld
<1>6. i - 1 \in 0..n BY <1>2, <1>3
<1>7. ASSUME k \in DOMAIN AllEntries(ssts[i]) PROVE ReadRight(new, memtable, ssts, live)
  <2>1. Held(Files, k) = AllEntries(ssts[i])[k] BY <1>1, <1>3, <1>7, HeldInFile
  <2>2. hit = Some(live[k]) /\ hit # None BY <1>5, <1>7, <2>1 DEF Hit, Some, None
  <2>3. new.answer = Some(live[k]) /\ new.answer # None BY <1>4, <2>2
  <2> QED BY <1>3, <1>4, <1>6, <2>3 DEF ReadRight
<1>8. ASSUME k \notin DOMAIN AllEntries(ssts[i]) PROVE ReadRight(new, memtable, ssts, live)
  <2>1. hit = None BY <1>8 DEF Hit
  <2>2. ASSUME NEW j \in i..n PROVE k \notin DOMAIN AllEntries(ssts[j])
    <3>1. j = i \/ j \in (i + 1)..n BY <1>2, <1>3
    <3> QED BY <1>3, <1>8, <3>1
  <2>3. CASE i = 1
    <3>1. \A j \in 1..n : k \notin DOMAIN AllEntries(ssts[j]) BY <2>2, <2>3
    <3>2. live[k] = None BY <1>1, <1>3, <1>5, <3>1, HeldInFile
    <3>3. new.answer = Some(live[k]) /\ new.answer # None BY <1>4, <2>1, <2>3, <3>2 DEF Some, None
    <3> QED BY <1>3, <1>4, <1>6, <3>3 DEF ReadRight
  <2>4. CASE i # 1
    <3>1. new.answer = None /\ new.left # 0 /\ new.left + 1 = i BY <1>2, <1>3, <1>4, <2>1, <2>4
    <3> QED BY <1>3, <1>4, <1>6, <2>2, <3>1 DEF ReadRight
  <2> QED BY <2>3, <2>4
<1>9. ReadRight(new, memtable, ssts, live) BY <1>7, <1>8
<1> QED BY <1>9 DEF new

(* ---------------------------- scans in pages --------------------------- *)
IsScan(s) == s = [next |-> s.next, pages |-> s.pages, held |-> s.held, seen |-> s.seen]
Shown(s, page) == \A k \in DOMAIN page : k \in Key /\ Ahead(s, k) /\ <<k, page[k][1]>> \in s.seen
Before(page, later) == \A k \in DOMAIN page, l \in DOMAIN later : Less(k, l)

(* A scan under way: what it has shown is in order, was there, and lies    *)
(* before where it goes on; and of the keys that had a value throughout    *)
(* none before that place is missing.                                      *)
ScanRight(s, l) ==
    /\ IsScan(s) /\ Layers(s.pages)
    /\ s.next # None => s.next[1] \in Key
    /\ \A k \in s.held : k \in Keys /\ l[k] # None /\ InRange(k, Start, End)
    /\ \A k \in Keys : l[k] # None => <<k, l[k][1]>> \in s.seen
    /\ \A i \in 1..Len(s.pages) : Shown(s, s.pages[i])
    /\ \A i, j \in 1..Len(s.pages) : i < j => Before(s.pages[i], s.pages[j])
    /\ \A k \in s.held : Ahead(s, k) => \E i \in 1..Len(s.pages) : k \in DOMAIN s.pages[i]

(* A scan that begins is right (BeginScan).                                *)
LEMMA ScanBegun ==
    ASSUME Keys \subseteq Key, Start \in Key
    PROVE  ScanRight([next |-> Some(Start), pages |-> <<>>,
                      held |-> {k \in LiveKeys : InRange(k, Start, End)},
                      seen |-> {<<k, live[k][1]>> : k \in LiveKeys}], live)
<1> DEFINE held == {k \in LiveKeys : InRange(k, Start, End)}
           seen == {<<k, live[k][1]>> : k \in LiveKeys}
           s == [next |-> Some(Start), pages |-> <<>>, held |-> held, seen |-> seen]
<1>1. s.next = Some(Start) /\ s.pages = <<>> /\ s.held = held /\ s.seen = seen /\ IsScan(s) BY DEF IsScan
<1> HIDE DEF s
<1>2. s.next # None /\ s.next[1] = Start BY <1>1 DEF Some, None
<1>3. Layers(s.pages) /\ 1..Len(s.pages) = {} BY <1>1 DEF Layers
<1>4. \A k \in s.held : k \in Keys /\ live[k] # None /\ InRange(k, Start, End) BY <1>1 DEF LiveKeys
<1>5. \A k \in Keys : live[k] # None => <<k, live[k][1]>> \in s.seen BY <1>1 DEF LiveKeys
<1>6. ASSUME NEW k \in s.held PROVE ~Ahead(s, k)
  <2>1. k \in Key /\ AtMost(Start, k) BY <1>4 DEF InRange
  <2> QED BY <1>2, <2>1, KeyOrder DEF Ahead, AtMost
<1>7. ScanRight(s, live) BY <1>1, <1>2, <1>3, <1>4, <1>5, <1>6 DEF ScanRight
<1> QED BY <1>7 DEF s

(* What a scan has after a page more (ScanPage).                           *)
WithPage(s, page) == [s EXCEPT !.pages = Append(@, page.entries), !.next = page.next]

(* A page more leaves a scan right (scan_range_page).                      *)
LEMMA PageAdded ==
    ASSUME Keys \subseteq Key, NEW s, ScanRight(s, live), s.next # None, NEW page, PageOf(s.next[1], page)
    PROVE  ScanRight(WithPage(s, page), live)
<1> DEFINE a == s.next[1]
           n == Len(s.pages)
           all == Append(s.pages, page.entries)
           new == WithPage(s, page)
<1>1. IsScan(s) /\ Layers(s.pages) /\ n \in Nat /\ a \in Key BY DEF ScanRight, Layers
<1>2. new.next = page.next /\ new.pages = all /\ new.held = s.held /\ new.seen = s.seen /\ IsScan(new)
  <2> DEFINE x == s.next
             h == s.held
             y == s.seen
             p == s.pages
  <2>1. s = [next |-> x, pages |-> p, held |-> h, seen |-> y] BY <1>1 DEF IsScan
  <2>2. new = [next |-> page.next, pages |-> all, held |-> h, seen |-> y]
    <3>1. new = [s EXCEPT !.pages = all, !.next = page.next] BY <2>1 DEF WithPage
    <3> HIDE DEF new, all, x, h, y, p
    <3> QED BY <2>1, <3>1
  <2> HIDE DEF new, all
  <2> QED BY <2>2 DEF IsScan
<1>3. Layers(all) /\ Len(all) = n + 1 /\ all[n + 1] = page.entries /\ \A i \in 1..n : all[i] = s.pages[i]
  BY <1>1, AppendLayers
<1> HIDE DEF new, all
<1>4. page.next # None => page.next[1] \in Key /\ Less(a, page.next[1]) BY DEF PageOf
<1>5. \A k \in Key : Less(k, a) => Ahead(new, k) BY <1>1, <1>2, <1>4, KeyOrder DEF Ahead
<1>6. \A k : Ahead(s, k) <=> Less(k, a) BY DEF Ahead
<1>7. \A k : Ahead(page, k) <=> Ahead(new, k) BY <1>2 DEF Ahead
<1>8. ASSUME NEW i \in 1..n PROVE Shown(new, all[i]) /\ Before(all[i], page.entries)
  <2>1. Shown(s, s.pages[i]) /\ all[i] = s.pages[i] BY <1>3 DEF ScanRight
  <2>2. ASSUME NEW k \in DOMAIN all[i] PROVE k \in Key /\ Less(k, a) /\ <<k, all[i][k][1]>> \in new.seen
    BY <1>2, <1>6, <2>1 DEF Shown
  <2>3. Shown(new, all[i]) BY <1>5, <2>2 DEF Shown
  <2>4. ASSUME NEW k \in DOMAIN all[i], NEW l \in DOMAIN page.entries PROVE Less(k, l)
    <3>1. l \in LiveKeys /\ InRange(l, a, End) BY DEF PageOf
    <3>2. l \in Keys /\ AtMost(a, l) BY <3>1 DEF LiveKeys, InRange
    <3> QED BY <1>1, <2>2, <3>2, KeyOrder DEF AtMost
  <2>5. Before(all[i], page.entries) BY <2>4 DEF Before
  <2> QED BY <2>3, <2>5
<1>9. Shown(new, all[n + 1])
  <2>1. ASSUME NEW k \in DOMAIN page.entries
        PROVE  k \in Key /\ Ahead(new, k) /\ <<k, page.entries[k][1]>> \in new.seen
    <3>1. k \in LiveKeys /\ page.entries[k] = live[k] /\ Ahead(page, k) BY DEF PageOf
    <3>2. k \in Keys /\ live[k] # None BY <3>1 DEF LiveKeys
    <3>3. <<k, live[k][1]>> \in s.seen BY <3>2 DEF ScanRight
    <3> QED BY <1>2, <1>7, <3>1, <3>2, <3>3
  <2> QED BY <1>3, <2>1 DEF Shown
<1>10. \A i \in 1..(n + 1) : Shown(new, all[i])
  <2>1. \A i \in 1..(n + 1) : i \in 1..n \/ i = n + 1 BY <1>1
  <2> QED BY <1>8, <1>9, <2>1
<1>11. ASSUME NEW i \in 1..(n + 1), NEW j \in 1..(n + 1), i < j PROVE Before(all[i], all[j])
  <2>1. i \in 1..n /\ (j \in 1..n \/ j = n + 1) BY <1>1, <1>11
  <2>2. CASE j \in 1..n
    <3>1. Before(s.pages[i], s.pages[j]) BY <1>11, <2>1, <2>2 DEF ScanRight
    <3> QED BY <1>3, <2>1, <2>2, <3>1
  <2>3. CASE j = n + 1 BY <1>3, <1>8, <2>1, <2>3
  <2> QED BY <2>1, <2>2, <2>3
<1>12. ASSUME NEW k \in s.held, Ahead(new, k) PROVE \E i \in 1..(n + 1) : k \in DOMAIN all[i]
  <2>1. k \in Keys /\ k \in Key /\ live[k] # None /\ InRange(k, Start, End) BY DEF ScanRight
  <2>2. CASE Less(k, a)
    <3>1. PICK i \in 1..n : k \in DOMAIN s.pages[i] BY <1>6, <2>2 DEF ScanRight
    <3>2. i \in 1..(n + 1) /\ all[i] = s.pages[i] BY <1>1, <1>3
    <3> QED BY <3>1, <3>2
  <2>3. CASE ~Less(k, a)
    <3>1. InRange(k, a, End) /\ k \in LiveKeys BY <1>1, <2>1, <2>3, KeyOrder DEF InRange, AtMost, LiveKeys
    <3>2. k \in DOMAIN page.entries BY <1>7, <1>12, <3>1 DEF PageOf
    <3>3. n + 1 \in 1..(n + 1) BY <1>1
    <3> QED BY <1>3, <3>2, <3>3
  <2> QED BY <2>2, <2>3
<1>13. /\ \A k \in s.held : k \in Keys /\ live[k] # None /\ InRange(k, Start, End)
       /\ \A k \in Keys : live[k] # None => <<k, live[k][1]>> \in s.seen
  BY DEF ScanRight
<1>14. ScanRight(new, live)
  <2>1. Len(new.pages) = n + 1 /\ Layers(new.pages) /\ (new.next # None => new.next[1] \in Key)
    BY <1>2, <1>3, <1>4
  <2>2. \A k \in new.held : Ahead(new, k) => \E i \in 1..Len(new.pages) : k \in DOMAIN new.pages[i]
    BY <1>2, <1>12, <2>1
  <2> QED BY <1>2, <1>10, <1>11, <1>13, <2>1, <2>2 DEF ScanRight
<1> QED BY <1>14 DEF new

(* What a scan has recorded after a write (Write).                         *)
Recorded(s, k, v) ==
    [s EXCEPT !.held = IF v = None THEN @ \ {k} ELSE @,
              !.seen = IF v = None THEN @ ELSE @ \cup {<<k, v[1]>>}]

(* A write leaves a scan right (put and delete).                           *)
LEMMA ScanWritten ==
    ASSUME NEW l, l = [k \in Keys |-> l[k]], NEW s, ScanRight(s, l), NEW k \in Keys, NEW v
    PROVE  ScanRight(Recorded(s, k, v), [l EXCEPT ![k] = v])
<1> DEFINE held == IF v = None THEN s.held \ {k} ELSE s.held
           seen == IF v = None THEN s.seen ELSE s.seen \cup {<<k, v[1]>>}
           m == [l EXCEPT ![k] = v]
           new == Recorded(s, k, v)
<1>1. IsScan(s) /\ Layers(s.pages) BY DEF ScanRight
<1>2. new.next = s.next /\ new.pages = s.pages /\ new.held = held /\ new.seen = seen /\ IsScan(new)
  <2> DEFINE x == s.next
             p == s.pages
             h == s.held
             y == s.seen
  <2>1. s = [next |-> x, pages |-> p, held |-> h, seen |-> y] BY <1>1 DEF IsScan
  <2>2. new = [next |-> x, pages |-> p, held |-> held, seen |-> seen]
    <3>1. new = [s EXCEPT !.held = held, !.seen = seen] BY <2>1 DEF Recorded
    <3> HIDE DEF new, held, seen, x, h, y, p
    <3> QED BY <2>1, <3>1
  <2> HIDE DEF new, held, seen
  <2> QED BY <2>2 DEF IsScan
<1>3. m[k] = v /\ \A i \in Keys : i # k => m[i] = l[i] BY Zenon
<1> HIDE DEF new, m
<1>4. \A i : Ahead(new, i) <=> Ahead(s, i) BY <1>2 DEF Ahead
<1>5. new.held \subseteq s.held /\ s.seen \subseteq new.seen BY <1>2
<1>6. ASSUME NEW i \in new.held PROVE i \in Keys /\ m[i] # None /\ InRange(i, Start, End)
  <2>1. i \in Keys /\ l[i] # None /\ InRange(i, Start, End) BY <1>5 DEF ScanRight
  <2>2. i = k => v # None BY <1>2
  <2> QED BY <1>3, <2>1, <2>2
<1>7. ASSUME NEW i \in Keys, m[i] # None PROVE <<i, m[i][1]>> \in new.seen
  <2>1. CASE i = k BY <1>2, <1>3, <1>7, <2>1
  <2>2. CASE i # k
    <3>1. <<i, l[i][1]>> \in s.seen BY <1>3, <1>7, <2>2 DEF ScanRight
    <3> QED BY <1>3, <1>5, <2>2, <3>1
  <2> QED BY <2>1, <2>2
<1>8. ASSUME NEW i \in 1..Len(new.pages) PROVE Shown(new, new.pages[i])
  <2>1. Shown(s, s.pages[i]) BY <1>2 DEF ScanRight
  <2> QED BY <1>2, <1>4, <1>5, <2>1 DEF Shown
<1>9. \A i, j \in 1..Len(new.pages) : i < j => Before(new.pages[i], new.pages[j]) BY <1>2 DEF ScanRight
<1>10. ASSUME NEW i \in new.held, Ahead(new, i) PROVE \E j \in 1..Len(new.pages) : i \in DOMAIN new.pages[j]
  BY <1>2, <1>4, <1>5, <1>10 DEF ScanRight
<1>11. Layers(new.pages) /\ (new.next # None => new.next[1] \in Key) BY <1>2 DEF ScanRight
<1>12. ScanRight(new, m) BY <1>2, <1>6, <1>7, <1>8, <1>9, <1>10, <1>11 DEF ScanRight
<1> QED BY <1>12 DEF new, m

(* A scan that is right is one in pages as it should be.                   *)
LEMMA ScanPaged ==
    ASSUME scan # None, ScanRight(scan[1], live)
    PROVE  PagedScan
<1> DEFINE s == scan[1]
           passed == IF s.next = None THEN s.held ELSE {k \in s.held : Less(k, s.next[1])}
<1>1. DOMAIN s.pages = 1..Len(s.pages) BY DEF ScanRight, Layers
<1>2. \A i, j \in DOMAIN s.pages : i < j => Before(s.pages[i], s.pages[j]) BY <1>1 DEF ScanRight
<1>3. \A i, j \in DOMAIN s.pages : \A k \in DOMAIN s.pages[i], l \in DOMAIN s.pages[j] : i < j => Less(k, l)
  BY <1>2 DEF Before
<1>4. \A k \in passed : \E i \in DOMAIN s.pages : k \in DOMAIN s.pages[i]
  BY <1>1 DEF ScanRight, Ahead
<1>5. \A i \in DOMAIN s.pages : Shown(s, s.pages[i]) BY <1>1 DEF ScanRight
<1>6. \A i \in DOMAIN s.pages : \A k \in DOMAIN s.pages[i] : <<k, s.pages[i][k][1]>> \in s.seen
  BY <1>5 DEF Shown
<1> QED BY <1>3, <1>4, <1>6 DEF PagedScan

(* ---------------------------- the invariant ---------------------------- *)
ReaderRight(reader, mem, files, l) ==
    reader # None => reader = Some(reader[1]) /\ ReadRight(reader[1], mem, files, l)
ScannerRight(scanner, l) == scanner # None => scanner = Some(scanner[1]) /\ ScanRight(scanner[1], l)

ReadsInv ==
    /\ GoodFiles(Files) /\ LiveHeld(Files)
    /\ readers = [r \in Readers |-> readers[r]]
    /\ \A r \in Readers : ReaderRight(readers[r], memtable, ssts, live)
    /\ ScannerRight(scan, live)

(* An engine begins with nothing in it.                                    *)
LEMMA InitReads ==
    ASSUME Init
    PROVE  ReadsInv
<1>1. Files = [memtable |-> Empty, ssts |-> <<>>, nextId |-> 1, cache |-> Empty] BY DEF Files, Init
<1>2. Files = [memtable |-> Files.memtable, ssts |-> Files.ssts, nextId |-> Files.nextId, cache |-> Files.cache]
  BY DEF Files
<1>3. MemtableRight(Empty) BY EmptyRun DEF MemtableRight
<1>4. FilesWritten(<<>>) /\ IdsApart(<<>>, 1) BY DEF FilesWritten, IdsApart, Layers
<1>5. CacheRight(Empty, <<>>, 1) BY EmptyRun DEF CacheRight, IsRun
<1>6. GoodFiles(Files) BY <1>1, <1>2, <1>3, <1>4, <1>5 DEF GoodFiles
<1>7. ASSUME NEW k \in Keys PROVE Held(Files, k) = None
  <2>1. k \notin DOMAIN Files.memtable /\ Len(Files.ssts) = 0 BY <1>1, EmptyRun
  <2> QED BY <1>6, <2>1, HeldInFile
<1>8. LiveHeld(Files) BY <1>7 DEF LiveHeld, Init
<1>9. readers = [r \in Readers |-> readers[r]] /\ \A r \in Readers : ReaderRight(readers[r], memtable, ssts, live)
  BY DEF Init, ReaderRight
<1>10. ScannerRight(scan, live) BY DEF Init, ScannerRight
<1> QED BY <1>6, <1>8, <1>9, <1>10 DEF ReadsInv

(* What the files become is what the step made of them.                    *)
LEMMA BecomeFiles ==
    ASSUME NEW g, GoodFiles(g), Become(g)
    PROVE  Files' = g
  BY DEF Become, Files, GoodFiles

(* What a writer leaves behind is right when the files are, no reader      *)
(* being under way.                                                        *)
LEMMA WriterStep ==
    ASSUME ReadsInv, NoReader, NEW g, GoodFiles(g), Become(g), UNCHANGED readers,
           LiveHeld(g)', ScannerRight(scan', live')
    PROVE  ReadsInv'
<1>1. Files' = g BY BecomeFiles
<1>2. GoodFiles(Files)' BY <1>1
<1>3. LiveHeld(Files)' BY <1>1 DEF LiveHeld
<1>4. (readers = [r \in Readers |-> readers[r]])' BY DEF ReadsInv
<1>5. \A r \in Readers : ReaderRight(readers'[r], memtable', ssts', live') BY DEF NoReader, ReaderRight
<1> QED BY <1>2, <1>3, <1>4, <1>5 DEF ReadsInv

(* A write to the memtable, before what may follow it (put and delete).    *)
LEMMA MemtablePut ==
    ASSUME Keys \subseteq Key, NEW f, GoodFiles(f), NEW k \in Keys, NEW v
    PROVE  /\ GoodFiles([f EXCEPT !.memtable = Put(@, k, v)])
           /\ Held([f EXCEPT !.memtable = Put(@, k, v)], k) = v
           /\ \A l \in Keys : l # k => Held([f EXCEPT !.memtable = Put(@, k, v)], l) = Held(f, l)
<1> DEFINE m == f.memtable
           new == Put(m, k, v)
           g == [f EXCEPT !.memtable = Put(@, k, v)]
           x == f.ssts
           y == f.nextId
           z == f.cache
<1>1. f = [memtable |-> m, ssts |-> x, nextId |-> y, cache |-> z] BY DEF GoodFiles
<1>2. g = [memtable |-> new, ssts |-> x, nextId |-> y, cache |-> z]
  <2>1. g = [f EXCEPT !.memtable = new] BY <1>1
  <2> HIDE DEF g, new, x, y, z, m
  <2> QED BY <1>1, <2>1
<1>3. IsRun(m) /\ DOMAIN m \subseteq Keys /\ k \in Key BY DEF GoodFiles, MemtableRight
<1>4. /\ IsRun(new) /\ DOMAIN new = DOMAIN m \cup {k} /\ new[k] = v
      /\ \A l \in DOMAIN m : l # k => new[l] = m[l]
  BY <1>3, PutRun
<1>5. FilesWritten(x) /\ IdsApart(x, y) /\ CacheRight(z, x, y) BY DEF GoodFiles
<1> HIDE DEF g, new
<1>6. g.memtable = new /\ g.ssts = x /\ g.nextId = y /\ g.cache = z BY <1>2
<1>7. MemtableRight(new) BY <1>3, <1>4 DEF MemtableRight
<1>8. g = [memtable |-> g.memtable, ssts |-> g.ssts, nextId |-> g.nextId, cache |-> g.cache] BY <1>2, <1>6
<1>9. GoodFiles(g) BY <1>5, <1>6, <1>7, <1>8 DEF GoodFiles
<1>10. Held(g, k) = v BY <1>4, <1>6 DEF Held
<1>11. \A l \in Keys : l # k => Held(g, l) = Held(f, l) BY <1>4, <1>6 DEF Held
<1>12. GoodFiles(g) /\ Held(g, k) = v /\ \A l \in Keys : l # k => Held(g, l) = Held(f, l)
  BY <1>9, <1>10, <1>11
<1> QED BY <1>12 DEF g

(* A write, and the flush and compaction it may lead to (put and delete,   *)
(* store/engine.rs).                                                       *)
LEMMA WriteReads ==
    ASSUME Keys \subseteq Key, ReadsInv, NEW k \in Keys, NEW v, NEW fails \in BOOLEAN, Write(k, v, fails)
    PROVE  ReadsInv'
<1> DEFINE f == [Files EXCEPT !.memtable = Put(@, k, v)]
           s == scan[1]
           new == Recorded(s, k, v)
<1>1. GoodFiles(Files) /\ LiveHeld(Files) BY DEF ReadsInv
<1>2. GoodFiles(f) /\ Held(f, k) = v /\ \A l \in Keys : l # k => Held(f, l) = Held(Files, l)
  BY <1>1, MemtablePut
<1>3. PICK g \in (IF Cardinality(DOMAIN f.memtable) >= FlushThreshold THEN FlushResults(f, fails) ELSE {f}) :
          Become(g)
  BY DEF Write
<1> HIDE DEF f
<1>4. g \in FlushResults(f, fails) \/ g = f BY <1>3
<1>5. GoodFiles(g) /\ \A l : Held(g, l) = Held(f, l) BY <1>2, <1>4, FlushGood
<1>6. live' = [live EXCEPT ![k] = v] /\ UNCHANGED readers /\ NoReader BY DEF Write
<1>7. live = [l \in Keys |-> live[l]] /\ \A l \in Keys : live[l] = Held(Files, l) BY <1>1 DEF LiveHeld
<1>8. live' = [l \in Keys |-> live'[l]] /\ live'[k] = v /\ \A l \in Keys : l # k => live'[l] = live[l]
  BY <1>6, <1>7, Zenon
<1>9. \A l \in Keys : live'[l] = Held(g, l) BY <1>2, <1>5, <1>7, <1>8
<1>10. LiveHeld(g)' BY <1>8, <1>9 DEF LiveHeld
<1>11. ScannerRight(scan', live')
  <2>1. CASE scan = None
    <3>1. scan' = None BY <2>1 DEF Write
    <3> QED BY <3>1 DEF ScannerRight
  <2>2. CASE scan # None
    <3>1. scan' = Some(new) BY <2>2 DEF Write, Recorded
    <3>2. ScanRight(s, live) BY <2>2 DEF ReadsInv, ScannerRight
    <3>3. ScanRight(new, live') BY <1>6, <1>7, <3>2, ScanWritten
    <3> HIDE DEF new
    <3>4. scan'[1] = new BY <3>1 DEF Some
    <3> QED BY <3>1, <3>3, <3>4 DEF ScannerRight
  <2> QED BY <2>1, <2>2
<1> QED BY <1>3, <1>5, <1>6, <1>10, <1>11, WriterStep

(* What changes the files but not what they hold (flush and compact,       *)
(* store/engine.rs).                                                       *)
LEMMA FlushReads ==
    ASSUME ReadsInv, NoReader, NEW g, GoodFiles(g), \A k : Held(g, k) = Held(Files, k), Become(g),
           UNCHANGED <<live, readers, scan>>
    PROVE  ReadsInv'
<1>1. LiveHeld(Files) /\ ScannerRight(scan, live) BY DEF ReadsInv
<1>2. LiveHeld(g)' BY <1>1 DEF LiveHeld
<1>3. ScannerRight(scan', live') BY <1>1
<1> QED BY <1>2, <1>3, WriterStep

(* A flush keeps what the engine holds (flush, store/engine.rs).           *)
LEMMA FlushedReads ==
    ASSUME ReadsInv, Flush
    PROVE  ReadsInv'
<1>1. GoodFiles(Files) BY DEF ReadsInv
<1>2. FlushDone(Files) \in FlushResults(Files, FALSE) BY DEF FlushResults
<1>3. GoodFiles(FlushDone(Files)) /\ \A k : Held(FlushDone(Files), k) = Held(Files, k)
  BY <1>1, <1>2, FlushGood
<1>4. NoReader /\ Become(FlushDone(Files)) /\ UNCHANGED <<live, readers, scan>> BY DEF Flush
<1> QED BY <1>3, <1>4, FlushReads

(* A compaction keeps what the engine holds (compact, store/engine.rs).    *)
LEMMA CompactedReads ==
    ASSUME ReadsInv, CompactNow
    PROVE  ReadsInv'
<1> DEFINE g == FlushDone(Files)
<1>1. GoodFiles(Files) BY DEF ReadsInv
<1>2. g \in FlushResults(Files, FALSE) BY DEF FlushResults
<1>3. GoodFiles(g) /\ \A k : Held(g, k) = Held(Files, k) BY <1>1, <1>2, FlushGood
<1>4. GoodFiles(Compacted(g)) /\ \A k : Held(Compacted(g), k) = Held(g, k) BY <1>3, CompactedGood
<1>5. /\ NoReader /\ UNCHANGED <<live, readers, scan>>
      /\ Become(IF g.ssts = <<>> THEN g ELSE Compacted(g))
  BY DEF CompactNow
<1> HIDE DEF g
<1>6. CASE g.ssts = <<>> BY <1>3, <1>5, <1>6, FlushReads
<1>7. CASE g.ssts # <<>> BY <1>3, <1>4, <1>5, <1>7, FlushReads
<1> QED BY <1>6, <1>7

(* A step of one reader changes its read and at most the cache.            *)
LEMMA ReaderStep ==
    ASSUME ReadsInv, NEW r \in Readers, NEW x, ReaderRight(x, memtable, ssts, live),
           readers' = [readers EXCEPT ![r] = x], CacheRight(cache', ssts, nextId),
           UNCHANGED <<memtable, ssts, nextId, live, scan>>
    PROVE  ReadsInv'
<1>1. Files' = [memtable |-> memtable, ssts |-> ssts, nextId |-> nextId, cache |-> cache'] BY DEF Files
<1>2. Files = [memtable |-> memtable, ssts |-> ssts, nextId |-> nextId, cache |-> cache] BY DEF Files
<1>3. MemtableRight(memtable) /\ FilesWritten(ssts) /\ IdsApart(ssts, nextId)
  BY <1>2 DEF GoodFiles, ReadsInv
<1>4. GoodFiles(Files') BY <1>1, <1>3 DEF GoodFiles
<1>5. \A k \in Keys : Held(Files', k) = Held(Files, k) BY <1>1, <1>2 DEF Held
<1>6. LiveHeld(Files)' BY <1>5 DEF LiveHeld, ReadsInv
<1>7. readers = [q \in Readers |-> readers[q]] /\ \A q \in Readers : ReaderRight(readers[q], memtable, ssts, live)
  BY DEF ReadsInv
<1>8. readers' = [q \in Readers |-> readers'[q]] /\ readers'[r] = x /\ \A q \in Readers : q # r => readers'[q] = readers[q]
  BY <1>7, Zenon
<1>9. \A q \in Readers : ReaderRight(readers'[q], memtable', ssts', live') BY <1>7, <1>8
<1>10. ScannerRight(scan', live') BY DEF ReadsInv
<1> QED BY <1>4, <1>6, <1>8, <1>9, <1>10 DEF ReadsInv

(* A read without an answer looks at a file of the engine, and the block   *)
(* the index gives it is the only one its key can be in (get).             *)
LEMMA FileLookedAt ==
    ASSUME Keys \subseteq Key, ReadsInv, NEW read, ReadRight(read, memtable, ssts, live), read.answer = None,
           NEW file, file = ssts[read.left]
    PROVE  /\ read.left \in 1..Len(ssts) /\ Written(file) /\ read.key \in Key
           /\ file.id \in Nat /\ file.id < nextId
           /\ \A i \in 1..Len(ssts) : ssts[i].id = file.id => ssts[i] = file
           /\ Route(file.index, read.key) = 0 => Hit(AllEntries(file), read.key) = None
           /\ Route(file.index, read.key) # 0 =>
                /\ Route(file.index, read.key) \in DOMAIN file.blocks
                /\ Hit(file.blocks[Route(file.index, read.key)], read.key) = Hit(AllEntries(file), read.key)
<1>1. Files.ssts = ssts /\ Files.nextId = nextId BY DEF Files
<1>2. FilesWritten(ssts) /\ IdsApart(ssts, nextId) BY <1>1 DEF ReadsInv, GoodFiles
<1>3. Len(ssts) \in Nat BY <1>2 DEF FilesWritten, Layers
<1>4. read.left \in 1..Len(ssts) /\ read.key \in Key BY <1>3 DEF ReadRight
<1>5. Written(file) BY <1>2, <1>4 DEF FilesWritten
<1>6. file.id \in Nat /\ file.id < nextId /\ \A i \in 1..Len(ssts) : ssts[i].id = file.id => ssts[i] = file
  BY <1>2, <1>4 DEF IdsApart
<1>7. /\ read.key \in DOMAIN AllEntries(file) => Route(file.index, read.key) # 0
      /\ Route(file.index, read.key) # 0 =>
           /\ Route(file.index, read.key) \in DOMAIN file.blocks
           /\ Hit(file.blocks[Route(file.index, read.key)], read.key) = Hit(AllEntries(file), read.key)
  BY <1>4, <1>5, RouteRight
<1>8. Route(file.index, read.key) = 0 => Hit(AllEntries(file), read.key) = None BY <1>7 DEF Hit
<1> QED BY <1>4, <1>5, <1>6, <1>7, <1>8

(* What a reader gets that is under way.                                   *)
LEMMA ReaderUnderWay ==
    ASSUME ReadsInv, NEW r \in Readers, readers[r] # None
    PROVE  /\ ReadRight(readers[r][1], memtable, ssts, live)
           /\ GoodFiles(Files) /\ LiveHeld(Files) /\ CacheRight(cache, ssts, nextId)
<1>1. Files.ssts = ssts /\ Files.nextId = nextId /\ Files.cache = cache BY DEF Files
<1> QED BY <1>1 DEF ReadsInv, ReaderRight, GoodFiles

(* A right read is a right reader's.                                       *)
LEMMA SomeReader ==
    ASSUME NEW read, ReadRight(read, memtable, ssts, live)
    PROVE  ReaderRight(Some(read), memtable, ssts, live)
<1>1. Some(read)[1] = read BY DEF Some
<1> QED BY <1>1 DEF ReaderRight

(* A read passes a file with what the file has of its key.                 *)
LEMMA PassingReads ==
    ASSUME ReadsInv, NEW r \in Readers, readers[r] # None, readers[r][1].answer = None,
           NEW hit, hit = Hit(AllEntries(File(r)), readers[r][1].key),
           readers' = [readers EXCEPT ![r] = Some(Passed(@[1], hit))], CacheRight(cache', ssts, nextId),
           UNCHANGED <<memtable, ssts, nextId, live, scan>>
    PROVE  ReadsInv'
<1> DEFINE read == readers[r][1]
           new == Passed(read, hit)
<1>1. ReadRight(read, memtable, ssts, live) /\ GoodFiles(Files) /\ LiveHeld(Files) BY ReaderUnderWay
<1>2. hit = Hit(AllEntries(ssts[read.left]), read.key) BY DEF File
<1>3. read.answer = None OBVIOUS
<1>4. readers' = [readers EXCEPT ![r] = Some(new)] OBVIOUS
<1> HIDE DEF read
<1>5. ReadRight(new, memtable, ssts, live) BY <1>1, <1>2, <1>3, PassedRight
<1> HIDE DEF new
<1>6. ReaderRight(Some(new), memtable, ssts, live) BY <1>5, SomeReader
<1> QED BY <1>4, <1>6, ReaderStep

(* A read that begins (get).                                               *)
LEMMA BeginGetReads ==
    ASSUME ReadsInv, NEW r \in Readers, NEW k \in Keys, BeginGet(r, k)
    PROVE  ReadsInv'
<1>1. ReadRight(Begun(k), memtable, ssts, live) BY BegunRight DEF ReadsInv
<1>2. ReaderRight(Some(Begun(k)), memtable, ssts, live) BY <1>1, SomeReader
<1>3. CacheRight(cache, ssts, nextId) BY DEF ReadsInv, GoodFiles, Files
<1>4. /\ readers' = [readers EXCEPT ![r] = Some(Begun(k))]
      /\ UNCHANGED <<memtable, ssts, nextId, cache, live, scan>>
  BY DEF BeginGet
<1> QED BY <1>2, <1>3, <1>4, ReaderStep

(* A file that cannot have the key is passed over.                         *)
LEMMA SkipFileReads ==
    ASSUME Keys \subseteq Key, ReadsInv, NEW r \in Readers, SkipFile(r)
    PROVE  ReadsInv'
<1>1. readers[r] # None /\ readers[r][1].answer = None BY DEF SkipFile, Looking
<1>2. ReadRight(readers[r][1], memtable, ssts, live) /\ CacheRight(cache, ssts, nextId) BY <1>1, ReaderUnderWay
<1>3. Candidate(r) = 0 => Hit(AllEntries(File(r)), readers[r][1].key) = None
  BY <1>1, <1>2, FileLookedAt DEF Candidate, File
<1>4. None = Hit(AllEntries(File(r)), readers[r][1].key) BY <1>3 DEF SkipFile, Hit
<1>5. readers' = [readers EXCEPT ![r] = Some(Passed(@[1], None))] BY DEF SkipFile
<1>6. UNCHANGED <<memtable, ssts, nextId, cache, live, scan>> BY DEF SkipFile
<1> QED BY <1>1, <1>2, <1>4, <1>5, <1>6, PassingReads

(* A block found in the cache is the file's (BlockCache::get,              *)
(* store/block_cache.rs).                                                  *)
LEMMA ReadCachedReads ==
    ASSUME Keys \subseteq Key, ReadsInv, NEW r \in Readers, ReadCached(r)
    PROVE  ReadsInv'
<1> DEFINE file == File(r)
           no == Candidate(r)
           p == Slot(file.id, no)
           key == readers[r][1].key
<1>1. /\ readers[r] # None /\ readers[r][1].answer = None /\ no # 0 /\ p \in DOMAIN cache
      /\ readers' = [readers EXCEPT ![r] = Some(Passed(@[1], Hit(cache[p].block, @[1].key)))]
      /\ cache' = Touched(cache, p)
      /\ UNCHANGED <<memtable, ssts, nextId, live, scan>>
  BY DEF ReadCached, Looking
<1>2. ReadRight(readers[r][1], memtable, ssts, live) /\ CacheRight(cache, ssts, nextId) BY <1>1, ReaderUnderWay
<1>3. /\ readers[r][1].left \in 1..Len(ssts)
      /\ no \in DOMAIN file.blocks /\ Hit(file.blocks[no], key) = Hit(AllEntries(file), key)
  BY <1>1, <1>2, FileLookedAt DEF Candidate, File
<1>4. p[1] = file.id /\ p[2] = no BY DEF Slot
<1>5. BlockOf(file, p, cache[p]) BY <1>1, <1>2, <1>3 DEF CacheRight, File
<1>6. cache[p].block = file.blocks[no] BY <1>4, <1>5 DEF BlockOf
<1>7. Hit(cache[p].block, key) = Hit(AllEntries(file), key) BY <1>3, <1>6
<1>8. CacheRight(cache', ssts, nextId) BY <1>1, <1>2, TouchedRight
<1> DEFINE hit == Hit(cache[p].block, key)
<1>9. readers' = [readers EXCEPT ![r] = Some(Passed(@[1], hit))] BY <1>1
<1>10. readers[r] # None /\ readers[r][1].answer = None /\ UNCHANGED <<memtable, ssts, nextId, live, scan>> BY <1>1
<1>11. hit = Hit(AllEntries(File(r)), readers[r][1].key) BY <1>7
<1> HIDE DEF hit
<1> QED BY <1>8, <1>9, <1>10, <1>11, PassingReads

(* A block the cache has not got is remembered by its number.              *)
LEMMA MissReads ==
    ASSUME Keys \subseteq Key, ReadsInv, NEW r \in Readers, Miss(r)
    PROVE  ReadsInv'
<1> DEFINE read == readers[r][1]
           no == Candidate(r)
           new == [read EXCEPT !.missed = no]
           k == read.key
           i == read.left
           g == read.answer
           m == read.missed
<1>1. /\ readers[r] # None /\ read.answer = None /\ no # 0 /\ no = Route(ssts[i].index, k)
      /\ readers' = [readers EXCEPT ![r] = Some(new)]
      /\ UNCHANGED <<memtable, ssts, nextId, cache, live, scan>>
  BY DEF Miss, Looking, Candidate, File
<1>2. ReadRight(read, memtable, ssts, live) /\ CacheRight(cache, ssts, nextId) BY <1>1, ReaderUnderWay
<1>3. read = [key |-> k, left |-> i, missed |-> m, answer |-> g] BY <1>2 DEF ReadRight, IsRead
<1> HIDE DEF read, no
<1>4. new = [key |-> k, left |-> i, missed |-> no, answer |-> g]
  <2> HIDE DEF k, i, g, m
  <2> QED BY <1>3
<1> HIDE DEF new
<1>5. IsRead(new) BY <1>4 DEF IsRead
<1>6. ReadRight(new, memtable, ssts, live) BY <1>1, <1>2, <1>4, <1>5 DEF ReadRight
<1>7. ReaderRight(Some(new), memtable, ssts, live) BY <1>6, SomeReader
<1> QED BY <1>1, <1>2, <1>7, ReaderStep

(* A block read from the file goes into the cache under its own slot.      *)
LEMMA FetchReads ==
    ASSUME Keys \subseteq Key, ReadsInv, NEW r \in Readers, Fetch(r)
    PROVE  ReadsInv'
<1> DEFINE file == File(r)
           no == readers[r][1].missed
           key == readers[r][1].key
           block == file.blocks[no]
           p == Slot(file.id, no)
           hit == Hit(block, key)
<1>1. /\ readers[r] # None /\ no # 0
      /\ readers' = [readers EXCEPT ![r] = Some(Passed(@[1], hit))]
      /\ cache' = Insert(cache, p, block)
      /\ UNCHANGED <<memtable, ssts, nextId, live, scan>>
  BY DEF Fetch
<1>2. ReadRight(readers[r][1], memtable, ssts, live) /\ CacheRight(cache, ssts, nextId) BY <1>1, ReaderUnderWay
<1>3. readers[r][1].answer = None /\ no = Route(file.index, key) BY <1>1, <1>2 DEF ReadRight, File
<1>4. /\ file.id \in Nat /\ file.id < nextId
      /\ \A i \in 1..Len(ssts) : ssts[i].id = file.id => ssts[i] = file
      /\ no \in DOMAIN file.blocks /\ hit = Hit(AllEntries(file), key)
  <2> DEFINE read == readers[r][1]
             at == Route(file.index, read.key)
  <2>1. ReadRight(read, memtable, ssts, live) /\ read.answer = None /\ file = ssts[read.left]
    BY <1>2, <1>3 DEF File
  <2>2. no = at /\ at # 0 BY <1>1, <1>3
  <2> HIDE DEF file, no, read
  <2>3. /\ file.id \in Nat /\ file.id < nextId
        /\ \A i \in 1..Len(ssts) : ssts[i].id = file.id => ssts[i] = file
        /\ at # 0 => /\ at \in DOMAIN file.blocks
                     /\ Hit(file.blocks[at], read.key) = Hit(AllEntries(file), read.key)
    BY <2>1, FileLookedAt
  <2>4. key = read.key BY DEF read
  <2> QED BY <2>2, <2>3, <2>4
<1>5. p[1] = file.id /\ p[2] = no BY DEF Slot
<1> HIDE DEF p
<1>6. \A i \in 1..Len(ssts) : p[1] = ssts[i].id => p[2] \in DOMAIN ssts[i].blocks /\ block = ssts[i].blocks[p[2]]
  BY <1>4, <1>5
<1>7. p[1] \in Nat /\ p[1] < nextId BY <1>4, <1>5
<1> HIDE DEF block, hit
<1>8. CacheRight(Insert(cache, p, block), ssts, nextId) BY <1>2, <1>6, <1>7, InsertRight
<1>9. CacheRight(cache', ssts, nextId) BY <1>1, <1>8
<1>10. hit = Hit(AllEntries(File(r)), readers[r][1].key) BY <1>4
<1> QED BY <1>1, <1>3, <1>9, <1>10, PassingReads

(* A read that is over leaves nothing behind (get).                        *)
LEMMA ReturnReads ==
    ASSUME ReadsInv, NEW r \in Readers, Return(r)
    PROVE  ReadsInv'
<1>1. readers' = [readers EXCEPT ![r] = None] /\ UNCHANGED <<memtable, ssts, nextId, cache, live, scan>>
  BY DEF Return
<1>2. CacheRight(cache, ssts, nextId) BY DEF ReadsInv, GoodFiles, Files
<1>3. ReaderRight(None, memtable, ssts, live) BY DEF ReaderRight
<1> QED BY <1>1, <1>2, <1>3, ReaderStep

(* A step of the scan changes nothing else.                                *)
LEMMA ScanStep ==
    ASSUME ReadsInv, ScannerRight(scan', live), UNCHANGED <<memtable, ssts, nextId, cache, live, readers>>
    PROVE  ReadsInv'
<1>1. Files' = Files BY DEF Files
<1>2. GoodFiles(Files)' BY <1>1 DEF ReadsInv
<1>3. LiveHeld(Files)' BY <1>1 DEF ReadsInv, LiveHeld
<1> QED BY <1>2, <1>3 DEF ReadsInv

(* A scan that begins (scan_range_page).                                   *)
LEMMA BeginScanReads ==
    ASSUME Keys \subseteq Key, Start \in Key, ReadsInv, BeginScan
    PROVE  ReadsInv'
<1> DEFINE s == [next |-> Some(Start), pages |-> <<>>,
                 held |-> {k \in LiveKeys : InRange(k, Start, End)},
                 seen |-> {<<k, live[k][1]>> : k \in LiveKeys}]
<1>1. scan' = Some(s) /\ UNCHANGED <<memtable, ssts, nextId, cache, live, readers>> BY DEF BeginScan
<1>2. ScanRight(s, live) BY ScanBegun
<1> HIDE DEF s
<1>3. ScannerRight(scan', live) BY <1>1, <1>2 DEF ScannerRight, Some
<1> QED BY <1>1, <1>3, ScanStep

(* The next page of a scan (scan_range_page).                              *)
LEMMA ScanPageReads ==
    ASSUME Keys \subseteq Key, End \in Key, PageLimit \in Nat \ {0}, ReadsInv, ScanPage
    PROVE  ReadsInv'
<1> DEFINE s == scan[1]
           page == ScanRangePage(s.next[1], End, PageLimit)
           new == WithPage(s, page)
<1>1. /\ scan # None /\ s.next # None /\ scan' = Some(new)
      /\ UNCHANGED <<memtable, ssts, nextId, cache, live, readers>>
  BY DEF ScanPage, WithPage
<1>2. ScanRight(s, live) BY <1>1 DEF ReadsInv, ScannerRight
<1>3. s.next[1] \in Key BY <1>1, <1>2 DEF ScanRight
<1>4. PageOf(s.next[1], page) BY <1>3, PageRight DEF ReadsInv
<1> HIDE DEF page, s
<1>5. ScanRight(new, live) BY <1>1, <1>2, <1>4, PageAdded
<1> HIDE DEF new
<1>6. ScannerRight(scan', live) BY <1>1, <1>5 DEF ScannerRight, Some
<1> QED BY <1>1, <1>6, ScanStep

(* A scan that has come to its end.                                        *)
LEMMA EndScanReads ==
    ASSUME ReadsInv, EndScan
    PROVE  ReadsInv'
<1>1. scan' = None /\ UNCHANGED <<memtable, ssts, nextId, cache, live, readers>> BY DEF EndScan
<1> QED BY <1>1, ScanStep DEF ScannerRight

(* ------------------------------- theorems ------------------------------ *)
(* What the engine keeps of its reads holds in every step: the blocks of a *)
(* file are its run cut in order and its index tells where, the cache has  *)
(* under a slot nothing but that file's block, memtable and files together *)
(* hold the value last written of every key, and no read has passed the    *)
(* newest file that has its key (store/engine.rs, store/block_cache.rs,    *)
(* store/sst_block.rs).                                                    *)
THEOREM ReadsInvHolds == Spec => []ReadsInv
<1>1. Keys \subseteq Key /\ Start \in Key /\ End \in Key /\ PageLimit \in Nat \ {0}
  BY ReadsAssumption DEF Key
<1>2. Init => ReadsInv BY InitReads
<1>3. ReadsInv /\ [Next]_vars => ReadsInv'
  <2> SUFFICES ASSUME ReadsInv, [Next]_vars PROVE ReadsInv' OBVIOUS
  <2>1. CASE \E k \in Keys, v \in {Some(v) : v \in Values} \cup {None}, fails \in BOOLEAN : Write(k, v, fails)
    BY <1>1, <2>1, WriteReads
  <2>2. CASE Flush BY <2>2, FlushedReads
  <2>3. CASE CompactNow BY <2>3, CompactedReads
  <2>4. ASSUME NEW r \in Readers, ReadStep(r) PROVE ReadsInv'
    <3>1. CASE \E k \in Keys : BeginGet(r, k) BY <3>1, BeginGetReads
    <3>2. CASE SkipFile(r) BY <1>1, <3>2, SkipFileReads
    <3>3. CASE ReadCached(r) BY <1>1, <3>3, ReadCachedReads
    <3>4. CASE Miss(r) BY <1>1, <3>4, MissReads
    <3>5. CASE Fetch(r) BY <1>1, <3>5, FetchReads
    <3>6. CASE Return(r) BY <3>6, ReturnReads
    <3> QED BY <2>4, <3>1, <3>2, <3>3, <3>4, <3>5, <3>6 DEF ReadStep
  <2>5. CASE BeginScan BY <1>1, <2>5, BeginScanReads
  <2>6. CASE ScanPage BY <1>1, <2>6, ScanPageReads
  <2>7. CASE EndScan BY <2>7, EndScanReads
  <2>8. CASE UNCHANGED vars
    <3>1. UNCHANGED <<memtable, ssts, nextId, cache, live, readers, scan>> BY <2>8 DEF vars
    <3>2. ScannerRight(scan', live) BY <3>1 DEF ReadsInv
    <3> QED BY <3>1, <3>2, ScanStep
  <2> QED BY <2>1, <2>2, <2>3, <2>4, <2>5, <2>6, <2>7, <2>8 DEF Next
<1> QED BY <1>2, <1>3, PTL DEF Spec

(* Every read gives the value last written: a point read whatever other    *)
(* readers, the cache and the bloom filters do between its steps, and a    *)
(* scan of a range or of a prefix, however the entries lie in memtable,    *)
(* files and blocks (get, scan_range and scan_prefix, store/engine.rs).    *)
THEOREM ReadsAreLatest == Spec => []ReadsLatest
<1>1. Keys \subseteq Key /\ Start \in Key /\ End \in Key BY ReadsAssumption DEF Key
<1>2. ReadsInv => ReadsLatest
  <2> SUFFICES ASSUME ReadsInv PROVE ReadsLatest OBVIOUS
  <2>1. GoodFiles(Files) /\ LiveHeld(Files) BY DEF ReadsInv
  <2>2. ASSUME NEW r \in Readers, readers[r] # None
        PROVE  readers[r][1].answer \in {None, Some(live[readers[r][1].key])}
    <3>1. ReadRight(readers[r][1], memtable, ssts, live) BY <2>2, ReaderUnderWay
    <3> QED BY <3>1 DEF ReadRight
  <2>3. ScanRange(Start, End) = WithRange(Live, Start, End) BY <1>1, <2>1, RangeScanLive
  <2>4. \A p \in Keys : ScanPrefix(p) = WithPrefix(Live, p) BY <1>1, <2>1, PrefixScanLive
  <2> QED BY <2>2, <2>3, <2>4 DEF ReadsLatest
<1> QED BY <1>2, ReadsInvHolds, PTL

(* A scan in pages lists keys in ascending order, each once, with a value  *)
(* each had at some moment of it, and leaves out no key that had a value   *)
(* throughout, whatever is written, flushed or compacted between its pages *)
(* (scan_range_page, store/engine.rs).                                     *)
THEOREM ScansArePaged == Spec => []PagedScan
<1>1. ReadsInv => PagedScan
  <2> SUFFICES ASSUME ReadsInv PROVE PagedScan OBVIOUS
  <2>1. CASE scan = None BY <2>1 DEF PagedScan
  <2>2. CASE scan # None BY <2>2, ScanPaged DEF ReadsInv, ScannerRight
  <2> QED BY <2>1, <2>2
<1> QED BY <1>1, ReadsInvHolds, PTL


(* ------------------------- the keys of the store ----------------------- *)
(* What the engine's keys are made of (key/mod.rs): the words of names are *)
(* bytes, ids are numbers, times fit in 64 bits.                           *)
Name == Seq(0..HIGH_BYTE)
Time == -(I64_MAX + 1)..I64_MAX
WordsFit == U32 \in Nat /\ HIGH_BYTE \in Nat /\ I64_MAX \in Nat

(* The words of a name are numbers.                                        *)
LEMMA NamesAreKeys == ASSUME WordsFit PROVE Name \subseteq Key
  BY DEF WordsFit, Name, Key

(* Two sequences laid end to end, word by word.                            *)
LEMMA Joined ==
    ASSUME NEW a \in Key, NEW r \in Key
    PROVE  /\ a \o r \in Key /\ Len(a) \in Nat /\ Len(r) \in Nat
           /\ Len(a \o r) = Len(a) + Len(r)
           /\ \A i \in 1..Len(a) : (a \o r)[i] = a[i]
           /\ \A i \in 1..Len(r) : (a \o r)[Len(a) + i] = r[i]
           /\ SubSeq(a \o r, 1, Len(a)) = a
           /\ Rest(a \o r, Len(a)) = r
<1>1. /\ a \o r \in Key /\ Len(a) \in Nat /\ Len(r) \in Nat /\ Len(a \o r) = Len(a) + Len(r)
      /\ \A i \in 1..Len(a) : (a \o r)[i] = a[i]
      /\ \A i \in 1..Len(r) : (a \o r)[Len(a) + i] = r[i]
  BY DEF Key
<1>2. SubSeq(a \o r, 1, Len(a)) = a
  <2>1. /\ SubSeq(a \o r, 1, Len(a)) \in Seq(Nat)
        /\ Len(SubSeq(a \o r, 1, Len(a))) = Len(a)
        /\ \A i \in 1..Len(a) : SubSeq(a \o r, 1, Len(a))[i] = a[i]
    BY <1>1 DEF Key
  <2> QED BY <2>1, SeqEqual DEF Key
<1>3. Rest(a \o r, Len(a)) = r
  <2>1. /\ Rest(a \o r, Len(a)) \in Seq(Nat)
        /\ Len(Rest(a \o r, Len(a))) = Len(r)
        /\ \A i \in 1..Len(r) : Rest(a \o r, Len(a))[i] = r[i]
    BY <1>1 DEF Key, Rest
  <2> QED BY <2>1, SeqEqual DEF Key
<1> QED BY <1>1, <1>2, <1>3

(* Laying sequences end to end is associative.                             *)
LEMMA JoinedTwice ==
    \A a, b, c \in Key : (a \o b) \o c = a \o (b \o c)
  BY ConcatAssociative DEF Key

(* A key begins with p when it is p and something behind it.               *)
LEMMA PrefixJoined ==
    ASSUME NEW p \in Key, NEW k \in Key
    PROVE  IsPrefix(p, k) <=> \E r \in Key : k = p \o r
<1>1. ASSUME NEW r \in Key, k = p \o r PROVE IsPrefix(p, k)
  <2>1. /\ Len(p) \in Nat /\ Len(r) \in Nat /\ Len(p \o r) = Len(p) + Len(r)
        /\ \A i \in 1..Len(p) : (p \o r)[i] = p[i]
    BY Joined
  <2>2. Len(p) <= Len(k) /\ \A i \in 1..Len(p) : p[i] = k[i] BY <1>1, <2>1
  <2> QED BY <2>2, PrefixAt
<1>2. ASSUME IsPrefix(p, k) PROVE \E r \in Key : k = p \o r
  <2> DEFINE r == Rest(k, Len(p))
  <2>1. /\ Len(p) \in Nat /\ Len(k) \in Nat /\ Len(p) <= Len(k)
        /\ \A i \in 1..Len(p) : p[i] = k[i]
    BY <1>2, PrefixAt DEF Key
  <2>2. r \in Key /\ Len(r) = Len(k) - Len(p) /\ \A i \in 1..Len(r) : r[i] = k[Len(p) + i]
    BY <2>1 DEF Key, Rest
  <2> HIDE DEF r
  <2>3. /\ p \o r \in Key /\ Len(p \o r) = Len(p) + Len(r)
        /\ \A i \in 1..Len(p) : (p \o r)[i] = p[i]
        /\ \A i \in 1..Len(r) : (p \o r)[Len(p) + i] = r[i]
    BY <2>2, Joined, Zenon
  <2>4. ASSUME NEW i \in 1..Len(k) PROVE (p \o r)[i] = k[i]
    <3>1. CASE i <= Len(p) BY <2>1, <2>3, <3>1
    <3>2. CASE i > Len(p)
      <4>1. i - Len(p) \in 1..Len(r) /\ Len(p) + (i - Len(p)) = i BY <2>1, <2>2, <3>2
      <4>2. (p \o r)[Len(p) + (i - Len(p))] = k[Len(p) + (i - Len(p))] BY <2>2, <2>3, <4>1, Zenon
      <4> QED BY <4>1, <4>2, Zenon
    <3>3. i <= Len(p) \/ i > Len(p) BY <2>1
    <3> QED BY <3>1, <3>2, <3>3, Zenon
  <2>5. Len(p \o r) = Len(k) BY <2>1, <2>2, <2>3
  <2>6. k = p \o r BY <2>3, <2>4, <2>5, SeqEqual, Zenon DEF Key
  <2> QED BY <2>2, <2>6
<1> QED BY <1>1, <1>2

(* ------------------------ names behind lengths ------------------------- *)
(* push_len_prefixed and take_len_prefixed: whatever follows, the reader   *)
(* gets the name and what follows it.                                      *)
LEMMA TakenBack ==
    ASSUME NEW a \in Key, NEW r \in Key
    PROVE  /\ push_len_prefixed(a) \in Key /\ push_len_prefixed(a) \o r \in Key
           /\ Len(push_len_prefixed(a)) = 1 + Len(a)
           /\ take_len_prefixed(push_len_prefixed(a) \o r) = Some([name |-> a, rest |-> r])
<1> DEFINE p == push_len_prefixed(a)
           w == p \o r
<1>1. /\ p \in Key /\ Len(a) \in Nat /\ Len(p) = 1 + Len(a) /\ p[1] = Len(a)
      /\ \A i \in 1..Len(a) : p[1 + i] = a[i]
  BY DEF Key, push_len_prefixed
<1> HIDE DEF p
<1>2. /\ w \in Key /\ Len(r) \in Nat /\ Len(w) = Len(p) + Len(r) /\ Rest(w, 1 + Len(a)) = r
      /\ \A i \in 1..Len(p) : w[i] = p[i]
  <2>1. /\ w \in Key /\ Len(r) \in Nat /\ Len(w) = Len(p) + Len(r) /\ Rest(w, Len(p)) = r
        /\ \A i \in 1..Len(p) : w[i] = p[i]
    BY <1>1, Joined, Zenon
  <2> QED BY <1>1, <2>1
<1> HIDE DEF w
<1>3. w # <<>> /\ w[1] = Len(a) /\ w[1] <= Len(w) - 1
  BY <1>1, <1>2
<1>4. SubSeq(w, 2, 1 + Len(a)) = a
  <2>1. /\ SubSeq(w, 2, 1 + Len(a)) \in Seq(Nat) /\ Len(SubSeq(w, 2, 1 + Len(a))) = Len(a)
        /\ \A i \in 1..Len(a) : SubSeq(w, 2, 1 + Len(a))[i] = w[1 + i]
    <3>1. \A i \in 2..1 + Len(a) : w[i] \in Nat
      <4>1. \A i \in 1..Len(w) : w[i] \in Nat BY <1>2 DEF Key
      <4> QED BY <1>1, <1>2, <4>1
    <3>2. /\ SubSeq(w, 2, 1 + Len(a)) \in Seq(Nat)
          /\ Len(SubSeq(w, 2, 1 + Len(a))) = IF 2 <= 1 + Len(a) THEN 1 + Len(a) - 2 + 1 ELSE 0
          /\ \A i \in 1..1 + Len(a) - 2 + 1 : SubSeq(w, 2, 1 + Len(a))[i] = w[2 + i - 1]
      BY <1>1, <3>1, SubSeqProperties
    <3>3. 1 + Len(a) - 2 + 1 = Len(a) /\ \A i \in 1..Len(a) : 2 + i - 1 = 1 + i BY <1>1
    <3> QED BY <1>1, <3>2, <3>3
  <2>2. \A i \in 1..Len(a) : w[1 + i] = a[i] BY <1>1, <1>2
  <2> QED BY <2>1, <2>2, SeqEqual DEF Key
<1>5. ~(w[1] > Len(w) - 1) BY <1>1, <1>2, <1>3
<1>6. take_len_prefixed(w) = Some([name |-> a, rest |-> r])
  BY <1>2, <1>3, <1>4, <1>5 DEF take_len_prefixed
<1> QED BY <1>1, <1>2, <1>6 DEF w, p

(* A name behind its length and the words behind it, and a key that begins *)
(* with an agent's prefix.                                                 *)
Behind(a, r) == push_len_prefixed(a) \o r
AgentKey(s, a, r) == AgentPrefix(s, a) \o r

(* What a name and the words behind it are written as tells both.          *)
LEMMA NamesApart ==
    \A a, r, b, q \in Key : Behind(a, r) = Behind(b, q) => a = b /\ r = q
<1> SUFFICES ASSUME NEW a \in Key, NEW r \in Key, NEW b \in Key, NEW q \in Key, Behind(a, r) = Behind(b, q)
             PROVE  a = b /\ r = q
  OBVIOUS
<1>1. /\ take_len_prefixed(Behind(a, r)) = Some([name |-> a, rest |-> r])
      /\ take_len_prefixed(Behind(b, q)) = Some([name |-> b, rest |-> q])
  BY TakenBack, Zenon DEF Behind
<1>2. [name |-> a, rest |-> r] = [name |-> b, rest |-> q] BY <1>1 DEF Some
<1>3. [name |-> a, rest |-> r].name = a /\ [name |-> b, rest |-> q].name = b
      /\ [name |-> a, rest |-> r].rest = r /\ [name |-> b, rest |-> q].rest = q
  OBVIOUS
<1> QED BY <1>2, <1>3, Zenon

(* The prefix of an agent's keys in a space, and what stands behind it.    *)
LEMMA PrefixWords ==
    ASSUME NEW s \in Nat, NEW a \in Key
    PROVE  /\ AgentPrefix(s, a) \in Key /\ Len(AgentPrefix(s, a)) = 2 + Len(a)
           /\ AgentPrefix(s, a)[1] = s /\ AgentPrefix(s, a)[2] = Len(a)
           /\ \A i \in 1..Len(a) : AgentPrefix(s, a)[2 + i] = a[i]
<1>1. /\ <<s>> \in Key /\ Len(<<s>>) = 1 /\ <<s>>[1] = s BY DEF Key
<1>2. /\ push_len_prefixed(a) \in Key /\ Len(push_len_prefixed(a)) = 1 + Len(a)
      /\ push_len_prefixed(a)[1] = Len(a) /\ Len(a) \in Nat
      /\ \A i \in 1..Len(a) : push_len_prefixed(a)[1 + i] = a[i]
  BY DEF Key, push_len_prefixed
<1>3. /\ AgentPrefix(s, a) \in Key /\ Len(AgentPrefix(s, a)) = 2 + Len(a)
      /\ AgentPrefix(s, a)[1] = s
  BY <1>1, <1>2, Joined DEF AgentPrefix, Key
<1>4. \A i \in 1..Len(push_len_prefixed(a)) : AgentPrefix(s, a)[1 + i] = push_len_prefixed(a)[i]
  BY <1>1, <1>2, Joined DEF AgentPrefix
<1>5. AgentPrefix(s, a)[1 + 1] = Len(a) BY <1>2, <1>4
<1>6. ASSUME NEW i \in 1..Len(a) PROVE AgentPrefix(s, a)[2 + i] = a[i]
  <2>1. 1 + i \in 1..Len(push_len_prefixed(a)) /\ 1 + (1 + i) = 2 + i BY <1>2
  <2>2. AgentPrefix(s, a)[1 + (1 + i)] = push_len_prefixed(a)[1 + i] BY <1>4, <2>1
  <2> QED BY <1>2, <2>1, <2>2
<1> QED BY <1>3, <1>5, <1>6

(* An agent's prefix is its space's word and the agent's length-prefixed   *)
(* name: what is left behind either is what was put there.                 *)
LEMMA AgentPrefixes ==
    ASSUME NEW s \in Nat, NEW a \in Key, NEW r \in Key
    PROVE  /\ AgentPrefix(s, a) \o r \in Key /\ AgentPrefix(s, a) \o r # <<>>
           /\ (AgentPrefix(s, a) \o r)[1] = s
           /\ Rest(AgentPrefix(s, a) \o r, 1) = push_len_prefixed(a) \o r
           /\ Rest(AgentPrefix(s, a) \o r, Len(AgentPrefix(s, a))) = r
<1>1. /\ <<s>> \in Key /\ Len(<<s>>) = 1 /\ <<s>>[1] = s BY DEF Key
<1>2. push_len_prefixed(a) \in Key /\ push_len_prefixed(a) \o r \in Key BY TakenBack, Zenon
<1>3. AgentPrefix(s, a) \in Key /\ Len(AgentPrefix(s, a)) = 2 + Len(a) BY PrefixWords, Zenon
<1>4. AgentPrefix(s, a) \o r = <<s>> \o (push_len_prefixed(a) \o r)
  BY <1>1, <1>2, JoinedTwice, Zenon DEF AgentPrefix
<1>5. /\ AgentPrefix(s, a) \o r \in Key
      /\ Rest(AgentPrefix(s, a) \o r, Len(AgentPrefix(s, a))) = r
      /\ Len(AgentPrefix(s, a) \o r) = 2 + Len(a) + Len(r)
  BY <1>3, Joined DEF Key
<1>6. Rest(AgentPrefix(s, a) \o r, 1) = push_len_prefixed(a) \o r
  <2>1. Rest(<<s>> \o (push_len_prefixed(a) \o r), Len(<<s>>)) = push_len_prefixed(a) \o r
    BY <1>1, <1>2, Joined, Zenon
  <2> QED BY <1>1, <1>4, <2>1, Zenon
<1>7. (AgentPrefix(s, a) \o r)[1] = s
  <2>1. \A i \in 1..Len(<<s>>) : (<<s>> \o (push_len_prefixed(a) \o r))[i] = <<s>>[i] BY <1>1, <1>2, Joined, Zenon
  <2>2. 1 \in 1..Len(<<s>>) BY <1>1
  <2> QED BY <1>1, <1>4, <2>1, <2>2, Zenon
<1>8. AgentPrefix(s, a) \o r # <<>> BY <1>5 DEF Key
<1> QED BY <1>5, <1>6, <1>7, <1>8

(* What the proofs below use of it.                                        *)
LEMMA AgentKeys ==
    /\ \A a, r \in Key : Behind(a, r) \in Key
    /\ \A s \in Nat, a, r \in Key :
         /\ AgentPrefix(s, a) \in Key /\ AgentKey(s, a, r) \in Key /\ AgentKey(s, a, r) # <<>>
         /\ AgentKey(s, a, r)[1] = s
         /\ Rest(AgentKey(s, a, r), 1) = Behind(a, r)
         /\ Rest(AgentKey(s, a, r), Len(AgentPrefix(s, a))) = r
<1>1. ASSUME NEW a \in Key, NEW r \in Key PROVE Behind(a, r) \in Key
  BY TakenBack, Zenon DEF Behind
<1>2. ASSUME NEW s \in Nat, NEW a \in Key, NEW r \in Key
      PROVE  /\ AgentPrefix(s, a) \in Key /\ AgentKey(s, a, r) \in Key /\ AgentKey(s, a, r) # <<>>
             /\ AgentKey(s, a, r)[1] = s
             /\ Rest(AgentKey(s, a, r), 1) = Behind(a, r)
             /\ Rest(AgentKey(s, a, r), Len(AgentPrefix(s, a))) = r
  BY PrefixWords, AgentPrefixes, Zenon DEF Behind, AgentKey
<1> QED BY <1>1, <1>2, Zenon

(* Keys of different spaces or different agents differ.                    *)
LEMMA AgentsApart ==
    \A s, t \in Nat, a, r, b, q \in Key :
        AgentKey(s, a, r) = AgentKey(t, b, q) => s = t /\ a = b /\ r = q
<1> SUFFICES ASSUME NEW s \in Nat, NEW a \in Key, NEW r \in Key,
                    NEW t \in Nat, NEW b \in Key, NEW q \in Key,
                    AgentKey(s, a, r) = AgentKey(t, b, q)
             PROVE  s = t /\ a = b /\ r = q
  OBVIOUS
<1>1. AgentKey(s, a, r)[1] = s /\ Rest(AgentKey(s, a, r), 1) = Behind(a, r) BY AgentKeys, Zenon
<1>2. AgentKey(t, b, q)[1] = t /\ Rest(AgentKey(t, b, q), 1) = Behind(b, q) BY AgentKeys, Zenon
<1>3. s = t /\ Behind(a, r) = Behind(b, q) BY <1>1, <1>2, Zenon
<1> QED BY <1>3, NamesApart

(* Scanning an agent's prefix in a space meets that space's keys of that   *)
(* agent and no others.                                                    *)
LEMMA AgentScanned ==
    \A s, t \in Nat, a, b, q \in Key :
        IsPrefix(AgentPrefix(s, a), AgentKey(t, b, q)) <=> s = t /\ a = b
<1> SUFFICES ASSUME NEW s \in Nat, NEW a \in Key, NEW t \in Nat, NEW b \in Key, NEW q \in Key
             PROVE  IsPrefix(AgentPrefix(s, a), AgentKey(t, b, q)) <=> s = t /\ a = b
  OBVIOUS
<1>1. IsPrefix(AgentPrefix(s, a), AgentKey(t, b, q)) <=> \E r \in Key : AgentKey(t, b, q) = AgentKey(s, a, r)
  <2>1. AgentPrefix(s, a) \in Key /\ AgentKey(t, b, q) \in Key
    <3>1. q \in Key OBVIOUS
    <3> QED BY AgentKeys, <3>1, Zenon
  <2> QED BY <2>1, PrefixJoined, Zenon DEF AgentKey
<1> QED BY <1>1, AgentsApart

(* The same for a name behind the agent's: the edges from a source, the    *)
(* postings of a term.                                                     *)
LEMMA NamesJoinedTo ==
    ASSUME NEW s \in Nat, NEW a \in Key, NEW b \in Key, NEW q \in Key
    PROVE  NamePrefix(s, a, b) \o q = AgentKey(s, a, Behind(b, q))
<1>1. AgentPrefix(s, a) \in Key /\ push_len_prefixed(b) \in Key
  BY PrefixWords, TakenBack, Zenon
<1>2. \A x \in Key : (AgentPrefix(s, a) \o push_len_prefixed(b)) \o x
                        = AgentPrefix(s, a) \o (push_len_prefixed(b) \o x)
  BY <1>1, JoinedTwice, Zenon
<1> QED BY <1>2, Zenon DEF NamePrefix, AgentKey, Behind

(* And the prefix of a name, with what stands behind it.                   *)
LEMMA NamesJoined ==
    /\ \A s \in Nat, a, b \in Key : NamePrefix(s, a, b) \in Key
    /\ \A s \in Nat, a, b, q \in Key : Rest(AgentKey(s, a, Behind(b, q)), Len(NamePrefix(s, a, b))) = q
<1>1. ASSUME NEW s \in Nat, NEW a \in Key, NEW b \in Key PROVE NamePrefix(s, a, b) \in Key
  <2>1. AgentPrefix(s, a) \in Key /\ push_len_prefixed(b) \in Key
    <3>1. <<>> \in Key BY DEF Key
    <3> QED BY <3>1, PrefixWords, TakenBack, Zenon
  <2> QED BY <2>1, Joined DEF NamePrefix
<1>2. ASSUME NEW s \in Nat, NEW a \in Key, NEW b \in Key, NEW q \in Key
      PROVE  Rest(AgentKey(s, a, Behind(b, q)), Len(NamePrefix(s, a, b))) = q
  <2>1. NamePrefix(s, a, b) \in Key BY <1>1, Zenon
  <2>2. Rest(NamePrefix(s, a, b) \o q, Len(NamePrefix(s, a, b))) = q BY <2>1, Joined, Zenon
  <2> QED BY <2>2, NamesJoinedTo, Zenon
<1> QED BY <1>1, <1>2, Zenon

(* A scan of one name's prefix meets the keys of that name, and no key of  *)
(* another space, agent or name: the length comes before the name.         *)
LEMMA NamesScanned ==
    \A s, t \in Nat, a, b, c, d, q \in Key :
        IsPrefix(NamePrefix(s, a, b), AgentKey(t, c, Behind(d, q))) <=> s = t /\ a = c /\ b = d
<1> SUFFICES ASSUME NEW s \in Nat, NEW a \in Key, NEW b \in Key,
                    NEW t \in Nat, NEW c \in Key, NEW d \in Key, NEW q \in Key
             PROVE  IsPrefix(NamePrefix(s, a, b), AgentKey(t, c, Behind(d, q))) <=> s = t /\ a = c /\ b = d
  OBVIOUS
<1>1. NamePrefix(s, a, b) \in Key /\ \A r \in Key : NamePrefix(s, a, b) \o r = AgentKey(s, a, Behind(b, r))
  BY NamesJoined, NamesJoinedTo, Zenon
<1>2. AgentKey(t, c, Behind(d, q)) \in Key /\ \A r \in Key : Behind(b, r) \in Key /\ Behind(d, r) \in Key
  BY AgentKeys
<1>3. IsPrefix(NamePrefix(s, a, b), AgentKey(t, c, Behind(d, q)))
        <=> \E r \in Key : AgentKey(t, c, Behind(d, q)) = AgentKey(s, a, Behind(b, r))
  <2>1. IsPrefix(NamePrefix(s, a, b), AgentKey(t, c, Behind(d, q)))
          <=> \E r \in Key : AgentKey(t, c, Behind(d, q)) = NamePrefix(s, a, b) \o r
    BY <1>1, <1>2, PrefixJoined, Zenon
  <2> QED BY <1>1, <2>1, Zenon
<1>4. (\E r \in Key : AgentKey(t, c, Behind(d, q)) = AgentKey(s, a, Behind(b, r))) <=> s = t /\ a = c /\ b = d
  <2>1. ASSUME NEW r \in Key, AgentKey(t, c, Behind(d, q)) = AgentKey(s, a, Behind(b, r))
        PROVE  s = t /\ a = c /\ b = d
    <3>1. s = t /\ a = c /\ Behind(d, q) = Behind(b, r) BY <1>2, <2>1, AgentsApart
    <3> QED BY <3>1, NamesApart
  <2> QED BY <2>1
<1> QED BY <1>3, <1>4


(* ---------------------- finitely many, one by one ---------------------- *)
(* The tuples of finite sets are finitely many.                            *)
LEMMA FinitePairs ==
    \A A, B : IsFiniteSet(A) /\ IsFiniteSet(B) => IsFiniteSet(A \X B)
  BY FS_Product

(* The triples, quadruples and quintuples over finite sets are finitely    *)
(* many.                                                                   *)
LEMMA FiniteTriples ==
    \A A, B, C : IsFiniteSet(A) /\ IsFiniteSet(B) /\ IsFiniteSet(C) => IsFiniteSet(A \X B \X C)
<1> SUFFICES ASSUME NEW A, NEW B, NEW C, IsFiniteSet(A), IsFiniteSet(B), IsFiniteSet(C)
             PROVE  IsFiniteSet(A \X B \X C)
  OBVIOUS
<1> DEFINE S == (A \X B) \X C
           f == [p \in S |-> <<p[1][1], p[1][2], p[2]>>]
<1>1. IsFiniteSet(S) BY FS_Product
<1>2. f \in [S -> A \X B \X C] OBVIOUS
<1>3. ASSUME NEW t \in A \X B \X C PROVE \E p \in S : f[p] = t
  <2>1. <<<<t[1], t[2]>>, t[3]>> \in S OBVIOUS
  <2>2. f[<<<<t[1], t[2]>>, t[3]>>] = t BY <2>1
  <2> QED BY <2>1, <2>2
<1>4. f \in Surjection(S, A \X B \X C) BY <1>2, <1>3 DEF Surjection
<1> QED BY <1>1, <1>4, FS_Surjection

(* The same for quadruples.                                                *)
LEMMA FiniteQuadruples ==
    \A A, B, C, D : IsFiniteSet(A) /\ IsFiniteSet(B) /\ IsFiniteSet(C) /\ IsFiniteSet(D)
                      => IsFiniteSet(A \X B \X C \X D)
<1> SUFFICES ASSUME NEW A, NEW B, NEW C, NEW D, IsFiniteSet(A), IsFiniteSet(B), IsFiniteSet(C), IsFiniteSet(D)
             PROVE  IsFiniteSet(A \X B \X C \X D)
  OBVIOUS
<1> DEFINE S == (A \X B \X C) \X D
           f == [p \in S |-> <<p[1][1], p[1][2], p[1][3], p[2]>>]
<1>1. IsFiniteSet(S) BY FiniteTriples, FS_Product
<1>2. f \in [S -> A \X B \X C \X D] OBVIOUS
<1>3. ASSUME NEW t \in A \X B \X C \X D PROVE \E p \in S : f[p] = t
  <2>1. <<<<t[1], t[2], t[3]>>, t[4]>> \in S OBVIOUS
  <2>2. f[<<<<t[1], t[2], t[3]>>, t[4]>>] = t BY <2>1
  <2> QED BY <2>1, <2>2
<1>4. f \in Surjection(S, A \X B \X C \X D) BY <1>2, <1>3 DEF Surjection
<1> QED BY <1>1, <1>4, FS_Surjection

(* The same for quintuples.                                                *)
LEMMA FiniteQuintuples ==
    \A A, B, C, D, E : IsFiniteSet(A) /\ IsFiniteSet(B) /\ IsFiniteSet(C) /\ IsFiniteSet(D) /\ IsFiniteSet(E)
                         => IsFiniteSet(A \X B \X C \X D \X E)
<1> SUFFICES ASSUME NEW A, NEW B, NEW C, NEW D, NEW E, IsFiniteSet(A), IsFiniteSet(B), IsFiniteSet(C),
                    IsFiniteSet(D), IsFiniteSet(E)
             PROVE  IsFiniteSet(A \X B \X C \X D \X E)
  OBVIOUS
<1> DEFINE S == (A \X B \X C \X D) \X E
           f == [p \in S |-> <<p[1][1], p[1][2], p[1][3], p[1][4], p[2]>>]
<1>1. IsFiniteSet(S) BY FiniteQuadruples, FS_Product
<1>2. f \in [S -> A \X B \X C \X D \X E] OBVIOUS
<1>3. ASSUME NEW t \in A \X B \X C \X D \X E PROVE \E p \in S : f[p] = t
  <2>1. <<<<t[1], t[2], t[3], t[4]>>, t[5]>> \in S OBVIOUS
  <2>2. f[<<<<t[1], t[2], t[3], t[4]>>, t[5]>>] = t BY <2>1
  <2> QED BY <2>1, <2>2
<1>4. f \in Surjection(S, A \X B \X C \X D \X E) BY <1>2, <1>3 DEF Surjection
<1> QED BY <1>1, <1>4, FS_Surjection

(* As many keys as things that have one: no two share theirs.              *)
LEMMA OneByOne ==
    ASSUME NEW f, IsFiniteSet(DOMAIN f), f = [x \in DOMAIN f |-> f[x]],
           \A x, y \in DOMAIN f : f[x] = f[y] => x = y
    PROVE  Injective(f)
<1> DEFINE T == {f[x] : x \in DOMAIN f}
<1>1. f \in [DOMAIN f -> T] OBVIOUS
<1>2. f \in Bijection(DOMAIN f, T) BY <1>1 DEF Bijection, Injection, IsInjective, Surjection
<1>3. ExistsBijection(DOMAIN f, T) BY <1>2 DEF ExistsBijection
<1> QED BY <1>3, FS_Bijection DEF Injective

(* ------------------------------- ranges -------------------------------- *)
(* A key not below p does not leave p downwards.                           *)
LEMMA NotBelow ==
    ASSUME NEW p \in Key, NEW k \in Key, AtMost(p, k), NEW m \in Nat, m < Len(p), m <= Len(k),
           \A i \in 1..m : k[i] = p[i]
    PROVE  m < Len(k) /\ ~(k[m + 1] < p[m + 1])
<1>1. ASSUME m = Len(k) \/ k[m + 1] < p[m + 1] PROVE FALSE
  <2>1. PartAt(k, p, m) BY <1>1 DEF PartAt
  <2>2. Less(k, p) BY <2>1, LessAt
  <2> QED BY <2>2, KeyOrder DEF AtMost
<1>2. Len(k) \in Nat BY DEF Key
<1> QED BY <1>1, <1>2

(* From p up to p with a word behind it: what p begins, up to that word.   *)
LEMMA RangeUpTo ==
    ASSUME NEW p \in Key, NEW k \in Key, NEW w \in Nat
    PROVE  InRange(k, p, Append(p, w)) <=> IsPrefix(p, k) /\ (Len(k) = Len(p) \/ k[Len(p) + 1] < w)
<1> DEFINE u == Append(p, w)
<1>1. /\ Len(p) \in Nat /\ Len(k) \in Nat /\ u \in Key /\ Len(u) = Len(p) + 1 /\ u[Len(p) + 1] = w
      /\ \A i \in 1..Len(p) : u[i] = p[i]
  BY DEF Key
<1> HIDE DEF u
<1>2. ASSUME AtMost(p, k), Less(k, u) PROVE IsPrefix(p, k) /\ (Len(k) = Len(p) \/ k[Len(p) + 1] < w)
  <2>1. PICK m \in Nat : PartAt(k, u, m) BY <1>1, <1>2, LessAt
  <2>2. CASE m < Len(p)
    <3>1. \A i \in 1..m : k[i] = p[i] BY <1>1, <2>1, <2>2 DEF PartAt
    <3>2. m <= Len(k) /\ (m = Len(k) \/ k[m + 1] < p[m + 1]) BY <1>1, <2>1, <2>2 DEF PartAt
    <3>3. m < Len(k) /\ ~(k[m + 1] < p[m + 1]) BY <1>2, <2>2, <3>1, <3>2, NotBelow
    <3> QED BY <1>1, <3>2, <3>3
  <2>3. CASE m = Len(p)
    <3>1. Len(p) <= Len(k) /\ \A i \in 1..Len(p) : p[i] = k[i] BY <1>1, <2>1, <2>3 DEF PartAt
    <3>2. IsPrefix(p, k) BY <3>1, PrefixAt
    <3> QED BY <1>1, <2>1, <2>3, <3>2 DEF PartAt
  <2>4. m < Len(p) + 1 BY <1>1, <2>1 DEF PartAt
  <2> QED BY <1>1, <2>2, <2>3, <2>4
<1>3. ASSUME IsPrefix(p, k), Len(k) = Len(p) \/ k[Len(p) + 1] < w PROVE AtMost(p, k) /\ Less(k, u)
  <2>1. AtMost(p, k) BY <1>3, PrefixesTogether
  <2>2. Len(p) <= Len(k) /\ \A i \in 1..Len(p) : p[i] = k[i] BY <1>3, PrefixAt
  <2>3. PartAt(k, u, Len(p)) BY <1>1, <1>3, <2>2 DEF PartAt
  <2> QED BY <1>1, <2>1, <2>3, LessAt
<1> QED BY <1>2, <1>3 DEF InRange, u

(* record_agent_upper_bound: from the agent's prefix up to it lie the      *)
(* agent's records and no others; trailing 0xff are passed over because no *)
(* name of the same length has more behind the raised byte.                *)
LEMMA RecordsRanged ==
    ASSUME WordsFit, NEW s \in Nat, NEW a \in Name, NEW b \in Name, NEW q \in Key
    PROVE  InRange(AgentKey(s, b, q), AgentPrefix(RECORD_PREFIX, a), record_agent_upper_bound(a))
             <=> s = RECORD_PREFIX /\ a = b
<1> DEFINE p == AgentPrefix(RECORD_PREFIX, a)
           k == AgentKey(s, b, q)
           raise == {i \in DOMAIN p : i <= 2 \/ p[i] < HIGH_BYTE}
           last == CHOOSE i \in raise : \A j \in raise : j <= i
           u == Append(SubSeq(p, 1, last - 1), p[last] + 1)
<1>1. a \in Key /\ b \in Key /\ RECORD_PREFIX \in Nat BY NamesAreKeys DEF RECORD_PREFIX
<1>0. /\ HIGH_BYTE \in Nat
      /\ \A i \in 1..Len(a) : a[i] \in 0..HIGH_BYTE
      /\ \A i \in 1..Len(b) : b[i] \in 0..HIGH_BYTE
  BY DEF WordsFit, Name
<1>2. /\ p \in Key /\ k \in Key /\ Len(a) \in Nat /\ Len(b) \in Nat /\ Len(k) \in Nat
      /\ Len(p) = 2 + Len(a) /\ p[1] = RECORD_PREFIX /\ p[2] = Len(a)
      /\ \A i \in 1..Len(a) : p[2 + i] = a[i]
  <2>1. /\ p \in Key /\ Len(p) = 2 + Len(a) /\ p[1] = RECORD_PREFIX /\ p[2] = Len(a)
        /\ \A i \in 1..Len(a) : p[2 + i] = a[i]
    BY <1>1, PrefixWords, Zenon
  <2>2. k \in Key BY <1>1, AgentKeys
  <2> HIDE DEF p, k
  <2> QED BY <1>1, <2>1, <2>2 DEF Key
<1>3. /\ Len(k) >= 2 + Len(b) /\ k[1] = s /\ k[2] = Len(b)
      /\ \A i \in 1..Len(b) : k[2 + i] = b[i]
  <2>1. /\ AgentPrefix(s, b) \in Key /\ Len(AgentPrefix(s, b)) = 2 + Len(b)
        /\ AgentPrefix(s, b)[1] = s /\ AgentPrefix(s, b)[2] = Len(b)
        /\ \A i \in 1..Len(b) : AgentPrefix(s, b)[2 + i] = b[i]
    BY <1>1, PrefixWords, Zenon
  <2>2. /\ Len(k) = Len(AgentPrefix(s, b)) + Len(q) /\ Len(q) \in Nat
        /\ \A i \in 1..Len(AgentPrefix(s, b)) : k[i] = AgentPrefix(s, b)[i]
    BY <2>1, Joined, Zenon DEF AgentKey
  <2> HIDE DEF k
  <2> QED BY <1>2, <2>1, <2>2
<1>4. /\ raise \subseteq Nat /\ 2 \in raise /\ DOMAIN p = 1..Len(p) BY <1>2 DEF Key
<1>5. /\ last \in raise /\ \A j \in raise : j <= last
  <2>1. \E i \in raise : \A j \in raise : j <= i
    <3> DEFINE left == {Len(p) - i : i \in raise}
    <3>1. \A i \in raise : i <= Len(p) BY <1>4
    <3> HIDE DEF p, raise
    <3>2. left \in SUBSET Nat /\ left # {} BY <1>2, <1>4, <3>1
    <3>3. PICK n \in left : \A m \in left : n <= m
      <4> HIDE DEF left
      <4> QED BY <3>2, LeastNumber
    <3>4. PICK i \in raise : n = Len(p) - i BY <3>3
    <3>5. \A j \in raise : Len(p) - i <= Len(p) - j BY <3>3, <3>4
    <3> QED BY <1>2, <1>4, <3>5
  <2> QED BY <2>1, Zenon
<1>6. u = record_agent_upper_bound(a) BY DEF record_agent_upper_bound
<1>7. last \in Nat /\ 2 <= last /\ last <= Len(p) BY <1>4, <1>5
<1>8. /\ u \in Key /\ Len(u) = last /\ u[last] = p[last] + 1
      /\ \A i \in 1..last - 1 : u[i] = p[i]
  <2> DEFINE v == SubSeq(p, 1, last - 1)
  <2> HIDE DEF last, p
  <2>1. p[last] \in Nat /\ \A i \in 1..last - 1 : p[i] \in Nat
    <3>1. p \in Key /\ Len(p) \in Nat BY <1>2
    <3>2. \A i \in 1..Len(p) : p[i] \in Nat BY <3>1 DEF Key
    <3> QED BY <1>7, <3>1, <3>2
  <2>2. v \in Seq(Nat) /\ Len(v) = last - 1 /\ \A i \in 1..last - 1 : v[i] = p[i]
    BY <1>2, <1>7, <2>1 DEF Key
  <2> HIDE DEF v
  <2>3. /\ Append(v, p[last] + 1) \in Seq(Nat) /\ Len(Append(v, p[last] + 1)) = last
        /\ Append(v, p[last] + 1)[last] = p[last] + 1
        /\ \A i \in 1..last - 1 : Append(v, p[last] + 1)[i] = p[i]
    BY <1>7, <2>1, <2>2
  <2> QED BY <2>3 DEF v, Key
<1>9. \A i \in 1..Len(p) : last < i => p[i] = HIGH_BYTE
  <2>1. ASSUME NEW i \in 1..Len(p), last < i PROVE p[i] = HIGH_BYTE
    <3>1. i \notin raise BY <1>5, <1>7, <2>1
    <3>2. ~(p[i] < HIGH_BYTE) /\ 2 < i BY <1>4, <3>1
    <3>3. i - 2 \in 1..Len(a) /\ p[2 + (i - 2)] = a[i - 2] BY <1>2, <3>2
    <3>4. a[i - 2] \in 0..HIGH_BYTE BY <1>0, <3>3
    <3> HIDE DEF p
    <3> QED BY <1>0, <1>2, <1>7, <3>2, <3>3, <3>4
  <2> QED BY <2>1
<1> HIDE DEF p, k, raise, last, u
<1>10. ASSUME s = RECORD_PREFIX, a = b PROVE InRange(k, p, u)
  <2>1. IsPrefix(p, k) BY <1>1, <1>10, AgentScanned DEF p, k
  <2>2. AtMost(p, k) BY <1>2, <2>1, PrefixesTogether
  <2>3. Len(p) <= Len(k) /\ \A i \in 1..Len(p) : p[i] = k[i] BY <1>2, <2>1, PrefixAt
  <2>4. PartAt(k, u, last - 1)
    <3>1. \A i \in 1..last - 1 : k[i] = u[i] BY <1>7, <1>8, <2>3
    <3>2. p[last] \in Nat BY <1>2, <1>7 DEF Key
    <3>3. k[last] = p[last] /\ k[last] < u[last] BY <1>7, <1>8, <2>3, <3>2
    <3> QED BY <1>2, <1>7, <1>8, <2>3, <3>1, <3>3 DEF PartAt
  <2>5. Less(k, u) BY <1>2, <1>7, <1>8, <2>4, LessAt
  <2> QED BY <2>2, <2>5 DEF InRange
<1>11. ASSUME AtMost(p, k), Less(k, u) PROVE s = RECORD_PREFIX /\ a = b
  <2>1. PICK m \in Nat : PartAt(k, u, m) BY <1>2, <1>8, <1>11, LessAt
  <2>2. m < last /\ m <= Len(k) /\ \A i \in 1..m : k[i] = p[i]
    BY <1>7, <1>8, <2>1 DEF PartAt
  <2>3. m < Len(k) /\ ~(k[m + 1] < p[m + 1])
    <3>1. m < Len(p) BY <1>2, <1>7, <2>2
    <3>2. p \in Key /\ k \in Key /\ AtMost(p, k) BY <1>2, <1>11
    <3> QED BY <2>2, <3>1, <3>2, NotBelow
  <2>4. k[m + 1] < u[m + 1] BY <1>2, <2>1, <2>3 DEF PartAt
  <2>5. k[m + 1] \in Nat /\ p[m + 1] \in Nat
    <3>1. m + 1 \in 1..Len(k) /\ m + 1 \in 1..Len(p) BY <1>2, <1>7, <2>2, <2>3
    <3>2. p \in Key /\ k \in Key BY <1>2
    <3> QED BY <3>1, <3>2 DEF Key
  <2>6. m = last - 1
    <3>1. CASE m < last - 1
      <4>1. u[m + 1] = p[m + 1] BY <1>7, <1>8, <3>1
      <4> QED BY <2>3, <2>4, <4>1
    <3> QED BY <1>7, <2>2, <3>1
  <2>7. k[last] = p[last] BY <1>7, <1>8, <2>3, <2>4, <2>5, <2>6
  <2>8. \A i \in 1..last : k[i] = p[i] BY <1>7, <2>2, <2>6, <2>7
  <2>9. s = RECORD_PREFIX /\ Len(b) = Len(a)
    BY <1>2, <1>3, <1>7, <2>8
  <2>10. IsPrefix(p, k)
    <3>1. CASE p = k BY <1>2, <3>1, PrefixAt
    <3>2. CASE Less(p, k)
      <4>1. PICK n \in Nat : PartAt(p, k, n) BY <1>2, <3>2, LessAt
      <4>2. CASE n = Len(p) BY <1>2, <4>1, <4>2, PrefixAt DEF PartAt
      <4>3. CASE n # Len(p)
        <5>1. n < Len(p) /\ p[n + 1] < k[n + 1] BY <1>2, <4>1, <4>3 DEF PartAt
        <5>2. ~(n + 1 <= last)
          <6>1. CASE n + 1 <= last
            <7>1. k[n + 1] = p[n + 1] /\ p[n + 1] \in Nat BY <1>2, <1>7, <2>8, <5>1, <6>1 DEF Key
            <7> QED BY <5>1, <7>1
          <6> QED BY <6>1
        <5>3. p[n + 1] = HIGH_BYTE BY <1>2, <1>7, <1>9, <5>1, <5>2
        <5>4. n - 1 \in 1..Len(b) /\ k[2 + (n - 1)] = b[n - 1] BY <1>2, <1>3, <1>7, <2>9, <5>1, <5>2
        <5>5. b[n - 1] \in 0..HIGH_BYTE BY <1>0, <5>4
        <5>6. k[n + 1] = b[n - 1] BY <5>4
        <5> QED BY <1>0, <5>1, <5>3, <5>5, <5>6
      <4> QED BY <4>2, <4>3
    <3> QED BY <1>11, <3>1, <3>2 DEF AtMost
  <2> QED BY <1>1, <2>9, <2>10, AgentScanned DEF p, k
<1> QED BY <1>6, <1>10, <1>11 DEF InRange, p, k


(* ---------------------------- the families ----------------------------- *)
(* The keys of a store, written the same way: the prefix of a space and of *)
(* an agent, and what stands behind it.                                    *)
TimeWord(t) == t + (I64_MAX + 1)

(* Times sort as their words do (sortable_i64, key/mod.rs).                *)
LEMMA TimesSort ==
    ASSUME WordsFit
    PROVE  /\ \A t \in Time : TimeWord(t) \in Nat /\ sortable(t) = TimeWord(t) /\ from_sortable(sortable(t)) = t
           /\ \A t \in Time \ {I64_MAX} : saturating_add(t, 1) = t + 1 /\ t + 1 \in Time
           /\ \A t, at \in Time : TimeWord(t) < TimeWord(at) <=> t < at
<1>1. ASSUME NEW n \in Nat, NEW m \in Nat, n < m PROVE n % m = n BY <1>1
<1>2. I64_MAX \in Nat BY DEF WordsFit
<1>3. ASSUME NEW t \in Time
      PROVE  TimeWord(t) \in Nat /\ sortable(t) = TimeWord(t) /\ from_sortable(sortable(t)) = t
  <2>1. /\ t \in Int /\ TimeWord(t) \in Nat /\ WIDTH \in Nat /\ TimeWord(t) < WIDTH
        /\ t + I64_MAX + 1 = TimeWord(t)
    BY <1>2 DEF Time, TimeWord, WIDTH
  <2>2. sortable(t) = TimeWord(t) BY <1>1, <2>1 DEF sortable
  <2> QED BY <1>2, <2>1, <2>2 DEF from_sortable, TimeWord
<1>4. /\ \A t \in Time \ {I64_MAX} : saturating_add(t, 1) = t + 1 /\ t + 1 \in Time
      /\ \A t, at \in Time : TimeWord(t) < TimeWord(at) <=> t < at
  BY <1>2 DEF Time, TimeWord, saturating_add
<1> QED BY <1>3, <1>4

(* A key whose names are not too long is written.                          *)
LEMMA KeyGot ==
    /\ \A a, key : ~TooLong(a) => Keyed(<<a>>, key) = Got(key)
    /\ \A a, key : TooLong(a) => ~Keyed(<<a>>, key).ok
    /\ \A key : Got(key).value = key
<1>1. ASSUME NEW a, NEW key, ~TooLong(a) PROVE Keyed(<<a>>, key) = Got(key)
  <2>1. ASSUME NEW i \in DOMAIN <<a>> PROVE ~TooLong(<<a>>[i])
    <3>1. <<a>>[i] = a OBVIOUS
    <3> QED BY <1>1, <3>1, Zenon
  <2> QED BY <2>1, Zenon DEF Keyed
<1>2. ASSUME NEW a, NEW key, TooLong(a) PROVE ~Keyed(<<a>>, key).ok
  <2>1. 1 \in DOMAIN <<a>> /\ TooLong(<<a>>[1]) BY <1>2
  <2> QED BY <2>1 DEF Keyed, Refused
<1>3. \A key : Got(key).value = key BY DEF Got
<1> QED BY <1>1, <1>2, <1>3

(* A key of two names that fit is written.                                 *)
LEMMA WrittenTwo ==
    ASSUME NEW a, NEW b, NEW key, ~TooLong(a), ~TooLong(b) PROVE Keyed(<<a, b>>, key) = Got(key)
<1>1. ASSUME NEW i \in DOMAIN <<a, b>> PROVE ~TooLong(<<a, b>>[i])
  <2>1. <<a, b>>[i] = a \/ <<a, b>>[i] = b OBVIOUS
  <2> QED BY <2>1, Zenon
<1> QED BY <1>1, Zenon DEF Keyed

(* A key of three names is written when all fit, refused when the second   *)
(* does not.                                                               *)
LEMMA WrittenThree ==
    ASSUME NEW a, NEW b, NEW c, NEW key
    PROVE  /\ ~TooLong(a) /\ ~TooLong(b) /\ ~TooLong(c) => Keyed(<<a, b, c>>, key) = Got(key)
           /\ TooLong(b) => ~Keyed(<<a, b, c>>, key).ok
<1>1. ASSUME ~TooLong(a), ~TooLong(b), ~TooLong(c) PROVE Keyed(<<a, b, c>>, key) = Got(key)
  <2>1. ASSUME NEW i \in DOMAIN <<a, b, c>> PROVE ~TooLong(<<a, b, c>>[i])
    <3>1. <<a, b, c>>[i] = a \/ <<a, b, c>>[i] = b \/ <<a, b, c>>[i] = c OBVIOUS
    <3> QED BY <1>1, <3>1, Zenon
  <2> QED BY <2>1, Zenon DEF Keyed
<1>2. ASSUME TooLong(b) PROVE ~Keyed(<<a, b, c>>, key).ok
  <2>1. 2 \in DOMAIN <<a, b, c>> /\ TooLong(<<a, b, c>>[2]) BY <1>2
  <2> QED BY <2>1 DEF Keyed, Refused
<1> QED BY <1>1, <1>2

(* Something behind a key.                                                 *)
LEMMA Appended == \A p \in Key, w \in Nat : Append(p, w) = p \o <<w>> /\ <<w>> \in Key
<1> SUFFICES ASSUME NEW p \in Key, NEW w \in Nat PROVE Append(p, w) = p \o <<w>> /\ <<w>> \in Key
  OBVIOUS
<1>1. <<w>> \in Key BY DEF Key
<1>2. /\ Append(p, w) \in Seq(Nat) /\ p \o <<w>> \in Seq(Nat) /\ Len(Append(p, w)) = Len(p \o <<w>>)
      /\ \A i \in 1..Len(Append(p, w)) : Append(p, w)[i] = (p \o <<w>>)[i]
  BY <1>1 DEF Key
<1> QED BY <1>1, <1>2, SeqEqual

(* Each kind of key as what stands behind an agent's prefix.               *)
LEMMA KeysWritten ==
    /\ \A a, b, c, d \in Key :
         ~TooLong(a) /\ ~TooLong(b) /\ ~TooLong(c)
           => edge_key(a, b, c, d).value = AgentKey(EDGE_PREFIX, a, Behind(b, Behind(c, d)))
    /\ \A a, b \in Key, n \in Nat :
         ~TooLong(a) /\ ~TooLong(b) => postings_key(a, b, n).value = AgentKey(POSTINGS_PREFIX, a, Behind(b, <<n>>))
    /\ \A a, d \in Key :
         ~TooLong(a) => /\ record_key(a, d).value = AgentKey(RECORD_PREFIX, a, d)
                        /\ entity_key(a, d).value = AgentKey(ENTITY_PREFIX, a, d)
    /\ \A a \in Key, n \in Nat : ~TooLong(a) => docterms_key(a, n).value = AgentKey(DOCTERMS_PREFIX, a, <<n>>)
    /\ \A a \in Key :
         ~TooLong(a) => /\ fts_meta_key(a).value = AgentKey(FTS_META_PREFIX, a, <<>>)
                        /\ agent_key(a).value = AgentKey(REGISTRY_PREFIX, a, <<>>)
<1>1. EDGE_PREFIX \in Nat /\ POSTINGS_PREFIX \in Nat /\ DOCTERMS_PREFIX \in Nat
  BY DEF EDGE_PREFIX, POSTINGS_PREFIX, DOCTERMS_PREFIX
<1>2. /\ \A n \in Nat : <<n>> \in Key
      /\ \A p \in Key, n \in Nat : Append(p, n) = p \o <<n>>
      /\ \A p \in Key : p \o <<>> = p
      /\ \A s \in Nat, a \in Key : AgentPrefix(s, a) \in Key
  <2>1. \A n \in Nat : <<n>> \in Key BY DEF Key
  <2>2. \A p \in Key : p \o <<>> = p BY ConcatEmptySeq DEF Key
  <2>3. <<>> \in Key BY DEF Key
  <2> QED BY <2>1, <2>2, <2>3, Appended, AgentKeys, Zenon
<1>3. ASSUME NEW a \in Key, NEW b \in Key, NEW c \in Key, NEW d \in Key, ~TooLong(a), ~TooLong(b), ~TooLong(c)
      PROVE  edge_key(a, b, c, d).value = AgentKey(EDGE_PREFIX, a, Behind(b, Behind(c, d)))
  <2>1. edge_key(a, b, c, d).value = (NamePrefix(EDGE_PREFIX, a, b) \o push_len_prefixed(c)) \o d
    <3>1. edge_key(a, b, c, d)
            = Keyed(<<a, b, c>>, (NamePrefix(EDGE_PREFIX, a, b) \o push_len_prefixed(c)) \o d)
      BY Zenon DEF edge_key
    <3>2. \A key : Keyed(<<a, b, c>>, key) = Got(key) BY <1>3, WrittenThree, Zenon
    <3>3. \A key : Got(key).value = key BY KeyGot, Zenon
    <3> QED BY <3>1, <3>2, <3>3, Zenon
  <2>2. NamePrefix(EDGE_PREFIX, a, b) \in Key /\ push_len_prefixed(c) \in Key
    BY <1>1, NamesJoined, TakenBack, Zenon
  <2>3. edge_key(a, b, c, d).value = NamePrefix(EDGE_PREFIX, a, b) \o Behind(c, d)
    <3>1. \A x \in Key : (NamePrefix(EDGE_PREFIX, a, b) \o push_len_prefixed(c)) \o x
                           = NamePrefix(EDGE_PREFIX, a, b) \o (push_len_prefixed(c) \o x)
      BY <2>2, JoinedTwice, Zenon
    <3> QED BY <2>1, <3>1, Zenon DEF Behind
  <2>4. Behind(c, d) \in Key BY AgentKeys, Zenon
  <2>5. ASSUME NEW x \in Key PROVE NamePrefix(EDGE_PREFIX, a, b) \o x = AgentKey(EDGE_PREFIX, a, Behind(b, x))
    <3>1. EDGE_PREFIX \in Nat BY <1>1
    <3> QED BY <3>1, NamesJoinedTo, Zenon
  <2> QED BY <2>3, <2>4, <2>5, Zenon
<1>4. ASSUME NEW a \in Key, NEW b \in Key, NEW n \in Nat, ~TooLong(a), ~TooLong(b)
      PROVE  postings_key(a, b, n).value = AgentKey(POSTINGS_PREFIX, a, Behind(b, <<n>>))
  <2>1. postings_key(a, b, n).value = Append(NamePrefix(POSTINGS_PREFIX, a, b), n)
    <3>1. postings_key(a, b, n) = Keyed(<<a, b>>, Append(NamePrefix(POSTINGS_PREFIX, a, b), n))
      BY Zenon DEF postings_key
    <3>2. \A key : Keyed(<<a, b>>, key) = Got(key) BY <1>4, WrittenTwo, Zenon
    <3>3. \A key : Got(key).value = key BY KeyGot, Zenon
    <3> QED BY <3>1, <3>2, <3>3, Zenon
  <2>2. NamePrefix(POSTINGS_PREFIX, a, b) \in Key BY <1>1, NamesJoined, Zenon
  <2>3. postings_key(a, b, n).value = NamePrefix(POSTINGS_PREFIX, a, b) \o <<n>>
    BY <1>2, <2>1, <2>2, Zenon
  <2>4. ASSUME NEW x \in Key PROVE NamePrefix(POSTINGS_PREFIX, a, b) \o x = AgentKey(POSTINGS_PREFIX, a, Behind(b, x))
    <3>1. POSTINGS_PREFIX \in Nat BY <1>1
    <3> QED BY <3>1, NamesJoinedTo, Zenon
  <2> QED BY <1>2, <2>3, <2>4, Zenon
<1>5. ASSUME NEW a \in Key, NEW d \in Key, ~TooLong(a)
      PROVE  /\ record_key(a, d).value = AgentKey(RECORD_PREFIX, a, d)
             /\ entity_key(a, d).value = AgentKey(ENTITY_PREFIX, a, d)
  BY <1>5, KeyGot, Zenon DEF record_key, entity_key, AgentKey
<1>6. ASSUME NEW a \in Key, NEW n \in Nat, ~TooLong(a)
      PROVE  docterms_key(a, n).value = AgentKey(DOCTERMS_PREFIX, a, <<n>>)
  <2>1. docterms_key(a, n).value = Append(AgentPrefix(DOCTERMS_PREFIX, a), n)
    BY <1>6, KeyGot, Zenon DEF docterms_key
  <2> QED BY <1>1, <1>2, <2>1, Zenon DEF AgentKey
<1>7. ASSUME NEW a \in Key, ~TooLong(a)
      PROVE  /\ fts_meta_key(a).value = AgentKey(FTS_META_PREFIX, a, <<>>)
             /\ agent_key(a).value = AgentKey(REGISTRY_PREFIX, a, <<>>)
  <2>1. /\ fts_meta_key(a).value = AgentPrefix(FTS_META_PREFIX, a)
        /\ agent_key(a).value = AgentPrefix(REGISTRY_PREFIX, a)
    BY <1>7, KeyGot, Zenon DEF fts_meta_key, agent_key
  <2>2. FTS_META_PREFIX \in Nat /\ REGISTRY_PREFIX \in Nat BY DEF FTS_META_PREFIX, REGISTRY_PREFIX
  <2> QED BY <1>2, <2>1, <2>2, Zenon DEF AgentKey
<1> QED BY <1>3, <1>4, <1>5, <1>6, <1>7

(* The expiry key is the agent's prefix, the time's word and the id.       *)
LEMMA ExpiriesWritten ==
    ASSUME WordsFit, NEW a \in Key, NEW d \in Key, NEW t \in Time, ~TooLong(a)
    PROVE  /\ <<TimeWord(t)>> \o d \in Key
           /\ expiry_key(a, t, d).value = AgentKey(EXPIRY_PREFIX, a, <<TimeWord(t)>> \o d)
<1>1. EXPIRY_PREFIX \in Nat BY DEF EXPIRY_PREFIX
<1>2. AgentPrefix(EXPIRY_PREFIX, a) \in Key BY <1>1, AgentKeys
<1>3. TimeWord(t) \in Nat /\ sortable(t) = TimeWord(t) BY TimesSort
<1>4. <<TimeWord(t)>> \in Key BY <1>3, <1>2, Appended
<1>5. <<TimeWord(t)>> \o d \in Key BY <1>4, Joined
<1>6. expiry_key(a, t, d).value = Append(AgentPrefix(EXPIRY_PREFIX, a), sortable(t)) \o d
  BY KeyGot, Zenon DEF expiry_key
<1>7. Append(AgentPrefix(EXPIRY_PREFIX, a), TimeWord(t)) = AgentPrefix(EXPIRY_PREFIX, a) \o <<TimeWord(t)>>
  BY <1>2, <1>3, Appended, Zenon
<1>8. \A x \in Key : (AgentPrefix(EXPIRY_PREFIX, a) \o <<TimeWord(t)>>) \o x
                       = AgentPrefix(EXPIRY_PREFIX, a) \o (<<TimeWord(t)>> \o x)
  BY <1>2, <1>4, JoinedTwice, Zenon
<1> QED BY <1>3, <1>5, <1>6, <1>7, <1>8, Zenon DEF AgentKey


(* ----------------------------- reading back ---------------------------- *)
(* Of a key of two words and more: its first, its last.                    *)
LEMMA RestOfAll == \A k \in Key : Rest(k, 0) = k
<1> SUFFICES ASSUME NEW k \in Key PROVE Rest(k, 0) = k
  OBVIOUS
<1>1. <<>> \in Key /\ Len(<<>>) = 0 BY DEF Key
<1>2. <<>> \o k = k BY ConcatEmptySeq DEF Key
<1>3. Rest(<<>> \o k, Len(<<>>)) = k BY <1>1, Joined, Zenon
<1> QED BY <1>1, <1>2, <1>3, Zenon

(* A length-prefixed name is read back, with the rest behind it.           *)
LEMMA BehindRead ==
    \A a, r \in Key : /\ take_len_prefixed(Behind(a, r)) # None
                      /\ take_len_prefixed(Behind(a, r))[1].name = a
                      /\ take_len_prefixed(Behind(a, r))[1].rest = r
<1> SUFFICES ASSUME NEW a \in Key, NEW r \in Key
             PROVE  /\ take_len_prefixed(Behind(a, r)) # None
                    /\ take_len_prefixed(Behind(a, r))[1].name = a
                    /\ take_len_prefixed(Behind(a, r))[1].rest = r
  OBVIOUS
<1>1. take_len_prefixed(Behind(a, r)) = Some([name |-> a, rest |-> r]) BY TakenBack, Zenon DEF Behind
<1>2. \A v : Some(v) # None /\ Some(v)[1] = v BY DEF Some, None
<1>3. [name |-> a, rest |-> r].name = a /\ [name |-> a, rest |-> r].rest = r OBVIOUS
<1> QED BY <1>1, <1>2, <1>3, Zenon

(* What the decoders of edge keys give (edge_relation_dst,                 *)
(* edge_src_relation_dst).                                                 *)
LEMMA EdgesRead ==
    ASSUME NEW a \in Key, NEW b \in Key, NEW c \in Key, NEW d \in Key
    PROVE  /\ edge_relation_dst(Len(NamePrefix(EDGE_PREFIX, a, b)), AgentKey(EDGE_PREFIX, a, Behind(b, Behind(c, d))))
                = Some(<<c, d>>)
           /\ edge_src_relation_dst(Len(AgentPrefix(EDGE_PREFIX, a)), AgentKey(EDGE_PREFIX, a, Behind(b, Behind(c, d))))
                = Some(<<b, c, d>>)
<1> DEFINE k == AgentKey(EDGE_PREFIX, a, Behind(b, Behind(c, d)))
           n == Len(NamePrefix(EDGE_PREFIX, a, b))
           m == Len(AgentPrefix(EDGE_PREFIX, a))
<1>1. EDGE_PREFIX \in Nat BY DEF EDGE_PREFIX
<1>2. Behind(c, d) \in Key /\ Behind(b, Behind(c, d)) \in Key
  <2>1. Behind(c, d) \in Key BY AgentKeys, Zenon
  <2> QED BY <2>1, AgentKeys, Zenon
<1>3. Rest(k, n) = Behind(c, d)
  <2>1. \A x \in Key : Rest(AgentKey(EDGE_PREFIX, a, Behind(b, x)), Len(NamePrefix(EDGE_PREFIX, a, b))) = x
    BY <1>1, NamesJoined, Zenon
  <2> QED BY <1>2, <2>1, Zenon
<1>4. Rest(k, m) = Behind(b, Behind(c, d)) BY <1>1, <1>2, AgentKeys, Zenon
<1>5. Rest(Behind(c, d), 0) = Behind(c, d) BY <1>2, RestOfAll, Zenon
<1>10. /\ take_len_prefixed(Behind(c, d)) # None
       /\ take_len_prefixed(Behind(c, d))[1].name = c
       /\ take_len_prefixed(Behind(c, d))[1].rest = d
  BY BehindRead, Zenon
<1>11. /\ take_len_prefixed(Behind(b, Behind(c, d))) # None
       /\ take_len_prefixed(Behind(b, Behind(c, d)))[1].name = b
       /\ take_len_prefixed(Behind(b, Behind(c, d)))[1].rest = Behind(c, d)
  BY <1>2, BehindRead, Zenon
<1> HIDE DEF k, n, m
<1>6. edge_relation_dst(n, k) = Some(<<c, d>>)
  BY <1>3, <1>10, Zenon DEF edge_relation_dst
<1>7. edge_relation_dst(0, Behind(c, d)) = Some(<<c, d>>)
  BY <1>5, <1>10, Zenon DEF edge_relation_dst
<1>8. edge_src_relation_dst(m, k) = Some(<<b>> \o <<c, d>>)
  <2>1. /\ take_len_prefixed(Rest(k, m)) # None
        /\ take_len_prefixed(Rest(k, m))[1].name = b
        /\ take_len_prefixed(Rest(k, m))[1].rest = Behind(c, d)
    BY <1>4, <1>11, Zenon
  <2>2. \A v : Some(v) # None /\ Some(v)[1] = v BY DEF Some, None
  <2> QED BY <1>7, <2>1, <2>2, Zenon DEF edge_src_relation_dst
<1>9. <<b>> \o <<c, d>> = <<b, c, d>>
  <2>1. <<b>> \in Seq(Key) /\ <<c, d>> \in Seq(Key) /\ <<b, c, d>> \in Seq(Key) OBVIOUS
  <2>2. /\ <<b>> \o <<c, d>> \in Seq(Key) /\ Len(<<b>> \o <<c, d>>) = 3
        /\ \A i \in 1..3 : (<<b>> \o <<c, d>>)[i] = <<b, c, d>>[i]
    BY <2>1
  <2> QED BY <2>1, <2>2, SeqEqual
<1> QED BY <1>6, <1>8, <1>9 DEF k, n, m

(* What stands behind a prefix, read back (record_id, entity_id).          *)
LEMMA NamesRead ==
    ASSUME NEW s \in Nat, NEW a \in Key, NEW d \in Key
    PROVE  NameAfter(s, Len(AgentPrefix(s, a)), AgentKey(s, a, d)) = Some(d)
<1>1. /\ AgentKey(s, a, d) # <<>> /\ AgentKey(s, a, d)[1] = s /\ AgentPrefix(s, a) \in Key
      /\ Rest(AgentKey(s, a, d), Len(AgentPrefix(s, a))) = d
  BY AgentKeys, Zenon
<1>2. Len(AgentKey(s, a, d)) >= Len(AgentPrefix(s, a)) BY <1>1, Joined DEF AgentKey
<1> QED BY <1>1, <1>2 DEF NameAfter, StartsWith

(* A posting's id (postings_vec_id).                                       *)
LEMMA PostsRead ==
    ASSUME NEW a \in Key, NEW b \in Key, NEW n \in Nat
    PROVE  postings_vec_id(Len(NamePrefix(POSTINGS_PREFIX, a, b)), AgentKey(POSTINGS_PREFIX, a, Behind(b, <<n>>))) = Some(n)
<1> DEFINE p == NamePrefix(POSTINGS_PREFIX, a, b)
<1>1. POSTINGS_PREFIX \in Nat /\ <<n>> \in Key BY DEF POSTINGS_PREFIX, Key
<1>2. p \in Key /\ AgentKey(POSTINGS_PREFIX, a, Behind(b, <<n>>)) = p \o <<n>>
  BY <1>1, NamesJoined, NamesJoinedTo, Zenon
<1> HIDE DEF p
<1>3. Len(p \o <<n>>) = Len(p) + 1 /\ (p \o <<n>>)[Len(p) + 1] = n BY <1>2 DEF Key
<1> QED BY <1>2, <1>3 DEF p, postings_vec_id, IdAfter

(* An expiry's time and id (expiry_decode), and where its time stands.     *)
LEMMA ExpiriesRead ==
    ASSUME WordsFit, NEW a \in Key, NEW d \in Key, NEW t \in Time
    PROVE  LET n == Len(AgentPrefix(EXPIRY_PREFIX, a))
               k == AgentKey(EXPIRY_PREFIX, a, <<TimeWord(t)>> \o d)
           IN k \in Key /\ Len(k) > n /\ k[n + 1] = TimeWord(t) /\ expiry_decode(n, k) = Some(<<t, d>>)
<1> DEFINE p == AgentPrefix(EXPIRY_PREFIX, a)
           w == TimeWord(t)
           v == p \o <<w>>
           k == AgentKey(EXPIRY_PREFIX, a, <<w>> \o d)
<1>1. EXPIRY_PREFIX \in Nat BY DEF EXPIRY_PREFIX
<1>2. w \in Nat /\ from_sortable(w) = t
  <2>1. sortable(t) = w /\ w \in Nat /\ from_sortable(sortable(t)) = t BY TimesSort
  <2> QED BY <2>1, Zenon
<1>3. p \in Key BY <1>1, AgentKeys
<1> HIDE DEF w
<1>4. <<w>> \in Key /\ Len(<<w>>) = 1 /\ <<w>>[1] = w BY <1>2 DEF Key
<1>5. <<w>> \o d \in Key BY <1>4, Joined
<1>6. k \in Key /\ k # <<>> /\ k[1] = EXPIRY_PREFIX BY <1>1, <1>5, AgentKeys
<1>7. k = v \o d
  <2>1. \A x \in Key : (p \o <<w>>) \o x = p \o (<<w>> \o x) BY <1>3, <1>4, JoinedTwice, Zenon
  <2> QED BY <2>1, Zenon DEF AgentKey
<1> HIDE DEF p, k
<1>8. v \in Key /\ Len(v) = Len(p) + 1 /\ Len(p) \in Nat /\ v[Len(p) + 1] = w BY <1>3, <1>4 DEF Key
<1> HIDE DEF v
<1>9. Len(k) = Len(v) + Len(d) /\ Len(d) \in Nat /\ Rest(k, Len(v)) = d /\ \A i \in 1..Len(v) : k[i] = v[i]
  BY <1>7, <1>8, Joined, Zenon
<1>10. Len(k) > Len(p) /\ ~(Len(k) < Len(p) + 1) /\ k[Len(p) + 1] = w /\ Rest(k, Len(p) + 1) = d
  BY <1>8, <1>9
<1>11. expiry_decode(Len(p), k) = Some(<<t, d>>)
  BY <1>2, <1>6, <1>10, Zenon DEF expiry_decode, StartsWith
<1> QED BY <1>6, <1>10, <1>11 DEF p, k, w

(* The name of a registered agent (agent_decode).                          *)
LEMMA AgentsRead ==
    ASSUME NEW a \in Key
    PROVE  agent_decode(AgentKey(REGISTRY_PREFIX, a, <<>>)) = Some(a)
<1>1. REGISTRY_PREFIX \in Nat /\ <<>> \in Key BY DEF REGISTRY_PREFIX, Key
<1>2. /\ AgentKey(REGISTRY_PREFIX, a, <<>>) # <<>> /\ AgentKey(REGISTRY_PREFIX, a, <<>>)[1] = REGISTRY_PREFIX
      /\ Rest(AgentKey(REGISTRY_PREFIX, a, <<>>), 1) = Behind(a, <<>>)
  BY <1>1, AgentKeys, Zenon
<1>3. /\ take_len_prefixed(Behind(a, <<>>)) # None
      /\ take_len_prefixed(Behind(a, <<>>))[1].name = a
      /\ take_len_prefixed(Behind(a, <<>>))[1].rest = <<>>
  BY <1>1, BehindRead, Zenon
<1> QED BY <1>2, <1>3, Zenon DEF agent_decode, StartsWith

(* The keys of nodes and of their labels: one id behind one prefix, in the *)
(* order of the ids.                                                       *)
LEMMA IdsRead ==
    ASSUME NEW i \in Nat, NEW j \in Nat
    PROVE  /\ node_key(i).value = <<NODE_PREFIX, i>> /\ vecmap_key(i).value = <<VECMAP_PREFIX, i>>
           /\ node_id(node_key(i).value) = Some(i) /\ vecmap_id(vecmap_key(i).value) = Some(i)
           /\ vecmap_id(node_key(i).value) = None
           /\ Less(node_key(i).value, node_key(j).value) <=> i < j
<1>1. /\ node_key(i).value = <<NODE_PREFIX, i>> /\ vecmap_key(i).value = <<VECMAP_PREFIX, i>>
      /\ node_key(j).value = <<NODE_PREFIX, j>>
  BY KeyGot, Zenon DEF node_key, vecmap_key
<1>2. NODE_PREFIX \in Nat /\ VECMAP_PREFIX \in Nat /\ NODE_PREFIX # VECMAP_PREFIX
  BY DEF NODE_PREFIX, VECMAP_PREFIX
<1>3. \A s, n : /\ Len(<<s, n>>) = 1 + 1 /\ <<s, n>> # <<>>
                /\ <<s, n>>[1] = s /\ <<s, n>>[1 + 1] = n
  OBVIOUS
<1>4. node_id(<<NODE_PREFIX, i>>) = Some(i)
  BY <1>3, Zenon DEF node_id, StartsWith, IdAfter
<1>5. vecmap_id(<<VECMAP_PREFIX, i>>) = Some(i)
  BY <1>3, Zenon DEF vecmap_id, StartsWith, IdAfter
<1>6. vecmap_id(<<NODE_PREFIX, i>>) = None
  BY <1>2, <1>3, Zenon DEF vecmap_id, StartsWith
<1>7. Less(<<NODE_PREFIX, i>>, <<NODE_PREFIX, j>>) <=> i < j
  <2>1. <<NODE_PREFIX, i>> \in Key /\ <<NODE_PREFIX, j>> \in Key BY <1>2 DEF Key
  <2>2. ASSUME i < j PROVE PartAt(<<NODE_PREFIX, i>>, <<NODE_PREFIX, j>>, 1)
    BY <2>2 DEF PartAt
  <2>3. ASSUME NEW n \in Nat, PartAt(<<NODE_PREFIX, i>>, <<NODE_PREFIX, j>>, n) PROVE i < j
    <3>1. n <= 2 /\ n < 2 BY <2>3 DEF PartAt
    <3>2. CASE n = 0 BY <1>2, <2>3, <3>2 DEF PartAt
    <3>3. CASE n = 1 BY <2>3, <3>3 DEF PartAt
    <3> QED BY <3>1, <3>2, <3>3
  <2> QED BY <2>1, <2>2, <2>3, LessAt
<1> QED BY <1>1, <1>4, <1>5, <1>6, <1>7, Zenon


(* ------------------------------ a store's keys ------------------------- *)
(* The names, ids and times a store uses: finitely many, of any length.    *)
Used(names, ids, times) ==
    /\ names \subseteq Name /\ IsFiniteSet(names)
    /\ ids \subseteq Nat /\ IsFiniteSet(ids)
    /\ times \subseteq Time

(* What the hypothesis on names, ids and times gives the proofs below.     *)
LEMMA UsedFits ==
    ASSUME WordsFit, NEW names, NEW ids, NEW times, Used(names, ids, times)
    PROVE  /\ \A n \in names : n \in Name /\ n \in Key
           /\ \A n \in Fits(names) : n \in names /\ n \in Name /\ n \in Key /\ ~TooLong(n)
           /\ IsFiniteSet(Fits(names)) /\ IsFiniteSet(names) /\ IsFiniteSet(ids) /\ IsFiniteSet(times)
           /\ \A s : IsFiniteSet({s})
           /\ \A s, t : IsFiniteSet({s, t})
<1>1. Fits(names) \subseteq names /\ \A n \in Fits(names) : ~TooLong(n) BY DEF Fits
<1>2. IsFiniteSet(Fits(names)) BY <1>1, FS_Subset DEF Used
<1>3. IsFiniteSet(times)
  <2>1. -(I64_MAX + 1) \in Int /\ I64_MAX \in Int BY DEF WordsFit
  <2>2. IsFiniteSet(Time) BY <2>1, FS_Interval DEF Time
  <2> QED BY <2>2, FS_Subset DEF Used
<1>4. \A s : IsFiniteSet({s}) BY FS_Singleton
<1>5. \A s, t : IsFiniteSet({s, t})
  <2>1. ASSUME NEW s, NEW t PROVE IsFiniteSet({s, t})
    <3>1. IsFiniteSet({s} \cup {t}) BY <1>4, FS_Union
    <3>2. {s} \cup {t} = {s, t} OBVIOUS
    <3> QED BY <3>1, <3>2
  <2> QED BY <2>1
<1> QED BY <1>1, <1>2, <1>3, <1>4, <1>5, NamesAreKeys DEF Used

(* What each family's keys are, and that no two of one family are one.     *)
LEMMA EdgeKeys ==
    ASSUME WordsFit, NEW names, NEW ids, NEW times, Used(names, ids, times)
    PROVE  /\ \A e \in DOMAIN Edges(names) :
                /\ e[2] \in Fits(names) /\ e[3] \in Fits(names) /\ e[4] \in Fits(names) /\ e[5] \in names
                /\ e = <<"edge", e[2], e[3], e[4], e[5]>>
                /\ Edges(names)[e] = AgentKey(EDGE_PREFIX, e[2], Behind(e[3], Behind(e[4], e[5])))
           /\ Injective(Edges(names))
<1> DEFINE F == Fits(names)
           D == {"edge"} \X F \X F \X F \X names
           f == Edges(names)
<1>1. DOMAIN f = D /\ f = [x \in DOMAIN f |-> f[x]]
      /\ \A e \in D : f[e] = edge_key(e[2], e[3], e[4], e[5]).value
  BY DEF Edges
<1>2. \A e \in D : /\ e[2] \in F /\ e[3] \in F /\ e[4] \in F /\ e[5] \in names
                   /\ e = <<"edge", e[2], e[3], e[4], e[5]>>
  OBVIOUS
<1> HIDE DEF f, D
<1>3. ASSUME NEW e \in D
      PROVE  /\ e[2] \in Key /\ e[3] \in Key /\ e[4] \in Key /\ e[5] \in Key
             /\ f[e] = AgentKey(EDGE_PREFIX, e[2], Behind(e[3], Behind(e[4], e[5])))
  <2>1. /\ e[2] \in Key /\ e[3] \in Key /\ e[4] \in Key /\ e[5] \in Key
        /\ ~TooLong(e[2]) /\ ~TooLong(e[3]) /\ ~TooLong(e[4])
    BY <1>2, UsedFits
  <2>2. edge_key(e[2], e[3], e[4], e[5]).value = AgentKey(EDGE_PREFIX, e[2], Behind(e[3], Behind(e[4], e[5])))
    <3>1. PICK a, b, c, d : a = e[2] /\ b = e[3] /\ c = e[4] /\ d = e[5] OBVIOUS
    <3>2. /\ a \in Key /\ b \in Key /\ c \in Key /\ d \in Key /\ ~TooLong(a) /\ ~TooLong(b) /\ ~TooLong(c)
      BY <2>1, <3>1, Zenon
    <3>3. edge_key(a, b, c, d).value = AgentKey(EDGE_PREFIX, a, Behind(b, Behind(c, d))) BY <3>2, KeysWritten
    <3> QED BY <3>1, <3>3, Zenon
  <2> QED BY <1>1, <2>1, <2>2, Zenon
<1>4. ASSUME NEW d \in D, NEW e \in D, f[d] = f[e] PROVE d = e
  <2>1. EDGE_PREFIX \in Nat BY DEF EDGE_PREFIX
  <2>2. /\ Behind(d[4], d[5]) \in Key /\ Behind(d[3], Behind(d[4], d[5])) \in Key
        /\ Behind(e[4], e[5]) \in Key /\ Behind(e[3], Behind(e[4], e[5])) \in Key
    BY <1>3, AgentKeys
  <2>3. d[2] = e[2] /\ Behind(d[3], Behind(d[4], d[5])) = Behind(e[3], Behind(e[4], e[5]))
    <3>1. \A x, y \in Key : AgentKey(EDGE_PREFIX, d[2], x) = AgentKey(EDGE_PREFIX, e[2], y) => d[2] = e[2] /\ x = y
      <4>1. d[2] \in Key /\ e[2] \in Key BY <1>3, Zenon
      <4> QED BY <2>1, <4>1, AgentsApart
    <3>2. f[d] = AgentKey(EDGE_PREFIX, d[2], Behind(d[3], Behind(d[4], d[5]))) /\ f[e] = AgentKey(EDGE_PREFIX, e[2], Behind(e[3], Behind(e[4], e[5])))
      BY <1>3, Zenon
    <3> QED BY <1>4, <2>2, <3>1, <3>2, Zenon
  <2>4. d[3] = e[3] /\ Behind(d[4], d[5]) = Behind(e[4], e[5]) BY <1>3, <2>2, <2>3, NamesApart
  <2>5. d[4] = e[4] /\ d[5] = e[5] BY <1>3, <2>4, NamesApart
  <2> QED BY <1>2, <2>3, <2>4, <2>5, Zenon
<1>5. IsFiniteSet(D) BY UsedFits, FiniteQuintuples DEF D
<1>6. Injective(f) BY <1>1, <1>4, <1>5, OneByOne
<1> QED BY <1>1, <1>2, <1>3, <1>6 DEF f

(* The postings' keys: an agent, a term and a number, one key each.        *)
LEMMA PostKeys ==
    ASSUME WordsFit, NEW names, NEW ids, NEW times, Used(names, ids, times)
    PROVE  /\ \A p \in DOMAIN Posts(names, ids) :
                /\ p[2] \in Fits(names) /\ p[3] \in Fits(names) /\ p[4] \in Nat /\ <<p[4]>> \in Key
                /\ p = <<"post", p[2], p[3], p[4]>>
                /\ Posts(names, ids)[p] = AgentKey(POSTINGS_PREFIX, p[2], Behind(p[3], <<p[4]>>))
           /\ Injective(Posts(names, ids))
<1> DEFINE F == Fits(names)
           D == {"post"} \X F \X F \X ids
           f == Posts(names, ids)
<1>1. DOMAIN f = D /\ f = [x \in DOMAIN f |-> f[x]]
      /\ \A e \in D : f[e] = postings_key(e[2], e[3], e[4]).value
  BY DEF Posts
<1>2. \A e \in D : e[2] \in F /\ e[3] \in F /\ e[4] \in ids /\ e = <<"post", e[2], e[3], e[4]>>
  OBVIOUS
<1> HIDE DEF f, D
<1>3. ASSUME NEW e \in D
      PROVE  /\ e[2] \in Key /\ e[3] \in Key /\ e[4] \in Nat /\ <<e[4]>> \in Key
             /\ f[e] = AgentKey(POSTINGS_PREFIX, e[2], Behind(e[3], <<e[4]>>))
  <2>1. /\ e[2] \in Key /\ e[3] \in Key /\ e[4] \in Nat /\ ~TooLong(e[2]) /\ ~TooLong(e[3])
    BY <1>2, UsedFits DEF Used
  <2>2. postings_key(e[2], e[3], e[4]).value = AgentKey(POSTINGS_PREFIX, e[2], Behind(e[3], <<e[4]>>))
    BY <2>1, KeysWritten
  <2>3. <<e[4]>> \in Key BY <2>1, Appended
  <2> QED BY <1>1, <2>1, <2>2, <2>3, Zenon
<1>4. ASSUME NEW d \in D, NEW e \in D, f[d] = f[e] PROVE d = e
  <2>1. POSTINGS_PREFIX \in Nat BY DEF POSTINGS_PREFIX
  <2>2. Behind(d[3], <<d[4]>>) \in Key /\ Behind(e[3], <<e[4]>>) \in Key BY <1>3, AgentKeys
  <2>3. d[2] = e[2] /\ Behind(d[3], <<d[4]>>) = Behind(e[3], <<e[4]>>)
    <3>1. \A x, y \in Key : AgentKey(POSTINGS_PREFIX, d[2], x) = AgentKey(POSTINGS_PREFIX, e[2], y) => d[2] = e[2] /\ x = y
      <4>1. d[2] \in Key /\ e[2] \in Key BY <1>3, Zenon
      <4> QED BY <2>1, <4>1, AgentsApart
    <3>2. f[d] = AgentKey(POSTINGS_PREFIX, d[2], Behind(d[3], <<d[4]>>)) /\ f[e] = AgentKey(POSTINGS_PREFIX, e[2], Behind(e[3], <<e[4]>>))
      BY <1>3, Zenon
    <3> QED BY <1>4, <2>2, <3>1, <3>2, Zenon
  <2>4. d[3] = e[3] /\ <<d[4]>> = <<e[4]>> BY <1>3, <2>3, NamesApart
  <2>5. d[4] = e[4]
    <3>1. <<d[4]>>[1] = d[4] /\ <<e[4]>>[1] = e[4] OBVIOUS
    <3> QED BY <2>4, <3>1, Zenon
  <2> QED BY <1>2, <2>3, <2>4, <2>5, Zenon
<1>5. IsFiniteSet(D) BY UsedFits, FiniteQuadruples DEF D
<1>6. Injective(f) BY <1>1, <1>4, <1>5, OneByOne
<1> QED BY <1>1, <1>2, <1>3, <1>6 DEF f

(* The expiry keys: an agent, a time and an id, one key each.              *)
LEMMA ExpiryKeys ==
    ASSUME WordsFit, NEW names, NEW ids, NEW times, Used(names, ids, times)
    PROVE  /\ \A x \in DOMAIN Expiries(names, times) :
                /\ x[2] \in Fits(names) /\ x[3] \in Time /\ x[4] \in names /\ <<TimeWord(x[3])>> \o x[4] \in Key
                /\ Expiries(names, times)[x] = AgentKey(EXPIRY_PREFIX, x[2], <<TimeWord(x[3])>> \o x[4])
           /\ Injective(Expiries(names, times))
<1> DEFINE F == Fits(names)
           D == {"expiry"} \X F \X times \X names
           f == Expiries(names, times)
<1>1. DOMAIN f = D /\ f = [x \in DOMAIN f |-> f[x]]
      /\ \A e \in D : f[e] = expiry_key(e[2], e[3], e[4]).value
  BY DEF Expiries
<1>2. \A e \in D : e[2] \in F /\ e[3] \in times /\ e[4] \in names /\ e = <<"expiry", e[2], e[3], e[4]>>
  OBVIOUS
<1> HIDE DEF f, D
<1>3. ASSUME NEW e \in D
      PROVE  /\ e[2] \in Key /\ e[3] \in Time /\ e[4] \in Key /\ <<TimeWord(e[3])>> \o e[4] \in Key
             /\ f[e] = AgentKey(EXPIRY_PREFIX, e[2], <<TimeWord(e[3])>> \o e[4])
  <2>1. /\ e[2] \in Key /\ e[3] \in Time /\ e[4] \in Key /\ ~TooLong(e[2])
    BY <1>2, UsedFits DEF Used
  <2>2. /\ <<TimeWord(e[3])>> \o e[4] \in Key
        /\ expiry_key(e[2], e[3], e[4]).value = AgentKey(EXPIRY_PREFIX, e[2], <<TimeWord(e[3])>> \o e[4])
    BY <2>1, ExpiriesWritten, Zenon
  <2> QED BY <1>1, <2>1, <2>2, Zenon
<1>4. ASSUME NEW d \in D, NEW e \in D, f[d] = f[e] PROVE d = e
  <2>1. EXPIRY_PREFIX \in Nat BY DEF EXPIRY_PREFIX
  <2>2. d[2] = e[2]
    <3>1. \A x, y \in Key : AgentKey(EXPIRY_PREFIX, d[2], x) = AgentKey(EXPIRY_PREFIX, e[2], y) => d[2] = e[2] /\ x = y
      <4>1. d[2] \in Key /\ e[2] \in Key BY <1>3, Zenon
      <4> QED BY <2>1, <4>1, AgentsApart
    <3>2. f[d] = AgentKey(EXPIRY_PREFIX, d[2], <<TimeWord(d[3])>> \o d[4]) /\ f[e] = AgentKey(EXPIRY_PREFIX, e[2], <<TimeWord(e[3])>> \o e[4])
      BY <1>3, Zenon
    <3>3. <<TimeWord(d[3])>> \o d[4] \in Key /\ <<TimeWord(e[3])>> \o e[4] \in Key BY <1>3, Zenon
    <3> QED BY <1>4, <3>1, <3>2, <3>3, Zenon
  <2>3. /\ expiry_decode(Len(AgentPrefix(EXPIRY_PREFIX, d[2])), f[d]) = Some(<<d[3], d[4]>>)
        /\ expiry_decode(Len(AgentPrefix(EXPIRY_PREFIX, e[2])), f[e]) = Some(<<e[3], e[4]>>)
    <3>1. ASSUME NEW x \in D PROVE expiry_decode(Len(AgentPrefix(EXPIRY_PREFIX, x[2])), f[x]) = Some(<<x[3], x[4]>>)
      <4>1. x[2] \in Key /\ x[3] \in Time /\ x[4] \in Key BY <1>3
      <4>2. expiry_decode(Len(AgentPrefix(EXPIRY_PREFIX, x[2])),
                          AgentKey(EXPIRY_PREFIX, x[2], <<TimeWord(x[3])>> \o x[4])) = Some(<<x[3], x[4]>>)
        BY <4>1, ExpiriesRead, Zenon
      <4> QED BY <1>3, <4>2, Zenon
    <3> QED BY <3>1
  <2>4. Some(<<d[3], d[4]>>) = Some(<<e[3], e[4]>>) BY <1>4, <2>2, <2>3, Zenon
  <2>5. <<d[3], d[4]>> = <<e[3], e[4]>> BY <2>4 DEF Some
  <2>6. d[3] = e[3] /\ d[4] = e[4] BY <2>5
  <2> QED BY <1>2, <2>2, <2>6, Zenon
<1>5. IsFiniteSet(D) BY UsedFits, FiniteQuadruples DEF D
<1>6. Injective(f) BY <1>1, <1>4, <1>5, OneByOne
<1> QED BY <1>1, <1>2, <1>3, <1>6 DEF f

(* The records' and the entities' keys: an agent and an id, one key each.  *)
LEMMA NamedKeys ==
    ASSUME WordsFit, NEW names, NEW ids, NEW times, Used(names, ids, times)
    PROVE  /\ \A r \in DOMAIN Named(names) :
                /\ r[1] \in {"record", "entity"} /\ r[2] \in Fits(names) /\ r[3] \in names
                /\ r[1] = "record" => Named(names)[r] = AgentKey(RECORD_PREFIX, r[2], r[3])
                /\ r[1] # "record" => Named(names)[r] = AgentKey(ENTITY_PREFIX, r[2], r[3])
           /\ Injective(Named(names))
<1> DEFINE F == Fits(names)
           D == {"record", "entity"} \X F \X names
           f == Named(names)
<1>1. DOMAIN f = D /\ f = [x \in DOMAIN f |-> f[x]]
      /\ \A r \in D : f[r] = IF r[1] = "record" THEN record_key(r[2], r[3]).value ELSE entity_key(r[2], r[3]).value
  BY DEF Named
<1>2. \A r \in D : r[1] \in {"record", "entity"} /\ r[2] \in F /\ r[3] \in names /\ r = <<r[1], r[2], r[3]>>
  OBVIOUS
<1> HIDE DEF f, D
<1>3. ASSUME NEW r \in D
      PROVE  /\ r[2] \in Key /\ r[3] \in Key
             /\ r[1] = "record" => f[r] = AgentKey(RECORD_PREFIX, r[2], r[3])
             /\ r[1] # "record" => f[r] = AgentKey(ENTITY_PREFIX, r[2], r[3])
  <2>1. r[2] \in Key /\ r[3] \in Key /\ ~TooLong(r[2]) BY <1>2, UsedFits
  <2>2. /\ record_key(r[2], r[3]).value = AgentKey(RECORD_PREFIX, r[2], r[3])
        /\ entity_key(r[2], r[3]).value = AgentKey(ENTITY_PREFIX, r[2], r[3])
    BY <2>1, KeysWritten, Zenon
  <2> QED BY <1>1, <2>1, <2>2, Zenon
<1>4. ASSUME NEW d \in D, NEW e \in D, f[d] = f[e] PROVE d = e
  <2>1. RECORD_PREFIX \in Nat /\ ENTITY_PREFIX \in Nat /\ RECORD_PREFIX # ENTITY_PREFIX
    BY DEF RECORD_PREFIX, ENTITY_PREFIX
  <2>2. (d[1] = "record" <=> e[1] = "record") /\ d[2] = e[2] /\ d[3] = e[3]
    <3>1. PICK s \in Nat, a \in Key, r \in Key :
            /\ d[1] = "record" <=> s = RECORD_PREFIX
            /\ a = d[2] /\ r = d[3]
            /\ f[d] = AgentKey(s, a, r)
      <4>1. CASE d[1] = "record" BY <1>3, <2>1, <4>1
      <4>2. CASE d[1] # "record" BY <1>3, <2>1, <4>2
      <4> QED BY <4>1, <4>2
    <3>2. PICK t \in Nat, b \in Key, q \in Key :
            /\ e[1] = "record" <=> t = RECORD_PREFIX
            /\ b = e[2] /\ q = e[3]
            /\ f[e] = AgentKey(t, b, q)
      <4>1. CASE e[1] = "record" BY <1>3, <2>1, <4>1
      <4>2. CASE e[1] # "record" BY <1>3, <2>1, <4>2
      <4> QED BY <4>1, <4>2
    <3>3. AgentKey(s, a, r) = AgentKey(t, b, q) BY <1>4, <3>1, <3>2, Zenon
    <3>4. s = t /\ a = b /\ r = q BY <3>3, AgentsApart
    <3> QED BY <3>1, <3>2, <3>4, Zenon
  <2>3. d[1] = e[1] BY <1>2, <2>2
  <2> QED BY <1>2, <2>2, <2>3, Zenon
<1>5. IsFiniteSet(D) BY UsedFits, FiniteTriples DEF D
<1>6. Injective(f) BY <1>1, <1>4, <1>5, OneByOne
<1> QED BY <1>1, <1>2, <1>3, <1>6 DEF f

(* The documents' keys: an agent and a number, one key each.               *)
LEMMA DocKeys ==
    ASSUME WordsFit, NEW names, NEW ids, NEW times, Used(names, ids, times)
    PROVE  /\ \A d \in DOMAIN Docs(names, ids) :
                /\ d[2] \in Fits(names) /\ <<d[3]>> \in Key
                /\ Docs(names, ids)[d] = AgentKey(DOCTERMS_PREFIX, d[2], <<d[3]>>)
           /\ Injective(Docs(names, ids))
<1> DEFINE F == Fits(names)
           D == {"doc"} \X F \X ids
           f == Docs(names, ids)
<1>1. DOMAIN f = D /\ f = [x \in DOMAIN f |-> f[x]] /\ \A e \in D : f[e] = docterms_key(e[2], e[3]).value
  BY DEF Docs
<1>2. \A e \in D : e[2] \in F /\ e[3] \in ids /\ e = <<"doc", e[2], e[3]>>
  OBVIOUS
<1> HIDE DEF f, D
<1>3. ASSUME NEW e \in D
      PROVE  e[2] \in Key /\ <<e[3]>> \in Key /\ f[e] = AgentKey(DOCTERMS_PREFIX, e[2], <<e[3]>>)
  <2>1. e[2] \in Key /\ e[3] \in Nat /\ ~TooLong(e[2]) BY <1>2, UsedFits DEF Used
  <2>2. docterms_key(e[2], e[3]).value = AgentKey(DOCTERMS_PREFIX, e[2], <<e[3]>>) BY <2>1, KeysWritten
  <2>3. <<e[3]>> \in Key BY <2>1, Appended
  <2> QED BY <1>1, <2>1, <2>2, <2>3, Zenon
<1>4. ASSUME NEW d \in D, NEW e \in D, f[d] = f[e] PROVE d = e
  <2>1. DOCTERMS_PREFIX \in Nat BY DEF DOCTERMS_PREFIX
  <2>2. d[2] = e[2] /\ <<d[3]>> = <<e[3]>>
    <3>1. \A x, y \in Key : AgentKey(DOCTERMS_PREFIX, d[2], x) = AgentKey(DOCTERMS_PREFIX, e[2], y) => d[2] = e[2] /\ x = y
      <4>1. d[2] \in Key /\ e[2] \in Key BY <1>3, Zenon
      <4> QED BY <2>1, <4>1, AgentsApart
    <3>2. f[d] = AgentKey(DOCTERMS_PREFIX, d[2], <<d[3]>>) /\ f[e] = AgentKey(DOCTERMS_PREFIX, e[2], <<e[3]>>)
      BY <1>3, Zenon
    <3>3. <<d[3]>> \in Key /\ <<e[3]>> \in Key BY <1>3, Zenon
    <3> QED BY <1>4, <3>1, <3>2, <3>3, Zenon
  <2>3. d[3] = e[3]
    <3>1. <<d[3]>>[1] = d[3] /\ <<e[3]>>[1] = e[3] OBVIOUS
    <3> QED BY <2>2, <3>1, Zenon
  <2> QED BY <1>2, <2>2, <2>3, Zenon
<1>5. IsFiniteSet(D) BY UsedFits, FiniteTriples DEF D
<1>6. Injective(f) BY <1>1, <1>4, <1>5, OneByOne
<1> QED BY <1>1, <1>2, <1>3, <1>6 DEF f

(* The keys of an agent's statistics and registration, one each.           *)
LEMMA AgentRecords ==
    ASSUME WordsFit, NEW names, NEW ids, NEW times, Used(names, ids, times)
    PROVE  /\ \A a \in DOMAIN Agents(names) :
                /\ a[2] \in Fits(names)
                /\ a[1] = "stats" => Agents(names)[a] = AgentKey(FTS_META_PREFIX, a[2], <<>>)
                /\ a[1] # "stats" => Agents(names)[a] = AgentKey(REGISTRY_PREFIX, a[2], <<>>)
           /\ Injective(Agents(names))
<1> DEFINE F == Fits(names)
           D == {"stats", "agent"} \X F
           f == Agents(names)
<1>1. DOMAIN f = D /\ f = [x \in DOMAIN f |-> f[x]]
      /\ \A r \in D : f[r] = IF r[1] = "stats" THEN fts_meta_key(r[2]).value ELSE agent_key(r[2]).value
  BY DEF Agents
<1>2. \A r \in D : r[1] \in {"stats", "agent"} /\ r[2] \in F /\ r = <<r[1], r[2]>>
  OBVIOUS
<1> HIDE DEF f, D
<1>3. ASSUME NEW r \in D
      PROVE  /\ r[2] \in Key
             /\ r[1] = "stats" => f[r] = AgentKey(FTS_META_PREFIX, r[2], <<>>)
             /\ r[1] # "stats" => f[r] = AgentKey(REGISTRY_PREFIX, r[2], <<>>)
  <2>1. r[2] \in Key /\ ~TooLong(r[2]) BY <1>2, UsedFits
  <2>2. /\ fts_meta_key(r[2]).value = AgentKey(FTS_META_PREFIX, r[2], <<>>)
        /\ agent_key(r[2]).value = AgentKey(REGISTRY_PREFIX, r[2], <<>>)
    BY <2>1, KeysWritten, Zenon
  <2> QED BY <1>1, <2>1, <2>2, Zenon
<1>4. ASSUME NEW d \in D, NEW e \in D, f[d] = f[e] PROVE d = e
  <2>1. FTS_META_PREFIX \in Nat /\ REGISTRY_PREFIX \in Nat /\ FTS_META_PREFIX # REGISTRY_PREFIX /\ <<>> \in Key
    BY DEF FTS_META_PREFIX, REGISTRY_PREFIX, Key
  <2>2. (d[1] = "stats" <=> e[1] = "stats") /\ d[2] = e[2]
    <3>1. PICK s \in Nat, a \in Key, r \in Key :
            /\ d[1] = "stats" <=> s = FTS_META_PREFIX
            /\ a = d[2] /\ r = <<>>
            /\ f[d] = AgentKey(s, a, r)
      <4>1. CASE d[1] = "stats" BY <1>3, <2>1, <4>1
      <4>2. CASE d[1] # "stats" BY <1>3, <2>1, <4>2
      <4> QED BY <4>1, <4>2
    <3>2. PICK t \in Nat, b \in Key, q \in Key :
            /\ e[1] = "stats" <=> t = FTS_META_PREFIX
            /\ b = e[2] /\ q = <<>>
            /\ f[e] = AgentKey(t, b, q)
      <4>1. CASE e[1] = "stats" BY <1>3, <2>1, <4>1
      <4>2. CASE e[1] # "stats" BY <1>3, <2>1, <4>2
      <4> QED BY <4>1, <4>2
    <3>3. AgentKey(s, a, r) = AgentKey(t, b, q) BY <1>4, <3>1, <3>2, Zenon
    <3>4. s = t /\ a = b BY <3>3, AgentsApart
    <3> QED BY <3>1, <3>2, <3>4, Zenon
  <2>3. d[1] = e[1] BY <1>2, <2>2
  <2> QED BY <1>2, <2>2, <2>3, Zenon
<1>5. IsFiniteSet(D) BY UsedFits, FinitePairs DEF D
<1>6. Injective(f) BY <1>1, <1>4, <1>5, OneByOne
<1> QED BY <1>1, <1>2, <1>3, <1>6 DEF f

(* The keys of the vector nodes and of their mappings, one each.           *)
LEMMA NodeKeys ==
    ASSUME WordsFit, NEW names, NEW ids, NEW times, Used(names, ids, times)
    PROVE  /\ \A n \in DOMAIN Nodes(ids) : Nodes(ids)[n] = <<NODE_PREFIX, n[2]>> \/ Nodes(ids)[n] = <<VECMAP_PREFIX, n[2]>>
           /\ Injective(Nodes(ids))
<1> DEFINE D == {"node", "map"} \X ids
           f == Nodes(ids)
<1>1. DOMAIN f = D /\ f = [x \in DOMAIN f |-> f[x]]
      /\ \A n \in D : f[n] = IF n[1] = "node" THEN node_key(n[2]).value ELSE vecmap_key(n[2]).value
  BY DEF Nodes
<1>2. \A n \in D : n[1] \in {"node", "map"} /\ n[2] \in ids /\ n = <<n[1], n[2]>>
  OBVIOUS
<1> HIDE DEF f, D
<1>3. ASSUME NEW n \in D
      PROVE  /\ n[1] = "node" => f[n] = <<NODE_PREFIX, n[2]>>
             /\ n[1] # "node" => f[n] = <<VECMAP_PREFIX, n[2]>>
  <2>1. n[2] \in Nat BY <1>2 DEF Used
  <2>2. node_key(n[2]).value = <<NODE_PREFIX, n[2]>> /\ vecmap_key(n[2]).value = <<VECMAP_PREFIX, n[2]>>
    BY <2>1, IdsRead
  <2> QED BY <1>1, <2>2, Zenon
<1>4. ASSUME NEW d \in D, NEW e \in D, f[d] = f[e] PROVE d = e
  <2>1. NODE_PREFIX # VECMAP_PREFIX BY DEF NODE_PREFIX, VECMAP_PREFIX
  <2>2. \A s, n : <<s, n>>[1] = s /\ <<s, n>>[2] = n OBVIOUS
  <2>3. (d[1] = "node" <=> e[1] = "node") /\ d[2] = e[2]
    <3>1. f[d][1] = NODE_PREFIX <=> d[1] = "node" BY <1>3, <2>1, <2>2
    <3>2. f[e][1] = NODE_PREFIX <=> e[1] = "node" BY <1>3, <2>1, <2>2
    <3>3. \A x \in D : f[x][2] = x[2]
      <4>1. ASSUME NEW x \in D PROVE f[x][2] = x[2]
        <5>1. f[x] = <<NODE_PREFIX, x[2]>> \/ f[x] = <<VECMAP_PREFIX, x[2]>> BY <1>3, Zenon
        <5> QED BY <5>1
      <4> QED BY <4>1, Zenon
    <3>4. d[2] = e[2] BY <1>4, <3>3
    <3> QED BY <1>4, <3>1, <3>2, <3>4, Zenon
  <2>4. d[1] = e[1] BY <1>2, <2>3
  <2> QED BY <1>2, <2>3, <2>4, Zenon
<1>5. IsFiniteSet(D) BY UsedFits, FinitePairs DEF D
<1>6. Injective(f) BY <1>1, <1>4, <1>5, OneByOne
<1> QED BY <1>1, <1>3, <1>6 DEF f


(* Which family a key is of is told by its first word.                     *)
Family == <<5, 6, 2, 1, 4, 4, 7, 3, 7, 6>>

(* A key's first word tells which family of keys it belongs to.            *)
LEMMA Families ==
    ASSUME WordsFit, NEW names, NEW ids, NEW times, Used(names, ids, times)
    PROVE  /\ \A x \in DOMAIN Edges(names) : Family[Edges(names)[x][1]] = 1
           /\ \A x \in DOMAIN Posts(names, ids) : Family[Posts(names, ids)[x][1]] = 2
           /\ \A x \in DOMAIN Expiries(names, times) : Family[Expiries(names, times)[x][1]] = 3
           /\ \A x \in DOMAIN Named(names) : Family[Named(names)[x][1]] = 4
           /\ \A x \in DOMAIN Docs(names, ids) : Family[Docs(names, ids)[x][1]] = 5
           /\ \A x \in DOMAIN Agents(names) : Family[Agents(names)[x][1]] = 6
           /\ \A x \in DOMAIN Nodes(ids) : Family[Nodes(ids)[x][1]] = 7
<1>1. /\ Family[EDGE_PREFIX] = 1 /\ Family[POSTINGS_PREFIX] = 2 /\ Family[EXPIRY_PREFIX] = 3
      /\ Family[RECORD_PREFIX] = 4 /\ Family[ENTITY_PREFIX] = 4 /\ Family[DOCTERMS_PREFIX] = 5
      /\ Family[FTS_META_PREFIX] = 6 /\ Family[REGISTRY_PREFIX] = 6
      /\ Family[NODE_PREFIX] = 7 /\ Family[VECMAP_PREFIX] = 7
  BY DEF Family, EDGE_PREFIX, POSTINGS_PREFIX, EXPIRY_PREFIX, RECORD_PREFIX, ENTITY_PREFIX, DOCTERMS_PREFIX,
         FTS_META_PREFIX, REGISTRY_PREFIX, NODE_PREFIX, VECMAP_PREFIX
<1>2. /\ EDGE_PREFIX \in Nat /\ POSTINGS_PREFIX \in Nat /\ EXPIRY_PREFIX \in Nat
      /\ RECORD_PREFIX \in Nat /\ ENTITY_PREFIX \in Nat /\ DOCTERMS_PREFIX \in Nat
      /\ FTS_META_PREFIX \in Nat /\ REGISTRY_PREFIX \in Nat
  BY DEF EDGE_PREFIX, POSTINGS_PREFIX, EXPIRY_PREFIX, RECORD_PREFIX, ENTITY_PREFIX, DOCTERMS_PREFIX,
         FTS_META_PREFIX, REGISTRY_PREFIX
<1>3. \A n \in Fits(names) : n \in Key BY UsedFits
<1>4. \A n \in names : n \in Key BY UsedFits
<1>5. ASSUME NEW a \in Key, NEW r \in Key
      PROVE  /\ Family[AgentKey(EDGE_PREFIX, a, r)[1]] = 1 /\ Family[AgentKey(POSTINGS_PREFIX, a, r)[1]] = 2
             /\ Family[AgentKey(EXPIRY_PREFIX, a, r)[1]] = 3
             /\ Family[AgentKey(RECORD_PREFIX, a, r)[1]] = 4 /\ Family[AgentKey(ENTITY_PREFIX, a, r)[1]] = 4
             /\ Family[AgentKey(DOCTERMS_PREFIX, a, r)[1]] = 5
             /\ Family[AgentKey(FTS_META_PREFIX, a, r)[1]] = 6 /\ Family[AgentKey(REGISTRY_PREFIX, a, r)[1]] = 6
  <2>1. \A s \in Nat : AgentKey(s, a, r)[1] = s BY AgentKeys, Zenon
  <2> QED BY <1>1, <1>2, <2>1, Zenon
<1>6. \A a, r \in Key : Behind(a, r) \in Key BY AgentKeys, Zenon
<1>7. ASSUME NEW x \in DOMAIN Edges(names) PROVE Family[Edges(names)[x][1]] = 1
  <2>1. /\ x[2] \in Key /\ x[3] \in Key /\ x[4] \in Key /\ x[5] \in Key
        /\ Edges(names)[x] = AgentKey(EDGE_PREFIX, x[2], Behind(x[3], Behind(x[4], x[5])))
    BY <1>3, <1>4, EdgeKeys, Zenon
  <2>2. Behind(x[3], Behind(x[4], x[5])) \in Key BY <1>6, <2>1
  <2>3. PICK a \in Key, r \in Key : Edges(names)[x] = AgentKey(EDGE_PREFIX, a, r) BY <2>1, <2>2, Zenon
  <2> QED BY <1>5, <2>3
<1>8. ASSUME NEW x \in DOMAIN Posts(names, ids) PROVE Family[Posts(names, ids)[x][1]] = 2
  <2>1. /\ x[2] \in Key /\ x[3] \in Key /\ <<x[4]>> \in Key
        /\ Posts(names, ids)[x] = AgentKey(POSTINGS_PREFIX, x[2], Behind(x[3], <<x[4]>>))
    <3>1. /\ x[2] \in Fits(names) /\ x[3] \in Fits(names) /\ <<x[4]>> \in Key
          /\ Posts(names, ids)[x] = AgentKey(POSTINGS_PREFIX, x[2], Behind(x[3], <<x[4]>>))
      BY PostKeys
    <3> QED BY <1>3, <3>1, Zenon
  <2>2. Behind(x[3], <<x[4]>>) \in Key BY <1>6, <2>1, Zenon
  <2>3. PICK a \in Key, r \in Key : Posts(names, ids)[x] = AgentKey(POSTINGS_PREFIX, a, r) BY <2>1, <2>2, Zenon
  <2> QED BY <1>5, <2>3
<1>9. ASSUME NEW x \in DOMAIN Expiries(names, times) PROVE Family[Expiries(names, times)[x][1]] = 3
  <2>1. /\ x[2] \in Key /\ <<TimeWord(x[3])>> \o x[4] \in Key
        /\ Expiries(names, times)[x] = AgentKey(EXPIRY_PREFIX, x[2], <<TimeWord(x[3])>> \o x[4])
    <3>1. /\ x[2] \in Fits(names) /\ <<TimeWord(x[3])>> \o x[4] \in Key
          /\ Expiries(names, times)[x] = AgentKey(EXPIRY_PREFIX, x[2], <<TimeWord(x[3])>> \o x[4])
      BY ExpiryKeys
    <3> QED BY <1>3, <3>1, Zenon
  <2>3. PICK a \in Key, r \in Key : Expiries(names, times)[x] = AgentKey(EXPIRY_PREFIX, a, r) BY <2>1, Zenon
  <2> QED BY <1>5, <2>3
<1>10. ASSUME NEW x \in DOMAIN Named(names) PROVE Family[Named(names)[x][1]] = 4
  <2>1. /\ x[2] \in Key /\ x[3] \in Key
        /\ \/ Named(names)[x] = AgentKey(RECORD_PREFIX, x[2], x[3])
           \/ Named(names)[x] = AgentKey(ENTITY_PREFIX, x[2], x[3])
    BY <1>3, <1>4, NamedKeys, Zenon
  <2>3. PICK a \in Key, r \in Key : Named(names)[x] = AgentKey(RECORD_PREFIX, a, r) \/ Named(names)[x] = AgentKey(ENTITY_PREFIX, a, r) BY <2>1, Zenon
  <2> QED BY <1>5, <2>3
<1>11. ASSUME NEW x \in DOMAIN Docs(names, ids) PROVE Family[Docs(names, ids)[x][1]] = 5
  <2>1. /\ x[2] \in Key /\ <<x[3]>> \in Key
        /\ Docs(names, ids)[x] = AgentKey(DOCTERMS_PREFIX, x[2], <<x[3]>>)
    BY <1>3, DocKeys
  <2>3. PICK a \in Key, r \in Key : Docs(names, ids)[x] = AgentKey(DOCTERMS_PREFIX, a, r) BY <2>1, Zenon
  <2> QED BY <1>5, <2>3
<1>12. ASSUME NEW x \in DOMAIN Agents(names) PROVE Family[Agents(names)[x][1]] = 6
  <2>1. /\ x[2] \in Key
        /\ \/ Agents(names)[x] = AgentKey(FTS_META_PREFIX, x[2], <<>>)
           \/ Agents(names)[x] = AgentKey(REGISTRY_PREFIX, x[2], <<>>)
    BY <1>3, AgentRecords, Zenon
  <2>2. <<>> \in Key BY DEF Key
  <2>3. PICK a \in Key, r \in Key : Agents(names)[x] = AgentKey(FTS_META_PREFIX, a, r) \/ Agents(names)[x] = AgentKey(REGISTRY_PREFIX, a, r) BY <2>1, <2>2, Zenon
  <2> QED BY <1>5, <2>3
<1>13. ASSUME NEW x \in DOMAIN Nodes(ids) PROVE Family[Nodes(ids)[x][1]] = 7
  <2>1. Nodes(ids)[x] = <<NODE_PREFIX, x[2]>> \/ Nodes(ids)[x] = <<VECMAP_PREFIX, x[2]>> BY NodeKeys, Zenon
  <2>2. Nodes(ids)[x][1] = NODE_PREFIX \/ Nodes(ids)[x][1] = VECMAP_PREFIX BY <2>1
  <2> QED BY <1>1, <2>2, Zenon
<1> QED BY <1>7, <1>8, <1>9, <1>10, <1>11, <1>12, <1>13

(* Two things never share a key.                                           *)
LEMMA KeysDiffer ==
    ASSUME WordsFit, NEW names, NEW ids, NEW times, Used(names, ids, times)
    PROVE  LET spaces == <<Edges(names), Posts(names, ids), Expiries(names, times), Named(names),
                           Docs(names, ids), Agents(names), Nodes(ids)>>
           IN /\ \A i \in DOMAIN spaces : Injective(spaces[i])
              /\ Apart(spaces)
<1> DEFINE spaces == <<Edges(names), Posts(names, ids), Expiries(names, times), Named(names),
                       Docs(names, ids), Agents(names), Nodes(ids)>>
<1>1. /\ DOMAIN spaces = 1..7
      /\ spaces[1] = Edges(names) /\ spaces[2] = Posts(names, ids) /\ spaces[3] = Expiries(names, times)
      /\ spaces[4] = Named(names) /\ spaces[5] = Docs(names, ids) /\ spaces[6] = Agents(names)
      /\ spaces[7] = Nodes(ids)
  OBVIOUS
<1> HIDE DEF spaces
<1>2. \A i \in 1..7 : i = 1 \/ i = 2 \/ i = 3 \/ i = 4 \/ i = 5 \/ i = 6 \/ i = 7 OBVIOUS
<1>3. /\ Injective(Edges(names)) /\ Injective(Posts(names, ids)) /\ Injective(Expiries(names, times))
      /\ Injective(Named(names)) /\ Injective(Docs(names, ids)) /\ Injective(Agents(names))
      /\ Injective(Nodes(ids))
  BY EdgeKeys, PostKeys, ExpiryKeys, NamedKeys, DocKeys, AgentRecords, NodeKeys, Zenon
<1>4. \A i \in DOMAIN spaces : Injective(spaces[i])
  <2>1. ASSUME NEW i \in 1..7 PROVE Injective(spaces[i]) BY <1>1, <1>2, <1>3, Zenon
  <2> QED BY <1>1, <2>1, Zenon
<1>5. ASSUME NEW i \in 1..7 PROVE \A x \in DOMAIN spaces[i] : Family[spaces[i][x][1]] = i
  <2>1. /\ \A x \in DOMAIN Edges(names) : Family[Edges(names)[x][1]] = 1
        /\ \A x \in DOMAIN Posts(names, ids) : Family[Posts(names, ids)[x][1]] = 2
        /\ \A x \in DOMAIN Expiries(names, times) : Family[Expiries(names, times)[x][1]] = 3
        /\ \A x \in DOMAIN Named(names) : Family[Named(names)[x][1]] = 4
        /\ \A x \in DOMAIN Docs(names, ids) : Family[Docs(names, ids)[x][1]] = 5
        /\ \A x \in DOMAIN Agents(names) : Family[Agents(names)[x][1]] = 6
        /\ \A x \in DOMAIN Nodes(ids) : Family[Nodes(ids)[x][1]] = 7
    BY Families
  <2>2. CASE i = 1 BY <1>1, <2>1, <2>2, Zenon
  <2>3. CASE i = 2 BY <1>1, <2>1, <2>3, Zenon
  <2>4. CASE i = 3 BY <1>1, <2>1, <2>4, Zenon
  <2>5. CASE i = 4 BY <1>1, <2>1, <2>5, Zenon
  <2>6. CASE i = 5 BY <1>1, <2>1, <2>6, Zenon
  <2>7. CASE i = 6 BY <1>1, <2>1, <2>7, Zenon
  <2>8. CASE i = 7 BY <1>1, <2>1, <2>8, Zenon
  <2> QED BY <1>2, <2>2, <2>3, <2>4, <2>5, <2>6, <2>7, <2>8, Zenon
<1>6. ASSUME NEW i \in DOMAIN spaces, NEW j \in DOMAIN spaces, i # j
      PROVE  {spaces[i][x] : x \in DOMAIN spaces[i]} \cap {spaces[j][x] : x \in DOMAIN spaces[j]} = {}
  <2>1. ASSUME NEW x \in DOMAIN spaces[i], NEW y \in DOMAIN spaces[j], spaces[i][x] = spaces[j][y] PROVE FALSE
    <3>1. Family[spaces[i][x][1]] = i /\ Family[spaces[j][y][1]] = j BY <1>1, <1>5, <2>1, Zenon
    <3> QED BY <1>6, <2>1, <3>1, Zenon
  <2> QED BY <2>1
<1> QED BY <1>4, <1>6 DEF Apart, spaces


(* The things an agent's keys are of, those behind one name, those of one  *)
(* kind, and those that have expired.                                      *)
OfAgent(f, a) == {x \in DOMAIN f : x[2] = a}
OfName(f, a, b) == {x \in DOMAIN f : x[2] = a /\ x[3] = b}
OfKind(f, kind, a) == {x \in DOMAIN f : x[1] = kind /\ x[2] = a}
DueBy(f, a, at) == {x \in DOMAIN f : x[2] = a /\ x[3] <= at}

(* Every scan of an agent's prefix, and of an agent's name, meets what it  *)
(* should and nothing else.                                                *)
LEMMA PrefixesScanned ==
    ASSUME WordsFit, NEW names, NEW ids, NEW times, Used(names, ids, times)
    PROVE  \A a \in Fits(names) :
             /\ Scanned(Edges(names), AgentPrefix(EDGE_PREFIX, a)) = OfAgent(Edges(names), a)
             /\ Scanned(Posts(names, ids), AgentPrefix(POSTINGS_PREFIX, a)) = OfAgent(Posts(names, ids), a)
             /\ Scanned(Named(names), AgentPrefix(RECORD_PREFIX, a))
                  = OfKind(Named(names), "record", a)
             /\ Scanned(Named(names), AgentPrefix(ENTITY_PREFIX, a))
                  = OfKind(Named(names), "entity", a)
             /\ \A b \in Fits(names) :
                  /\ Scanned(Edges(names), NamePrefix(EDGE_PREFIX, a, b))
                       = OfName(Edges(names), a, b)
                  /\ Scanned(Posts(names, ids), NamePrefix(POSTINGS_PREFIX, a, b))
                       = OfName(Posts(names, ids), a, b)
<1> TAKE a \in Fits(names)
<1>1. /\ EDGE_PREFIX \in Nat /\ POSTINGS_PREFIX \in Nat /\ RECORD_PREFIX \in Nat /\ ENTITY_PREFIX \in Nat
      /\ RECORD_PREFIX # ENTITY_PREFIX
  BY DEF EDGE_PREFIX, POSTINGS_PREFIX, RECORD_PREFIX, ENTITY_PREFIX
<1>2. \A n \in Fits(names) : n \in Key BY UsedFits
<1>3. \A n \in names : n \in Key BY UsedFits
<1>4. \A b, r \in Key : Behind(b, r) \in Key BY AgentKeys, Zenon
<1>5. ASSUME NEW e \in DOMAIN Edges(names)
      PROVE  /\ IsPrefix(AgentPrefix(EDGE_PREFIX, a), Edges(names)[e]) <=> e[2] = a
             /\ \A b \in Fits(names) : IsPrefix(NamePrefix(EDGE_PREFIX, a, b), Edges(names)[e]) <=> e[2] = a /\ e[3] = b
  <2>1. /\ e[2] \in Key /\ e[3] \in Key /\ e[4] \in Key /\ e[5] \in Key
        /\ Edges(names)[e] = AgentKey(EDGE_PREFIX, e[2], Behind(e[3], Behind(e[4], e[5])))
    BY <1>2, <1>3, EdgeKeys, Zenon
  <2>2. PICK c \in Key, d \in Key, q \in Key : c = e[2] /\ d = e[3] /\ q = Behind(e[4], e[5])
    BY <1>4, <2>1
  <2>3. Edges(names)[e] = AgentKey(EDGE_PREFIX, c, Behind(d, q)) BY <2>1, <2>2, Zenon
  <2>4. /\ IsPrefix(AgentPrefix(EDGE_PREFIX, a), AgentKey(EDGE_PREFIX, c, Behind(d, q))) <=> c = a
        /\ \A b \in Fits(names) :
              IsPrefix(NamePrefix(EDGE_PREFIX, a, b), AgentKey(EDGE_PREFIX, c, Behind(d, q))) <=> c = a /\ d = b
    <3>1. a \in Key /\ Behind(d, q) \in Key BY <1>2, <1>4
    <3>2. IsPrefix(AgentPrefix(EDGE_PREFIX, a), AgentKey(EDGE_PREFIX, c, Behind(d, q))) <=> c = a
      BY <1>1, <3>1, AgentScanned
    <3>3. ASSUME NEW b \in Key
          PROVE  IsPrefix(NamePrefix(EDGE_PREFIX, a, b), AgentKey(EDGE_PREFIX, c, Behind(d, q))) <=> c = a /\ d = b
      BY <1>1, <3>1, NamesScanned
    <3> QED BY <1>2, <3>2, <3>3, Zenon
  <2> QED BY <2>2, <2>3, <2>4, Zenon
<1>6. ASSUME NEW e \in DOMAIN Posts(names, ids)
      PROVE  /\ IsPrefix(AgentPrefix(POSTINGS_PREFIX, a), Posts(names, ids)[e]) <=> e[2] = a
             /\ \A b \in Fits(names) : IsPrefix(NamePrefix(POSTINGS_PREFIX, a, b), Posts(names, ids)[e]) <=> e[2] = a /\ e[3] = b
  <2>1. /\ e[2] \in Key /\ e[3] \in Key /\ <<e[4]>> \in Key
        /\ Posts(names, ids)[e] = AgentKey(POSTINGS_PREFIX, e[2], Behind(e[3], <<e[4]>>))
    <3>1. /\ e[2] \in Fits(names) /\ e[3] \in Fits(names) /\ <<e[4]>> \in Key
          /\ Posts(names, ids)[e] = AgentKey(POSTINGS_PREFIX, e[2], Behind(e[3], <<e[4]>>))
      BY PostKeys
    <3> QED BY <1>2, <3>1, Zenon
  <2>2. PICK c \in Key, d \in Key, q \in Key : c = e[2] /\ d = e[3] /\ q = <<e[4]>>
    BY <2>1
  <2>3. Posts(names, ids)[e] = AgentKey(POSTINGS_PREFIX, c, Behind(d, q)) BY <2>1, <2>2, Zenon
  <2>4. /\ IsPrefix(AgentPrefix(POSTINGS_PREFIX, a), AgentKey(POSTINGS_PREFIX, c, Behind(d, q))) <=> c = a
        /\ \A b \in Fits(names) :
              IsPrefix(NamePrefix(POSTINGS_PREFIX, a, b), AgentKey(POSTINGS_PREFIX, c, Behind(d, q))) <=> c = a /\ d = b
    <3>1. a \in Key /\ Behind(d, q) \in Key BY <1>2, <1>4
    <3>2. IsPrefix(AgentPrefix(POSTINGS_PREFIX, a), AgentKey(POSTINGS_PREFIX, c, Behind(d, q))) <=> c = a
      BY <1>1, <3>1, AgentScanned
    <3>3. ASSUME NEW b \in Key
          PROVE  IsPrefix(NamePrefix(POSTINGS_PREFIX, a, b), AgentKey(POSTINGS_PREFIX, c, Behind(d, q))) <=> c = a /\ d = b
      BY <1>1, <3>1, NamesScanned
    <3> QED BY <1>2, <3>2, <3>3, Zenon
  <2> QED BY <2>2, <2>3, <2>4, Zenon
<1>7. ASSUME NEW r \in DOMAIN Named(names)
      PROVE  /\ r[1] = "record" \/ r[1] = "entity"
             /\ IsPrefix(AgentPrefix(RECORD_PREFIX, a), Named(names)[r]) <=> r[1] = "record" /\ r[2] = a
             /\ IsPrefix(AgentPrefix(ENTITY_PREFIX, a), Named(names)[r]) <=> r[1] # "record" /\ r[2] = a
  <2>1. /\ r[2] \in Key /\ r[3] \in Key /\ r[1] \in {"record", "entity"}
        /\ r[1] = "record" => Named(names)[r] = AgentKey(RECORD_PREFIX, r[2], r[3])
        /\ r[1] # "record" => Named(names)[r] = AgentKey(ENTITY_PREFIX, r[2], r[3])
    BY <1>2, <1>3, NamedKeys, Zenon
  <2>2. PICK c \in Key, q \in Key : c = r[2] /\ q = r[3] BY <2>1
  <2>3. /\ r[1] = "record" => Named(names)[r] = AgentKey(RECORD_PREFIX, c, q)
        /\ r[1] # "record" => Named(names)[r] = AgentKey(ENTITY_PREFIX, c, q)
    BY <2>1, <2>2, Zenon
  <2>4. /\ IsPrefix(AgentPrefix(RECORD_PREFIX, a), AgentKey(RECORD_PREFIX, c, q)) <=> c = a
        /\ IsPrefix(AgentPrefix(ENTITY_PREFIX, a), AgentKey(ENTITY_PREFIX, c, q)) <=> c = a
        /\ ~IsPrefix(AgentPrefix(RECORD_PREFIX, a), AgentKey(ENTITY_PREFIX, c, q))
        /\ ~IsPrefix(AgentPrefix(ENTITY_PREFIX, a), AgentKey(RECORD_PREFIX, c, q))
    BY <1>1, <1>2, AgentScanned
  <2>5. r[1] = "record" \/ r[1] = "entity" BY <2>1
  <2>6. CASE r[1] = "record" BY <2>2, <2>3, <2>4, <2>5, <2>6, Zenon
  <2>7. CASE r[1] # "record" BY <2>2, <2>3, <2>4, <2>5, <2>7, Zenon
  <2> QED BY <2>6, <2>7
<1>8. Scanned(Edges(names), AgentPrefix(EDGE_PREFIX, a)) = OfAgent(Edges(names), a)
  BY <1>5 DEF Scanned, OfAgent, OfName, OfKind
<1>9. Scanned(Posts(names, ids), AgentPrefix(POSTINGS_PREFIX, a)) = OfAgent(Posts(names, ids), a)
  BY <1>6 DEF Scanned, OfAgent, OfName, OfKind
<1>10. Scanned(Named(names), AgentPrefix(RECORD_PREFIX, a)) = OfKind(Named(names), "record", a)
  BY <1>7 DEF Scanned, OfAgent, OfName, OfKind
<1>11. Scanned(Named(names), AgentPrefix(ENTITY_PREFIX, a)) = OfKind(Named(names), "entity", a)
  BY <1>7 DEF Scanned, OfAgent, OfName, OfKind
<1>12. ASSUME NEW b \in Fits(names)
       PROVE  /\ Scanned(Edges(names), NamePrefix(EDGE_PREFIX, a, b)) = OfName(Edges(names), a, b)
              /\ Scanned(Posts(names, ids), NamePrefix(POSTINGS_PREFIX, a, b))
                   = OfName(Posts(names, ids), a, b)
  BY <1>5, <1>6 DEF Scanned, OfAgent, OfName, OfKind
<1> QED BY <1>8, <1>9, <1>10, <1>11, <1>12

(* The range of an agent's records, and that of what expired.              *)
LEMMA RangesScanned ==
    ASSUME WordsFit, NEW names, NEW ids, NEW times, Used(names, ids, times)
    PROVE  \A a \in Fits(names) :
             /\ Ranged(Named(names), AgentPrefix(RECORD_PREFIX, a), record_agent_upper_bound(a))
                  = OfKind(Named(names), "record", a)
             /\ \A at \in times \ {I64_MAX} :
                  Ranged(Expiries(names, times), AgentPrefix(EXPIRY_PREFIX, a), expiry_upper_bound(a, at))
                    = DueBy(Expiries(names, times), a, at)
<1> TAKE a \in Fits(names)
<1>1. /\ RECORD_PREFIX \in Nat /\ ENTITY_PREFIX \in Nat /\ EXPIRY_PREFIX \in Nat /\ RECORD_PREFIX # ENTITY_PREFIX
  BY DEF RECORD_PREFIX, ENTITY_PREFIX, EXPIRY_PREFIX
<1>2. \A n \in Fits(names) : n \in Key /\ n \in Name BY UsedFits
<1>3. \A n \in names : n \in Key BY UsedFits
<1>4. ASSUME NEW r \in DOMAIN Named(names)
      PROVE  InRange(Named(names)[r], AgentPrefix(RECORD_PREFIX, a), record_agent_upper_bound(a))
               <=> r[1] = "record" /\ r[2] = a
  <2>1. /\ r[2] \in Name /\ r[3] \in Key
        /\ r[1] = "record" => Named(names)[r] = AgentKey(RECORD_PREFIX, r[2], r[3])
        /\ r[1] # "record" => Named(names)[r] = AgentKey(ENTITY_PREFIX, r[2], r[3])
    BY <1>2, <1>3, NamedKeys, Zenon
  <2>2. PICK c \in Name, q \in Key : c = r[2] /\ q = r[3] BY <2>1
  <2>3. /\ r[1] = "record" => Named(names)[r] = AgentKey(RECORD_PREFIX, c, q)
        /\ r[1] # "record" => Named(names)[r] = AgentKey(ENTITY_PREFIX, c, q)
    BY <2>1, <2>2, Zenon
  <2>4. /\ InRange(AgentKey(RECORD_PREFIX, c, q), AgentPrefix(RECORD_PREFIX, a), record_agent_upper_bound(a)) <=> a = c
        /\ ~InRange(AgentKey(ENTITY_PREFIX, c, q), AgentPrefix(RECORD_PREFIX, a), record_agent_upper_bound(a))
    BY <1>1, <1>2, RecordsRanged
  <2>5. CASE r[1] = "record" BY <2>2, <2>3, <2>4, <2>5, Zenon
  <2>6. CASE r[1] # "record" BY <2>2, <2>3, <2>4, <2>6, Zenon
  <2> QED BY <2>5, <2>6
<1>5. ASSUME NEW at \in times \ {I64_MAX}, NEW x \in DOMAIN Expiries(names, times)
      PROVE  InRange(Expiries(names, times)[x], AgentPrefix(EXPIRY_PREFIX, a), expiry_upper_bound(a, at))
               <=> x[2] = a /\ x[3] <= at
  <2>1. /\ x[2] \in Key /\ x[3] \in Time /\ x[4] \in Key /\ <<TimeWord(x[3])>> \o x[4] \in Key
        /\ Expiries(names, times)[x] = AgentKey(EXPIRY_PREFIX, x[2], <<TimeWord(x[3])>> \o x[4])
    <3>1. /\ x[2] \in Fits(names) /\ x[3] \in Time /\ x[4] \in names /\ <<TimeWord(x[3])>> \o x[4] \in Key
          /\ Expiries(names, times)[x] = AgentKey(EXPIRY_PREFIX, x[2], <<TimeWord(x[3])>> \o x[4])
      BY ExpiryKeys
    <3> QED BY <1>2, <1>3, <3>1, Zenon
  <2>2. PICK c \in Key, t \in Time, d \in Key, q \in Key :
          c = x[2] /\ t = x[3] /\ d = x[4] /\ q = <<TimeWord(x[3])>> \o x[4]
    BY <2>1
  <2> DEFINE p == AgentPrefix(EXPIRY_PREFIX, a)
             k == AgentKey(EXPIRY_PREFIX, c, q)
             w == TimeWord(at + 1)
  <2>3. Expiries(names, times)[x] = k BY <2>1, <2>2, Zenon
  <2>4. p \in Key BY <1>1, <1>2, AgentKeys
  <2>5. at \in Time /\ at + 1 \in Time /\ saturating_add(at, 1) = at + 1 /\ w \in Nat /\ sortable(at + 1) = w
    <3>1. at \in Time \ {I64_MAX} BY DEF Used
    <3> QED BY <3>1, TimesSort
  <2>6. expiry_upper_bound(a, at) = Append(p, w) BY <2>5, Zenon DEF expiry_upper_bound
  <2>7. /\ k \in Key /\ Len(k) > Len(AgentPrefix(EXPIRY_PREFIX, c))
        /\ k[Len(AgentPrefix(EXPIRY_PREFIX, c)) + 1] = TimeWord(t)
    <3>1. k = AgentKey(EXPIRY_PREFIX, c, <<TimeWord(t)>> \o d) BY <2>2, Zenon
    <3>2. LET m == Len(AgentPrefix(EXPIRY_PREFIX, c))
              l == AgentKey(EXPIRY_PREFIX, c, <<TimeWord(t)>> \o d)
          IN l \in Key /\ Len(l) > m /\ l[m + 1] = TimeWord(t)
      BY ExpiriesRead, Zenon
    <3> QED BY <3>1, <3>2, Zenon
  <2>8. IsPrefix(p, k) <=> c = a BY <1>1, <1>2, AgentScanned
  <2> HIDE DEF p, k, w
  <2>9. InRange(k, p, Append(p, w)) <=> IsPrefix(p, k) /\ (Len(k) = Len(p) \/ k[Len(p) + 1] < w)
    BY <2>4, <2>5, <2>7, RangeUpTo
  <2>10. TimeWord(t) < w <=> t < at + 1 BY <2>5, TimesSort DEF w
  <2>11. t < at + 1 <=> t <= at BY <2>5 DEF Time, WordsFit
  <2>12. ASSUME c = a PROVE ~(Len(k) = Len(p)) /\ k[Len(p) + 1] = TimeWord(t)
    <3>1. Len(k) > Len(p) /\ k[Len(p) + 1] = TimeWord(t) BY <2>7, <2>12, Zenon DEF p
    <3>2. Len(k) \in Nat /\ Len(p) \in Nat BY <2>4, <2>7 DEF Key
    <3> QED BY <3>1, <3>2
  <2>13. InRange(k, p, Append(p, w)) <=> c = a /\ t <= at
    BY <2>8, <2>9, <2>10, <2>11, <2>12, Zenon
  <2> QED BY <2>2, <2>3, <2>6, <2>13, Zenon DEF p
<1>6. Ranged(Named(names), AgentPrefix(RECORD_PREFIX, a), record_agent_upper_bound(a))
        = OfKind(Named(names), "record", a)
  BY <1>4 DEF Ranged, OfKind, DueBy
<1>7. ASSUME NEW at \in times \ {I64_MAX}
      PROVE  Ranged(Expiries(names, times), AgentPrefix(EXPIRY_PREFIX, a), expiry_upper_bound(a, at))
               = DueBy(Expiries(names, times), a, at)
  BY <1>5 DEF Ranged, OfKind, DueBy
<1> QED BY <1>6, <1>7

(* Every key gives back what it was made of.                               *)
LEMMA KeysRead ==
    ASSUME WordsFit, NEW names, NEW ids, NEW times, Used(names, ids, times)
    PROVE  /\ \A e \in DOMAIN Edges(names) :
                /\ edge_relation_dst(Len(NamePrefix(EDGE_PREFIX, e[2], e[3])), Edges(names)[e]) = Some(<<e[4], e[5]>>)
                /\ edge_src_relation_dst(Len(AgentPrefix(EDGE_PREFIX, e[2])), Edges(names)[e])
                     = Some(<<e[3], e[4], e[5]>>)
           /\ \A p \in DOMAIN Posts(names, ids) :
                postings_vec_id(Len(NamePrefix(POSTINGS_PREFIX, p[2], p[3])), Posts(names, ids)[p]) = Some(p[4])
           /\ \A x \in DOMAIN Expiries(names, times) :
                expiry_decode(Len(AgentPrefix(EXPIRY_PREFIX, x[2])), Expiries(names, times)[x]) = Some(<<x[3], x[4]>>)
           /\ \A r \in DOMAIN Named(names) :
                IF r[1] = "record" THEN record_id(Len(AgentPrefix(RECORD_PREFIX, r[2])), Named(names)[r]) = Some(r[3])
                ELSE entity_id(Len(AgentPrefix(ENTITY_PREFIX, r[2])), Named(names)[r]) = Some(r[3])
           /\ \A a \in Fits(names) : agent_decode(agent_key(a).value) = Some(a)
<1>1. \A n \in Fits(names) : n \in Key /\ ~TooLong(n) BY UsedFits
<1>2. \A n \in names : n \in Key BY UsedFits
<1>3. RECORD_PREFIX \in Nat /\ ENTITY_PREFIX \in Nat BY DEF RECORD_PREFIX, ENTITY_PREFIX
<1>4. ASSUME NEW e \in DOMAIN Edges(names)
      PROVE  /\ edge_relation_dst(Len(NamePrefix(EDGE_PREFIX, e[2], e[3])), Edges(names)[e]) = Some(<<e[4], e[5]>>)
             /\ edge_src_relation_dst(Len(AgentPrefix(EDGE_PREFIX, e[2])), Edges(names)[e])
                  = Some(<<e[3], e[4], e[5]>>)
  <2>1. /\ e[2] \in Key /\ e[3] \in Key /\ e[4] \in Key /\ e[5] \in Key
        /\ Edges(names)[e] = AgentKey(EDGE_PREFIX, e[2], Behind(e[3], Behind(e[4], e[5])))
    BY <1>1, <1>2, EdgeKeys, Zenon
  <2>2. PICK a \in Key, b \in Key, c \in Key, d \in Key : a = e[2] /\ b = e[3] /\ c = e[4] /\ d = e[5] BY <2>1
  <2>3. Edges(names)[e] = AgentKey(EDGE_PREFIX, a, Behind(b, Behind(c, d))) BY <2>1, <2>2, Zenon
  <2>4. /\ edge_relation_dst(Len(NamePrefix(EDGE_PREFIX, a, b)), AgentKey(EDGE_PREFIX, a, Behind(b, Behind(c, d))))
             = Some(<<c, d>>)
        /\ edge_src_relation_dst(Len(AgentPrefix(EDGE_PREFIX, a)), AgentKey(EDGE_PREFIX, a, Behind(b, Behind(c, d))))
             = Some(<<b, c, d>>)
    BY EdgesRead
  <2> QED BY <2>2, <2>3, <2>4, Zenon
<1>5. ASSUME NEW e \in DOMAIN Posts(names, ids)
      PROVE  postings_vec_id(Len(NamePrefix(POSTINGS_PREFIX, e[2], e[3])), Posts(names, ids)[e]) = Some(e[4])
  <2>1. /\ e[2] \in Fits(names) /\ e[3] \in Fits(names) /\ e[4] \in Nat
        /\ Posts(names, ids)[e] = AgentKey(POSTINGS_PREFIX, e[2], Behind(e[3], <<e[4]>>))
    BY PostKeys
  <2>2. PICK a \in Key, b \in Key, n \in Nat : a = e[2] /\ b = e[3] /\ n = e[4] BY <1>1, <2>1
  <2>3. Posts(names, ids)[e] = AgentKey(POSTINGS_PREFIX, a, Behind(b, <<n>>)) BY <2>1, <2>2, Zenon
  <2>4. postings_vec_id(Len(NamePrefix(POSTINGS_PREFIX, a, b)), AgentKey(POSTINGS_PREFIX, a, Behind(b, <<n>>))) = Some(n)
    BY PostsRead, Zenon
  <2> QED BY <2>2, <2>3, <2>4, Zenon
<1>6. ASSUME NEW x \in DOMAIN Expiries(names, times)
      PROVE  expiry_decode(Len(AgentPrefix(EXPIRY_PREFIX, x[2])), Expiries(names, times)[x]) = Some(<<x[3], x[4]>>)
  <2>1. /\ x[2] \in Fits(names) /\ x[3] \in Time /\ x[4] \in names
        /\ Expiries(names, times)[x] = AgentKey(EXPIRY_PREFIX, x[2], <<TimeWord(x[3])>> \o x[4])
    BY ExpiryKeys
  <2>2. PICK a \in Key, t \in Time, d \in Key : a = x[2] /\ t = x[3] /\ d = x[4] BY <1>1, <1>2, <2>1
  <2>3. Expiries(names, times)[x] = AgentKey(EXPIRY_PREFIX, a, <<TimeWord(t)>> \o d) BY <2>1, <2>2, Zenon
  <2>4. expiry_decode(Len(AgentPrefix(EXPIRY_PREFIX, a)), AgentKey(EXPIRY_PREFIX, a, <<TimeWord(t)>> \o d)) = Some(<<t, d>>)
    BY ExpiriesRead, Zenon
  <2> QED BY <2>2, <2>3, <2>4, Zenon
<1>7. ASSUME NEW r \in DOMAIN Named(names)
      PROVE  IF r[1] = "record" THEN record_id(Len(AgentPrefix(RECORD_PREFIX, r[2])), Named(names)[r]) = Some(r[3])
             ELSE entity_id(Len(AgentPrefix(ENTITY_PREFIX, r[2])), Named(names)[r]) = Some(r[3])
  <2>1. /\ r[2] \in Key /\ r[3] \in Key
        /\ r[1] = "record" => Named(names)[r] = AgentKey(RECORD_PREFIX, r[2], r[3])
        /\ r[1] # "record" => Named(names)[r] = AgentKey(ENTITY_PREFIX, r[2], r[3])
    BY <1>1, <1>2, NamedKeys, Zenon
  <2>2. /\ NameAfter(RECORD_PREFIX, Len(AgentPrefix(RECORD_PREFIX, r[2])), AgentKey(RECORD_PREFIX, r[2], r[3])) = Some(r[3])
        /\ NameAfter(ENTITY_PREFIX, Len(AgentPrefix(ENTITY_PREFIX, r[2])), AgentKey(ENTITY_PREFIX, r[2], r[3])) = Some(r[3])
    BY <1>3, <2>1, NamesRead, Zenon
  <2>3. CASE r[1] = "record" BY <2>1, <2>2, <2>3, Zenon DEF record_id
  <2>4. CASE r[1] # "record" BY <2>1, <2>2, <2>4, Zenon DEF entity_id
  <2> QED BY <2>3, <2>4
<1>8. ASSUME NEW a \in Fits(names) PROVE agent_decode(agent_key(a).value) = Some(a)
  <2>1. a \in Key /\ ~TooLong(a) BY <1>1
  <2>2. agent_key(a).value = AgentKey(REGISTRY_PREFIX, a, <<>>) BY <2>1, KeysWritten, Zenon
  <2> QED BY <2>1, <2>2, AgentsRead, Zenon
<1> QED BY <1>4, <1>5, <1>6, <1>7, <1>8

(* Separate: however many  names, ids and times a store uses and whatever  *)
(* the names are, no two of its keys are one, each decoder gives back what *)
(* its key was made of, and each scan of a prefix or a range (an agent's   *)
(* records, what expired by a time) meets the keys it is for and no others *)
(* (key/mod.rs).                                                           *)
THEOREM KeysAlwaysSeparate ==
    ASSUME WordsFit, NEW names, NEW ids, NEW times, Used(names, ids, times)
    PROVE  Separate(names, ids, times)
<1>1. ASSUME NEW i \in ids, NEW j \in ids
      PROVE  /\ node_id(node_key(i).value) = Some(i) /\ vecmap_id(vecmap_key(i).value) = Some(i)
             /\ vecmap_id(node_key(i).value) = None
             /\ Less(node_key(i).value, node_key(j).value) <=> i < j
  <2>1. i \in Nat /\ j \in Nat BY DEF Used
  <2> QED BY <2>1, IdsRead, Zenon
<1>2. ASSUME NEW n \in names \ Fits(names) PROVE ~record_key(n, <<>>).ok /\ ~edge_key(<<>>, n, <<>>, <<>>).ok
  <2>1. TooLong(n) BY DEF Fits
  <2> QED BY <2>1, KeyGot, WrittenThree, Zenon DEF record_key, edge_key
<1>3. ASSUME NEW a \in Fits(names) PROVE agent_decode(agent_key(a).value) = Some(a) BY KeysRead, Zenon
<1> DEFINE edges == Edges(names)
           posts == Posts(names, ids)
           expiries == Expiries(names, times)
           named == Named(names)
           spaces == <<edges, posts, expiries, named, Docs(names, ids), Agents(names), Nodes(ids)>>
<1>4. (\A i \in DOMAIN spaces : Injective(spaces[i])) /\ Apart(spaces) BY KeysDiffer, Zenon
<1>5. \A a \in Fits(names) :
         /\ Scanned(edges, AgentPrefix(EDGE_PREFIX, a)) = OfAgent(edges, a)
         /\ Scanned(posts, AgentPrefix(POSTINGS_PREFIX, a)) = OfAgent(posts, a)
         /\ Scanned(named, AgentPrefix(RECORD_PREFIX, a)) = OfKind(named, "record", a)
         /\ Scanned(named, AgentPrefix(ENTITY_PREFIX, a)) = OfKind(named, "entity", a)
         /\ \A b \in Fits(names) :
              /\ Scanned(edges, NamePrefix(EDGE_PREFIX, a, b)) = OfName(edges, a, b)
              /\ Scanned(posts, NamePrefix(POSTINGS_PREFIX, a, b)) = OfName(posts, a, b)
  BY PrefixesScanned, Zenon
<1>6. \A a \in Fits(names) :
         /\ Ranged(named, AgentPrefix(RECORD_PREFIX, a), record_agent_upper_bound(a))
              = OfKind(named, "record", a)
         /\ \A at \in times \ {I64_MAX} :
              Ranged(expiries, AgentPrefix(EXPIRY_PREFIX, a), expiry_upper_bound(a, at))
                = DueBy(expiries, a, at)
  BY RangesScanned
<1>7. /\ \A e \in DOMAIN edges :
           /\ edge_relation_dst(Len(NamePrefix(EDGE_PREFIX, e[2], e[3])), edges[e]) = Some(<<e[4], e[5]>>)
           /\ edge_src_relation_dst(Len(AgentPrefix(EDGE_PREFIX, e[2])), edges[e]) = Some(<<e[3], e[4], e[5]>>)
      /\ \A p \in DOMAIN posts :
           postings_vec_id(Len(NamePrefix(POSTINGS_PREFIX, p[2], p[3])), posts[p]) = Some(p[4])
      /\ \A x \in DOMAIN expiries :
           expiry_decode(Len(AgentPrefix(EXPIRY_PREFIX, x[2])), expiries[x]) = Some(<<x[3], x[4]>>)
      /\ \A r \in DOMAIN named :
           IF r[1] = "record" THEN record_id(Len(AgentPrefix(RECORD_PREFIX, r[2])), named[r]) = Some(r[3])
           ELSE entity_id(Len(AgentPrefix(ENTITY_PREFIX, r[2])), named[r]) = Some(r[3])
  BY KeysRead, Zenon
<1> HIDE DEF edges, posts, expiries, named
<1> QED BY <1>1, <1>2, <1>3, <1>4, <1>5, <1>6, <1>7, Zenon
  DEF Separate, edges, posts, expiries, named, OfAgent, OfName, OfKind, DueBy

(* KeysApart: so it is of whichever samples of names, ids and times a      *)
(* model picks its cases from (key/mod.rs).                                *)
THEOREM KeysAlwaysApart ==
    ASSUME WordsFit,
           \A i \in DOMAIN KeySamples : Used(KeySamples[i].names, KeySamples[i].ids, KeySamples[i].times),
           input.kind = "keys" => input.i \in DOMAIN KeySamples
    PROVE  KeysApart
<1> SUFFICES ASSUME input.kind = "keys"
             PROVE  Separate(KeySamples[input.i].names, KeySamples[input.i].ids, KeySamples[input.i].times)
  BY Zenon DEF KeysApart
<1> QED BY KeysAlwaysSeparate, Zenon
==============================================================================
