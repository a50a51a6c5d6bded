-------------------------- MODULE WorkingTreeProofs ---------------------------
(* Proofs about WorkingTree, for directories of any depth and size.        *)
EXTENDS WorkingTree, SequenceTheorems, FiniteSetTheorems, WellFoundedInduction, TLAPS

-----------------------------------------------------------------------------
(* Paths.  A prefix is known by its length and its names.                  *)

Paths == Seq(Nat)

LEMMA PathLength ==
    ASSUME NEW p \in Paths
    PROVE  /\ Len(p) \in Nat /\ DOMAIN p = 1..Len(p)
           /\ \A i \in 1..Len(p) : p[i] \in Nat
           /\ p = Root <=> Len(p) = 0
<1>1. /\ Len(p) \in Nat /\ DOMAIN p = 1..Len(p)
      /\ \A i \in 1..Len(p) : p[i] \in Nat
  BY LenProperties, ElementOfSeq DEF Paths
<1>2. p # Root => Len(p) \in Nat \ {0}
  BY EmptySeq DEF Paths, Root
<1>3. p = Root => Len(p) = 0
  BY EmptySeq DEF Root
<1> QED
  BY <1>1, <1>2, <1>3

LEMMA PathsEqual ==
    ASSUME NEW p \in Paths, NEW q \in Paths, Len(p) = Len(q), \A i \in 1..Len(p) : p[i] = q[i]
    PROVE  p = q
  BY SeqEqual DEF Paths

LEMMA Cut ==
    ASSUME NEW p \in Paths, NEW n \in 0..Len(p)
    PROVE  /\ SubSeq(p, 1, n) \in Paths /\ Len(SubSeq(p, 1, n)) = n
           /\ \A i \in 1..n : SubSeq(p, 1, n)[i] = p[i]
<1>1. Len(p) \in Nat /\ n \in Int /\ \A i \in 1..n : p[i] \in Nat
  BY PathLength
<1>2. /\ SubSeq(p, 1, n) \in Seq(Nat)
      /\ Len(SubSeq(p, 1, n)) = IF 1 <= n THEN n - 1 + 1 ELSE 0
      /\ \A i \in 1..(n - 1 + 1) : SubSeq(p, 1, n)[i] = p[1 + i - 1]
  BY <1>1, SubSeqProperties
<1> HIDE DEF Paths
<1>3. n \in Nat
  BY <1>1
<1> QED
  BY <1>2, <1>3 DEF Paths

LEMMA PrefixMeans ==
    ASSUME NEW p \in Paths, NEW q \in Paths
    PROVE  IsPrefix(p, q) <=> Len(p) <= Len(q) /\ \A i \in 1..Len(p) : p[i] = q[i]
<1>0. Len(p) \in Nat /\ Len(q) \in Nat
  BY PathLength
<1>1. SubSeq(p, 1, Len(p)) = p
  BY SubSeqFull DEF Paths
<1>2. ASSUME Len(p) <= Len(q)
      PROVE  p = SubSeq(q, 1, Len(p)) <=> \A i \in 1..Len(p) : p[i] = q[i]
  <2>1. /\ SubSeq(q, 1, Len(p)) \in Paths /\ Len(SubSeq(q, 1, Len(p))) = Len(p)
        /\ \A i \in 1..Len(p) : SubSeq(q, 1, Len(p))[i] = q[i]
    BY <1>0, <1>2, Cut
  <2> QED
    BY <2>1, PathsEqual
<1> QED
  BY <1>0, <1>1, <1>2 DEF IsPrefix

(* Prefixes are a partial order in which those of one path are in line.    *)
LEMMA PrefixOrder ==
    /\ \A p \in Paths : IsPrefix(p, p) /\ IsPrefix(Root, p) /\ Root \in Paths
    /\ \A p, q \in Paths : IsPrefix(p, q) /\ IsPrefix(q, p) => p = q
    /\ \A p, q, r \in Paths : IsPrefix(p, q) /\ IsPrefix(q, r) => IsPrefix(p, r)
    /\ \A p, q, r \in Paths : IsPrefix(p, r) /\ IsPrefix(q, r) => IsPrefix(p, q) \/ IsPrefix(q, p)
    /\ \A p \in Paths : IsPrefix(p, Root) => p = Root
<1>0. Root \in Paths /\ Len(Root) = 0
  BY EmptySeq DEF Paths, Root
<1>1. \A p \in Paths : IsPrefix(p, p) /\ IsPrefix(Root, p)
  BY <1>0, PathLength, PrefixMeans
<1>2. ASSUME NEW p \in Paths, NEW q \in Paths, IsPrefix(p, q), IsPrefix(q, p) PROVE p = q
  <2>1. Len(p) = Len(q) /\ \A i \in 1..Len(p) : p[i] = q[i]
    BY <1>2, PathLength, PrefixMeans
  <2> QED
    BY <2>1, PathsEqual
<1>3. ASSUME NEW p \in Paths, NEW q \in Paths, NEW r \in Paths, IsPrefix(p, q), IsPrefix(q, r)
      PROVE  IsPrefix(p, r)
  <2>1. Len(p) \in Nat /\ Len(q) \in Nat /\ Len(r) \in Nat
    BY PathLength
  <2>2. Len(p) <= Len(r) /\ \A i \in 1..Len(p) : p[i] = r[i]
    BY <1>3, <2>1, PrefixMeans
  <2> QED
    BY <2>2, PrefixMeans
<1>4. ASSUME NEW p \in Paths, NEW q \in Paths, NEW r \in Paths, IsPrefix(p, r), IsPrefix(q, r)
      PROVE  IsPrefix(p, q) \/ IsPrefix(q, p)
  <2>1. Len(p) \in Nat /\ Len(q) \in Nat /\ Len(r) \in Nat
    BY PathLength
  <2>2. /\ \A i \in 1..Len(p) : p[i] = r[i]
        /\ \A i \in 1..Len(q) : q[i] = r[i]
    BY <1>4, PrefixMeans
  <2>3. CASE Len(p) <= Len(q)
    <3>1. \A i \in 1..Len(p) : p[i] = q[i]
      BY <2>1, <2>2, <2>3
    <3> QED
      BY <2>3, <3>1, PrefixMeans
  <2>4. CASE Len(q) <= Len(p)
    <3>1. \A i \in 1..Len(q) : q[i] = p[i]
      BY <2>1, <2>2, <2>4
    <3> QED
      BY <2>4, <3>1, PrefixMeans
  <2> QED
    BY <2>1, <2>3, <2>4
<1>5. ASSUME NEW p \in Paths, IsPrefix(p, Root) PROVE p = Root
  BY <1>0, <1>1, <1>2, <1>5
<1> QED
  BY <1>0, <1>1, <1>2, <1>3, <1>4, <1>5

LEMMA ProperMeans ==
    ASSUME NEW p \in Paths
    PROVE  \A q : q \in Proper(p) <=> q \in Paths /\ IsStrictPrefix(q, p)
<1>0. Len(p) \in Nat
  BY PathLength
<1>1. ASSUME NEW q \in Proper(p) PROVE q \in Paths /\ IsStrictPrefix(q, p)
  <2>1. PICK n \in 0..(Len(p) - 1) : q = SubSeq(p, 1, n)
    BY <1>1 DEF Proper
  <2>2. q \in Paths /\ Len(q) = n /\ \A i \in 1..n : q[i] = p[i]
    BY <1>0, <2>1, Cut
  <2>3. Len(q) < Len(p) /\ \A i \in 1..Len(q) : q[i] = p[i]
    BY <1>0, <2>1, <2>2
  <2>4. IsPrefix(q, p)
    BY <1>0, <2>2, <2>3, PrefixMeans
  <2> QED
    BY <1>0, <2>2, <2>3, <2>4 DEF IsStrictPrefix
<1>2. ASSUME NEW q \in Paths, IsStrictPrefix(q, p) PROVE q \in Proper(p)
  <2>1. IsPrefix(q, p) /\ q # p /\ Len(q) \in Nat
    BY <1>2, PathLength DEF IsStrictPrefix
  <2>2. Len(q) <= Len(p) /\ \A i \in 1..Len(q) : q[i] = p[i]
    BY <2>1, PrefixMeans
  <2>3. Len(q) # Len(p)
    BY <2>1, <2>2, PathsEqual
  <2>4. Len(q) \in 0..(Len(p) - 1)
    BY <1>0, <2>1, <2>2, <2>3
  <2>5. /\ SubSeq(p, 1, Len(q)) \in Paths /\ Len(SubSeq(p, 1, Len(q))) = Len(q)
        /\ \A i \in 1..Len(q) : SubSeq(p, 1, Len(q))[i] = p[i]
    BY <1>0, <2>4, Cut
  <2>6. q = SubSeq(p, 1, Len(q))
    BY <2>2, <2>5, PathsEqual
  <2> QED
    BY <2>4, <2>6 DEF Proper
<1> QED
  BY <1>1, <1>2

(* The entry of a directory through which a path goes.                     *)
LEMMA StepBelow ==
    ASSUME NEW p \in Paths, NEW q \in Paths, IsStrictPrefix(p, q)
    PROVE  \E n \in Nat : /\ IsPrefix(Append(p, n), q)
                          /\ \A m \in Nat : IsPrefix(Append(p, m), q) => m = n
<1>1. IsPrefix(p, q) /\ p # q /\ Len(p) \in Nat /\ Len(q) \in Nat
  BY PathLength DEF IsStrictPrefix
<1>2. Len(p) <= Len(q) /\ \A i \in 1..Len(p) : p[i] = q[i]
  BY <1>1, PrefixMeans
<1>3. Len(p) # Len(q)
  BY <1>1, <1>2, PathsEqual
<1>4. Len(p) + 1 \in 1..Len(q) /\ q[Len(p) + 1] \in Nat
  BY <1>1, <1>2, <1>3, PathLength
<1> DEFINE n == q[Len(p) + 1]
<1>5. \A m \in Nat : /\ Append(p, m) \in Paths /\ Len(Append(p, m)) = Len(p) + 1
                     /\ \A i \in 1..Len(p) : Append(p, m)[i] = p[i]
                     /\ Append(p, m)[Len(p) + 1] = m
  BY AppendProperties DEF Paths
<1>6. ASSUME NEW m \in Nat PROVE IsPrefix(Append(p, m), q) <=> m = n
  <2> DEFINE r == Append(p, m)
  <2>0. /\ r \in Paths /\ Len(r) = Len(p) + 1 /\ r[Len(p) + 1] = m
        /\ \A i \in 1..Len(p) : r[i] = p[i]
    BY <1>5
  <2> HIDE DEF r
  <2>1. IsPrefix(r, q) <=> Len(r) <= Len(q) /\ \A i \in 1..Len(r) : r[i] = q[i]
    BY <2>0, PrefixMeans
  <2>2. (\A i \in 1..Len(r) : r[i] = q[i]) <=> m = n
    BY <1>1, <1>2, <2>0
  <2> QED
    BY <1>1, <1>4, <2>0, <2>1, <2>2 DEF r
<1> QED
  BY <1>4, <1>6

LEMMA EntryPath ==
    ASSUME NEW p \in Paths, NEW n \in Nat
    PROVE  /\ Append(p, n) \in Paths /\ Append(p, n) # Root
           /\ IsStrictPrefix(p, Append(p, n))
           /\ \A q \in Paths : IsStrictPrefix(q, Append(p, n)) => IsPrefix(q, p)
           /\ Last(Append(p, n)) = n /\ Len(Append(p, n)) = Len(p) + 1
<1> DEFINE r == Append(p, n)
<1>1. /\ r \in Paths /\ r # Root /\ Len(r) = Len(p) + 1 /\ Len(p) \in Nat
      /\ \A i \in 1..Len(p) : r[i] = p[i]
      /\ r[Len(p) + 1] = n
  BY AppendProperties, PathLength DEF Paths, Root
<1> HIDE DEF r
<1>2. IsStrictPrefix(p, r)
  BY <1>1, PrefixMeans DEF IsStrictPrefix
<1>3. ASSUME NEW q \in Paths, IsStrictPrefix(q, r) PROVE IsPrefix(q, p)
  <2>1. IsPrefix(q, r) /\ q # r /\ Len(q) \in Nat
    BY <1>3, PathLength DEF IsStrictPrefix
  <2>2. Len(q) <= Len(r) /\ \A i \in 1..Len(q) : q[i] = r[i]
    BY <1>1, <2>1, PrefixMeans
  <2>3. Len(q) # Len(r)
    BY <1>1, <2>1, <2>2, PathsEqual
  <2>4. Len(q) <= Len(p) /\ \A i \in 1..Len(q) : q[i] = p[i]
    BY <1>1, <2>1, <2>2, <2>3
  <2> QED
    BY <2>4, PrefixMeans
<1>4. Last(r) = n
  BY <1>1 DEF Last
<1> QED
  BY <1>1, <1>2, <1>3, <1>4 DEF r

-----------------------------------------------------------------------------
(* Sorting.  The number of elements before e is less than that before f if *)
(* e comes before f, so that they are 0, 1, ... in the order's direction.  *)

LEMMA Ranks ==
    ASSUME NEW S, IsFiniteSet(S), NEW before \in [S -> SUBSET S],
           \A d, e \in S : d \in before[e] => before[d] \subseteq before[e],
           \A d \in S : d \notin before[d],
           \A d, e \in S : d = e \/ d \in before[e] \/ e \in before[d],
           NEW s, s = [k \in 1..Cardinality(S) |-> s[k]],
           \A k \in 1..Cardinality(S) : \A e \in S :
              Cardinality(before[e]) = k - 1 => s[k] \in S /\ Cardinality(before[s[k]]) = k - 1
    PROVE  /\ Cardinality(S) \in Nat
           /\ s \in [1..Cardinality(S) -> S]
           /\ \A e \in S : \E k \in 1..Cardinality(S) : s[k] = e
           /\ \A i, j \in 1..Cardinality(S) : i < j <=> s[i] \in before[s[j]]
<1> DEFINE n == Cardinality(S)
           rank == [e \in S |-> Cardinality(before[e])]
<1>0. n \in Nat
  BY FS_CardinalityType
<1>1. ASSUME NEW e \in S
      PROVE  before[e] \in SUBSET S /\ IsFiniteSet(before[e]) /\ Cardinality(before[e]) \in Nat
  <2>1. before[e] \in SUBSET S
    OBVIOUS
  <2> QED
    BY <2>1, FS_Subset, FS_CardinalityType
<1>2. ASSUME NEW d \in S, NEW e \in S, d \in before[e] PROVE rank[d] < rank[e]
  <2>1. before[d] \cup {d} \in SUBSET before[e] /\ d \notin before[d]
    BY <1>2
  <2>2. IsFiniteSet(before[d]) /\ IsFiniteSet(before[e])
    BY <1>1
  <2>3. Cardinality(before[d] \cup {d}) = Cardinality(before[d]) + 1
    BY <2>1, <2>2, FS_AddElement
  <2>4. Cardinality(before[d] \cup {d}) <= Cardinality(before[e])
    BY <2>1, <2>2, FS_Subset
  <2> QED
    BY <1>1, <2>3, <2>4
<1>3. ASSUME NEW e \in S PROVE rank[e] \in 0..(n - 1)
  <2>1. before[e] \in SUBSET (S \ {e})
    BY <1>1
  <2>2. IsFiniteSet(S \ {e}) /\ Cardinality(S \ {e}) = n - 1
    BY FS_RemoveElement
  <2>3. Cardinality(before[e]) <= Cardinality(S \ {e})
    BY <2>1, <2>2, FS_Subset
  <2> HIDE DEF n
  <2> QED
    BY <1>0, <1>1, <2>2, <2>3
<1>4. \A d \in S : rank[d] \in Nat
  BY <1>1
<1> HIDE DEF rank
<1>5. \A d, e \in S : d \in before[e] <=> rank[d] < rank[e]
  <2> TAKE d, e \in S
  <2>1. rank[d] \in Nat /\ rank[e] \in Nat
    BY <1>4
  <2>2. CASE d = e
    BY <2>1, <2>2
  <2>3. CASE d \in before[e]
    BY <1>2, <2>3
  <2>4. CASE e \in before[d]
    <3>1. rank[e] < rank[d]
      BY <1>2, <2>4
    <3>2. d \notin before[e]
      BY <1>2, <3>1, <2>1
    <3> QED
      BY <2>1, <3>1, <3>2
  <2> QED
    BY <2>2, <2>3, <2>4
<1>6. \A d, e \in S : rank[d] = rank[e] => d = e
  <2> SUFFICES ASSUME NEW d \in S, NEW e \in S, rank[d] = rank[e] PROVE d = e
    OBVIOUS
  <2>1. rank[d] \in Nat
    BY <1>4
  <2>2. ~(rank[d] < rank[e]) /\ ~(rank[e] < rank[d])
    BY <2>1
  <2> QED
    BY <1>5, <2>2
<1>7. IsFiniteSet(0..(n - 1)) /\ Cardinality(0..(n - 1)) = n
  <2> HIDE DEF n
  <2>0. \A a, b \in Int : /\ IsFiniteSet(a..b)
                          /\ Cardinality(a..b) = IF a > b THEN 0 ELSE b - a + 1
    BY FS_Interval
  <2> DEFINE m == n - 1
  <2>1. m \in Int /\ 0 \in Int
    BY <1>0
  <2> HIDE DEF m
  <2>2. IsFiniteSet(0..m) /\ Cardinality(0..m) = IF 0 > m THEN 0 ELSE m - 0 + 1
    BY <2>0, <2>1
  <2>3. Cardinality(0..m) = n
    BY <1>0, <2>2 DEF m
  <2> QED
    BY <2>2, <2>3 DEF m
<1> HIDE DEF n
<1>8. rank \in Injection(S, 0..(n - 1))
  <2>1. rank \in [S -> 0..(n - 1)] /\ DOMAIN rank = S
    BY <1>3 DEF rank
  <2> QED
    BY <1>6, <2>1 DEF Injection, IsInjective
<1>9. rank \in Surjection(S, 0..(n - 1))
  BY <1>7, <1>8, FS_Injection DEF n
<1>10. \A k \in 0..(n - 1) : \E e \in S : rank[e] = k
  BY <1>9 DEF Surjection
<1>11. ASSUME NEW k \in 1..n, NEW e \in S, rank[e] = k - 1
      PROVE  s[k] \in S /\ rank[s[k]] = k - 1
  BY <1>11 DEF rank, n
<1>12. ASSUME NEW k \in 1..n PROVE s[k] \in S /\ rank[s[k]] = k - 1
  <2>1. k - 1 \in 0..(n - 1)
    BY <1>0
  <2>2. PICK e \in S : rank[e] = k - 1
    BY <1>10, <2>1, Zenon
  <2> QED
    BY <1>11, <2>2
<1>13. s \in [1..n -> S]
  BY <1>12 DEF n
<1>14. ASSUME NEW e \in S PROVE \E k \in 1..n : s[k] = e
  <2>1. rank[e] + 1 \in 1..n /\ (rank[e] + 1) - 1 = rank[e]
    BY <1>0, <1>3, <1>4
  <2>2. rank[s[rank[e] + 1]] = rank[e] /\ s[rank[e] + 1] \in S
    BY <1>12, <2>1
  <2> QED
    BY <1>6, <2>1, <2>2
<1>15. \A i, j \in 1..n : i < j <=> s[i] \in before[s[j]]
  <2> TAKE i, j \in 1..n
  <2>1. s[i] \in S /\ s[j] \in S /\ rank[s[i]] = i - 1 /\ rank[s[j]] = j - 1
    BY <1>12
  <2>2. s[i] \in before[s[j]] <=> i - 1 < j - 1
    BY <1>5, <2>1
  <2> QED
    BY <1>0, <2>2
<1> QED
  BY <1>0, <1>13, <1>14, <1>15 DEF n

LEMMA SortedNumbers ==
    ASSUME NEW S \in SUBSET Nat, IsFiniteSet(S)
    PROVE  /\ Sorted(S) \in Seq(S) /\ Len(Sorted(S)) = Cardinality(S)
           /\ Cardinality(S) \in Nat
           /\ DOMAIN Sorted(S) = 1..Len(Sorted(S))
           /\ \A e : e \in S <=> \E k \in DOMAIN Sorted(S) : Sorted(S)[k] = e
           /\ \A i, j \in DOMAIN Sorted(S) : i < j <=> Sorted(S)[i] < Sorted(S)[j]
<1> DEFINE before == [e \in S |-> {d \in S : d < e}]
           s == Sorted(S)
<1>1. before \in [S -> SUBSET S] /\ \A d, e \in S : d \in before[e] <=> d < e
  OBVIOUS
<1>2. /\ s = [k \in 1..Cardinality(S) |-> s[k]]
      /\ \A k \in 1..Cardinality(S) : s[k] = CHOOSE e \in S : Cardinality(before[e]) = k - 1
  <2> DEFINE pick(k) == CHOOSE e \in S : Cardinality({d \in S : d < e}) = k - 1
  <2>1. s = [k \in 1..Cardinality(S) |-> pick(k)]
    BY DEF Sorted, InOrder
  <2>2. \A k : pick(k) = CHOOSE e \in S : Cardinality(before[e]) = k - 1
    OBVIOUS
  <2> HIDE DEF s, before, pick
  <2>3. s = [k \in 1..Cardinality(S) |-> s[k]]
    BY <2>1
  <2>4. \A k \in 1..Cardinality(S) : s[k] = pick(k)
    BY <2>1
  <2> QED
    BY <2>2, <2>3, <2>4, Zenon
<1> HIDE DEF before, s
<1>3. \A d, e \in S : d \in before[e] => before[d] \subseteq before[e]
  <2> SUFFICES ASSUME NEW d \in S, NEW e \in S, d < e, NEW f \in before[d] PROVE f \in before[e]
    BY <1>1
  <2>1. f \in S /\ f < d
    BY <1>1
  <2> QED
    BY <1>1, <2>1
<1>4. \A d \in S : d \notin before[d]
  BY <1>1
<1>5. \A d, e \in S : d = e \/ d \in before[e] \/ e \in before[d]
  BY <1>1
<1>10. \A k \in 1..Cardinality(S) : \A e \in S :
         Cardinality(before[e]) = k - 1 => s[k] \in S /\ Cardinality(before[s[k]]) = k - 1
  BY <1>2
<1>6. /\ Cardinality(S) \in Nat
      /\ s \in [1..Cardinality(S) -> S]
      /\ \A e \in S : \E k \in 1..Cardinality(S) : s[k] = e
      /\ \A i, j \in 1..Cardinality(S) : i < j <=> s[i] \in before[s[j]]
  BY <1>1, <1>2, <1>3, <1>4, <1>5, <1>10, Ranks, ZenonT(60)
<1>7. s \in Seq(S) /\ Len(s) = Cardinality(S) /\ DOMAIN s = 1..Len(s)
  BY <1>6
<1>8. \A i, j \in DOMAIN s : i < j <=> s[i] < s[j]
  BY <1>1, <1>6, <1>7
<1>9. \A e : e \in S <=> \E k \in DOMAIN s : s[k] = e
  BY <1>6, <1>7
<1> QED
  BY <1>6, <1>7, <1>8, <1>9 DEF s

-----------------------------------------------------------------------------
(* Paths that are put together.                                            *)

LEMMA Joined ==
    ASSUME NEW p \in Paths, NEW r \in Paths
    PROVE  /\ p \o r \in Paths /\ Len(p \o r) = Len(p) + Len(r)
           /\ IsPrefix(p, p \o r)
           /\ SubSeq(p \o r, Len(p) + 1, Len(p \o r)) = r
           /\ IsStrictPrefix(p, p \o r) <=> r # Root
           /\ \A i \in 1..(Len(p) + Len(r)) :
                 (p \o r)[i] = IF i <= Len(p) THEN p[i] ELSE r[i - Len(p)]
<1> DEFINE q == p \o r
<1>1. /\ q \in Paths /\ Len(q) = Len(p) + Len(r)
      /\ \A i \in 1..(Len(p) + Len(r)) : q[i] = IF i <= Len(p) THEN p[i] ELSE r[i - Len(p)]
  BY ConcatProperties DEF Paths
<1>2. q = p <=> r = Root
  BY ConcatEqualIffEmpty DEF Paths, Root
<1> HIDE DEF q
<1>3. Len(p) \in Nat /\ Len(r) \in Nat /\ Len(q) \in Nat
  BY <1>1, PathLength
<1>4. IsPrefix(p, q)
  <2>1. Len(p) <= Len(q) /\ \A i \in 1..Len(p) : p[i] = q[i]
    BY <1>1, <1>3
  <2> QED
    BY <1>1, <2>1, PrefixMeans
<1>5. SubSeq(q, Len(p) + 1, Len(q)) = r
  <2> DEFINE a == Len(p) + 1
             b == Len(q)
             t == SubSeq(q, a, b)
  <2>1. a \in Int /\ b \in Int /\ \A i \in a..b : q[i] \in Nat
    BY <1>1, <1>3, PathLength
  <2>2. /\ t \in Seq(Nat)
        /\ Len(t) = IF a <= b THEN b - a + 1 ELSE 0
        /\ \A i \in 1..(b - a + 1) : t[i] = q[a + i - 1]
    BY <2>1, SubSeqProperties
  <2> HIDE DEF t
  <2>3. t \in Paths /\ Len(t) = Len(r)
    BY <1>1, <1>3, <2>2 DEF Paths
  <2>4. ASSUME NEW i \in 1..Len(t) PROVE t[i] = r[i]
    <3>1. i \in 1..(b - a + 1) /\ a + i - 1 = Len(p) + i
      BY <1>1, <1>3, <2>3
    <3>2. t[i] = q[Len(p) + i]
      BY <2>2, <3>1
    <3>3. Len(p) + i \in 1..(Len(p) + Len(r)) /\ ~(Len(p) + i <= Len(p)) /\ Len(p) + i - Len(p) = i
      BY <1>3, <2>3
    <3> QED
      BY <1>1, <3>2, <3>3
  <2>5. t = r
    BY <2>3, <2>4, PathsEqual
  <2> QED
    BY <2>5 DEF t
<1>6. IsStrictPrefix(p, q) <=> r # Root
  BY <1>2, <1>4 DEF IsStrictPrefix, q
<1> QED
  BY <1>1, <1>4, <1>5, <1>6 DEF q

LEMMA Split ==
    ASSUME NEW p \in Paths, NEW q \in Paths, IsPrefix(p, q)
    PROVE  /\ SubSeq(q, Len(p) + 1, Len(q)) \in Paths
           /\ q = p \o SubSeq(q, Len(p) + 1, Len(q))
<1> DEFINE a == Len(p) + 1
           b == Len(q)
           t == SubSeq(q, a, b)
<1>0. Len(p) \in Nat /\ Len(q) \in Nat /\ Len(p) <= Len(q) /\ \A i \in 1..Len(p) : p[i] = q[i]
  BY PathLength, PrefixMeans
<1>1. a \in Int /\ b \in Int /\ \A i \in a..b : q[i] \in Nat
  BY <1>0, PathLength
<1>2. /\ t \in Seq(Nat)
      /\ Len(t) = IF a <= b THEN b - a + 1 ELSE 0
      /\ \A i \in 1..(b - a + 1) : t[i] = q[a + i - 1]
  BY <1>1, SubSeqProperties
<1> HIDE DEF t
<1>3. t \in Paths /\ Len(t) = Len(q) - Len(p)
  BY <1>0, <1>2 DEF Paths
<1> DEFINE w == p \o t
<1>4. /\ w \in Paths /\ Len(w) = Len(p) + Len(t)
      /\ \A i \in 1..(Len(p) + Len(t)) : w[i] = IF i <= Len(p) THEN p[i] ELSE t[i - Len(p)]
  BY <1>3, Joined
<1> HIDE DEF w
<1>5. Len(w) = Len(q)
  BY <1>0, <1>3, <1>4
<1>6. ASSUME NEW i \in 1..Len(w) PROVE w[i] = q[i]
  <2>0. i \in 1..(Len(p) + Len(t)) /\ Len(t) \in Nat
    BY <1>3, <1>4, PathLength
  <2>1. CASE i <= Len(p)
    <3>1. i \in 1..Len(p) /\ w[i] = p[i]
      BY <1>0, <1>4, <2>0, <2>1
    <3> QED
      BY <1>0, <3>1
  <2>2. CASE ~(i <= Len(p))
    <3>1. w[i] = t[i - Len(p)]
      BY <1>4, <2>0, <2>2
    <3>2. i - Len(p) \in 1..(b - a + 1) /\ a + (i - Len(p)) - 1 = i
      BY <1>0, <1>5, <2>2
    <3>3. t[i - Len(p)] = q[a + (i - Len(p)) - 1]
      BY <1>2, <3>2
    <3> QED
      BY <3>1, <3>2, <3>3
  <2> QED
    BY <2>1, <2>2
<1>7. w = q
  BY <1>4, <1>5, <1>6, PathsEqual
<1> QED
  BY <1>3, <1>7 DEF w, t

LEMMA JoinedPrefix ==
    ASSUME NEW p \in Paths, NEW r \in Paths, NEW s \in Paths
    PROVE  /\ IsPrefix(p \o r, p \o s) <=> IsPrefix(r, s)
           /\ p \o r = p \o s <=> r = s
           /\ IsStrictPrefix(p \o r, p \o s) <=> IsStrictPrefix(r, s)
           /\ (p \o r) \o s = p \o (r \o s)
<1>0. \A a, b \in Paths : a \o b \in Paths /\ SubSeq(a \o b, Len(a) + 1, Len(a \o b)) = b
  BY Joined
<1>1. p \o r = p \o s <=> r = s
  <2>1. SubSeq(p \o r, Len(p) + 1, Len(p \o r)) = r
    BY <1>0
  <2>2. SubSeq(p \o s, Len(p) + 1, Len(p \o s)) = s
    BY <1>0
  <2> QED
    BY <2>1, <2>2, Zenon
<1>2. \A t \in Paths : (p \o r) \o t = p \o (r \o t)
  <2>1. ASSUME NEW a \in Seq(Nat), NEW b \in Seq(Nat), NEW t \in Seq(Nat)
        PROVE  (a \o b) \o t = a \o (b \o t)
    BY ConcatAssociative, SMTT(60)
  <2> QED
    BY <2>1, Zenon DEF Paths
<1>3. ASSUME IsPrefix(p \o r, p \o s) PROVE IsPrefix(r, s)
  <2>0. p \o r \in Paths /\ p \o s \in Paths
    BY Joined
  <2> DEFINE t == SubSeq(p \o s, Len(p \o r) + 1, Len(p \o s))
  <2>1. t \in Paths /\ p \o s = (p \o r) \o t
    BY <1>3, <2>0, Split
  <2> HIDE DEF t
  <2>2. (p \o r) \o t = p \o (r \o t) /\ r \o t \in Paths
    BY <1>0, <1>2, <2>1
  <2>3. s = r \o t
    <3>1. SubSeq(p \o s, Len(p) + 1, Len(p \o s)) = s
      BY <1>0
    <3>2. SubSeq(p \o (r \o t), Len(p) + 1, Len(p \o (r \o t))) = r \o t
      BY <1>0, <2>2
    <3>3. p \o s = p \o (r \o t)
      BY <2>1, <2>2
    <3> QED
      BY <3>1, <3>2, <3>3, Zenon
  <2> QED
    BY <2>1, <2>3, Joined
<1>4. ASSUME IsPrefix(r, s) PROVE IsPrefix(p \o r, p \o s)
  <2> DEFINE t == SubSeq(s, Len(r) + 1, Len(s))
  <2>1. t \in Paths /\ s = r \o t
    BY <1>4, Split
  <2> HIDE DEF t
  <2>2. (p \o r) \o t = p \o (r \o t) /\ p \o r \in Paths
    BY <1>0, <1>2, <2>1
  <2>3. p \o s = (p \o r) \o t
    BY <2>1, <2>2, Zenon
  <2> QED
    BY <2>1, <2>2, <2>3, Joined
<1> QED
  BY <1>1, <1>2, <1>3, <1>4 DEF IsStrictPrefix

-----------------------------------------------------------------------------
(* Directories.                                                            *)

(* A path that is there has its parents there.                             *)
LEMMA PlacedMeans ==
    ASSUME NEW f, Placed(f), NEW p \in DOMAIN f
    PROVE  /\ p \in Paths /\ p # Root /\ f[p] # NotThere
           /\ \A q \in Paths : IsStrictPrefix(q, p) /\ q # Root => q \in DOMAIN f /\ f[q] = "dir"
<1>1. /\ p \in Paths /\ p # Root /\ f[p] # NotThere
      /\ \A q \in Proper(p) \ {Root} : q \in DOMAIN f /\ f[q] = "dir"
  BY DEF Placed, Paths
<1> QED
  BY <1>1, ProperMeans

LEMMA PlacedIf ==
    ASSUME NEW f, f = [p \in DOMAIN f |-> f[p]], IsFiniteSet(DOMAIN f),
           \A p \in DOMAIN f : /\ p \in Paths /\ p # Root /\ f[p] # NotThere
                               /\ \A q \in Paths : IsStrictPrefix(q, p) /\ q # Root
                                                   => q \in DOMAIN f /\ f[q] = "dir"
    PROVE  Placed(f)
<1>1. ASSUME NEW p \in DOMAIN f, NEW q \in Proper(p) \ {Root} PROVE q \in DOMAIN f /\ f[q] = "dir"
  <2>1. q \in Paths /\ IsStrictPrefix(q, p)
    BY ProperMeans
  <2> QED
    BY <2>1
<1> QED
  BY <1>1 DEF Placed, Paths

(* The names in a directory.                                               *)
LEMMA NamesMeans ==
    ASSUME NEW f, Placed(f), NEW dir \in Paths
    PROVE  /\ NamesIn(f, dir) \in SUBSET Nat /\ IsFiniteSet(NamesIn(f, dir))
           /\ \A n \in Nat : n \in NamesIn(f, dir) <=> Append(dir, n) \in DOMAIN f
<1> DEFINE i == Len(dir) + 1
           Q == {q \in DOMAIN f : IsPrefix(dir, q) /\ Len(q) = i}
           g == [q \in Q |-> q[i]]
           N == NamesIn(f, dir)
<1>0. Len(dir) \in Nat
  BY PathLength
<1>1. N = {q[i] : q \in Q}
  BY DEF NamesIn
<1>2. \A q \in Q : q \in Paths /\ q[i] \in Nat
  BY <1>0, PlacedMeans, PathLength
<1>3. N \in SUBSET Nat
  BY <1>1, <1>2
<1>4. IsFiniteSet(Q)
  <2>1. IsFiniteSet(DOMAIN f) /\ Q \in SUBSET DOMAIN f
    BY DEF Placed
  <2> QED
    BY <2>1, FS_Subset
<1>5. g \in Surjection(Q, N)
  BY <1>1 DEF Surjection
<1>6. IsFiniteSet(N)
  BY <1>4, <1>5, FS_Surjection
<1>7. ASSUME NEW n \in Nat, n \in N PROVE Append(dir, n) \in DOMAIN f
  <2>1. PICK q \in Q : n = q[i]
    BY <1>1, <1>7
  <2>2. q \in Paths /\ IsPrefix(dir, q) /\ Len(q) = Len(dir) + 1 /\ q \in DOMAIN f
    BY <1>2
  <2>3. \A k \in 1..Len(dir) : dir[k] = q[k]
    BY <2>2, PrefixMeans
  <2> DEFINE r == Append(dir, n)
  <2>4. /\ r \in Paths /\ Len(r) = Len(dir) + 1 /\ r[Len(dir) + 1] = n
        /\ \A k \in 1..Len(dir) : r[k] = dir[k]
    BY AppendProperties DEF Paths
  <2> HIDE DEF r
  <2>5. \A k \in 1..Len(r) : r[k] = q[k]
    BY <1>0, <2>1, <2>3, <2>4
  <2>6. r = q
    BY <2>2, <2>4, <2>5, PathsEqual
  <2> QED
    BY <2>2, <2>6 DEF r
<1>8. ASSUME NEW n \in Nat, Append(dir, n) \in DOMAIN f PROVE n \in N
  <2> DEFINE r == Append(dir, n)
  <2>1. r \in Paths /\ Len(r) = Len(dir) + 1 /\ r[Len(dir) + 1] = n
    BY AppendProperties DEF Paths
  <2>2. IsPrefix(dir, r)
    BY EntryPath DEF IsStrictPrefix
  <2>3. r \in DOMAIN f
    BY <1>8
  <2> HIDE DEF r
  <2>4. r \in Q
    BY <2>1, <2>2, <2>3
  <2> QED
    BY <1>1, <2>1, <2>4
<1> QED
  BY <1>3, <1>6, <1>7, <1>8

LEMMA BelowClosed ==
    ASSUME NEW f, Placed(f), NEW p \in Paths, NEW q \in Below(f, p)
    PROVE  Below(f, q) \subseteq Below(f, p) /\ q \in Paths /\ q \in DOMAIN f
<1>1. q \in DOMAIN f /\ IsPrefix(p, q) /\ q \in Paths
  BY PlacedMeans DEF Below
<1>2. ASSUME NEW r \in Below(f, q) PROVE r \in Below(f, p)
  <2>1. r \in DOMAIN f /\ IsPrefix(q, r) /\ r \in Paths
    BY PlacedMeans DEF Below
  <2>2. IsPrefix(p, r)
    BY <1>1, <2>1, PrefixOrder
  <2> QED
    BY <2>1, <2>2 DEF Below
<1> QED
  BY <1>1, <1>2

(* Whole directories are taken away.                                       *)
LEMMA PlacedWithout ==
    ASSUME NEW f, Placed(f), NEW S, \A q \in S : Below(f, q) \subseteq S
    PROVE  Placed(Without(f, S))
<1> DEFINE g == Without(f, S)
<1>1. DOMAIN g = DOMAIN f \ S /\ g = [q \in DOMAIN g |-> g[q]] /\ \A q \in DOMAIN g : g[q] = f[q]
  BY DEF Without
<1>2. IsFiniteSet(DOMAIN g)
  <2>1. DOMAIN g \in SUBSET DOMAIN f /\ IsFiniteSet(DOMAIN f)
    BY <1>1 DEF Placed
  <2> QED
    BY <2>1, FS_Subset
<1>3. ASSUME NEW p \in DOMAIN g
      PROVE  /\ p \in Paths /\ p # Root /\ g[p] # NotThere
             /\ \A q \in Paths : IsStrictPrefix(q, p) /\ q # Root => q \in DOMAIN g /\ g[q] = "dir"
  <2>1. /\ p \in Paths /\ p # Root /\ f[p] # NotThere
        /\ \A q \in Paths : IsStrictPrefix(q, p) /\ q # Root => q \in DOMAIN f /\ f[q] = "dir"
    BY <1>1, PlacedMeans
  <2>2. \A q \in DOMAIN f : IsStrictPrefix(q, p) => q \notin S
    BY <1>1 DEF Below, IsStrictPrefix
  <2> HIDE DEF g
  <2> QED
    BY <1>1, <2>1, <2>2
<1> HIDE DEF g
<1>4. Placed(g)
  BY <1>1, <1>2, <1>3, PlacedIf
<1> QED
  BY <1>4 DEF g

(* Something is put where nothing is, in a directory.                      *)
LEMMA PlacedPlus ==
    ASSUME NEW f, Placed(f), NEW g, g = [q \in DOMAIN g |-> g[q]], IsFiniteSet(DOMAIN g),
           NEW p \in Paths, p # Root,
           \A q \in Paths : IsStrictPrefix(q, p) /\ q # Root => q \in DOMAIN f /\ f[q] = "dir",
           Below(f, p) = {},
           \A q \in DOMAIN g : /\ q \in Paths /\ IsPrefix(p, q) /\ g[q] # NotThere
                               /\ \A r \in Paths : IsStrictPrefix(r, q) /\ IsPrefix(p, r)
                                                   => r \in DOMAIN g /\ g[r] = "dir"
    PROVE  Placed(Plus(f, g))
<1> DEFINE h == Plus(f, g)
<1>1. /\ DOMAIN h = DOMAIN f \cup DOMAIN g /\ h = [q \in DOMAIN h |-> h[q]]
      /\ \A q \in DOMAIN g : h[q] = g[q]
      /\ \A q \in DOMAIN f \ DOMAIN g : h[q] = f[q]
  BY DEF Plus
<1> HIDE DEF h
<1>2. IsFiniteSet(DOMAIN h)
  <2>1. IsFiniteSet(DOMAIN f) /\ IsFiniteSet(DOMAIN g)
    BY DEF Placed
  <2>2. IsFiniteSet(DOMAIN f \cup DOMAIN g)
    BY <2>1, FS_Union, Zenon
  <2> QED
    BY <1>1, <2>2
<1>3. DOMAIN f \cap DOMAIN g = {}
  BY DEF Below
<1>4. ASSUME NEW q \in DOMAIN h
      PROVE  /\ q \in Paths /\ q # Root /\ h[q] # NotThere
             /\ \A r \in Paths : IsStrictPrefix(r, q) /\ r # Root => r \in DOMAIN h /\ h[r] = "dir"
  <2>1. CASE q \in DOMAIN g
    <3>1. q \in Paths /\ IsPrefix(p, q) /\ h[q] # NotThere
      BY <1>1, <2>1
    <3>2. q # Root
      BY <3>1, PrefixOrder
    <3>3. ASSUME NEW r \in Paths, IsStrictPrefix(r, q), r # Root
          PROVE  r \in DOMAIN h /\ h[r] = "dir"
      <4>1. IsPrefix(r, q)
        BY <3>3 DEF IsStrictPrefix
      <4>2. IsPrefix(p, r) \/ IsStrictPrefix(r, p)
        BY <3>1, <4>1, PrefixOrder DEF IsStrictPrefix
      <4>3. CASE IsPrefix(p, r)
        BY <1>1, <2>1, <3>3, <4>3
      <4>4. CASE IsStrictPrefix(r, p)
        <5>1. r \in DOMAIN f /\ f[r] = "dir"
          BY <3>3, <4>4
        <5> QED
          BY <1>1, <1>3, <5>1
      <4> QED
        BY <4>2, <4>3, <4>4
    <3> QED
      BY <3>1, <3>2, <3>3
  <2>2. CASE q \in DOMAIN f
    <3>1. q \notin DOMAIN g
      BY <1>3, <2>2
    <3>2. /\ q \in Paths /\ q # Root /\ f[q] # NotThere
          /\ \A r \in Paths : IsStrictPrefix(r, q) /\ r # Root => r \in DOMAIN f /\ f[r] = "dir"
      BY <2>2, PlacedMeans
    <3> QED
      BY <1>1, <1>3, <2>2, <3>1, <3>2
  <2> QED
    BY <1>1, <2>1, <2>2
<1>5. Placed(h)
  BY <1>1, <1>2, <1>4, PlacedIf
<1> QED
  BY <1>5 DEF h

LEMMA ReachableMeans ==
    ASSUME NEW p \in Paths, Reachable(p), NEW q \in Paths, IsStrictPrefix(q, p), q # Root
    PROVE  q \in DOMAIN disk /\ disk[q] = "dir"
<1>1. IsDir(q)
  BY ProperMeans DEF Reachable
<1> QED
  BY <1>1 DEF IsDir, KindAt, NotThere

(* The disk after something was removed, and after something was put.      *)
LEMMA CutMeans ==
    ASSUME NEW p
    PROVE  /\ \A q : q \in DOMAIN CutAt(p) <=> q \in DOMAIN disk /\ ~IsPrefix(p, q)
           /\ \A q \in DOMAIN CutAt(p) : CutAt(p)[q] = disk[q]
           /\ Below(CutAt(p), p) = {}
  BY DEF CutAt, Without, Below

LEMMA PlacedCut ==
    ASSUME Placed(disk), NEW p \in Paths
    PROVE  Placed(CutAt(p))
<1>1. \A q \in Below(disk, p) : Below(disk, q) \subseteq Below(disk, p)
  BY BelowClosed
<1> QED
  BY <1>1, PlacedWithout DEF CutAt

LEMMA PlacedPut ==
    ASSUME Placed(disk), NEW p \in Paths, p # Root, Reachable(p), NEW v, v # NotThere
    PROVE  Placed(Plus(CutAt(p), Just(p, v)))
<1> DEFINE f == CutAt(p)
           g == Just(p, v)
<1>1. Placed(f) /\ Below(f, p) = {}
  BY PlacedCut, CutMeans
<1>2. \A q \in Paths : IsStrictPrefix(q, p) /\ q # Root => q \in DOMAIN f /\ f[q] = "dir"
  <2> TAKE q \in Paths
  <2> HAVE IsStrictPrefix(q, p) /\ q # Root
  <2>1. q \in DOMAIN disk /\ disk[q] = "dir"
    BY ReachableMeans
  <2>2. ~IsPrefix(p, q)
    BY PrefixOrder DEF IsStrictPrefix
  <2> QED
    BY <2>1, <2>2, CutMeans
<1>3. DOMAIN g = {p} /\ g = [q \in DOMAIN g |-> g[q]] /\ g[p] = v /\ IsFiniteSet(DOMAIN g)
  BY FS_Singleton DEF Just
<1>4. ASSUME NEW q \in DOMAIN g
      PROVE  /\ q \in Paths /\ IsPrefix(p, q) /\ g[q] # NotThere
             /\ \A r \in Paths : IsStrictPrefix(r, q) /\ IsPrefix(p, r)
                                 => r \in DOMAIN g /\ g[r] = "dir"
  <2>1. q = p /\ IsPrefix(p, p)
    BY <1>3, PrefixOrder
  <2>2. \A r \in Paths : ~(IsStrictPrefix(r, p) /\ IsPrefix(p, r))
    BY PrefixOrder DEF IsStrictPrefix
  <2> QED
    BY <1>3, <2>1, <2>2
<1> HIDE DEF f, g
<1>5. Placed(Plus(f, g))
  BY <1>1, <1>2, <1>3, <1>4, PlacedPlus
<1> QED
  BY <1>5 DEF f, g

(* A tree below a path.                                                    *)
LEMMA MovedMeans ==
    ASSUME NEW t, Placed(t), NEW p \in Paths
    PROVE  /\ \A q : q \in DOMAIN Moved(t, p) <=> \E r \in DOMAIN t : q = p \o r
           /\ \A r \in DOMAIN t : Moved(t, p)[p \o r] = t[r]
           /\ Moved(t, p) = [q \in DOMAIN Moved(t, p) |-> Moved(t, p)[q]]
           /\ IsFiniteSet(DOMAIN Moved(t, p))
<1> DEFINE m == Moved(t, p)
           D == {p \o r : r \in DOMAIN t}
<1>1. DOMAIN m = D /\ m = [q \in D |-> t[SubSeq(q, Len(p) + 1, Len(q))]]
  BY DEF Moved
<1>2. \A r \in DOMAIN t : r \in Paths
  BY PlacedMeans
<1>3. ASSUME NEW r \in DOMAIN t PROVE m[p \o r] = t[r]
  <2>1. SubSeq(p \o r, Len(p) + 1, Len(p \o r)) = r
    BY <1>2, Joined
  <2>2. p \o r \in D
    OBVIOUS
  <2>3. m[p \o r] = t[SubSeq(p \o r, Len(p) + 1, Len(p \o r))]
    BY <1>1, <2>2, Zenon
  <2> QED
    BY <2>1, <2>3, Zenon
<1>4. IsFiniteSet(D)
  <2> DEFINE s == [r \in DOMAIN t |-> p \o r]
  <2>1. s \in Surjection(DOMAIN t, D)
    BY DEF Surjection
  <2> QED
    BY <2>1, FS_Surjection DEF Placed
<1>5. m = [q \in DOMAIN m |-> m[q]]
  BY <1>1
<1> QED
  BY <1>1, <1>3, <1>4, <1>5

LEMMA PlacedGraft ==
    ASSUME Placed(disk), NEW p \in Paths, p # Root, Reachable(p),
           NEW kind, kind # NotThere, NEW t, Placed(t), kind # "dir" => t = EmptyTree
    PROVE  Placed(Plus(CutAt(p), Plus(Just(p, kind), Moved(t, p))))
<1> DEFINE f == CutAt(p)
           m == Moved(t, p)
           g == Plus(Just(p, kind), m)
<1>1. Placed(f) /\ Below(f, p) = {}
  BY PlacedCut, CutMeans
<1>2. \A q \in Paths : IsStrictPrefix(q, p) /\ q # Root => q \in DOMAIN f /\ f[q] = "dir"
  <2> TAKE q \in Paths
  <2> HAVE IsStrictPrefix(q, p) /\ q # Root
  <2>1. q \in DOMAIN disk /\ disk[q] = "dir"
    BY ReachableMeans
  <2>2. ~IsPrefix(p, q)
    BY PrefixOrder DEF IsStrictPrefix
  <2> QED
    BY <2>1, <2>2, CutMeans
<1>3. /\ \A q : q \in DOMAIN m <=> \E r \in DOMAIN t : q = p \o r
      /\ \A r \in DOMAIN t : m[p \o r] = t[r]
      /\ IsFiniteSet(DOMAIN m)
  BY MovedMeans
<1> HIDE DEF f, m
<1>4. /\ DOMAIN g = {p} \cup DOMAIN m /\ g = [q \in DOMAIN g |-> g[q]]
      /\ \A q \in DOMAIN m : g[q] = m[q]
      /\ p \notin DOMAIN m => g[p] = kind
  BY DEF Plus, Just
<1>5. IsFiniteSet(DOMAIN g)
  <2>1. IsFiniteSet({p})
    BY FS_Singleton
  <2>2. IsFiniteSet({p} \cup DOMAIN m)
    BY <1>3, <2>1, FS_Union, Zenon
  <2> QED
    BY <1>4, <2>2, Zenon
<1>6. \A r \in DOMAIN t : r \in Paths /\ r # Root /\ t[r] # NotThere
  BY PlacedMeans
<1>7. p \notin DOMAIN m
  <2>1. ASSUME NEW r \in DOMAIN t PROVE p # p \o r
    BY <1>6, Joined DEF IsStrictPrefix
  <2> QED
    BY <1>3, <2>1
<1>8. DOMAIN t # {} => kind = "dir"
  BY DEF EmptyTree
<1> HIDE DEF g
<1>9. ASSUME NEW q \in DOMAIN g
      PROVE  /\ q \in Paths /\ IsPrefix(p, q) /\ g[q] # NotThere
             /\ \A r \in Paths : IsStrictPrefix(r, q) /\ IsPrefix(p, r)
                                 => r \in DOMAIN g /\ g[r] = "dir"
  <2>1. CASE q = p
    <3>1. IsPrefix(p, p) /\ \A r \in Paths : ~(IsStrictPrefix(r, p) /\ IsPrefix(p, r))
      BY PrefixOrder DEF IsStrictPrefix
    <3>2. g[p] = kind
      BY <1>4, <1>7
    <3> QED
      BY <2>1, <3>1, <3>2
  <2>2. CASE q # p
    <3>1. PICK s \in DOMAIN t : q = p \o s
      BY <1>3, <1>4, <2>2
    <3>2. s \in Paths /\ q \in Paths /\ IsPrefix(p, q) /\ g[q] = t[s] /\ kind = "dir"
      BY <1>3, <1>4, <1>6, <1>8, <3>1, Joined
    <3>3. ASSUME NEW r \in Paths, IsStrictPrefix(r, q), IsPrefix(p, r)
          PROVE  r \in DOMAIN g /\ g[r] = "dir"
      <4> DEFINE c == SubSeq(r, Len(p) + 1, Len(r))
      <4>1. c \in Paths /\ r = p \o c
        BY <3>3, Split
      <4> HIDE DEF c
      <4>2. IsStrictPrefix(c, s)
        BY <3>1, <3>2, <3>3, <4>1, JoinedPrefix
      <4>3. CASE c = Root
        <5>1. r = p
          BY <4>1, <4>3, Joined DEF IsStrictPrefix
        <5> QED
          BY <1>4, <1>7, <3>2, <5>1
      <4>4. CASE c # Root
        <5>1. c \in DOMAIN t /\ t[c] = "dir"
          BY <4>1, <4>2, <4>4, PlacedMeans
        <5> QED
          BY <1>3, <1>4, <4>1, <5>1
      <4> QED
        BY <4>3, <4>4
    <3> QED
      BY <1>6, <3>2, <3>3
  <2> QED
    BY <2>1, <2>2
<1>10. Placed(Plus(f, g))
  BY <1>1, <1>2, <1>4, <1>5, <1>9, PlacedPlus
<1> QED
  BY <1>10 DEF f, g, m


-----------------------------------------------------------------------------
(* Tasks.                                                                  *)

Ops == {"enter", "remove_dir", "remove_file", "fail", "blob", "dir", "store", "finish"}
Tasks == [op: Ops, path: Paths]
Removal == {"remove_dir", "remove_file"}

(* The last task, and no other, is the one that finishes.                  *)
LastFinishes(tasks) == \A k \in DOMAIN tasks : tasks[k].op = "finish" <=> k = Len(tasks)

LEMMA SetOfJoined ==
    ASSUME NEW S, NEW u \in Seq(S), NEW v \in Seq(S)
    PROVE  \A x : x \in ToSet(u \o v) <=> x \in ToSet(u) \/ x \in ToSet(v)
<1> DEFINE w == u \o v
<1>1. /\ w \in Seq(S) /\ Len(w) = Len(u) + Len(v) /\ Len(u) \in Nat /\ Len(v) \in Nat
      /\ \A i \in 1..(Len(u) + Len(v)) : w[i] = IF i <= Len(u) THEN u[i] ELSE v[i - Len(u)]
  BY ConcatProperties, LenProperties
<1>2. DOMAIN w = 1..Len(w) /\ DOMAIN u = 1..Len(u) /\ DOMAIN v = 1..Len(v)
  BY <1>1, LenProperties
<1> HIDE DEF w
<1>3. ASSUME NEW x \in ToSet(w) PROVE x \in ToSet(u) \/ x \in ToSet(v)
  <2>1. PICK i \in DOMAIN w : x = w[i]
    BY DEF ToSet
  <2>2. CASE i <= Len(u)
    <3>1. i \in DOMAIN u /\ x = u[i]
      BY <1>1, <1>2, <2>1, <2>2
    <3> QED
      BY <3>1 DEF ToSet
  <2>3. CASE ~(i <= Len(u))
    <3>1. i - Len(u) \in DOMAIN v /\ x = v[i - Len(u)]
      BY <1>1, <1>2, <2>1, <2>3
    <3> QED
      BY <3>1 DEF ToSet
  <2> QED
    BY <2>2, <2>3
<1>4. ASSUME NEW x \in ToSet(u) PROVE x \in ToSet(w)
  <2>1. PICK i \in DOMAIN u : x = u[i]
    BY DEF ToSet
  <2>2. i \in DOMAIN w /\ w[i] = x
    BY <1>1, <1>2, <2>1
  <2> QED
    BY <2>2 DEF ToSet
<1>5. ASSUME NEW x \in ToSet(v) PROVE x \in ToSet(w)
  <2>1. PICK i \in DOMAIN v : x = v[i]
    BY DEF ToSet
  <2>2. Len(u) + i \in DOMAIN w /\ w[Len(u) + i] = x
    BY <1>1, <1>2, <2>1
  <2> QED
    BY <2>2 DEF ToSet
<1> QED
  BY <1>3, <1>4, <1>5 DEF w

LEMMA SetOfTail ==
    ASSUME NEW S, NEW u \in Seq(S), u # <<>>
    PROVE  /\ Tail(u) \in Seq(S) /\ Head(u) \in S
           /\ Len(u) \in Nat \ {0} /\ Len(Tail(u)) = Len(u) - 1
           /\ \A i \in 1..Len(Tail(u)) : Tail(u)[i] = u[i + 1]
           /\ \A x : x \in ToSet(u) <=> x = Head(u) \/ x \in ToSet(Tail(u))
<1> DEFINE v == Tail(u)
<1>1. /\ v \in Seq(S) /\ Len(v) = Len(u) - 1 /\ Len(u) \in Nat \ {0}
      /\ \A i \in 1..Len(v) : v[i] = u[i + 1]
      /\ Head(u) = u[1] /\ Head(u) \in S
  BY HeadTailProperties, EmptySeq, LenProperties
<1>2. DOMAIN u = 1..Len(u) /\ DOMAIN v = 1..Len(v)
  BY <1>1, LenProperties
<1> HIDE DEF v
<1>3. ASSUME NEW x \in ToSet(u) PROVE x = Head(u) \/ x \in ToSet(v)
  <2>1. PICK i \in DOMAIN u : x = u[i]
    BY DEF ToSet
  <2>2. CASE i # 1
    <3>1. i - 1 \in DOMAIN v /\ v[i - 1] = x
      BY <1>1, <1>2, <2>1, <2>2
    <3> QED
      BY <3>1 DEF ToSet
  <2> QED
    BY <1>1, <2>1, <2>2
<1>4. Head(u) \in ToSet(u)
  <2>1. 1 \in DOMAIN u
    BY <1>1, <1>2
  <2> QED
    BY <1>1, <2>1 DEF ToSet
<1>5. ASSUME NEW x \in ToSet(v) PROVE x \in ToSet(u)
  <2>1. PICK i \in DOMAIN v : x = v[i]
    BY DEF ToSet
  <2>2. i + 1 \in DOMAIN u /\ u[i + 1] = x
    BY <1>1, <1>2, <2>1
  <2> QED
    BY <2>2 DEF ToSet
<1> QED
  BY <1>1, <1>3, <1>4, <1>5 DEF v

LEMMA NextTasks ==
    ASSUME NEW s \in Seq(Tasks), s # <<>>, LastFinishes(s), Head(s).op # "finish"
    PROVE  /\ Tail(s) # <<>> /\ LastFinishes(Tail(s)) /\ Tail(s) \in Seq(Tasks)
           /\ \A u \in Seq(Tasks) : (\A k \in DOMAIN u : u[k].op # "finish") =>
                 /\ u \o Tail(s) \in Seq(Tasks) /\ u \o Tail(s) # <<>>
                 /\ LastFinishes(u \o Tail(s))
<1> DEFINE v == Tail(s)
<1>1. /\ v \in Seq(Tasks) /\ Len(s) \in Nat \ {0} /\ Len(v) = Len(s) - 1
      /\ \A i \in 1..Len(v) : v[i] = s[i + 1]
  BY SetOfTail
<1>2. Head(s) = s[1]
  BY HeadTailProperties
<1>3. DOMAIN s = 1..Len(s) /\ DOMAIN v = 1..Len(v)
  BY <1>1, LenProperties
<1> HIDE DEF v
<1>4. Len(s) # 1
  BY <1>1, <1>2, <1>3 DEF LastFinishes
<1>5. v # <<>>
  <2>1. Len(v) # 0
    BY <1>1, <1>4
  <2> QED
    BY <1>1, <2>1, EmptySeq
<1>6. LastFinishes(v)
  <2> SUFFICES ASSUME NEW k \in DOMAIN v PROVE v[k].op = "finish" <=> k = Len(v)
    BY DEF LastFinishes
  <2>1. k + 1 \in DOMAIN s /\ v[k] = s[k + 1] /\ (k = Len(v) <=> k + 1 = Len(s))
    BY <1>1, <1>3
  <2> QED
    BY <2>1 DEF LastFinishes
<1>7. ASSUME NEW u \in Seq(Tasks), \A k \in DOMAIN u : u[k].op # "finish"
      PROVE  u \o v \in Seq(Tasks) /\ u \o v # <<>> /\ LastFinishes(u \o v)
  <2> DEFINE w == u \o v
  <2>1. /\ w \in Seq(Tasks) /\ Len(w) = Len(u) + Len(v) /\ Len(u) \in Nat
        /\ \A i \in 1..(Len(u) + Len(v)) : w[i] = IF i <= Len(u) THEN u[i] ELSE v[i - Len(u)]
    BY <1>1, ConcatProperties, LenProperties
  <2>2. DOMAIN w = 1..Len(w) /\ DOMAIN u = 1..Len(u)
    BY <2>1, LenProperties
  <2> HIDE DEF w
  <2>3. Len(v) \in Nat \ {0}
    BY <1>1, <1>4
  <2>4. w # <<>>
    <3>1. Len(w) # 0
      BY <2>1, <2>3
    <3> QED
      BY <2>1, <3>1, EmptySeq
  <2>5. ASSUME NEW k \in DOMAIN w PROVE w[k].op = "finish" <=> k = Len(w)
    <3>1. CASE k <= Len(u)
      <4>1. k \in DOMAIN u /\ w[k] = u[k] /\ k # Len(w)
        BY <2>1, <2>2, <2>3, <3>1
      <4> QED
        BY <1>7, <4>1
    <3>2. CASE ~(k <= Len(u))
      <4>0. k \in 1..(Len(u) + Len(v)) /\ w[k] = v[k - Len(u)]
        BY <2>1, <2>2, <3>2
      <4>1. k - Len(u) \in DOMAIN v /\ w[k] = v[k - Len(u)] /\ (k = Len(w) <=> k - Len(u) = Len(v))
        <5> DEFINE a == Len(u)
                   b == Len(v)
        <5>1. a \in Nat /\ b \in Nat /\ k \in 1..(a + b) /\ ~(k <= a) /\ Len(w) = a + b
          BY <2>1, <2>3, <3>2, <4>0
        <5> HIDE DEF a, b
        <5>2. k - a \in 1..b /\ (k = a + b <=> k - a = b)
          BY <5>1
        <5> QED
          BY <1>3, <4>0, <5>1, <5>2 DEF a, b
      <4> QED
        BY <1>6, <4>1 DEF LastFinishes
    <3> QED
      BY <3>1, <3>2
  <2> QED
    BY <2>1, <2>4, <2>5 DEF w, LastFinishes
<1> QED
  BY <1>1, <1>5, <1>6, <1>7 DEF v

(* A list of tasks for the names of a directory.                           *)
LEMMA NameTasks ==
    ASSUME NEW N \in SUBSET Nat, IsFiniteSet(N), NEW F, F \in [N -> Tasks],
           NEW u, u = [k \in DOMAIN Sorted(N) |-> F[Sorted(N)[k]]]
    PROVE  /\ u \in Seq(Tasks)
           /\ \A t : t \in ToSet(u) <=> \E n \in N : t = F[n]
<1> DEFINE s == Sorted(N)
<1>1. s \in Seq(N) /\ Len(s) \in Nat /\ DOMAIN s = 1..Len(s)
  BY SortedNumbers
<1>2. \A e : e \in N <=> \E k \in DOMAIN s : s[k] = e
  BY SortedNumbers
<1>3. u = [k \in DOMAIN s |-> F[s[k]]]
  OBVIOUS
<1> HIDE DEF s
<1>4. \A k \in DOMAIN s : s[k] \in N
  BY <1>2
<1>5. u \in Seq(Tasks)
  <2>1. u \in [1..Len(s) -> Tasks]
    BY <1>1, <1>3, <1>4
  <2> HIDE DEF Tasks
  <2> QED
    BY <1>1, <2>1
<1>6. ASSUME NEW t \in ToSet(u) PROVE \E n \in N : t = F[n]
  BY <1>3, <1>4 DEF ToSet
<1>7. ASSUME NEW n \in N PROVE F[n] \in ToSet(u)
  <2>1. PICK k \in DOMAIN s : s[k] = n
    BY <1>2
  <2>2. k \in DOMAIN u /\ u[k] = F[n]
    BY <1>3, <2>1
  <2> QED
    BY <2>2 DEF ToSet
<1> QED
  BY <1>5, <1>6, <1>7

(* What a directory gives rise to: the removal of what the target does not *)
(* have, its entries, and its record.                                      *)
LEMMA DirectoryTasksAre ==
    ASSUME Placed(disk), NEW target, Placed(target), NEW dir \in Paths
    PROVE  /\ DirectoryTasks(dir, target) \in Seq(Tasks)
           /\ \A t : t \in ToSet(DirectoryTasks(dir, target)) <=>
                \/ t = Task("store", dir)
                \/ \E n \in Nat :
                      /\ Append(dir, n) \in DOMAIN target
                      /\ t = Task(IF target[Append(dir, n)] = "dir" THEN "dir" ELSE "blob",
                                  Append(dir, n))
                \/ \E n \in Nat :
                      /\ Append(dir, n) \in DOMAIN disk /\ Append(dir, n) \notin DOMAIN target
                      /\ ~Local(Append(dir, n))
                      /\ t = PruneTask(Append(dir, n))
<1> DEFINE at(n) == Append(dir, n)
           kept == NamesIn(target, dir)
           gone == {n \in NamesIn(disk, dir) \ kept : ~Local(at(n))}
           E == [n \in kept |-> Task(IF target[at(n)] = "dir" THEN "dir" ELSE "blob", at(n))]
           P == [n \in gone |-> PruneTask(at(n))]
           es == EntryTasks(dir, target)
           ps == PruneTasks(dir, target)
<1>1. /\ kept \in SUBSET Nat /\ IsFiniteSet(kept)
      /\ \A n \in Nat : n \in kept <=> at(n) \in DOMAIN target
  BY NamesMeans
<1>2. /\ gone \in SUBSET Nat /\ IsFiniteSet(gone)
      /\ \A n \in Nat : n \in gone <=> at(n) \in DOMAIN disk /\ at(n) \notin DOMAIN target /\ ~Local(at(n))
  <2>1. /\ NamesIn(disk, dir) \in SUBSET Nat /\ IsFiniteSet(NamesIn(disk, dir))
        /\ \A n \in Nat : n \in NamesIn(disk, dir) <=> at(n) \in DOMAIN disk
    BY NamesMeans
  <2>2. gone \in SUBSET NamesIn(disk, dir)
    OBVIOUS
  <2>3. IsFiniteSet(gone)
    BY <2>1, <2>2, FS_Subset
  <2> QED
    BY <1>1, <2>1, <2>3
<1>3. \A n \in Nat : at(n) \in Paths
  BY EntryPath
<1>4. E \in [kept -> Tasks]
  BY <1>1, <1>3 DEF Tasks, Ops, Task
<1>5. P \in [gone -> Tasks]
  BY <1>2, <1>3 DEF Tasks, Ops, Task, PruneTask
<1>6. es = [k \in DOMAIN Sorted(kept) |-> E[Sorted(kept)[k]]]
  <2>1. \A k \in DOMAIN Sorted(kept) : Sorted(kept)[k] \in kept
    BY <1>1, SortedNumbers
  <2>2. es = [k \in DOMAIN Sorted(kept) |->
                 Task(IF target[at(Sorted(kept)[k])] = "dir" THEN "dir" ELSE "blob", at(Sorted(kept)[k]))]
    BY DEF EntryTasks
  <2> HIDE DEF kept, es
  <2> QED
    BY <2>1, <2>2
<1>7. ps = [k \in DOMAIN Sorted(gone) |-> P[Sorted(gone)[k]]]
  <2>1. \A k \in DOMAIN Sorted(gone) : Sorted(gone)[k] \in gone
    BY <1>2, SortedNumbers
  <2> DEFINE names == {n \in NamesIn(disk, dir) \ NamesIn(target, dir) :
                    ~Skipped(at(n)) /\ ~(disk[at(n)] = "link" /\ policy = "Skip")}
  <2>2. names = gone
    BY DEF Local
  <2>3. ps = [k \in DOMAIN Sorted(names) |-> PruneTask(at(Sorted(names)[k]))]
    BY DEF PruneTasks
  <2> HIDE DEF names, gone, ps
  <2>4. ps = [k \in DOMAIN Sorted(gone) |-> PruneTask(at(Sorted(gone)[k]))]
    BY <2>2, <2>3
  <2> QED
    BY <2>1, <2>4
<1> HIDE DEF kept, gone, es, ps
<1>8. es \in Seq(Tasks) /\ \A t : t \in ToSet(es) <=> \E n \in kept : t = E[n]
  <2> HIDE DEF E
  <2> QED
    BY <1>1, <1>4, <1>6, NameTasks
<1>9. ps \in Seq(Tasks) /\ \A t : t \in ToSet(ps) <=> \E n \in gone : t = P[n]
  <2> HIDE DEF P
  <2> QED
    BY <1>2, <1>5, <1>7, NameTasks
<1>10. \A t : t \in ToSet(es) <=>
          \E n \in Nat : /\ at(n) \in DOMAIN target
                         /\ t = Task(IF target[at(n)] = "dir" THEN "dir" ELSE "blob", at(n))
  <2>1. \A n \in kept : E[n] = Task(IF target[at(n)] = "dir" THEN "dir" ELSE "blob", at(n))
    OBVIOUS
  <2> HIDE DEF E, at
  <2> QED
    BY <1>1, <1>8, <2>1
<1>11. \A t : t \in ToSet(ps) <=>
          \E n \in Nat : /\ at(n) \in DOMAIN disk /\ at(n) \notin DOMAIN target /\ ~Local(at(n))
                         /\ t = PruneTask(at(n))
  <2>1. \A n \in gone : P[n] = PruneTask(at(n))
    OBVIOUS
  <2> HIDE DEF P, at
  <2> QED
    BY <1>2, <1>9, <2>1
<1> DEFINE one == <<Task("store", dir)>>
<1>12. one \in Seq(Tasks) /\ \A t : t \in ToSet(one) <=> t = Task("store", dir)
  <2>1. Task("store", dir) \in Tasks
    BY DEF Task, Tasks, Ops
  <2> HIDE DEF Tasks
  <2>2. one \in Seq(Tasks) /\ DOMAIN one = {1} /\ one[1] = Task("store", dir)
    BY <2>1
  <2> HIDE DEF one
  <2> QED
    BY <2>2 DEF ToSet
<1> HIDE DEF one, Tasks
<1> DEFINE pe == ps \o es
<1>13. pe \in Seq(Tasks) /\ \A t : t \in ToSet(pe) <=> t \in ToSet(ps) \/ t \in ToSet(es)
  BY <1>8, <1>9, SetOfJoined, ConcatProperties
<1>14. DirectoryTasks(dir, target) = pe \o one
  BY DEF DirectoryTasks, es, ps, one
<1> HIDE DEF pe
<1>15. /\ pe \o one \in Seq(Tasks)
       /\ \A t : t \in ToSet(pe \o one) <=> t \in ToSet(pe) \/ t \in ToSet(one)
  BY <1>12, <1>13, SetOfJoined, ConcatProperties
<1> QED
  BY <1>10, <1>11, <1>12, <1>13, <1>14, <1>15

-----------------------------------------------------------------------------
(* What is true of a checkout in progress.                                 *)

TargetDir(target, p) == p = Root \/ (p \in DOMAIN target /\ target[p] = "dir")

(* Tasks name what the target has, or what it does not have in a directory *)
(* that it has.                                                            *)
TaskFits(target, t) ==
    /\ t.op \in {"enter", "store", "finish"} => TargetDir(target, t.path)
    /\ t.op = "dir" => t.path \in DOMAIN target /\ target[t.path] = "dir"
    /\ t.op = "blob" => t.path \in DOMAIN target /\ target[t.path] # "dir"
    /\ t.op \in Removal \cup {"fail"} =>
          /\ t.path # Root /\ t.path \notin DOMAIN target
          /\ \A q \in Paths : IsStrictPrefix(q, t.path) => TargetDir(target, q)

(* What is still to be done about path q.                                  *)
Covers(t, q) ==
    \/ t.op = "enter" /\ IsStrictPrefix(t.path, q)
    \/ t.op \in Removal \cup {"blob", "dir"} /\ IsPrefix(t.path, q)
Outstanding(tasks, q) == \E t \in tasks : Covers(t, q)
Settled(d, target, q) == q \in DOMAIN d /\ q \in DOMAIN target /\ d[q] = target[q]

(* What captures leave out, and the paths they come to, on disk d.         *)
LeftOut(d, p) == Last(p) = EraName \/ (d[p] = "dir" /\ Last(p) \in Excluded)
Captured(d) == {q \in DOMAIN d : /\ d[q] # "link"
                                 /\ \A r \in Paths : IsPrefix(r, q) /\ r # Root => ~LeftOut(d, r)}

(* While nobody else is at work, a path is as it will be or has a task,    *)
(* and nothing that captures leave out has one that removes it.            *)
AllDone(d, target, tasks) ==
    \A q \in DOMAIN target \cup Captured(d) : Outstanding(tasks, q) \/ Settled(d, target, q)
SparesLocal(d, pol, tasks) ==
    \A t \in tasks : t.op \in Removal /\ t.path \in DOMAIN d
                     => ~LeftOut(d, t.path) /\ ~(d[t.path] = "link" /\ pol = "Skip")

IsCheckout(c) ==
    c \in [target: {c.target}, tasks: {c.tasks}, mem: {c.mem}, alone: BOOLEAN]

TreeTypeOK ==
    /\ Placed(disk) /\ IsCheckout(checkout)
    /\ policy \in {"Skip", "Error"}
    /\ \A t \in targets : Storable(t)
    /\ left \in [{"edits", "ops", "crashes"} -> Nat]

TasksInv ==
    /\ checkout.tasks \in Seq(Tasks)
    /\ ~Idle =>
         /\ checkout.target \in targets
         /\ report = Nothing
         /\ \A t \in ToSet(checkout.tasks) : TaskFits(checkout.target, t)
         /\ LastFinishes(checkout.tasks)

(* The record of the root will be the target's, or is.                     *)
RootRecord(cache, tree) == Root \in DOMAIN cache /\ cache[Root] = [tree |-> tree, stored |-> TRUE]
RootListed(tasks) == \E op \in {"enter", "store"} : Task(op, Root) \in tasks
RootInv == ~Idle => \/ RootListed(ToSet(checkout.tasks))
                    \/ RootRecord(checkout.mem, checkout.target)

AloneInv ==
    ~Idle /\ checkout.alone => /\ AllDone(disk, checkout.target, ToSet(checkout.tasks))
                               /\ SparesLocal(disk, policy, ToSet(checkout.tasks))

CheckoutInv == TreeTypeOK /\ TasksInv /\ RootInv /\ AloneInv /\ CheckoutExact

LEMMA StorableMeans ==
    ASSUME NEW t, Storable(t)
    PROVE  Placed(t) /\ \A p \in DOMAIN t : t[p] # "link" /\ ~LeftOut(t, p)
  BY DEF Storable, LeftOut

(* A step that does everything about what lies below p.                    *)
LEMMA DoneBelow ==
    ASSUME NEW d, NEW e, NEW target, NEW S, NEW R, NEW p \in Paths,
           Placed(d), Placed(e), Placed(target), AllDone(d, target, S),
           \A q \in DOMAIN d : ~IsPrefix(p, q) => q \in DOMAIN e /\ e[q] = d[q],
           \A q \in DOMAIN e : ~IsPrefix(p, q) => q \in DOMAIN d,
           \A t \in S : t \in R \/ \A q \in Paths : Covers(t, q) => IsPrefix(p, q),
           \A q \in DOMAIN target \cup Captured(e) :
              IsPrefix(p, q) => Outstanding(R, q) \/ Settled(e, target, q)
    PROVE  AllDone(e, target, R)
<1> SUFFICES ASSUME NEW q \in DOMAIN target \cup Captured(e)
             PROVE  Outstanding(R, q) \/ Settled(e, target, q)
  BY DEF AllDone
<1>1. CASE IsPrefix(p, q)
  BY <1>1
<1>2. CASE ~IsPrefix(p, q)
  <2>0. q \in Paths
    BY PlacedMeans DEF Captured
  <2>1. q \in DOMAIN target \cup Captured(d)
    <3>1. CASE q \in DOMAIN target
      BY <3>1
    <3>2. CASE q \in Captured(e)
      <4>1. /\ q \in DOMAIN e /\ e[q] # "link"
            /\ \A r \in Paths : IsPrefix(r, q) /\ r # Root => ~LeftOut(e, r)
        BY <3>2 DEF Captured
      <4>2. q \in DOMAIN d /\ d[q] # "link"
        BY <1>2, <4>1
      <4>3. ASSUME NEW r \in Paths, IsPrefix(r, q), r # Root PROVE ~LeftOut(d, r)
        <5>1. ~IsPrefix(p, r)
          BY <1>2, <2>0, <4>3, PrefixOrder
        <5>2. r \in DOMAIN d
          BY <4>2, <4>3, PlacedMeans DEF IsStrictPrefix
        <5>3. e[r] = d[r]
          BY <5>1, <5>2
        <5> QED
          BY <4>1, <4>3, <5>3 DEF LeftOut
      <4> QED
        BY <4>2, <4>3 DEF Captured
    <3> QED
      BY <3>1, <3>2
  <2>2. CASE Settled(d, target, q)
    BY <1>2, <2>2 DEF Settled
  <2>3. CASE Outstanding(S, q)
    <3>1. PICK t \in S : Covers(t, q)
      BY <2>3 DEF Outstanding
    <3>2. t \in R
      BY <1>2, <2>0, <3>1
    <3> QED
      BY <3>1, <3>2 DEF Outstanding
  <2> QED
    BY <2>1, <2>2, <2>3 DEF AllDone
<1> QED
  BY <1>1, <1>2

(* Tasks for the entries of a directory do what entering it had to do.     *)
LEMMA DirectoryEntered ==
    ASSUME Placed(disk), NEW target, Placed(target), NEW p \in Paths,
           NEW S, NEW R, AllDone(disk, target, S), SparesLocal(disk, policy, S),
           \A t \in ToSet(DirectoryTasks(p, target)) : t \in R,
           \A t \in S : t # Task("enter", p) => t \in R,
           \A t \in R : t \in S \/ t \in ToSet(DirectoryTasks(p, target))
    PROVE  AllDone(disk, target, R) /\ SparesLocal(disk, policy, R)
<1>1. \A t : t \in ToSet(DirectoryTasks(p, target)) <=>
                \/ t = Task("store", p)
                \/ \E n \in Nat :
                      /\ Append(p, n) \in DOMAIN target
                      /\ t = Task(IF target[Append(p, n)] = "dir" THEN "dir" ELSE "blob",
                                  Append(p, n))
                \/ \E n \in Nat :
                      /\ Append(p, n) \in DOMAIN disk /\ Append(p, n) \notin DOMAIN target
                      /\ ~Local(Append(p, n))
                      /\ t = PruneTask(Append(p, n))
  BY DirectoryTasksAre
<1>2. ASSUME NEW q \in DOMAIN target \cup Captured(disk), IsStrictPrefix(p, q)
      PROVE  Outstanding(R, q)
  <2>0. q \in Paths
    BY PlacedMeans DEF Captured
  <2>1. PICK n \in Nat : IsPrefix(Append(p, n), q)
    BY <1>2, <2>0, StepBelow
  <2> DEFINE r == Append(p, n)
  <2>2. r \in Paths /\ r # Root /\ IsPrefix(r, q)
    BY <2>1, EntryPath
  <2>3. CASE r \in DOMAIN target
    <3>1. Task(IF target[r] = "dir" THEN "dir" ELSE "blob", r) \in R
      BY <1>1, <2>3
    <3>2. Covers(Task(IF target[r] = "dir" THEN "dir" ELSE "blob", r), q)
      BY <2>2 DEF Covers, Task
    <3> QED
      BY <3>1, <3>2 DEF Outstanding
  <2>4. CASE r \notin DOMAIN target
    <3>1. q \notin DOMAIN target
      BY <2>2, <2>4, PlacedMeans DEF IsStrictPrefix
    <3>2. /\ q \in DOMAIN disk /\ disk[q] # "link" /\ ~LeftOut(disk, r)
      BY <2>2, <3>1 DEF Captured
    <3>3. r \in DOMAIN disk /\ disk[r] # "link"
      BY <2>2, <3>2, PlacedMeans DEF IsStrictPrefix
    <3>4. ~Local(r)
      BY <3>2, <3>3 DEF Local, Skipped, LeftOut
    <3>5. PruneTask(r) \in R
      BY <1>1, <2>4, <3>3, <3>4
    <3>6. Covers(PruneTask(r), q)
      BY <2>2, <3>3 DEF Covers, PruneTask, Task, Removal
    <3> QED
      BY <3>5, <3>6 DEF Outstanding
  <2> QED
    BY <2>3, <2>4
<1>3. AllDone(disk, target, R)
  <2> SUFFICES ASSUME NEW q \in DOMAIN target \cup Captured(disk), ~Settled(disk, target, q)
               PROVE  Outstanding(R, q)
    BY DEF AllDone
  <2>1. PICK t \in S : Covers(t, q)
    BY DEF AllDone, Outstanding
  <2>2. CASE t = Task("enter", p)
    BY <1>2, <2>1, <2>2 DEF Covers, Task, Removal
  <2>3. CASE t # Task("enter", p)
    <3>1. t \in R
      BY <2>3
    <3> QED
      BY <2>1, <3>1 DEF Outstanding
  <2> QED
    BY <2>2, <2>3
<1>4. SparesLocal(disk, policy, R)
  <2> SUFFICES ASSUME NEW t \in R, t.op \in Removal, t.path \in DOMAIN disk
               PROVE  ~LeftOut(disk, t.path) /\ ~(disk[t.path] = "link" /\ policy = "Skip")
    BY DEF SparesLocal
  <2>1. CASE t \in S
    BY <2>1 DEF SparesLocal
  <2>2. CASE t \in ToSet(DirectoryTasks(p, target))
    <3>1. PICK n \in Nat : ~Local(Append(p, n)) /\ t = PruneTask(Append(p, n))
      BY <1>1, <2>2 DEF Task, Removal
    <3>2. t.path = Append(p, n)
      BY <3>1 DEF PruneTask, Task
    <3> QED
      BY <3>1, <3>2 DEF Local, Skipped, LeftOut
  <2> QED
    BY <2>1, <2>2
<1> QED
  BY <1>3, <1>4

-----------------------------------------------------------------------------
(* The steps of a checkout.                                                *)

(* The tasks after a step whose own task becomes the tasks u.              *)
Advances(u) ==
    /\ ToSet(checkout'.tasks) = ToSet(u) \cup ToSet(Tail(checkout.tasks))
    /\ checkout'.tasks \in Seq(Tasks) /\ checkout'.tasks # <<>>
    /\ LastFinishes(checkout'.tasks)
    /\ checkout'.target = checkout.target /\ checkout'.alone = checkout.alone
    /\ IsCheckout(checkout')

LEMMA NextTaskDoes ==
    ASSUME TreeTypeOK, NEW mem, NextTask(mem)
    PROVE  /\ checkout'.tasks = Tail(checkout.tasks) /\ IsCheckout(checkout')
           /\ checkout'.target = checkout.target /\ checkout'.alone = checkout.alone
           /\ checkout'.mem = mem
<1> DEFINE s == Tail(checkout.tasks)
<1>1. checkout' = [checkout EXCEPT !.tasks = s, !.mem = mem] /\ IsCheckout(checkout)
  BY DEF NextTask, TreeTypeOK
<1> HIDE DEF s
<1>2. /\ checkout'.tasks = s /\ checkout'.mem = mem
      /\ checkout'.target = checkout.target /\ checkout'.alone = checkout.alone
  BY <1>1 DEF IsCheckout
<1>3. checkout' \in [target: {checkout.target}, tasks: {s}, mem: {mem}, alone: BOOLEAN]
  BY <1>1 DEF IsCheckout
<1> QED
  BY <1>2, <1>3 DEF IsCheckout, s

LEMMA Retasked ==
    ASSUME TreeTypeOK, NEW s, checkout' = [checkout EXCEPT !.tasks = s]
    PROVE  /\ checkout'.tasks = s /\ IsCheckout(checkout')
           /\ checkout'.target = checkout.target /\ checkout'.alone = checkout.alone
           /\ checkout'.mem = checkout.mem
<1>1. IsCheckout(checkout)
  BY DEF TreeTypeOK
<1>2. /\ checkout'.tasks = s /\ checkout'.mem = checkout.mem
      /\ checkout'.target = checkout.target /\ checkout'.alone = checkout.alone
  BY <1>1 DEF IsCheckout
<1>3. checkout' \in [target: {checkout.target}, tasks: {s}, mem: {checkout.mem}, alone: BOOLEAN]
  BY <1>1 DEF IsCheckout
<1> QED
  BY <1>2, <1>3 DEF IsCheckout

LEMMA HeadOfCheckout ==
    ASSUME TreeTypeOK, TasksInv, ~Idle
    PROVE  /\ checkout.tasks # <<>> /\ checkout.tasks \in Seq(Tasks) /\ LastFinishes(checkout.tasks)
           /\ Head(checkout.tasks) \in Tasks
           /\ TaskFits(checkout.target, Head(checkout.tasks))
           /\ \A x : x \in ToSet(checkout.tasks) <=>
                     x = Head(checkout.tasks) \/ x \in ToSet(Tail(checkout.tasks))
           /\ Storable(checkout.target) /\ Placed(checkout.target)
           /\ report = Nothing
<1>1. checkout.tasks # <<>> /\ checkout.tasks \in Seq(Tasks)
  BY DEF Idle, TasksInv
<1>2. /\ Head(checkout.tasks) \in Tasks
      /\ \A x : x \in ToSet(checkout.tasks) <=>
                x = Head(checkout.tasks) \/ x \in ToSet(Tail(checkout.tasks))
  BY <1>1, SetOfTail
<1>3. Storable(checkout.target) /\ Placed(checkout.target)
  BY StorableMeans DEF TreeTypeOK, TasksInv
<1> QED
  BY <1>1, <1>2, <1>3 DEF TasksInv

(* A step that goes on with the rest of the tasks.                         *)
LEMMA TaskDone ==
    ASSUME TreeTypeOK, TasksInv, ~Idle, Head(checkout.tasks).op # "finish",
           checkout'.tasks = Tail(checkout.tasks),
           checkout'.target = checkout.target, checkout'.alone = checkout.alone,
           IsCheckout(checkout')
    PROVE  Advances(<<>>)
<1>1. checkout.tasks # <<>> /\ checkout.tasks \in Seq(Tasks) /\ LastFinishes(checkout.tasks)
  BY HeadOfCheckout
<1>2. /\ Tail(checkout.tasks) # <<>> /\ Tail(checkout.tasks) \in Seq(Tasks)
      /\ LastFinishes(Tail(checkout.tasks))
  BY <1>1, NextTasks
<1>3. ToSet(<<>>) = {}
  BY DEF ToSet
<1> QED
  BY <1>2, <1>3 DEF Advances

LEMMA TaskReplaced ==
    ASSUME TreeTypeOK, TasksInv, ~Idle, Head(checkout.tasks).op # "finish",
           NEW u \in Seq(Tasks), \A t \in ToSet(u) : t.op # "finish",
           checkout'.tasks = u \o Tail(checkout.tasks),
           checkout'.target = checkout.target, checkout'.alone = checkout.alone,
           IsCheckout(checkout')
    PROVE  Advances(u)
<1>1. checkout.tasks # <<>> /\ checkout.tasks \in Seq(Tasks) /\ LastFinishes(checkout.tasks)
  BY HeadOfCheckout
<1>2. \A k \in DOMAIN u : u[k].op # "finish"
  BY DEF ToSet
<1>3. /\ Tail(checkout.tasks) \in Seq(Tasks)
      /\ u \o Tail(checkout.tasks) \in Seq(Tasks) /\ u \o Tail(checkout.tasks) # <<>>
      /\ LastFinishes(u \o Tail(checkout.tasks))
  BY <1>1, <1>2, NextTasks
<1>4. ToSet(u \o Tail(checkout.tasks)) = ToSet(u) \cup ToSet(Tail(checkout.tasks))
  BY <1>3, SetOfJoined
<1> QED
  BY <1>3, <1>4 DEF Advances

LEMMA FromRoot ==
    \A q \in Paths : SubSeq(q, Len(Root) + 1, Len(q)) = q /\ Root \o q = q
<1> TAKE q \in Paths
<1>0. q \in Seq(Nat) /\ Root = <<>>
  BY DEF Paths, Root
<1>1. Len(Root) + 1 = 1
  BY EmptySeq DEF Root
<1>2. SubSeq(q, 1, Len(q)) = q
  BY <1>0, SubSeqFull
<1>3. <<>> \o q = q
  BY <1>0, ConcatEmptySeq
<1> QED
  BY <1>0, <1>1, <1>2, <1>3

LEMMA RootTree ==
    ASSUME NEW t, Placed(t)
    PROVE  SubTree(t, Root) = t
<1>1. \A q \in DOMAIN t : q \in Paths /\ q # Root /\ IsStrictPrefix(Root, q)
  BY PlacedMeans, PrefixOrder DEF IsStrictPrefix
<1>2. \A q \in Paths : SubSeq(q, Len(Root) + 1, Len(q)) = q /\ Root \o q = q
  BY FromRoot
<1> DEFINE D == {SubSeq(r, Len(Root) + 1, Len(r)) : r \in {q \in DOMAIN t : IsStrictPrefix(Root, q)}}
<1>3. SubTree(t, Root) = [q \in D |-> t[Root \o q]]
  BY DEF SubTree
<1>4. D = DOMAIN t
  BY <1>1, <1>2
<1>5. t = [q \in DOMAIN t |-> t[q]]
  BY DEF Placed
<1> HIDE DEF D
<1>6. [q \in D |-> t[Root \o q]] = [q \in DOMAIN t |-> t[q]]
  BY <1>1, <1>2, <1>4
<1> QED
  BY <1>3, <1>5, <1>6, Zenon

(* What a capture of a settled directory gives.                            *)
LEMMA SettledTree ==
    ASSUME Placed(disk), NEW target, Storable(target), AllDone(disk, target, {})
    PROVE  TreeAt(Root) = target
<1>0. Placed(target) /\ \A p \in DOMAIN target : target[p] # "link" /\ ~LeftOut(target, p)
  BY StorableMeans
<1>1. \A q \in DOMAIN target \cup Captured(disk) : Settled(disk, target, q)
  BY DEF AllDone, Outstanding
<1>2. \A q \in Paths : SubSeq(q, Len(Root) + 1, Len(q)) = q /\ Root \o q = q
  BY FromRoot
<1>3. Captured(disk) = {r \in Scanned(Root) : disk[r] # "link"}
  <2>1. ASSUME NEW q \in DOMAIN disk
        PROVE  q \in Scanned(Root) <=> \A r \in Paths : IsPrefix(r, q) /\ r # Root => ~LeftOut(disk, r)
    <3>1. q \in Paths /\ q # Root /\ \A r \in Paths : IsStrictPrefix(Root, r) <=> r # Root
      BY PlacedMeans, PrefixOrder DEF IsStrictPrefix
    <3>2. \A r : r \in Proper(q) \cup {q} <=> r \in Paths /\ IsPrefix(r, q)
      <4>1. \A r : r \in Proper(q) <=> r \in Paths /\ IsStrictPrefix(r, q)
        BY <3>1, ProperMeans
      <4> QED
        BY <3>1, <4>1, PrefixOrder DEF IsStrictPrefix
    <3>3. \A r : Skipped(r) <=> LeftOut(disk, r)
      BY DEF Skipped, LeftOut
    <3> QED
      BY <3>1, <3>2, <3>3 DEF Scanned
  <2> QED
    BY <2>1 DEF Captured, Scanned
<1>4. Captured(disk) = DOMAIN target
  <2>1. ASSUME NEW q \in Captured(disk) PROVE q \in DOMAIN target
    BY <1>1 DEF Settled
  <2>2. ASSUME NEW q \in DOMAIN target PROVE q \in Captured(disk)
    <3>1. q \in DOMAIN disk /\ disk[q] = target[q] /\ q \in Paths
      BY <1>0, <1>1, PlacedMeans DEF Settled
    <3>2. ASSUME NEW r \in Paths, IsPrefix(r, q), r # Root PROVE ~LeftOut(disk, r)
      <4>1. r \in DOMAIN target
        BY <1>0, <3>2, PlacedMeans DEF IsStrictPrefix
      <4>2. disk[r] = target[r] /\ ~LeftOut(target, r)
        BY <1>0, <1>1, <4>1 DEF Settled
      <4> QED
        BY <4>2 DEF LeftOut
    <3> QED
      BY <1>0, <3>1, <3>2 DEF Captured
  <2> QED
    BY <2>1, <2>2
<1> DEFINE C == {r \in Scanned(Root) : disk[r] # "link"}
           D == {SubSeq(p, Len(Root) + 1, Len(p)) : p \in C}
<1>5. TreeAt(Root) = [q \in D |-> disk[Root \o q]]
  BY DEF TreeAt
<1>6. C = DOMAIN target /\ \A q \in C : q \in Paths /\ disk[q] = target[q]
  BY <1>0, <1>1, <1>3, <1>4, PlacedMeans DEF Settled
<1> HIDE DEF C
<1>7. D = C
  BY <1>2, <1>6
<1> HIDE DEF D
<1>8. [q \in D |-> disk[Root \o q]] = [q \in DOMAIN target |-> target[q]]
  BY <1>2, <1>6, <1>7
<1>9. target = [q \in DOMAIN target |-> target[q]]
  BY <1>0 DEF Placed
<1> QED
  BY <1>5, <1>8, <1>9, Zenon

LEMMA StepTyped ==
    ASSUME TreeTypeOK, TasksInv, ~Idle, NEW u, Advances(u), Placed(disk'),
           UNCHANGED <<policy, targets, left, report>>,
           \A t \in ToSet(u) : TaskFits(checkout.target, t)
    PROVE  ~Idle' /\ TreeTypeOK' /\ TasksInv' /\ CheckoutExact'
<1>1. ~Idle'
  BY DEF Idle, Advances
<1>2. TreeTypeOK'
  BY DEF TreeTypeOK, Advances
<1>3. \A x : x \in ToSet(checkout.tasks) <=>
             x = Head(checkout.tasks) \/ x \in ToSet(Tail(checkout.tasks))
  BY HeadOfCheckout
<1>4. \A t \in ToSet(checkout'.tasks) : TaskFits(checkout'.target, t)
  <2> TAKE t \in ToSet(checkout'.tasks)
  <2>1. checkout'.target = checkout.target /\ (t \in ToSet(u) \/ t \in ToSet(checkout.tasks))
    BY <1>3 DEF Advances
  <2>2. TaskFits(checkout.target, t)
    BY <2>1 DEF TasksInv
  <2> QED
    BY <2>1, <2>2, Zenon
<1>5. checkout'.tasks \in Seq(Tasks) /\ LastFinishes(checkout'.tasks)
  BY DEF Advances
<1>6. checkout'.target \in targets' /\ report' = Nothing
  BY DEF TasksInv, Advances
<1>7. TasksInv'
  BY <1>4, <1>5, <1>6 DEF TasksInv
<1>8. CheckoutExact'
  BY <1>6 DEF CheckoutExact, Nothing, Report
<1> QED
  BY <1>1, <1>2, <1>7, <1>8

LEMMA StepKeepsRoot ==
    ASSUME TreeTypeOK, TasksInv, RootInv, ~Idle, NEW u, Advances(u),
           RootListed({Head(checkout.tasks)}) => RootListed(ToSet(u)) \/ RootRecord(checkout'.mem, checkout.target),
           RootRecord(checkout.mem, checkout.target) => RootRecord(checkout'.mem, checkout.target)
    PROVE  RootInv'
<1>1. \A x : x \in ToSet(checkout.tasks) <=>
             x = Head(checkout.tasks) \/ x \in ToSet(Tail(checkout.tasks))
  BY HeadOfCheckout
<1>2. \/ RootListed(ToSet(u)) \/ RootListed(ToSet(Tail(checkout.tasks)))
      \/ RootRecord(checkout'.mem, checkout.target)
  BY <1>1 DEF RootInv, RootListed
<1>3. RootListed(ToSet(checkout'.tasks)) \/ RootRecord(checkout'.mem, checkout'.target)
  BY <1>2 DEF Advances, RootListed
<1> QED
  BY <1>3 DEF RootInv

LEMMA InvalidateKeepsRoot ==
    ASSUME NEW mem, NEW p \in Paths, p # Root, NEW tree, RootRecord(mem, tree)
    PROVE  RootRecord(Invalidate(mem, p), tree)
<1>1. ~IsPrefix(p, Root)
  BY PrefixOrder
<1> QED
  BY <1>1 DEF RootRecord, Invalidate, Without, Below

LEMMA StepSpares ==
    ASSUME NEW d, NEW e, NEW pol, NEW S, NEW R, NEW target, SparesLocal(d, pol, S),
           \A t \in R : t.op \in Removal /\ t.path \in DOMAIN e
                        => t \in S /\ t.path \in DOMAIN d /\ e[t.path] = d[t.path]
    PROVE  SparesLocal(e, pol, R)
  BY DEF SparesLocal, LeftOut

LEMMA EnterKeeps ==
    ASSUME TreeTypeOK, TasksInv, RootInv, AloneInv, NEW p, EnterDirectory(p)
    PROVE  TreeTypeOK' /\ TasksInv' /\ RootInv' /\ AloneInv' /\ CheckoutExact'
<1> DEFINE target == checkout.target
           u == DirectoryTasks(p, target)
<1>1. /\ ~Idle /\ Head(checkout.tasks) = Task("enter", p)
      /\ checkout'.tasks = u \o Tail(checkout.tasks)
      /\ checkout'.target = checkout.target /\ checkout'.alone = checkout.alone
      /\ checkout'.mem = checkout.mem /\ IsCheckout(checkout')
      /\ disk' = disk /\ UNCHANGED <<policy, targets, left, report>>
  <2> DEFINE v == u \o Tail(checkout.tasks)
  <2>3. checkout' = [checkout EXCEPT !.tasks = v]
    BY DEF EnterDirectory
  <2> HIDE DEF v
  <2>4. /\ checkout'.tasks = v /\ IsCheckout(checkout')
        /\ checkout'.target = checkout.target /\ checkout'.alone = checkout.alone
        /\ checkout'.mem = checkout.mem
    BY <2>3, Retasked
  <2> QED
    BY <2>4 DEF EnterDirectory, Doing, Quiet, v
<1>2. /\ Head(checkout.tasks) \in Tasks /\ TaskFits(target, Head(checkout.tasks))
      /\ Placed(target) /\ Placed(disk)
      /\ \A x : x \in ToSet(checkout.tasks) <=>
                x = Head(checkout.tasks) \/ x \in ToSet(Tail(checkout.tasks))
  BY <1>1, HeadOfCheckout DEF TreeTypeOK
<1>3. p \in Paths /\ TargetDir(target, p) /\ Head(checkout.tasks).op # "finish"
  BY <1>1, <1>2 DEF Task, Tasks, TaskFits
<1>4. /\ u \in Seq(Tasks)
      /\ \A t : t \in ToSet(u) <=>
                \/ t = Task("store", p)
                \/ \E n \in Nat :
                      /\ Append(p, n) \in DOMAIN target
                      /\ t = Task(IF target[Append(p, n)] = "dir" THEN "dir" ELSE "blob",
                                  Append(p, n))
                \/ \E n \in Nat :
                      /\ Append(p, n) \in DOMAIN disk /\ Append(p, n) \notin DOMAIN target
                      /\ ~Local(Append(p, n))
                      /\ t = PruneTask(Append(p, n))
  BY <1>2, <1>3, DirectoryTasksAre
<1>5. ASSUME NEW t \in ToSet(u) PROVE TaskFits(target, t) /\ t.op # "finish"
  <2>1. CASE t = Task("store", p)
    BY <1>3, <2>1 DEF TaskFits, Task, Removal
  <2>2. ASSUME NEW n \in Nat, Append(p, n) \in DOMAIN target,
               t = Task(IF target[Append(p, n)] = "dir" THEN "dir" ELSE "blob", Append(p, n))
        PROVE  TaskFits(target, t) /\ t.op # "finish"
    BY <2>2 DEF TaskFits, Task, Removal
  <2>3. ASSUME NEW n \in Nat, Append(p, n) \notin DOMAIN target, t = PruneTask(Append(p, n))
        PROVE  TaskFits(target, t) /\ t.op # "finish"
    <3>1. t.path = Append(p, n) /\ t.op \in Removal \cup {"fail"}
      BY <2>3 DEF PruneTask, Task, Removal
    <3>2. Append(p, n) # Root
      BY <1>3, EntryPath
    <3>3. ASSUME NEW q \in Paths, IsStrictPrefix(q, Append(p, n)) PROVE TargetDir(target, q)
      <4>1. q = p \/ IsStrictPrefix(q, p)
        BY <1>3, <3>3, EntryPath DEF IsStrictPrefix
      <4>2. CASE IsStrictPrefix(q, p) /\ q # Root
        <5>1. p # Root
          BY <4>2, PrefixOrder DEF IsStrictPrefix
        <5> QED
          BY <1>2, <1>3, <4>2, <5>1, PlacedMeans DEF TargetDir
      <4> QED
        BY <1>3, <4>1, <4>2 DEF TargetDir
    <3> QED
      BY <2>3, <3>1, <3>2, <3>3 DEF TaskFits, Removal
  <2> QED
    BY <1>4, <2>1, <2>2, <2>3
<1>6. Advances(u)
  BY <1>1, <1>3, <1>4, <1>5, TaskReplaced
<1>7. TreeTypeOK' /\ TasksInv' /\ CheckoutExact'
  BY <1>1, <1>2, <1>5, <1>6, StepTyped
<1>8. RootInv'
  <2>1. RootListed({Head(checkout.tasks)}) => RootListed(ToSet(u))
    BY <1>1, <1>4 DEF RootListed, Task
  <2>2. RootRecord(checkout.mem, checkout.target) => RootRecord(checkout'.mem, checkout.target)
    BY <1>1
  <2> HIDE DEF u
  <2> QED
    BY <1>1, <1>6, <2>1, <2>2, StepKeepsRoot
<1>9. AloneInv'
  <2> SUFFICES ASSUME checkout.alone
               PROVE  /\ AllDone(disk, target, ToSet(checkout'.tasks))
                      /\ SparesLocal(disk, policy, ToSet(checkout'.tasks))
    BY <1>1 DEF AloneInv
  <2>1. AllDone(disk, target, ToSet(checkout.tasks)) /\ SparesLocal(disk, policy, ToSet(checkout.tasks))
    BY <1>1 DEF AloneInv
  <2>2. /\ \A t \in ToSet(u) : t \in ToSet(checkout'.tasks)
        /\ \A t \in ToSet(checkout.tasks) : t # Task("enter", p) => t \in ToSet(checkout'.tasks)
        /\ \A t \in ToSet(checkout'.tasks) : t \in ToSet(checkout.tasks) \/ t \in ToSet(u)
    BY <1>1, <1>2, <1>6 DEF Advances
  <2> QED
    BY <1>2, <1>3, <2>1, <2>2, DirectoryEntered
<1> QED
  BY <1>7, <1>8, <1>9

LEMMA RemoveKeeps ==
    ASSUME TreeTypeOK, TasksInv, RootInv, AloneInv, NEW p, RemoveEntry(p)
    PROVE  TreeTypeOK' /\ TasksInv' /\ RootInv' /\ AloneInv' /\ CheckoutExact'
<1> DEFINE target == checkout.target
           S == ToSet(checkout.tasks)
           R == ToSet(checkout'.tasks)
<1>1. /\ ~Idle /\ Head(checkout.tasks).op \in Removal /\ Head(checkout.tasks).path = p
      /\ checkout'.tasks = Tail(checkout.tasks)
      /\ checkout'.target = checkout.target /\ checkout'.alone = checkout.alone
      /\ checkout'.mem = Invalidate(checkout.mem, p) /\ IsCheckout(checkout')
      /\ disk' = CutAt(p) /\ UNCHANGED <<policy, targets, left, report>>
  <2>1. NextTask(Invalidate(checkout.mem, p))
    BY DEF RemoveEntry
  <2>2. /\ checkout'.tasks = Tail(checkout.tasks) /\ IsCheckout(checkout')
        /\ checkout'.target = checkout.target /\ checkout'.alone = checkout.alone
        /\ checkout'.mem = Invalidate(checkout.mem, p)
    BY <2>1, NextTaskDoes
  <2> QED
    BY <2>2 DEF RemoveEntry, Doing, Quiet, Removal, Task
<1>2. /\ Head(checkout.tasks) \in Tasks /\ TaskFits(target, Head(checkout.tasks))
      /\ Placed(target) /\ Placed(disk)
      /\ \A x : x \in S <=> x = Head(checkout.tasks) \/ x \in ToSet(Tail(checkout.tasks))
  BY <1>1, HeadOfCheckout DEF TreeTypeOK
<1>3. p \in Paths /\ p # Root /\ p \notin DOMAIN target /\ Head(checkout.tasks).op # "finish"
  BY <1>1, <1>2 DEF Tasks, TaskFits, Removal
<1>4. Advances(<<>>) /\ ToSet(<<>>) = {}
  BY <1>1, <1>3, TaskDone DEF ToSet
<1>5. Placed(disk')
  BY <1>1, <1>2, <1>3, PlacedCut
<1>6. TreeTypeOK' /\ TasksInv' /\ CheckoutExact'
  BY <1>1, <1>4, <1>5, StepTyped
<1>7. RootInv'
  <2>1. ~RootListed({Head(checkout.tasks)})
    BY <1>1 DEF RootListed, Task, Removal
  <2>2. RootRecord(checkout.mem, checkout.target) => RootRecord(checkout'.mem, checkout.target)
    BY <1>1, <1>3, InvalidateKeepsRoot
  <2> QED
    BY <1>1, <1>4, <2>1, <2>2, StepKeepsRoot
<1>8. AloneInv'
  <2> SUFFICES ASSUME checkout.alone PROVE AllDone(disk', target, R) /\ SparesLocal(disk', policy, R)
    BY <1>1 DEF AloneInv
  <2>1. AllDone(disk, target, S) /\ SparesLocal(disk, policy, S)
    BY <1>1 DEF AloneInv
  <2>2. \A q : q \in DOMAIN disk' <=> q \in DOMAIN disk /\ ~IsPrefix(p, q)
    BY <1>1, CutMeans
  <2>3. \A q \in DOMAIN disk' : disk'[q] = disk[q]
    BY <1>1, CutMeans
  <2>4. \A t \in S : t \in R \/ t = Head(checkout.tasks)
    BY <1>2, <1>4 DEF Advances
  <2>5. \A t \in R : t \in S
    BY <1>2, <1>4 DEF Advances
  <2>6. \A q \in DOMAIN target \cup Captured(disk') : ~IsPrefix(p, q)
    BY <1>2, <1>3, <2>2, PlacedMeans DEF Captured, IsStrictPrefix
  <2>7. \A q : Covers(Head(checkout.tasks), q) => IsPrefix(p, q)
    BY <1>1 DEF Covers, Removal
  <2> HIDE DEF R, S, target
  <2>8. AllDone(disk', target, R)
    BY <1>2, <1>3, <1>5, <2>1, <2>2, <2>3, <2>4, <2>6, <2>7, DoneBelow
  <2>9. SparesLocal(disk', policy, R)
    BY <2>1, <2>2, <2>3, <2>5, StepSpares
  <2> QED
    BY <2>8, <2>9
<1> QED
  BY <1>6, <1>7, <1>8

LEMMA KeepBlobKeeps ==
    ASSUME TreeTypeOK, TasksInv, RootInv, AloneInv, NEW p, KeepBlob(p)
    PROVE  TreeTypeOK' /\ TasksInv' /\ RootInv' /\ AloneInv' /\ CheckoutExact'
<1> DEFINE target == checkout.target
           S == ToSet(checkout.tasks)
           R == ToSet(checkout'.tasks)
<1>0. NextTask(checkout.mem)
  BY DEF KeepBlob
<1>1. /\ ~Idle /\ Head(checkout.tasks).op = "blob" /\ Head(checkout.tasks).path = p
      /\ checkout'.tasks = Tail(checkout.tasks)
      /\ checkout'.target = checkout.target /\ checkout'.alone = checkout.alone
      /\ checkout'.mem = checkout.mem /\ IsCheckout(checkout')
      /\ disk' = disk /\ UNCHANGED <<policy, targets, left, report>>
      /\ KindAt(p) = target[p]
  BY <1>0, NextTaskDoes DEF KeepBlob, Doing, Quiet, Task
<1>2. /\ Head(checkout.tasks) \in Tasks /\ TaskFits(target, Head(checkout.tasks))
      /\ Placed(target) /\ Placed(disk)
      /\ \A x : x \in S <=> x = Head(checkout.tasks) \/ x \in ToSet(Tail(checkout.tasks))
  BY <1>1, HeadOfCheckout DEF TreeTypeOK
<1>3. /\ p \in Paths /\ p \in DOMAIN target /\ target[p] # "dir"
      /\ Head(checkout.tasks).op # "finish"
  BY <1>1, <1>2 DEF Tasks, TaskFits
<1>4. Advances(<<>>) /\ ToSet(<<>>) = {}
  BY <1>1, <1>3, TaskDone DEF ToSet
<1>6. TreeTypeOK' /\ TasksInv' /\ CheckoutExact'
  BY <1>1, <1>2, <1>4, StepTyped
<1>7. RootInv'
  <2>1. ~RootListed({Head(checkout.tasks)})
    BY <1>1 DEF RootListed, Task
  <2> QED
    BY <1>1, <1>4, <2>1, StepKeepsRoot
<1>8. AloneInv'
  <2> SUFFICES ASSUME checkout.alone PROVE AllDone(disk, target, R) /\ SparesLocal(disk, policy, R)
    BY <1>1 DEF AloneInv
  <2>1. AllDone(disk, target, S) /\ SparesLocal(disk, policy, S)
    BY <1>1 DEF AloneInv
  <2>2. p \in DOMAIN disk /\ disk[p] = target[p]
    BY <1>1, <1>2, <1>3, PlacedMeans DEF KindAt
  <2>3. \A t \in S : t \in R \/ t = Head(checkout.tasks)
    BY <1>2, <1>4 DEF Advances
  <2>4. \A t \in R : t \in S
    BY <1>2, <1>4 DEF Advances
  <2>5. ASSUME NEW q \in DOMAIN target \cup Captured(disk), IsPrefix(p, q)
        PROVE  Settled(disk, target, q)
    <3>1. CASE q = p
      BY <1>3, <2>2, <3>1 DEF Settled
    <3>2. CASE q # p
      <4>1. IsStrictPrefix(p, q) /\ p # Root
        BY <1>2, <1>3, <2>5, <3>2, PlacedMeans DEF IsStrictPrefix
      <4>2. q \in DOMAIN target => target[p] = "dir"
        BY <1>2, <1>3, <4>1, PlacedMeans
      <4>3. q \in Captured(disk) => disk[p] = "dir"
        BY <1>2, <1>3, <4>1, PlacedMeans DEF Captured
      <4> QED
        BY <1>3, <2>2, <4>2, <4>3
    <3> QED
      BY <3>1, <3>2
  <2>7. \A q : Covers(Head(checkout.tasks), q) => IsPrefix(p, q)
    BY <1>1 DEF Covers
  <2> HIDE DEF R, S, target
  <2>8. AllDone(disk, target, R)
    BY <1>2, <1>3, <2>1, <2>3, <2>5, <2>7, DoneBelow
  <2>9. SparesLocal(disk, policy, R)
    BY <2>1, <2>4, StepSpares
  <2> QED
    BY <2>8, <2>9
<1> QED
  BY <1>6, <1>7, <1>8

(* A file or a directory of the target takes the place of what was there.  *)
LEMMA PutSettles ==
    ASSUME Placed(disk), NEW target, Placed(target), NEW p \in DOMAIN target, Reachable(p),
           NEW S, NEW R, AllDone(disk, target, S), SparesLocal(disk, policy, S),
           disk' = Plus(CutAt(p), Just(p, target[p])), Placed(disk'),
           \A t \in S : t \in R \/ \A q : Covers(t, q) => IsPrefix(p, q),
           \A t \in R : t.op \in Removal => t \in S /\ t.path \notin DOMAIN target,
           \A q \in DOMAIN target : IsStrictPrefix(p, q) => Outstanding(R, q)
    PROVE  AllDone(disk', target, R) /\ SparesLocal(disk', policy, R)
<1>1. p \in Paths /\ p # Root
  BY PlacedMeans
<1>2. /\ \A q : q \in DOMAIN disk' <=> q = p \/ (q \in DOMAIN disk /\ ~IsPrefix(p, q))
      /\ disk'[p] = target[p]
      /\ \A q \in DOMAIN disk : ~IsPrefix(p, q) => disk'[q] = disk[q]
  <2>1. IsPrefix(p, p)
    BY <1>1, PrefixOrder
  <2>2. /\ \A q : q \in DOMAIN CutAt(p) <=> q \in DOMAIN disk /\ ~IsPrefix(p, q)
        /\ \A q \in DOMAIN CutAt(p) : CutAt(p)[q] = disk[q]
    BY CutMeans
  <2> QED
    BY <2>1, <2>2 DEF Plus, Just
<1>3. ASSUME NEW q \in DOMAIN target \cup Captured(disk'), IsPrefix(p, q)
      PROVE  Outstanding(R, q) \/ Settled(disk', target, q)
  <2>1. CASE q = p
    BY <1>2, <2>1 DEF Settled
  <2>2. CASE q # p
    BY <1>2, <1>3, <2>2 DEF IsStrictPrefix, Captured
  <2> QED
    BY <2>1, <2>2
<1>4. AllDone(disk', target, R)
  <2>1. \A q \in DOMAIN disk : ~IsPrefix(p, q) => q \in DOMAIN disk' /\ disk'[q] = disk[q]
    BY <1>2
  <2>2. \A q \in DOMAIN disk' : ~IsPrefix(p, q) => q \in DOMAIN disk
    BY <1>1, <1>2, PrefixOrder
  <2> QED
    BY <1>1, <1>3, <2>1, <2>2, DoneBelow
<1>5. SparesLocal(disk', policy, R)
  BY <1>2, StepSpares
<1> QED
  BY <1>4, <1>5

LEMMA WriteBlobKeeps ==
    ASSUME TreeTypeOK, TasksInv, RootInv, AloneInv, NEW p, WriteBlob(p)
    PROVE  TreeTypeOK' /\ TasksInv' /\ RootInv' /\ AloneInv' /\ CheckoutExact'
<1> DEFINE target == checkout.target
           S == ToSet(checkout.tasks)
           R == ToSet(checkout'.tasks)
<1>0. NextTask(Invalidate(checkout.mem, p))
  BY DEF WriteBlob
<1>1. /\ ~Idle /\ Head(checkout.tasks).op = "blob" /\ Head(checkout.tasks).path = p
      /\ checkout'.tasks = Tail(checkout.tasks)
      /\ checkout'.target = checkout.target /\ checkout'.alone = checkout.alone
      /\ checkout'.mem = Invalidate(checkout.mem, p) /\ IsCheckout(checkout')
      /\ disk' = Plus(CutAt(p), Just(p, target[p])) /\ UNCHANGED <<policy, targets, left, report>>
      /\ Reachable(p)
  BY <1>0, NextTaskDoes DEF WriteBlob, Doing, Quiet, Task
<1>2. /\ Head(checkout.tasks) \in Tasks /\ TaskFits(target, Head(checkout.tasks))
      /\ Placed(target) /\ Placed(disk)
      /\ \A x : x \in S <=> x = Head(checkout.tasks) \/ x \in ToSet(Tail(checkout.tasks))
  BY <1>1, HeadOfCheckout DEF TreeTypeOK
<1>3. /\ p \in Paths /\ p \in DOMAIN target /\ target[p] # "dir"
      /\ Head(checkout.tasks).op # "finish"
  BY <1>1, <1>2 DEF Tasks, TaskFits
<1>4. Advances(<<>>) /\ ToSet(<<>>) = {}
  BY <1>1, <1>3, TaskDone DEF ToSet
<1>5. p # Root /\ target[p] # NotThere
  BY <1>2, <1>3, PlacedMeans
<1>9. Placed(disk')
  BY <1>1, <1>2, <1>3, <1>5, PlacedPut
<1>6. TreeTypeOK' /\ TasksInv' /\ CheckoutExact'
  BY <1>1, <1>4, <1>9, StepTyped
<1>7. RootInv'
  <2>1. ~RootListed({Head(checkout.tasks)})
    BY <1>1 DEF RootListed, Task
  <2>2. RootRecord(checkout.mem, checkout.target) => RootRecord(checkout'.mem, checkout.target)
    BY <1>1, <1>3, <1>5, InvalidateKeepsRoot
  <2> QED
    BY <1>1, <1>4, <2>1, <2>2, StepKeepsRoot
<1>8. AloneInv'
  <2> SUFFICES ASSUME checkout.alone PROVE AllDone(disk', target, R) /\ SparesLocal(disk', policy, R)
    BY <1>1 DEF AloneInv
  <2>1. AllDone(disk, target, S) /\ SparesLocal(disk, policy, S)
    BY <1>1 DEF AloneInv
  <2>2. \A q : Covers(Head(checkout.tasks), q) => IsPrefix(p, q)
    BY <1>1 DEF Covers
  <2>3. \A t \in S : t \in R \/ t = Head(checkout.tasks)
    BY <1>2, <1>4 DEF Advances
  <2>4. \A t \in R : t.op \in Removal => t \in S /\ t.path \notin DOMAIN target
    <3>1. \A t \in R : t \in S /\ TaskFits(target, t)
      BY <1>1, <1>2, <1>4 DEF Advances, TasksInv
    <3> QED
      BY <3>1 DEF TaskFits
  <2>5. \A q \in DOMAIN target : ~IsStrictPrefix(p, q)
    BY <1>2, <1>3, <1>5, PlacedMeans
  <2> HIDE DEF R, S, target
  <2> QED
    BY <1>1, <1>2, <1>3, <1>9, <2>1, <2>2, <2>3, <2>4, <2>5, PutSettles
<1> QED
  BY <1>6, <1>7, <1>8

LEMMA PrepareKeeps ==
    ASSUME TreeTypeOK, TasksInv, RootInv, AloneInv, NEW p, PrepareDirectory(p)
    PROVE  TreeTypeOK' /\ TasksInv' /\ RootInv' /\ AloneInv' /\ CheckoutExact'
<1> DEFINE target == checkout.target
           S == ToSet(checkout.tasks)
           R == ToSet(checkout'.tasks)
           u == <<Task("enter", p)>>
           v == u \o Tail(checkout.tasks)
<1>0. checkout' = [checkout EXCEPT !.tasks = v]
  BY DEF PrepareDirectory
<1> HIDE DEF u, v
<1>1. /\ ~Idle /\ Head(checkout.tasks).op = "dir" /\ Head(checkout.tasks).path = p
      /\ checkout'.tasks = v
      /\ checkout'.target = checkout.target /\ checkout'.alone = checkout.alone
      /\ checkout'.mem = checkout.mem /\ IsCheckout(checkout')
      /\ disk' = IF IsDir(p) THEN disk ELSE Plus(CutAt(p), Just(p, "dir"))
      /\ UNCHANGED <<policy, targets, left, report>>
      /\ Reachable(p)
  BY <1>0, Retasked DEF PrepareDirectory, Doing, Quiet, Task
<1>2. /\ Head(checkout.tasks) \in Tasks /\ TaskFits(target, Head(checkout.tasks))
      /\ Placed(target) /\ Placed(disk)
      /\ \A x : x \in S <=> x = Head(checkout.tasks) \/ x \in ToSet(Tail(checkout.tasks))
  BY <1>1, HeadOfCheckout DEF TreeTypeOK
<1>3. /\ p \in Paths /\ p \in DOMAIN target /\ target[p] = "dir"
      /\ Head(checkout.tasks).op # "finish"
  BY <1>1, <1>2 DEF Tasks, TaskFits
<1>4. u \in Seq(Tasks) /\ \A t : t \in ToSet(u) <=> t = Task("enter", p)
  <2>1. Task("enter", p) \in Tasks
    BY <1>3 DEF Task, Tasks, Ops
  <2> HIDE DEF Tasks
  <2>2. u \in Seq(Tasks) /\ DOMAIN u = {1} /\ u[1] = Task("enter", p)
    BY <2>1 DEF u
  <2> QED
    BY <2>2 DEF ToSet
<1>5. Advances(u)
  <2>1. \A t \in ToSet(u) : t.op # "finish"
    BY <1>4 DEF Task
  <2> QED
    BY <1>1, <1>3, <1>4, <2>1, TaskReplaced DEF v
<1>6. p # Root /\ "dir" # NotThere
  BY <1>2, <1>3, PlacedMeans DEF NotThere
<1>7. Placed(disk')
  BY <1>1, <1>2, <1>3, <1>6, PlacedPut
<1>8. TreeTypeOK' /\ TasksInv' /\ CheckoutExact'
  <2>1. \A t \in ToSet(u) : TaskFits(target, t)
    BY <1>3, <1>4 DEF TaskFits, Task, TargetDir, Removal
  <2> QED
    BY <1>1, <1>5, <1>7, <2>1, StepTyped
<1>9. RootInv'
  <2>1. ~RootListed({Head(checkout.tasks)})
    BY <1>1 DEF RootListed, Task
  <2> QED
    BY <1>1, <1>5, <2>1, StepKeepsRoot
<1>10. AloneInv'
  <2> SUFFICES ASSUME checkout.alone PROVE AllDone(disk', target, R) /\ SparesLocal(disk', policy, R)
    BY <1>1 DEF AloneInv
  <2>1. AllDone(disk, target, S) /\ SparesLocal(disk, policy, S)
    BY <1>1 DEF AloneInv
  <2>2. \A q : Covers(Head(checkout.tasks), q) => IsPrefix(p, q)
    BY <1>1 DEF Covers
  <2>3. \A t \in S : t \in R \/ t = Head(checkout.tasks)
    BY <1>2, <1>5 DEF Advances
  <2>4. \A t \in R : t \in S \/ t = Task("enter", p)
    BY <1>2, <1>4, <1>5 DEF Advances
  <2>5. \A t \in R : t.op \in Removal => t \in S /\ t.path \notin DOMAIN target
    <3>1. \A t \in S : TaskFits(target, t)
      BY <1>1 DEF TasksInv
    <3> QED
      BY <2>4, <3>1 DEF TaskFits, Task, Removal
  <2>6. \A q : IsStrictPrefix(p, q) => Outstanding(R, q)
    <3>1. Task("enter", p) \in R
      BY <1>4, <1>5 DEF Advances
    <3> QED
      BY <3>1 DEF Outstanding, Covers, Task
  <2> HIDE DEF R, S, target
  <2>7. CASE IsDir(p)
    <3>1. disk' = disk /\ p \in DOMAIN disk /\ disk[p] = target[p]
      BY <1>1, <1>3, <1>6, <2>7 DEF IsDir, KindAt
    <3>2. \A q \in DOMAIN target \cup Captured(disk) :
             IsPrefix(p, q) => Outstanding(R, q) \/ Settled(disk, target, q)
      BY <1>3, <2>6, <3>1 DEF Settled, IsStrictPrefix
    <3>3. AllDone(disk, target, R)
      BY <1>2, <1>3, <2>1, <2>2, <2>3, <3>2, DoneBelow
    <3>4. SparesLocal(disk, policy, R)
      BY <2>1, <2>5, StepSpares
    <3> QED
      BY <3>1, <3>3, <3>4
  <2>8. CASE ~IsDir(p)
    <3>1. disk' = Plus(CutAt(p), Just(p, target[p]))
      BY <1>1, <1>3, <2>8
    <3> QED
      BY <1>1, <1>2, <1>3, <1>7, <2>1, <2>2, <2>3, <2>5, <2>6, <3>1, PutSettles
  <2> QED
    BY <2>7, <2>8
<1> QED
  BY <1>8, <1>9, <1>10

LEMMA StoreKeeps ==
    ASSUME TreeTypeOK, TasksInv, RootInv, AloneInv, NEW p, StoreDirectory(p)
    PROVE  TreeTypeOK' /\ TasksInv' /\ RootInv' /\ AloneInv' /\ CheckoutExact'
<1> DEFINE target == checkout.target
           S == ToSet(checkout.tasks)
           R == ToSet(checkout'.tasks)
           mem == Plus(checkout.mem, Just(p, [tree |-> SubTree(target, p), stored |-> TRUE]))
<1>0. NextTask(mem)
  BY DEF StoreDirectory
<1> HIDE DEF mem
<1>1. /\ ~Idle /\ Head(checkout.tasks).op = "store" /\ Head(checkout.tasks).path = p
      /\ checkout'.tasks = Tail(checkout.tasks)
      /\ checkout'.target = checkout.target /\ checkout'.alone = checkout.alone
      /\ checkout'.mem = mem /\ IsCheckout(checkout')
      /\ disk' = disk /\ UNCHANGED <<policy, targets, left, report>>
  BY <1>0, NextTaskDoes DEF StoreDirectory, Doing, Quiet, Task
<1>2. /\ Placed(target) /\ Placed(disk)
      /\ \A x : x \in S <=> x = Head(checkout.tasks) \/ x \in ToSet(Tail(checkout.tasks))
  BY <1>1, HeadOfCheckout DEF TreeTypeOK
<1>3. Head(checkout.tasks).op # "finish"
  BY <1>1
<1>4. Advances(<<>>) /\ ToSet(<<>>) = {}
  BY <1>1, <1>3, TaskDone DEF ToSet
<1>5. TreeTypeOK' /\ TasksInv' /\ CheckoutExact'
  BY <1>1, <1>2, <1>4, StepTyped
<1>6. RootInv'
  <2>1. p = Root => RootRecord(mem, target)
    <3>1. SubTree(target, Root) = target
      BY <1>2, RootTree
    <3> QED
      BY <3>1 DEF RootRecord, mem, Plus, Just
  <2>2. RootRecord(checkout.mem, target) /\ p # Root => RootRecord(mem, target)
    BY DEF RootRecord, mem, Plus, Just
  <2>3. RootListed({Head(checkout.tasks)}) => p = Root
    BY <1>1 DEF RootListed, Task
  <2> QED
    BY <1>1, <1>4, <2>1, <2>2, <2>3, StepKeepsRoot
<1>7. AloneInv'
  <2> SUFFICES ASSUME checkout.alone PROVE AllDone(disk, target, R) /\ SparesLocal(disk, policy, R)
    BY <1>1 DEF AloneInv
  <2>1. AllDone(disk, target, S) /\ SparesLocal(disk, policy, S)
    BY <1>1 DEF AloneInv
  <2>2. \A q : ~Covers(Head(checkout.tasks), q)
    BY <1>1 DEF Covers, Removal
  <2>3. \A t \in S : t \in R \/ t = Head(checkout.tasks)
    BY <1>2, <1>4 DEF Advances
  <2>4. \A t \in R : t \in S
    BY <1>2, <1>4 DEF Advances
  <2> HIDE DEF R, S, target
  <2> QED
    BY <2>1, <2>2, <2>3, <2>4 DEF AllDone, Outstanding, SparesLocal
<1> QED
  BY <1>5, <1>6, <1>7

(* The last task: nothing is left to do.                                   *)
LEMMA FinishKeeps ==
    ASSUME TreeTypeOK, TasksInv, RootInv, AloneInv, FinishCheckout
    PROVE  TreeTypeOK' /\ TasksInv' /\ RootInv' /\ AloneInv' /\ CheckoutExact'
<1>1. /\ ~Idle /\ Head(checkout.tasks) = Task("finish", Root)
      /\ dirs' = checkout.mem /\ checkout' = NoCheckout
      /\ report' = Report(IF checkout.alone THEN "checkout" ELSE "raced", checkout.target, <<>>)
      /\ UNCHANGED <<disk, policy, targets, left>>
  BY DEF FinishCheckout, Doing
<1>2. /\ checkout.tasks # <<>> /\ checkout.tasks \in Seq(Tasks) /\ LastFinishes(checkout.tasks)
      /\ Storable(checkout.target)
      /\ \A x : x \in ToSet(checkout.tasks) <=>
                x = Head(checkout.tasks) \/ x \in ToSet(Tail(checkout.tasks))
  BY <1>1, HeadOfCheckout
<1>3. \A t \in ToSet(checkout.tasks) : t.op = "finish"
  <2>1. /\ Len(checkout.tasks) \in Nat \ {0} /\ DOMAIN checkout.tasks = 1..Len(checkout.tasks)
        /\ Head(checkout.tasks) = checkout.tasks[1]
    BY <1>2, SetOfTail, HeadTailProperties, LenProperties
  <2>3. 1 \in DOMAIN checkout.tasks /\ checkout.tasks[1].op = "finish"
    BY <1>1, <2>1 DEF Task
  <2>2. Len(checkout.tasks) = 1
    BY <1>2, <2>3 DEF LastFinishes
  <2> QED
    BY <1>1, <2>1, <2>2 DEF ToSet, Task
<1>4. Idle' /\ checkout'.tasks \in Seq(Tasks) /\ IsCheckout(checkout')
  BY <1>1 DEF Idle, NoCheckout, IsCheckout
<1>5. TreeTypeOK' /\ TasksInv' /\ RootInv' /\ AloneInv'
  BY <1>1, <1>4 DEF TreeTypeOK, TasksInv, RootInv, AloneInv
<1>6. RootRecord(checkout.mem, checkout.target)
  <2>1. ~RootListed(ToSet(checkout.tasks))
    BY <1>3 DEF RootListed, Task
  <2> QED
    BY <1>1, <2>1 DEF RootInv
<1>7. checkout.alone => TreeAt(Root) = checkout.target
  <2> SUFFICES ASSUME checkout.alone PROVE TreeAt(Root) = checkout.target
    OBVIOUS
  <2>1. AllDone(disk, checkout.target, {})
    BY <1>1, <1>3 DEF AloneInv, AllDone, Outstanding, Covers, Removal
  <2> QED
    BY <1>2, <2>1, SettledTree DEF TreeTypeOK
<1>8. TreeAt(Root)' = TreeAt(Root)
  BY <1>1 DEF TreeAt, Scanned, Skipped
<1>9. CheckoutExact'
  <2> SUFFICES ASSUME report'.op = "checkout"
               PROVE  /\ TreeAt(Root)' = report'.tree
                      /\ dirs'[Root] = [tree |-> report'.tree, stored |-> TRUE]
    BY DEF CheckoutExact
  <2>1. checkout.alone /\ report'.tree = checkout.target
    BY <1>1 DEF Report
  <2> QED
    BY <1>1, <1>6, <1>7, <1>8, <2>1 DEF RootRecord
<1> QED
  BY <1>5, <1>9

(* A step that leaves no checkout behind and reports something else.       *)
LEMMA IdleStep ==
    ASSUME TreeTypeOK, TasksInv, report'.op # "checkout", UNCHANGED <<policy, targets>>, Placed(disk'),
           left' \in [{"edits", "ops", "crashes"} -> Nat],
           checkout' = NoCheckout \/ (Idle /\ checkout' = checkout)
    PROVE  TreeTypeOK' /\ TasksInv' /\ RootInv' /\ AloneInv' /\ CheckoutExact'
<1>1. Idle' /\ checkout'.tasks \in Seq(Tasks) /\ IsCheckout(checkout')
  <2>1. CASE checkout' = NoCheckout
    BY <2>1 DEF Idle, NoCheckout, IsCheckout
  <2>2. CASE Idle /\ checkout' = checkout
    BY <2>2 DEF Idle, TreeTypeOK, TasksInv
  <2> QED
    BY <2>1, <2>2
<1> QED
  BY <1>1 DEF TreeTypeOK, TasksInv, RootInv, AloneInv, CheckoutExact

LEMMA Spent ==
    ASSUME TreeTypeOK, NEW b \in {"edits", "ops", "crashes"}, Spend(b)
    PROVE  left' \in [{"edits", "ops", "crashes"} -> Nat] /\ left'[b] # left[b]
  BY DEF TreeTypeOK, Spend

(* The operations that only read the directory.                            *)
LEMMA ReadersKeep ==
    ASSUME TreeTypeOK, TasksInv,
           \/ CaptureTree \/ CaptureTreeWithHints \/ ScanTree \/ CompareTree
           \/ \E p \in dirty : ObserveEvent(p)
    PROVE  TreeTypeOK' /\ TasksInv' /\ RootInv' /\ AloneInv' /\ CheckoutExact'
<1>1. UNCHANGED <<disk, policy, targets, checkout>> /\ Idle
  BY DEF CaptureTree, CaptureTreeWithHints, ScanTree, CompareTree, ObserveEvent
<1>2. left' \in [{"edits", "ops", "crashes"} -> Nat]
  <2>1. left' = left \/ Spend("ops")
    BY DEF CaptureTree, CaptureTreeWithHints, ScanTree, CompareTree, ObserveEvent
  <2> QED
    BY <2>1, Spent DEF TreeTypeOK
<1>3. report'.op # "checkout"
  <2>0. \A op, t, c : Report(op, t, c).op = op
    BY DEF Report
  <2>1. \A c, s : CaptureFrom(c, s) => report'.op # "checkout"
    <3> TAKE c, s
    <3> HAVE CaptureFrom(c, s)
    <3>1. report' = Report("error", EmptyTree, <<>>) \/ report' = Report("capture", TreeAt(Root), <<>>)
      BY DEF CaptureFrom, Fail, FailedReport
    <3> QED
      BY <2>0, <3>1
  <2>2. CASE CaptureTree
    BY <2>1, <2>2 DEF CaptureTree
  <2>3. CASE CaptureTreeWithHints
    <3>1. PICK hints \in Deliveries :
             LET st == CaptureHints(hints)
             IN CASE st.status = "ok" ->
                       /\ dirs' = st.cache
                       /\ objects' = objects \cup st.puts
                       /\ report' = Report("hinted", st.cache[Root].tree, <<>>)
                       /\ UNCHANGED synced
                  [] st.status = "full" -> CaptureFrom(st.cache, st.puts)
                  [] OTHER -> Fail
      BY <2>3 DEF CaptureTreeWithHints
    <3> DEFINE st == CaptureHints(hints)
    <3>2. \/ report' = Report("hinted", st.cache[Root].tree, <<>>)
          \/ CaptureFrom(st.cache, st.puts)
          \/ Fail
      <4> HIDE DEF st
      <4> QED
        BY <3>1 DEF st
    <3> QED
      BY <2>1, <3>2 DEF Report, Fail, FailedReport
  <2>4. CASE ScanTree \/ CompareTree
    <3>1. \/ report' = Report("error", EmptyTree, <<>>) \/ report' = Report("scan", TreeAt(Root), <<>>)
          \/ \E saved \in targets :
                report' = Report("compare", saved, CompareDirectory(saved, TreeAt(Root)))
      BY <2>4 DEF ScanTree, CompareTree, Fail, FailedReport
    <3> QED
      BY <2>0, <3>1
  <2>5. CASE \E p \in dirty : ObserveEvent(p)
    BY <2>5 DEF ObserveEvent, Nothing, Report
  <2> QED
    BY <2>2, <2>3, <2>4, <2>5
<1> QED
  BY <1>1, <1>2, <1>3, IdleStep DEF TreeTypeOK

LEMMA StartKeeps ==
    ASSUME TreeTypeOK, TasksInv, StartCheckout
    PROVE  TreeTypeOK' /\ TasksInv' /\ RootInv' /\ AloneInv' /\ CheckoutExact'
<1> DEFINE tasks == <<Task("enter", Root), Task("finish", Root)>>
<1>1. PICK target \in targets :
         checkout' = [target |-> target, mem |-> dirs, alone |-> TRUE, tasks |-> tasks]
  BY DEF StartCheckout
<1>2. Root \in Paths
  BY EmptySeq DEF Paths, Root
<1>3. Task("enter", Root) \in Tasks /\ Task("finish", Root) \in Tasks
  BY <1>2 DEF Task, Tasks, Ops
<1>4. /\ tasks \in Seq(Tasks) /\ tasks # <<>> /\ Len(tasks) = 2
      /\ tasks[1] = Task("enter", Root) /\ tasks[2] = Task("finish", Root)
      /\ DOMAIN tasks = {1, 2}
  <2> HIDE DEF Tasks
  <2> QED
    BY <1>3
<1> HIDE DEF tasks
<1>5. \A t : t \in ToSet(tasks) <=> t = Task("enter", Root) \/ t = Task("finish", Root)
  BY <1>4 DEF ToSet
<1>6. LastFinishes(tasks)
  BY <1>4 DEF LastFinishes, Task
<1>7. /\ IsCheckout(checkout') /\ checkout'.tasks = tasks /\ checkout'.target = target
      /\ checkout'.alone = TRUE /\ ~Idle'
  BY <1>1, <1>4 DEF IsCheckout, Idle
<1>8. report' = Nothing /\ UNCHANGED <<disk, policy, targets>>
  BY DEF StartCheckout
<1>9. left' \in [{"edits", "ops", "crashes"} -> Nat]
  BY Spent DEF StartCheckout
<1>10. \A t \in ToSet(tasks) : TaskFits(target, t)
  BY <1>5 DEF TaskFits, Task, TargetDir, Removal
<1>11. TreeTypeOK' /\ TasksInv'
  BY <1>4, <1>6, <1>7, <1>8, <1>9, <1>10 DEF TreeTypeOK, TasksInv
<1>12. RootInv'
  BY <1>5, <1>7 DEF RootInv, RootListed
<1>13. AloneInv'
  <2>1. Placed(disk) /\ Placed(target)
    BY StorableMeans DEF TreeTypeOK
  <2>2. ASSUME NEW q \in DOMAIN target \cup Captured(disk) PROVE Outstanding(ToSet(tasks), q)
    <3>1. q \in Paths /\ q # Root
      BY <2>1, PlacedMeans DEF Captured
    <3>2. IsStrictPrefix(Root, q)
      BY <3>1, PrefixOrder DEF IsStrictPrefix
    <3>3. Covers(Task("enter", Root), q)
      BY <3>2 DEF Covers, Task
    <3> QED
      BY <1>5, <3>3 DEF Outstanding
  <2>3. SparesLocal(disk, policy, ToSet(tasks))
    BY <1>5 DEF SparesLocal, Removal, Task
  <2> QED
    BY <1>7, <1>8, <2>2, <2>3 DEF AloneInv, AllDone
<1>14. CheckoutExact'
  BY <1>8 DEF CheckoutExact, Nothing, Report
<1> QED
  BY <1>11, <1>12, <1>13, <1>14

LEMMA FailsKeeps ==
    ASSUME TreeTypeOK, TasksInv, CheckoutFails
    PROVE  TreeTypeOK' /\ TasksInv' /\ RootInv' /\ AloneInv' /\ CheckoutExact'
<1>1. /\ checkout' = NoCheckout /\ UNCHANGED <<disk, policy, targets, left>>
      /\ report' = FailedReport
  BY DEF CheckoutFails
<1>2. report'.op # "checkout"
  BY <1>1 DEF FailedReport, Report
<1> QED
  BY <1>1, <1>2, IdleStep DEF TreeTypeOK

(* What a crash may leave of the disk: a change below the task's path.     *)
LEMMA CutShortLeaves ==
    ASSUME TreeTypeOK, TasksInv, ~Idle, NEW e \in CutShort(Head(checkout.tasks))
    PROVE  /\ Placed(e)
           /\ \/ e = disk
              \/ /\ Head(checkout.tasks).op \in Removal \cup {"blob", "dir"}
                 /\ Head(checkout.tasks).op = "dir" => ~IsDir(Head(checkout.tasks).path)
                 /\ \A r \in DOMAIN disk : ~IsPrefix(Head(checkout.tasks).path, r)
                                           => r \in DOMAIN e /\ e[r] = disk[r]
<1> DEFINE t == Head(checkout.tasks)
           p == t.path
<1>1. t \in Tasks /\ TaskFits(checkout.target, t) /\ Placed(disk) /\ Placed(checkout.target)
  BY HeadOfCheckout DEF TreeTypeOK
<1>2. p \in Paths
  BY <1>1 DEF Tasks
<1>3. \A d \in Removals(p) : /\ Placed(d)
                             /\ \A r \in DOMAIN disk : ~IsPrefix(p, r) => r \in DOMAIN d /\ d[r] = disk[r]
  <2> TAKE d \in Removals(p)
  <2>1. PICK T \in SUBSET Below(disk, p) : d = Without(disk, T) /\ \A q \in T : Below(disk, q) \subseteq T
    BY DEF Removals
  <2>2. Placed(d)
    BY <1>1, <2>1, PlacedWithout
  <2>3. \A r \in T : IsPrefix(p, r)
    BY <2>1 DEF Below
  <2> QED
    BY <2>1, <2>2, <2>3 DEF Without
<1>4. Placed(disk) /\ (e = disk => Placed(e))
  BY <1>1
<1>5. CASE e # disk
  <2>1. /\ t.op \in Removal \cup {"blob", "dir"} /\ (t.op = "dir" => ~IsDir(p))
        /\ \/ e \in Removals(p)
           \/ t.op = "blob" /\ Reachable(p) /\ e = Plus(CutAt(p), Just(p, Torn))
    BY <1>5 DEF CutShort, Removal
  <2>2. CASE e \in Removals(p)
    BY <1>3, <2>1, <2>2
  <2>3. CASE t.op = "blob" /\ Reachable(p) /\ e = Plus(CutAt(p), Just(p, Torn))
    <3>1. p # Root /\ Torn # NotThere
      BY <1>1, <2>3, PlacedMeans DEF TaskFits, Torn, NotThere
    <3>2. Placed(e)
      BY <1>1, <1>2, <2>3, <3>1, PlacedPut
    <3>3. IsPrefix(p, p)
      BY <1>2, PrefixOrder
    <3>4. \A r \in DOMAIN disk : ~IsPrefix(p, r) => r \in DOMAIN e /\ e[r] = disk[r]
      <4>1. /\ \A q : q \in DOMAIN CutAt(p) <=> q \in DOMAIN disk /\ ~IsPrefix(p, q)
            /\ \A q \in DOMAIN CutAt(p) : CutAt(p)[q] = disk[q]
        BY CutMeans
      <4> QED
        BY <2>3, <3>3, <4>1 DEF Plus, Just
    <3> QED
      BY <2>1, <3>2, <3>4
  <2> QED
    BY <2>1, <2>2, <2>3
<1> QED
  BY <1>4, <1>5

LEMMA CrashKeeps ==
    ASSUME TreeTypeOK, TasksInv, CrashCheckout
    PROVE  TreeTypeOK' /\ TasksInv' /\ RootInv' /\ AloneInv' /\ CheckoutExact'
<1>1. /\ ~Idle /\ Spend("crashes") /\ disk' \in CutShort(Head(checkout.tasks))
      /\ checkout' = NoCheckout /\ report' = Nothing /\ UNCHANGED <<policy, targets>>
  BY DEF CrashCheckout
<1>2. Placed(disk')
  BY <1>1, CutShortLeaves
<1>3. left' \in [{"edits", "ops", "crashes"} -> Nat] /\ report'.op # "checkout"
  BY <1>1, Spent DEF Nothing, Report
<1> QED
  BY <1>1, <1>2, <1>3, IdleStep

LEMMA EditKeeps ==
    ASSUME TreeTypeOK, TasksInv, RootInv, NEW e \in PathEdits, EditPath(e)
    PROVE  TreeTypeOK' /\ TasksInv' /\ RootInv' /\ AloneInv' /\ CheckoutExact'
<1>1. /\ e.path \in Paths /\ e.path # Root /\ Placed(e.tree)
      /\ e.kind # "dir" => e.tree = EmptyTree
  BY TreeAssumption DEF Paths
<1>2. /\ Spend("edits") /\ Reachable(e.path) /\ report' = Nothing /\ UNCHANGED <<policy, targets>>
      /\ disk' = IF e.kind = NotThere THEN CutAt(e.path)
                 ELSE Plus(CutAt(e.path), Plus(Just(e.path, e.kind), Moved(e.tree, e.path)))
      /\ checkout' = IF Idle THEN checkout ELSE [checkout EXCEPT !.alone = FALSE]
  BY DEF EditPath
<1>3. Placed(disk')
  <2>1. Placed(disk)
    BY DEF TreeTypeOK
  <2>2. CASE e.kind = NotThere
    BY <1>1, <1>2, <2>1, <2>2, PlacedCut
  <2>3. CASE e.kind # NotThere
    BY <1>1, <1>2, <2>1, <2>3, PlacedGraft
  <2> QED
    BY <2>2, <2>3
<1>4. left' \in [{"edits", "ops", "crashes"} -> Nat] /\ report'.op # "checkout"
  BY <1>2, Spent DEF Nothing, Report
<1>5. CASE Idle
  BY <1>2, <1>3, <1>4, <1>5, IdleStep
<1>6. CASE ~Idle
  <2>0. checkout' = [checkout EXCEPT !.alone = FALSE] /\ IsCheckout(checkout)
    BY <1>2, <1>6 DEF TreeTypeOK
  <2>1. /\ checkout'.tasks = checkout.tasks /\ checkout'.target = checkout.target
        /\ checkout'.mem = checkout.mem /\ checkout'.alone = FALSE
    BY <2>0 DEF IsCheckout
  <2>2. checkout' \in [target: {checkout.target}, tasks: {checkout.tasks}, mem: {checkout.mem}, alone: BOOLEAN]
    BY <2>0 DEF IsCheckout
  <2>3. IsCheckout(checkout')
    BY <2>1, <2>2 DEF IsCheckout
  <2>4. TreeTypeOK'
    BY <1>2, <1>3, <1>4, <2>3 DEF TreeTypeOK
  <2>5. TasksInv' /\ RootInv'
    BY <1>2, <1>6, <2>1 DEF TasksInv, RootInv, Idle
  <2>6. AloneInv' /\ CheckoutExact'
    BY <1>4, <2>1 DEF AloneInv, CheckoutExact
  <2> QED
    BY <2>4, <2>5, <2>6
<1> QED
  BY <1>5, <1>6

LEMMA InitCheckout == TreeInit => CheckoutInv
<1> SUFFICES ASSUME TreeInit PROVE CheckoutInv
  OBVIOUS
<1>1. PICK s \in Starts : disk = s.disk /\ policy = s.policy /\ targets = s.targets /\ left = s.left
  BY DEF TreeInit
<1>2. checkout = NoCheckout /\ report = Nothing
  BY DEF TreeInit
<1>3. /\ Placed(disk) /\ policy \in {"Skip", "Error"} /\ (\A t \in targets : Storable(t))
      /\ left \in [{"edits", "ops", "crashes"} -> Nat]
  BY <1>1, TreeAssumption
<1>4. Idle /\ checkout.tasks \in Seq(Tasks) /\ IsCheckout(checkout) /\ report.op # "checkout"
  BY <1>2 DEF Idle, NoCheckout, IsCheckout, Nothing, Report
<1> QED
  BY <1>3, <1>4 DEF CheckoutInv, TreeTypeOK, TasksInv, RootInv, AloneInv, CheckoutExact

LEMMA NextCheckout == CheckoutInv /\ [TreeNext]_work => CheckoutInv'
<1> SUFFICES ASSUME TreeTypeOK, TasksInv, RootInv, AloneInv, CheckoutExact, [TreeNext]_work
             PROVE  TreeTypeOK' /\ TasksInv' /\ RootInv' /\ AloneInv' /\ CheckoutExact'
  BY DEF CheckoutInv
<1>1. CASE \/ CaptureTree \/ CaptureTreeWithHints \/ ScanTree \/ CompareTree
           \/ \E p \in dirty : ObserveEvent(p)
  BY <1>1, ReadersKeep
<1>2. CASE StartCheckout
  BY <1>2, StartKeeps
<1>3. CASE CheckoutStep
  <2>1. ASSUME NEW p, \/ EnterDirectory(p) \/ RemoveEntry(p) \/ KeepBlob(p) \/ WriteBlob(p)
                      \/ PrepareDirectory(p) \/ StoreDirectory(p)
        PROVE  TreeTypeOK' /\ TasksInv' /\ RootInv' /\ AloneInv' /\ CheckoutExact'
    BY <2>1, EnterKeeps, RemoveKeeps, KeepBlobKeeps, WriteBlobKeeps, PrepareKeeps, StoreKeeps
  <2> QED
    BY <1>3, <2>1, FinishKeeps, FailsKeeps DEF CheckoutStep
<1>4. CASE CrashCheckout
  BY <1>4, CrashKeeps
<1>5. CASE \E e \in PathEdits : EditPath(e)
  BY <1>5, EditKeeps
<1>6. CASE UNCHANGED work
  <2>1. UNCHANGED <<disk, policy, targets, dirs, checkout, report, left>>
    BY <1>6 DEF work
  <2>2. TreeTypeOK' /\ TasksInv' /\ RootInv' /\ AloneInv'
    BY <2>1 DEF TreeTypeOK, TasksInv, RootInv, AloneInv, Idle
  <2>3. TreeAt(Root)' = TreeAt(Root)
    BY <2>1 DEF TreeAt, Scanned, Skipped
  <2>4. CheckoutExact'
    BY <2>1, <2>3 DEF CheckoutExact
  <2> QED
    BY <2>2, <2>4
<1> QED
  BY <1>1, <1>2, <1>3, <1>4, <1>5, <1>6 DEF TreeNext

(* What is true of a checkout in progress stays true.                      *)
THEOREM CheckoutInvariant == TreeSpec => []CheckoutInv
<1>1. TreeInit => CheckoutInv
  BY InitCheckout
<1>2. CheckoutInv /\ [TreeNext]_work => CheckoutInv'
  BY NextCheckout
<1> QED
  BY <1>1, <1>2, PTL DEF TreeSpec

(* A checkout that ends while nobody else changes the directory leaves the *)
(* tree it was asked for, on disk and in the cache: materialize_tree.      *)
THEOREM CheckoutIsExact == TreeSpec => []CheckoutExact
<1>1. CheckoutInv => CheckoutExact
  BY DEF CheckoutInv
<1> QED
  BY <1>1, CheckoutInvariant, PTL

-----------------------------------------------------------------------------
(* What captures leave out.                                                *)

(* A task that changes what is at or below its path is not in the way of a *)
(* local entry.                                                            *)
LEMMA LocalSpared ==
    ASSUME TreeTypeOK, TasksInv, AloneInv, ~Idle, checkout.alone,
           Head(checkout.tasks).op \in Removal \cup {"blob", "dir"},
           Head(checkout.tasks).op = "dir" => ~IsDir(Head(checkout.tasks).path),
           NEW p \in DOMAIN disk, Local(p), p \notin DOMAIN checkout.target,
           \A q \in Proper(p) \ {Root} : q \in DOMAIN checkout.target /\ checkout.target[q] = "dir",
           NEW r \in Below(disk, p)
    PROVE  ~IsPrefix(Head(checkout.tasks).path, r)
<1> DEFINE t == Head(checkout.tasks)
           x == t.path
           target == checkout.target
<1>1. /\ t \in Tasks /\ TaskFits(target, t) /\ t \in ToSet(checkout.tasks)
      /\ Placed(target) /\ Placed(disk)
  BY HeadOfCheckout DEF TreeTypeOK
<1>2. x \in Paths /\ p \in Paths /\ p # Root
  BY <1>1, PlacedMeans DEF Tasks
<1>3. r \in DOMAIN disk /\ r \in Paths /\ IsPrefix(p, r)
  BY <1>1, PlacedMeans DEF Below
<1>4. \A q \in Paths : IsStrictPrefix(q, p) /\ q # Root => q \in DOMAIN target /\ target[q] = "dir"
  BY <1>2, ProperMeans
<1> SUFFICES ASSUME IsPrefix(x, r) PROVE FALSE
  OBVIOUS
<1>5. IsPrefix(x, p) \/ IsPrefix(p, x)
  BY <1>2, <1>3, PrefixOrder
<1>6. CASE t.op \in Removal
  <2>1. x # Root /\ x \notin DOMAIN target
    BY <1>1, <1>6 DEF TaskFits
  <2>2. \A q \in Paths : IsStrictPrefix(q, x) => TargetDir(target, q)
    BY <1>1, <1>6 DEF TaskFits
  <2>3. x = p
    <3>1. ~IsStrictPrefix(x, p)
      BY <1>2, <1>4, <2>1
    <3>2. ~IsStrictPrefix(p, x)
      BY <1>2, <2>2 DEF TargetDir
    <3> QED
      BY <1>5, <3>1, <3>2 DEF IsStrictPrefix
  <2>4. SparesLocal(disk, policy, ToSet(checkout.tasks))
    BY DEF AloneInv
  <2>5. ~LeftOut(disk, p) /\ ~(disk[p] = "link" /\ policy = "Skip")
    BY <1>1, <1>6, <2>3, <2>4 DEF SparesLocal
  <2> QED
    BY <2>5 DEF Local, Skipped, LeftOut
<1>7. CASE t.op \in {"blob", "dir"}
  <2>1. x \in DOMAIN target /\ (t.op = "dir" <=> target[x] = "dir")
    BY <1>1, <1>7 DEF TaskFits
  <2>2. x # p
    BY <2>1
  <2>3. CASE IsStrictPrefix(p, x)
    BY <1>1, <1>2, <2>1, <2>3, PlacedMeans
  <2>4. CASE IsStrictPrefix(x, p)
    <3>1. x # Root
      BY <1>1, <2>1, PlacedMeans
    <3>2. target[x] = "dir" /\ x \in DOMAIN disk /\ disk[x] = "dir"
      BY <1>1, <1>2, <1>4, <2>4, <3>1, PlacedMeans
    <3> QED
      BY <2>1, <3>2 DEF IsDir, KindAt
  <2> QED
    BY <1>5, <2>2, <2>3, <2>4 DEF IsStrictPrefix
<1> QED
  BY <1>6, <1>7

(* A step of a checkout, finished or cut short, changes what is at or      *)
(* below the path of its task only.                                        *)
LEMMA StepChanges ==
    ASSUME TreeTypeOK, TasksInv, ~Idle, [TreeNext]_work, left'.edits = left.edits
    PROVE  \/ disk' = disk
           \/ /\ Head(checkout.tasks).op \in Removal \cup {"blob", "dir"}
              /\ Head(checkout.tasks).op = "dir" => ~IsDir(Head(checkout.tasks).path)
              /\ \A r \in DOMAIN disk : ~IsPrefix(Head(checkout.tasks).path, r)
                                        => r \in DOMAIN disk' /\ disk'[r] = disk[r]
<1>0. \A p : /\ \A q : q \in DOMAIN CutAt(p) <=> q \in DOMAIN disk /\ ~IsPrefix(p, q)
             /\ \A q \in DOMAIN CutAt(p) : CutAt(p)[q] = disk[q]
  BY CutMeans
<1>1. ASSUME NEW p \in Paths, NEW v
      PROVE  LET e == Plus(CutAt(p), Just(p, v))
             IN \A r \in DOMAIN disk : ~IsPrefix(p, r) => r \in DOMAIN e /\ e[r] = disk[r]
  <2>1. IsPrefix(p, p)
    BY PrefixOrder
  <2> QED
    BY <1>0, <2>1 DEF Plus, Just
<1>2. Head(checkout.tasks) \in Tasks
  BY HeadOfCheckout
<1>3. ASSUME NEW p, RemoveEntry(p)
      PROVE  /\ Head(checkout.tasks).op \in Removal /\ Head(checkout.tasks).path = p
             /\ \A r \in DOMAIN disk : ~IsPrefix(p, r) => r \in DOMAIN disk' /\ disk'[r] = disk[r]
  <2>1. Head(checkout.tasks).op \in Removal /\ Head(checkout.tasks).path = p /\ disk' = CutAt(p)
    BY <1>3 DEF RemoveEntry, Doing, Task, Removal
  <2> QED
    BY <1>0, <2>1
<1>4. ASSUME NEW p, WriteBlob(p)
      PROVE  /\ Head(checkout.tasks).op = "blob" /\ Head(checkout.tasks).path = p
             /\ \A r \in DOMAIN disk : ~IsPrefix(p, r) => r \in DOMAIN disk' /\ disk'[r] = disk[r]
  <2>1. /\ Head(checkout.tasks).op = "blob" /\ Head(checkout.tasks).path = p
        /\ disk' = Plus(CutAt(p), Just(p, checkout.target[p]))
    BY <1>4 DEF WriteBlob, Doing, Task
  <2>2. p \in Paths
    BY <1>2, <2>1 DEF Tasks
  <2> QED
    BY <1>1, <2>1, <2>2
<1>5. ASSUME NEW p, PrepareDirectory(p)
      PROVE  \/ disk' = disk
             \/ /\ Head(checkout.tasks).op = "dir" /\ Head(checkout.tasks).path = p /\ ~IsDir(p)
                /\ \A r \in DOMAIN disk : ~IsPrefix(p, r) => r \in DOMAIN disk' /\ disk'[r] = disk[r]
  <2>1. /\ Head(checkout.tasks).op = "dir" /\ Head(checkout.tasks).path = p
        /\ disk' = IF IsDir(p) THEN disk ELSE Plus(CutAt(p), Just(p, "dir"))
    BY <1>5 DEF PrepareDirectory, Doing, Task
  <2>2. p \in Paths
    BY <1>2, <2>1 DEF Tasks
  <2> QED
    BY <1>1, <2>1, <2>2
<1>6. CASE CrashCheckout
  <2>1. disk' \in CutShort(Head(checkout.tasks))
    BY <1>6 DEF CrashCheckout
  <2> QED
    BY <2>1, CutShortLeaves
<1>7. ~\E e \in PathEdits : EditPath(e)
  <2>1. ASSUME NEW e \in PathEdits, EditPath(e) PROVE FALSE
    <3>1. left'["edits"] # left["edits"]
      BY <2>1, Spent DEF EditPath
    <3> QED
      BY <3>1
  <2> QED
    BY <2>1
<1>8. CASE CheckoutStep
  <2>1. ASSUME NEW p, EnterDirectory(p) \/ KeepBlob(p) \/ StoreDirectory(p) PROVE disk' = disk
    BY <2>1 DEF EnterDirectory, KeepBlob, StoreDirectory
  <2>2. CASE FinishCheckout \/ CheckoutFails
    BY <2>2 DEF FinishCheckout, CheckoutFails
  <2>3. ASSUME NEW p, \/ EnterDirectory(p) \/ RemoveEntry(p) \/ KeepBlob(p) \/ WriteBlob(p)
                      \/ PrepareDirectory(p) \/ StoreDirectory(p)
        PROVE  \/ disk' = disk
               \/ /\ Head(checkout.tasks).op \in Removal \cup {"blob", "dir"}
                  /\ Head(checkout.tasks).op = "dir" => ~IsDir(Head(checkout.tasks).path)
                  /\ \A r \in DOMAIN disk : ~IsPrefix(Head(checkout.tasks).path, r)
                                            => r \in DOMAIN disk' /\ disk'[r] = disk[r]
    <3>1. CASE RemoveEntry(p)
      BY <1>3, <3>1 DEF Removal
    <3>2. CASE WriteBlob(p)
      BY <1>4, <3>2
    <3>3. CASE PrepareDirectory(p)
      BY <1>5, <3>3
    <3> QED
      BY <2>1, <2>3, <3>1, <3>2, <3>3
  <2> QED
    BY <1>8, <2>2, <2>3 DEF CheckoutStep
<1>9. CASE \/ CaptureTree \/ CaptureTreeWithHints \/ ScanTree \/ CompareTree
           \/ (\E p \in dirty : ObserveEvent(p)) \/ StartCheckout
  BY <1>9 DEF CaptureTree, CaptureTreeWithHints, ScanTree, CompareTree, ObserveEvent, StartCheckout
<1>10. CASE UNCHANGED work
  BY <1>10 DEF work
<1> QED
  BY <1>6, <1>7, <1>8, <1>9, <1>10 DEF TreeNext

(* Nothing that captures leave out is touched by a checkout, not even by   *)
(* one that is cut short: prune_directory and prepare_directory.           *)
THEOREM LocalStateIsKept == TreeSpec => LocalStateKept
<1>1. ASSUME CheckoutInv, [TreeNext]_work, ~Idle, checkout.alone, left'.edits = left.edits,
             NEW p \in DOMAIN disk, Local(p), p \notin DOMAIN checkout.target,
             \A q \in Proper(p) \ {Root} : q \in DOMAIN checkout.target /\ checkout.target[q] = "dir",
             NEW r \in Below(disk, p)
      PROVE  r \in DOMAIN disk' /\ disk'[r] = disk[r]
  <2>1. TreeTypeOK /\ TasksInv /\ AloneInv /\ r \in DOMAIN disk
    BY <1>1 DEF CheckoutInv, Below
  <2>2. CASE disk' = disk
    BY <2>1, <2>2
  <2>3. CASE /\ Head(checkout.tasks).op \in Removal \cup {"blob", "dir"}
             /\ Head(checkout.tasks).op = "dir" => ~IsDir(Head(checkout.tasks).path)
             /\ \A s \in DOMAIN disk : ~IsPrefix(Head(checkout.tasks).path, s)
                                       => s \in DOMAIN disk' /\ disk'[s] = disk[s]
    <3>1. ~IsPrefix(Head(checkout.tasks).path, r)
      BY <1>1, <2>1, <2>3, LocalSpared
    <3> QED
      BY <2>1, <2>3, <3>1
  <2> QED
    BY <1>1, <2>1, <2>2, <2>3, StepChanges
<1>2. CheckoutInv /\ [TreeNext]_work =>
        [~Idle /\ checkout.alone /\ left'.edits = left.edits =>
           \A p \in DOMAIN disk :
              /\ Local(p)
              /\ p \notin DOMAIN checkout.target
              /\ \A q \in Proper(p) \ {Root} : q \in DOMAIN checkout.target
                                              /\ checkout.target[q] = "dir"
              => \A r \in Below(disk, p) : r \in DOMAIN disk' /\ disk'[r] = disk[r]]_work
  BY <1>1
<1> QED
  BY <1>2, CheckoutInvariant, PTL DEF TreeSpec, LocalStateKept
=============================================================================
