----------------------------- MODULE MergeProofs ------------------------------
(* The line merge for files of any size and content.                       *)
(*                                                                         *)
(* Two versions of a file meet where patience matching pairs equal lines.  *)
(* The pairs increase on both sides, whatever stretches the matching       *)
(* splits the files into and however it compares them, so the edits        *)
(* between them turn the one version into the other.  The walk through the *)
(* edits of two sides then never passes the next edit of either.           *)
(*                                                                         *)
(* A recursive function is a choice, so each comes with a lemma that such  *)
(* a function exists.  Facts about numbers, sequences of sequences and     *)
(* sets in order are those of CodecProofs.                                 *)
EXTENDS LineMerge, CodecProofs

-----------------------------------------------------------------------------
(* Recursion on smaller arguments.                                         *)

(* A set that has each element of D whose smaller elements it has, has     *)
(* all of D.                                                               *)
LEMMA SmallerFirst ==
    ASSUME NEW D, NEW size \in [D -> Nat], NEW T,
           \A r \in D : (\A q \in D : size[q] < size[r] => q \in T) => r \in T
    PROVE  \A r \in D : r \in T
<1> DEFINE U == {n \in Nat : \A q \in D : size[q] < n => q \in T}
<1>1. 0 \in U
  OBVIOUS
<1>2. ASSUME NEW n \in Nat, n \in U PROVE n + 1 \in U
  <2> SUFFICES ASSUME NEW r \in D, size[r] < n + 1 PROVE r \in T
    OBVIOUS
  <2>1. \A q \in D : size[q] < size[r] => q \in T
    BY <1>2
  <2> QED
    BY <2>1
<1>3. \A n \in Nat : n \in U
  <2> HIDE DEF U
  <2> QED
    BY <1>1, <1>2, Induction
<1> SUFFICES ASSUME NEW r \in D PROVE r \in T
  OBVIOUS
<1>4. size[r] + 1 \in U /\ size[r] < size[r] + 1
  BY <1>3
<1> QED
  BY <1>4

(* There is a function whose value is computed from those of smaller       *)
(* arguments.                                                              *)
Smaller(D, V, size, step) ==
    /\ size \in [D -> Nat]
    /\ step \in [D \X [D -> V] -> V]
    /\ \A r \in D : \A g, h \in [D -> V] :
          (\A q \in D : size[q] < size[r] => g[q] = h[q])
          => step[<<r, g>>] = step[<<r, h>>]

Computed(f, D, V, step) == f \in [D -> V] /\ \A r \in D : f[r] = step[<<r, f>>]

(* Such a function exists if there is a value at all.                      *)
LEMMA ComputedExists ==
    ASSUME NEW D, NEW V, NEW v \in V, NEW size, NEW step, Smaller(D, V, size, step)
    PROVE  \E f : Computed(f, D, V, step)
<1>0. /\ size \in [D -> Nat]
      /\ step \in [D \X [D -> V] -> V]
      /\ \A r \in D : \A g, h \in [D -> V] :
            (\A q \in D : size[q] < size[r] => g[q] = h[q])
            => step[<<r, g>>] = step[<<r, h>>]
  BY DEF Smaller
<1> USE <1>0
<1> DEFINE F == [D -> V]
           next == [p \in Nat \X F |-> [r \in D |-> step[<<r, p[2]>>]]]
           none == [r \in D |-> v]
<1>1. none \in F
  OBVIOUS
<1>2. next \in [Nat \X F -> F] /\ \A n \in Nat, g \in F : next[<<n, g>>] = [r \in D |-> step[<<r, g>>]]
  OBVIOUS
<1> HIDE DEF next, none
<1>3. PICK g : Recursive(g, F, none, next)
  <2> HIDE DEF F
  <2> QED
    BY <1>1, <1>2, Recursion
<1>4. /\ \A n \in Nat : g[n] \in F
      /\ \A n \in Nat, r \in D : g[n + 1][r] = step[<<r, g[n]>>]
  <2>1. \A n \in Nat : g[n] \in F /\ g[n + 1] = next[<<n, g[n]>>]
    BY <1>3 DEF Recursive
  <2>2. ASSUME NEW n \in Nat, NEW r \in D PROVE g[n + 1][r] = step[<<r, g[n]>>]
    <3>1. g[n + 1] = [q \in D |-> step[<<q, g[n]>>]]
      BY <1>2, <2>1
    <3> QED
      BY <3>1
  <2> QED
    BY <2>1, <2>2
<1>5. \A n \in Nat : \A r \in D : size[r] < n => g[n][r] = g[n + 1][r]
  <2> DEFINE T == {n \in Nat : \A r \in D : size[r] < n => g[n][r] = g[n + 1][r]}
  <2>1. 0 \in T
    OBVIOUS
  <2>2. ASSUME NEW n \in Nat, n \in T PROVE n + 1 \in T
    <3> SUFFICES ASSUME NEW r \in D, size[r] < n + 1
                 PROVE  g[n + 1][r] = g[(n + 1) + 1][r]
      OBVIOUS
    <3>1. \A q \in D : size[q] < size[r] => g[n][q] = g[n + 1][q]
      BY <2>2
    <3>0. n + 1 \in Nat
      OBVIOUS
    <3>2. g[n] \in F /\ g[n + 1] \in F
      <4> HIDE DEF F
      <4> QED
        BY <1>4, <3>0
    <3>3. step[<<r, g[n]>>] = step[<<r, g[n + 1]>>]
      BY <3>1, <3>2
    <3>4. g[n + 1][r] = step[<<r, g[n]>>] /\ g[(n + 1) + 1][r] = step[<<r, g[n + 1]>>]
      BY <1>4, <3>0
    <3> QED
      BY <3>3, <3>4
  <2> HIDE DEF T
  <2>3. \A n \in Nat : n \in T
    BY <2>1, <2>2, Induction
  <2> QED
    BY <2>3 DEF T
<1>6. \A k \in Nat : \A q \in D : g[size[q] + 1][q] = g[(size[q] + 1) + k][q]
  <2> DEFINE T == {k \in Nat : \A q \in D : g[size[q] + 1][q] = g[(size[q] + 1) + k][q]}
  <2>1. 0 \in T
    <3>1. \A q \in D : (size[q] + 1) + 0 = size[q] + 1
      OBVIOUS
    <3> QED
      BY <3>1
  <2>2. ASSUME NEW k \in Nat, k \in T PROVE k + 1 \in T
    <3> SUFFICES ASSUME NEW q \in D
                 PROVE  g[size[q] + 1][q] = g[(size[q] + 1) + (k + 1)][q]
      OBVIOUS
    <3> DEFINE n == (size[q] + 1) + k
    <3>1. n \in Nat /\ size[q] < n /\ (size[q] + 1) + (k + 1) = n + 1
      OBVIOUS
    <3>2. g[size[q] + 1][q] = g[n][q]
      BY <2>2
    <3> HIDE DEF n
    <3>3. g[n][q] = g[n + 1][q]
      BY <1>5, <3>1
    <3> QED
      BY <3>1, <3>2, <3>3
  <2> HIDE DEF T
  <2>3. \A k \in Nat : k \in T
    BY <2>1, <2>2, Induction
  <2> QED
    BY <2>3 DEF T
<1> DEFINE f == [r \in D |-> g[size[r] + 1][r]]
<1>7. f \in F
  BY <1>4
<1>8. ASSUME NEW r \in D PROVE f[r] = step[<<r, f>>]
  <2>1. ASSUME NEW q \in D, size[q] < size[r] PROVE f[q] = g[size[r]][q]
    <3> DEFINE k == size[r] - (size[q] + 1)
    <3>1. k \in Nat /\ (size[q] + 1) + k = size[r]
      BY <2>1
    <3> HIDE DEF k
    <3>2. g[size[q] + 1][q] = g[(size[q] + 1) + k][q]
      BY <1>6, <3>1
    <3> QED
      BY <3>1, <3>2
  <2>2. f[r] = step[<<r, g[size[r]]>>]
    BY <1>4
  <2>3. g[size[r]] \in F
    BY <1>4
  <2> HIDE DEF f
  <2>4. step[<<r, f>>] = step[<<r, g[size[r]]>>]
    BY <1>7, <2>1, <2>3
  <2> QED
    BY <2>2, <2>4
<1> HIDE DEF f
<1>9. Computed(f, D, V, step)
  BY <1>7, <1>8 DEF Computed
<1> QED
  BY <1>9

-----------------------------------------------------------------------------
(* Matchings: pairs of equal lines.                                        *)

Ranges == [bs: Nat, be: Nat, ss: Nat, se: Nat]

(* Pairs of equal lines of a stretch, in increasing order on both sides.   *)
Matching(base, side, r, m) ==
    /\ m \in Seq(Nat \X Nat)
    /\ \A k \in 1..Len(m) : /\ r.bs <= m[k][1] /\ m[k][1] < r.be
                            /\ r.ss <= m[k][2] /\ m[k][2] < r.se
                            /\ At(base, m[k][1]) = At(side, m[k][2])
    /\ \A k, l \in 1..Len(m) : k < l => m[k][1] < m[l][1] /\ m[k][2] < m[l][2]

(* No pairs are a matching, and so is one pair of equal lines.             *)
LEMMA NoMatches ==
    ASSUME NEW base, NEW side, NEW r
    PROVE  Matching(base, side, r, <<>>)
  BY EmptySeq DEF Matching

LEMMA OneMatch ==
    ASSUME NEW base, NEW side, NEW i \in Nat, NEW j \in Nat, At(base, i) = At(side, j)
    PROVE  Matching(base, side, Stretch(i, i + 1, j, j + 1), <<<<i, j>>>>)
<1> DEFINE m == <<<<i, j>>>>
<1>1. m \in Seq(Nat \X Nat) /\ Len(m) = 1 /\ m[1] = <<i, j>>
  OBVIOUS
<1> HIDE DEF m
<1>2. \A k \in 1..Len(m) : m[k] = <<i, j>> /\ k = 1
  BY <1>1
<1> QED
  BY <1>1, <1>2 DEF Matching, Stretch, m

(* Matchings of two stretches that follow each other make one.             *)
LEMMA JoinMatchings ==
    ASSUME NEW base, NEW side, NEW r \in Ranges, NEW r1 \in Ranges, NEW r2 \in Ranges,
           r.bs <= r1.bs, r1.be <= r2.bs, r2.be <= r.be, r.bs <= r2.bs, r1.be <= r.be,
           r.ss <= r1.ss, r1.se <= r2.ss, r2.se <= r.se, r.ss <= r2.ss, r1.se <= r.se,
           NEW s, Matching(base, side, r1, s), NEW t, Matching(base, side, r2, t)
    PROVE  Matching(base, side, r, s \o t)
<1> DEFINE u == s \o t
           P == Nat \X Nat
<1>0. /\ s \in Seq(P) /\ t \in Seq(P)
      /\ Len(s) \in Nat /\ Len(t) \in Nat
  BY LenProperties DEF Matching
<1>1. /\ u \in Seq(P) /\ Len(u) = Len(s) + Len(t)
      /\ \A i \in 1..(Len(s) + Len(t)) : u[i] = IF i <= Len(s) THEN s[i] ELSE t[i - Len(s)]
  <2> HIDE DEF P
  <2> QED
    BY <1>0, ConcatProperties
<1>2. \A i \in 1..Len(u) : i <= Len(s) => i \in 1..Len(s) /\ u[i] = s[i]
  BY <1>0, <1>1
<1>3. \A i \in 1..Len(u) : ~(i <= Len(s)) => i - Len(s) \in 1..Len(t) /\ u[i] = t[i - Len(s)]
  BY <1>0, <1>1
<1>4. /\ \A i \in 1..Len(s) : /\ s[i][1] \in Nat /\ s[i][2] \in Nat
                              /\ r1.bs <= s[i][1] /\ s[i][1] < r1.be
                              /\ r1.ss <= s[i][2] /\ s[i][2] < r1.se
                              /\ At(base, s[i][1]) = At(side, s[i][2])
      /\ \A i, j \in 1..Len(s) : i < j => s[i][1] < s[j][1] /\ s[i][2] < s[j][2]
  <2>1. \A i \in 1..Len(s) : s[i] \in P
    BY <1>0, ElementOfSeq
  <2> QED
    BY <2>1 DEF Matching
<1>5. /\ \A i \in 1..Len(t) : /\ t[i][1] \in Nat /\ t[i][2] \in Nat
                              /\ r2.bs <= t[i][1] /\ t[i][1] < r2.be
                              /\ r2.ss <= t[i][2] /\ t[i][2] < r2.se
                              /\ At(base, t[i][1]) = At(side, t[i][2])
      /\ \A i, j \in 1..Len(t) : i < j => t[i][1] < t[j][1] /\ t[i][2] < t[j][2]
  <2>1. \A i \in 1..Len(t) : t[i] \in P
    BY <1>0, ElementOfSeq
  <2> QED
    BY <2>1 DEF Matching
<1> HIDE DEF u, P
<1>6. /\ r.bs \in Nat /\ r.be \in Nat /\ r.ss \in Nat /\ r.se \in Nat
      /\ r1.bs \in Nat /\ r1.be \in Nat /\ r1.ss \in Nat /\ r1.se \in Nat
      /\ r2.bs \in Nat /\ r2.be \in Nat /\ r2.ss \in Nat /\ r2.se \in Nat
  BY DEF Ranges
<1>60. /\ \A x, y, z \in Nat : x <= y /\ y <= z => x <= z
       /\ \A x, y, z \in Nat : x < y /\ y <= z => x < z
  OBVIOUS
<1>7. ASSUME NEW i \in 1..Len(u)
      PROVE  /\ r.bs <= u[i][1] /\ u[i][1] < r.be
             /\ r.ss <= u[i][2] /\ u[i][2] < r.se
             /\ At(base, u[i][1]) = At(side, u[i][2])
  <2>1. CASE i <= Len(s)
    <3>1. PICK k \in 1..Len(s) : u[i] = s[k]
      BY <1>2, <2>1
    <3>2. /\ s[k][1] \in Nat /\ s[k][2] \in Nat
          /\ r1.bs <= s[k][1] /\ s[k][1] < r1.be
          /\ r1.ss <= s[k][2] /\ s[k][2] < r1.se
          /\ At(base, s[k][1]) = At(side, s[k][2])
      BY <1>4
    <3>3. r.bs <= s[k][1] /\ s[k][1] < r.be
      BY <1>6, <1>60, <3>2
    <3>4. r.ss <= s[k][2] /\ s[k][2] < r.se
      BY <1>6, <1>60, <3>2
    <3> QED
      BY <3>1, <3>2, <3>3, <3>4
  <2>2. CASE ~(i <= Len(s))
    <3>1. PICK k \in 1..Len(t) : u[i] = t[k]
      BY <1>3, <2>2
    <3>2. /\ t[k][1] \in Nat /\ t[k][2] \in Nat
          /\ r2.bs <= t[k][1] /\ t[k][1] < r2.be
          /\ r2.ss <= t[k][2] /\ t[k][2] < r2.se
          /\ At(base, t[k][1]) = At(side, t[k][2])
      BY <1>5
    <3>3. r.bs <= t[k][1] /\ t[k][1] < r.be
      BY <1>6, <1>60, <3>2
    <3>4. r.ss <= t[k][2] /\ t[k][2] < r.se
      BY <1>6, <1>60, <3>2
    <3> QED
      BY <3>1, <3>2, <3>3, <3>4
  <2> QED
    BY <2>1, <2>2
<1>8. ASSUME NEW i \in 1..Len(u), NEW j \in 1..Len(u), i < j
      PROVE  u[i][1] < u[j][1] /\ u[i][2] < u[j][2]
  <2>1. CASE j <= Len(s)
    <3>1. i <= Len(s)
      BY <1>0, <1>1, <1>8, <2>1
    <3>2. /\ i \in 1..Len(s) /\ u[i] = s[i]
          /\ j \in 1..Len(s) /\ u[j] = s[j]
      BY <1>2, <2>1, <3>1
    <3> QED
      BY <1>4, <1>8, <3>2
  <2>2. CASE i <= Len(s) /\ ~(j <= Len(s))
    <3>1. PICK k \in 1..Len(s) : u[i] = s[k]
      BY <1>2, <2>2
    <3>2. PICK l \in 1..Len(t) : u[j] = t[l]
      BY <1>3, <2>2
    <3>3. u[i][1] \in Nat /\ u[i][2] \in Nat /\ u[i][1] < r1.be /\ u[i][2] < r1.se
      BY <1>4, <3>1
    <3>4. u[j][1] \in Nat /\ u[j][2] \in Nat /\ r2.bs <= u[j][1] /\ r2.ss <= u[j][2]
      BY <1>5, <3>2
    <3>5. \A x, y, z, w \in Nat : x < y /\ y <= z /\ z <= w => x < w
      OBVIOUS
    <3>6. u[i][1] < u[j][1]
      BY <1>6, <3>3, <3>4, <3>5
    <3>7. u[i][2] < u[j][2]
      BY <1>6, <3>3, <3>4, <3>5
    <3> QED
      BY <3>6, <3>7
  <2>3. CASE ~(i <= Len(s))
    <3>0. ~(j <= Len(s))
      BY <1>0, <1>1, <1>8, <2>3
    <3>1. PICK k \in 1..Len(t) : u[i] = t[k] /\ k = i - Len(s)
      BY <1>3, <2>3
    <3>2. PICK l \in 1..Len(t) : u[j] = t[l] /\ l = j - Len(s)
      BY <1>3, <3>0
    <3>3. k < l
      BY <1>0, <1>1, <1>8, <3>1, <3>2
    <3> QED
      BY <1>5, <3>1, <3>2, <3>3
  <2> QED
    BY <2>1, <2>2, <2>3
<1> QED
  BY <1>1, <1>7, <1>8 DEF Matching, u, P

(* A run of equal lines is a matching.                                     *)
LEMMA DiagonalMatches ==
    ASSUME NEW base, NEW side, NEW i \in Nat, NEW j \in Nat, NEW n \in Nat,
           \A k \in 0..(n - 1) : At(base, i + k) = At(side, j + k)
    PROVE  Matching(base, side, Stretch(i, i + n, j, j + n), Diagonal(i, j, n))
<1> DEFINE m == Diagonal(i, j, n)
<1>1. \A k \in 1..n : i + k - 1 \in Nat /\ j + k - 1 \in Nat
  OBVIOUS
<1>2. \A k \in 1..n : m[k] = <<i + k - 1, j + k - 1>>
  BY DEF Diagonal
<1>3. m \in [1..n -> Nat \X Nat]
  BY <1>1 DEF Diagonal
<1>4. m \in Seq(Nat \X Nat) /\ Len(m) = n
  <2>1. Len(m) = n
    BY DEF Diagonal
  <2> HIDE DEF m
  <2>2. m \in Seq(Nat \X Nat)
    BY <1>3, SeqDef
  <2> QED
    BY <2>1, <2>2
<1> HIDE DEF m
<1>5. ASSUME NEW k \in 1..n
      PROVE  /\ i <= m[k][1] /\ m[k][1] < i + n /\ j <= m[k][2] /\ m[k][2] < j + n
             /\ At(base, m[k][1]) = At(side, m[k][2])
  <2>1. m[k][1] = i + (k - 1) /\ m[k][2] = j + (k - 1) /\ k - 1 \in 0..(n - 1)
    BY <1>2
  <2> QED
    BY <2>1
<1>6. ASSUME NEW k \in 1..n, NEW l \in 1..n, k < l
      PROVE  m[k][1] < m[l][1] /\ m[k][2] < m[l][2]
  BY <1>2, <1>6
<1> QED
  BY <1>4, <1>5, <1>6 DEF Matching, Stretch, m

(* The lines of a common prefix are equal, and of a common suffix.         *)
LEMMA PrefixLines ==
    ASSUME NEW base, NEW side, NEW r \in Ranges, r.bs <= r.be, r.ss <= r.se
    PROVE  LET n == CommonPrefix(base, side, r)
           IN /\ n \in Nat /\ r.bs + n <= r.be /\ r.ss + n <= r.se
              /\ \A k \in 0..(n - 1) : At(base, r.bs + k) = At(side, r.ss + k)
<1> DEFINE N == {n \in CommonLengths(r) :
                    \A k \in 0..(n - 1) : At(base, r.bs + k) = At(side, r.ss + k)}
           most == r.be - r.bs
<1>1. /\ r.bs \in Nat /\ r.be \in Nat /\ r.ss \in Nat /\ r.se \in Nat /\ most \in Nat
  BY DEF Ranges
<1>2. N \in SUBSET (0..most) /\ 0 \in N
  BY <1>1 DEF CommonLengths
<1>3. PICK n \in N : n = Max(N)
  <2> HIDE DEF N, most
  <2> QED
    BY <1>1, <1>2, MaxOf
<1>4. CommonPrefix(base, side, r) = n
  BY <1>3 DEF CommonPrefix
<1>5. n \in Nat /\ n <= most /\ n <= r.se - r.ss
  BY <1>1, <1>2, <1>3 DEF CommonLengths
<1>6. \A k \in 0..(n - 1) : At(base, r.bs + k) = At(side, r.ss + k)
  BY <1>3
<1> QED
  BY <1>1, <1>4, <1>5, <1>6

LEMMA SuffixLines ==
    ASSUME NEW base, NEW side, NEW r \in Ranges, r.bs <= r.be, r.ss <= r.se
    PROVE  LET n == CommonSuffix(base, side, r)
           IN /\ n \in Nat /\ r.bs + n <= r.be /\ r.ss + n <= r.se
              /\ \A k \in 0..(n - 1) :
                    At(base, (r.be - n) + k) = At(side, (r.se - n) + k)
<1> DEFINE N == {n \in CommonLengths(r) :
                    \A k \in 1..n : At(base, r.be - k) = At(side, r.se - k)}
           most == r.be - r.bs
<1>1. /\ r.bs \in Nat /\ r.be \in Nat /\ r.ss \in Nat /\ r.se \in Nat /\ most \in Nat
  BY DEF Ranges
<1>2. N \in SUBSET (0..most) /\ 0 \in N
  BY <1>1 DEF CommonLengths
<1>3. PICK n \in N : n = Max(N)
  <2> HIDE DEF N, most
  <2> QED
    BY <1>1, <1>2, MaxOf
<1>4. CommonSuffix(base, side, r) = n
  BY <1>3 DEF CommonSuffix
<1>5. n \in Nat /\ n <= most /\ n <= r.se - r.ss
  BY <1>1, <1>2, <1>3 DEF CommonLengths
<1>6. \A k \in 0..(n - 1) : At(base, (r.be - n) + k) = At(side, (r.se - n) + k)
  <2> TAKE k \in 0..(n - 1)
  <2>1. n - k \in 1..n /\ r.be - (n - k) = (r.be - n) + k /\ r.se - (n - k) = (r.se - n) + k
    BY <1>1, <1>5
  <2>2. At(base, r.be - (n - k)) = At(side, r.se - (n - k))
    BY <1>3, <2>1
  <2> QED
    BY <2>1, <2>2
<1> QED
  BY <1>1, <1>4, <1>5, <1>6

-----------------------------------------------------------------------------
(* Anchors: lines that occur once on both sides, and their chains.         *)

(* A finite set of numbers in order: each once, and increasing.            *)
LEMMA SortedNumbers ==
    ASSUME NEW S \in SUBSET Nat, IsFiniteSet(S)
    PROVE  /\ InOrder(S, <) \in Seq(S) /\ Len(InOrder(S, <)) = Cardinality(S)
           /\ Cardinality(S) \in Nat
           /\ DOMAIN InOrder(S, <) = 1..Len(InOrder(S, <))
           /\ \A e : e \in S <=> \E k \in DOMAIN InOrder(S, <) : InOrder(S, <)[k] = e
           /\ \A i, j \in DOMAIN InOrder(S, <) : i < j <=> InOrder(S, <)[i] < InOrder(S, <)[j]
<1> DEFINE before == [e \in S |-> {d \in S : d < e}]
           s == InOrder(S, <)
<1>1. before \in [S -> SUBSET S] /\ \A d, e \in S : d \in before[e] <=> d < e
  OBVIOUS
<1>2. /\ s = [k \in 1..Cardinality(S) |-> s[k]]
      /\ \A k \in 1..Cardinality(S) : s[k] = CHOOSE e \in S : Cardinality(before[e]) = k - 1
  <2> DEFINE pick(k) == CHOOSE e \in S : Cardinality({d \in S : d < e}) = k - 1
  <2>1. s = [k \in 1..Cardinality(S) |-> pick(k)]
    BY DEF InOrder
  <2>2. \A k : pick(k) = CHOOSE e \in S : Cardinality(before[e]) = k - 1
    OBVIOUS
  <2> HIDE DEF s, before, pick
  <2>3. s = [k \in 1..Cardinality(S) |-> s[k]]
    BY <2>1
  <2>4. \A k \in 1..Cardinality(S) : s[k] = pick(k)
    BY <2>1
  <2> QED
    BY <2>2, <2>3, <2>4, Zenon
<1> HIDE DEF before, s
<1>3. \A d, e \in S : d \in before[e] => before[d] \subseteq before[e]
  <2> SUFFICES ASSUME NEW d \in S, NEW e \in S, d < e, NEW f \in before[d] PROVE f \in before[e]
    BY <1>1
  <2>1. f \in S /\ f < d
    BY <1>1
  <2> QED
    BY <1>1, <2>1
<1>4. \A d \in S : d \notin before[d]
  BY <1>1
<1>5. \A d, e \in S : d = e \/ d \in before[e] \/ e \in before[d]
  BY <1>1
<1>10. \A k \in 1..Cardinality(S) : \A e \in S :
         Cardinality(before[e]) = k - 1 => s[k] \in S /\ Cardinality(before[s[k]]) = k - 1
  BY <1>2
<1>6. /\ Cardinality(S) \in Nat
      /\ s \in [1..Cardinality(S) -> S]
      /\ \A e \in S : \E k \in 1..Cardinality(S) : s[k] = e
      /\ \A i, j \in 1..Cardinality(S) : i < j <=> s[i] \in before[s[j]]
  BY <1>1, <1>2, <1>3, <1>4, <1>5, <1>10, Ranks, ZenonT(60)
<1>7. s \in Seq(S) /\ Len(s) = Cardinality(S) /\ DOMAIN s = 1..Len(s)
  BY <1>6
<1>8. \A i, j \in DOMAIN s : i < j <=> s[i] < s[j]
  BY <1>1, <1>6, <1>7
<1>9. \A e : e \in S <=> \E k \in DOMAIN s : s[k] = e
  BY <1>6, <1>7
<1> QED
  BY <1>6, <1>7, <1>8, <1>9 DEF s


(* Pairs of equal lines of a stretch, sorted by base position.             *)
Anchored(base, side, r, anchors) ==
    /\ anchors \in Seq(Nat \X Nat)
    /\ \A k \in 1..Len(anchors) :
          /\ anchors[k] \in Nat \X Nat
          /\ r.bs <= anchors[k][1] /\ anchors[k][1] < r.be
          /\ r.ss <= anchors[k][2] /\ anchors[k][2] < r.se
          /\ At(base, anchors[k][1]) = At(side, anchors[k][2])
    /\ \A k, l \in 1..Len(anchors) : k < l => anchors[k][1] < anchors[l][1]

(* Anchors are pairs of equal lines, sorted by base position.              *)
LEMMA AnchorsFound ==
    ASSUME NEW base, NEW side, NEW r \in Ranges
    PROVE  Anchored(base, side, r, UniqueAnchors(base, side, r))
<1> DEFINE B == UniquePositions(base, r.bs, r.be)
           D == UniquePositions(side, r.ss, r.se)
           Partners(i) == {j \in D : At(side, j) = At(base, i)}
           S == {i \in B : Partners(i) # {}}
           positions == InOrder(S, <)
           anchors == UniqueAnchors(base, side, r)
<1>1. r.bs \in Nat /\ r.be \in Nat /\ r.ss \in Nat /\ r.se \in Nat
  BY DEF Ranges
<1>2. \A i \in B : i \in Nat /\ r.bs <= i /\ i < r.be
  BY <1>1 DEF UniquePositions
<1>3. \A i \in D : i \in Nat /\ r.ss <= i /\ i < r.se
  BY <1>1 DEF UniquePositions
<1>4. S \in SUBSET Nat /\ IsFiniteSet(S)
  <2> DEFINE last == r.be - 1
  <2>0. \A x, y \in Int : IsFiniteSet(x..y)
    BY FS_Interval
  <2>1. S \subseteq r.bs..last /\ r.bs \in Int /\ last \in Int
    BY <1>1 DEF UniquePositions
  <2> HIDE DEF last, S
  <2>2. IsFiniteSet(r.bs..last)
    BY <2>0, <2>1
  <2>3. IsFiniteSet(S)
    BY <2>1, <2>2, FS_Subset
  <2>4. S \subseteq Nat
    BY <1>2 DEF S
  <2> QED
    BY <2>3, <2>4
<1> DEFINE n == Cardinality(S)
<1>5. /\ n \in Nat /\ positions \in [1..n -> S] /\ DOMAIN positions = 1..n
      /\ \A i, j \in 1..n : i < j <=> positions[i] < positions[j]
  <2> HIDE DEF S
  <2>1. /\ positions \in Seq(S) /\ Len(positions) = n /\ n \in Nat
        /\ DOMAIN positions = 1..n
        /\ \A i, j \in DOMAIN positions : i < j <=> positions[i] < positions[j]
    BY <1>4, SortedNumbers
  <2> HIDE DEF positions, n
  <2> QED
    BY <2>1, LenProperties
<1>6. anchors = [k \in DOMAIN positions |->
                    <<positions[k], CHOOSE j \in Partners(positions[k]) : TRUE>>]
  BY DEF UniqueAnchors
<1>7. ASSUME NEW k \in 1..n
      PROVE  /\ anchors[k][1] = positions[k] /\ positions[k] \in B
             /\ anchors[k][2] \in D /\ At(side, anchors[k][2]) = At(base, anchors[k][1])
             /\ anchors[k] = <<anchors[k][1], anchors[k][2]>>
  <2>1. positions[k] \in B /\ Partners(positions[k]) # {}
    BY <1>5
  <2> DEFINE j == CHOOSE j \in Partners(positions[k]) : TRUE
  <2>2. j \in Partners(positions[k])
    BY <2>1
  <2>3. anchors[k] = <<positions[k], j>>
    BY <1>5, <1>6
  <2> HIDE DEF j, anchors, positions
  <2> QED
    BY <2>1, <2>2, <2>3
<1>8. anchors = [k \in 1..n |-> anchors[k]]
  BY <1>5, <1>6
<1> HIDE DEF anchors, positions, n, S, B, D
<1>9. \A k \in 1..n : anchors[k] \in Nat \X Nat
  BY <1>2, <1>3, <1>7
<1>10. anchors \in Seq(Nat \X Nat) /\ Len(anchors) = n
  <2>1. anchors \in [1..n -> Nat \X Nat]
    BY <1>8, <1>9
  <2> QED
    BY <1>5, <1>8, <2>1, SeqDef
<1>11. \A k \in 1..n : /\ r.bs <= anchors[k][1] /\ anchors[k][1] < r.be
                       /\ r.ss <= anchors[k][2] /\ anchors[k][2] < r.se
                       /\ At(base, anchors[k][1]) = At(side, anchors[k][2])
  BY <1>2, <1>3, <1>7
<1>12. \A k, l \in 1..n : k < l => anchors[k][1] < anchors[l][1]
  BY <1>5, <1>7
<1> QED
  BY <1>9, <1>10, <1>11, <1>12 DEF Anchored, anchors

-----------------------------------------------------------------------------
(* After n anchors are placed, each has one with a smaller side position   *)
(* before it, or none.                                                     *)
Placed(anchors, n, acc) ==
    /\ acc \in [tails: Seq(1..n), previous: Seq(0..n)]
    /\ n > 0 => acc.tails # <<>>
    /\ Len(acc.previous) = n
    /\ \A i \in 1..n : /\ acc.previous[i] < i
                       /\ acc.previous[i] # 0 =>
                            anchors[acc.previous[i]][2] < anchors[i][2]

(* One more anchor.                                                        *)
LEMMA AnchorPlaced ==
    ASSUME NEW anchors, NEW n \in Nat, NEW acc, Placed(anchors, n, acc)
    PROVE  Placed(anchors, n + 1, PlaceAnchor(anchors, acc, n + 1))
<1> DEFINE i == n + 1
           smaller == {k \in DOMAIN acc.tails : anchors[acc.tails[k]][2] < anchors[i][2]}
           p == Max({0} \cup smaller)
           next == PlaceAnchor(anchors, acc, i)
           link == IF p = 0 THEN 0 ELSE acc.tails[p]
<1>1. /\ acc.tails \in Seq(1..n) /\ Len(acc.tails) \in Nat /\ DOMAIN acc.tails = 1..Len(acc.tails)
      /\ acc.previous \in Seq(0..n)
  <2>1. acc.tails \in Seq(1..n) /\ acc.previous \in Seq(0..n)
    BY DEF Placed
  <2> QED
    BY <2>1, LenProperties
<1>2. p \in {0} \cup smaller /\ p \in 0..Len(acc.tails)
  <2> DEFINE P == {0} \cup smaller
  <2>1. P \in SUBSET (0..Len(acc.tails)) /\ P # {}
    BY <1>1
  <2> HIDE DEF P, smaller
  <2>2. Max(P) \in P
    BY <1>1, <2>1, MaxOf
  <2> QED
    BY <2>1, <2>2 DEF P
<1> HIDE DEF p
<1>3. /\ link \in 0..n /\ link < i
      /\ link # 0 => anchors[link][2] < anchors[i][2]
  <2>1. CASE p = 0
    BY <2>1
  <2>2. CASE p # 0
    <3>1. p \in smaller /\ p \in 1..Len(acc.tails)
      BY <1>2, <2>2
    <3>2. acc.tails[p] \in 1..n
      BY <1>1, <3>1, ElementOfSeq
    <3>3. link = acc.tails[p]
      BY <2>2
    <3>4. anchors[acc.tails[p]][2] < anchors[i][2]
      BY <3>1
    <3> HIDE DEF link
    <3> QED
      BY <3>2, <3>3, <3>4
  <2> QED
    BY <2>1, <2>2
<1>4. next = [tails    |-> IF p = Len(acc.tails) THEN Append(acc.tails, i)
                           ELSE IF anchors[i][2] < anchors[acc.tails[p + 1]][2]
                                THEN [acc.tails EXCEPT ![p + 1] = i]
                                ELSE acc.tails,
              previous |-> Append(acc.previous, link)]
  BY DEF PlaceAnchor, p
<1>50. acc.tails \in Seq(1..i) /\ acc.previous \in Seq(0..i) /\ i \in 1..i /\ link \in 0..i
  <2>1. 1..n \subseteq 1..i /\ 0..n \subseteq 0..i
    OBVIOUS
  <2>2. \A S, T : S \subseteq T => Seq(S) \subseteq Seq(T)
    BY SeqMonotonic
  <2> QED
    BY <1>1, <1>3, <2>1, <2>2
<1>51. \A S : \A q \in Seq(S), e \in S :
          /\ Append(q, e) \in Seq(S) /\ Append(q, e) # <<>> /\ Len(Append(q, e)) = Len(q) + 1
          /\ \A k \in 1..Len(q) : Append(q, e)[k] = q[k]
          /\ Append(q, e)[Len(q) + 1] = e
  BY AppendProperties
<1> HIDE DEF link, smaller, next
<1>5. next.tails \in Seq(1..i) /\ next.tails # <<>>
  <2>1. CASE p = Len(acc.tails)
    <3>1. next.tails = Append(acc.tails, i)
      BY <1>4, <2>1
    <3> HIDE DEF i
    <3>2. Append(acc.tails, i) \in Seq(1..i) /\ Append(acc.tails, i) # <<>>
      <4> DEFINE t == acc.tails
      <4>1. t \in Seq(1..i) /\ i \in 1..i
        BY <1>50
      <4> HIDE DEF t
      <4>2. Append(t, i) \in Seq(1..i) /\ Append(t, i) # <<>>
        BY <4>1, AppendProperties
      <4> QED
        BY <4>2 DEF t
    <3> QED
      BY <3>1, <3>2
  <2>2. CASE p # Len(acc.tails)
    <3>1. p + 1 \in 1..Len(acc.tails)
      BY <1>1, <1>2, <2>2
    <3>2. Len(acc.tails) # 0
      BY <3>1
    <3>3. [acc.tails EXCEPT ![p + 1] = i] \in Seq(1..i) /\ Len([acc.tails EXCEPT ![p + 1] = i]) = Len(acc.tails)
      <4> HIDE DEF i
      <4> QED
        BY <1>50, <3>1, ExceptSeq
    <3>4. next.tails \in {[acc.tails EXCEPT ![p + 1] = i], acc.tails}
      BY <1>4, <2>2
    <3>5. Len(next.tails) # 0 /\ next.tails \in Seq(1..i)
      BY <1>50, <3>2, <3>3, <3>4
    <3> QED
      BY <3>5, EmptySeq
  <2> QED
    BY <2>1, <2>2
<1>6. /\ next.previous \in Seq(0..i) /\ Len(next.previous) = i
      /\ next.previous[i] = link /\ \A k \in 1..n : next.previous[k] = acc.previous[k]
  <2>0. next.previous = Append(acc.previous, link)
    BY <1>4
  <2>1. Len(acc.previous) = n
    BY DEF Placed
  <2>2. /\ next.previous \in Seq(0..i)
        /\ Len(next.previous) = Len(acc.previous) + 1
        /\ \A k \in 1..Len(acc.previous) : next.previous[k] = acc.previous[k]
        /\ next.previous[Len(acc.previous) + 1] = link
    <3> HIDE DEF i
    <3> QED
      BY <1>50, <1>51, <2>0
  <2> QED
    BY <2>1, <2>2
<1>7. ASSUME NEW k \in 1..i
      PROVE  /\ next.previous[k] < k
             /\ next.previous[k] # 0 => anchors[next.previous[k]][2] < anchors[k][2]
  <2>1. CASE k = i
    BY <1>3, <1>6, <2>1
  <2>2. CASE k \in 1..n
    BY <1>6, <2>2 DEF Placed
  <2> QED
    BY <2>1, <2>2
<1>8. next \in [tails: Seq(1..i), previous: Seq(0..i)]
  <2>1. next = [tails |-> next.tails, previous |-> next.previous]
    BY <1>4
  <2> QED
    BY <1>5, <1>6, <2>1
<1> QED
  BY <1>5, <1>6, <1>7, <1>8 DEF Placed, next

(* A function that places the anchors one by one places them all.          *)
LEMMA AllPlaced ==
    ASSUME NEW anchors, NEW n \in Nat, NEW place,
           place[0] = [tails |-> <<>>, previous |-> <<>>],
           \A i \in 1..n : place[i] = PlaceAnchor(anchors, place[i - 1], i)
    PROVE  \A i \in 0..n : Placed(anchors, i, place[i])
<1> DEFINE T == {i \in Nat : i \in 0..n => Placed(anchors, i, place[i])}
<1>1. 0 \in T
  <2>1. place[0] = [tails |-> <<>>, previous |-> <<>>]
    OBVIOUS
  <2>2. <<>> \in Seq(1..0) /\ <<>> \in Seq(0..0) /\ Len(<<>>) = 0
    BY EmptySeq
  <2>3. \A i \in 1..0 : FALSE
    OBVIOUS
  <2>4. Placed(anchors, 0, [tails |-> <<>>, previous |-> <<>>])
    BY <2>2, <2>3 DEF Placed
  <2> QED
    BY <2>1, <2>4
<1>2. ASSUME NEW i \in Nat, i \in T PROVE i + 1 \in T
  <2> SUFFICES ASSUME i + 1 \in 0..n PROVE Placed(anchors, i + 1, place[i + 1])
    OBVIOUS
  <2>1. Placed(anchors, i, place[i])
    BY <1>2
  <2>2. place[i + 1] = PlaceAnchor(anchors, place[i], i + 1)
    <3>1. i + 1 \in 1..n /\ (i + 1) - 1 = i
      OBVIOUS
    <3> QED
      BY <3>1
  <2> QED
    BY <2>1, <2>2, AnchorPlaced
<1> HIDE DEF T
<1>3. \A i \in Nat : i \in T
  BY <1>1, <1>2, Induction
<1> SUFFICES ASSUME NEW i \in 0..n PROVE Placed(anchors, i, place[i])
  OBVIOUS
<1>4. i \in T /\ i \in Nat
  BY <1>3
<1> QED
  BY <1>4 DEF T

LEMMA PlacesExist ==
    ASSUME NEW anchors, NEW n \in Nat
    PROVE  \E place : place = [i \in 0..n |-> IF i = 0 THEN [tails |-> <<>>, previous |-> <<>>]
                                              ELSE PlaceAnchor(anchors, place[i - 1], i)]
<1> DEFINE none == [tails |-> <<>>, previous |-> <<>>]
           V == [tails: Seq(Nat), previous: Seq(Nat)]
           step == [p \in Nat \X V |->
                      IF PlaceAnchor(anchors, p[2], p[1] + 1) \in V
                      THEN PlaceAnchor(anchors, p[2], p[1] + 1) ELSE none]
<1>1. none \in V
  BY EmptySeq
<1>2. step \in [Nat \X V -> V]
  <2> HIDE DEF V, none
  <2> QED
    BY <1>1
<1>3. \A i \in Nat, acc \in V : PlaceAnchor(anchors, acc, i + 1) \in V
                                => step[<<i, acc>>] = PlaceAnchor(anchors, acc, i + 1)
  <2> HIDE DEF V, none
  <2> QED
    OBVIOUS
<1> HIDE DEF step
<1>4. PICK g : Recursive(g, V, none, step)
  <2> HIDE DEF V, none
  <2> QED
    BY <1>1, <1>2, Recursion
<1>5. \A i \in Nat : Placed(anchors, i, g[i]) /\ g[i + 1] = PlaceAnchor(anchors, g[i], i + 1)
  <2> DEFINE T == {i \in Nat : Placed(anchors, i, g[i])}
  <2>0. ASSUME NEW i \in Nat, NEW acc, Placed(anchors, i, acc) PROVE acc \in V
    <3>1. acc \in [tails: Seq(1..i), previous: Seq(0..i)]
      BY <2>0 DEF Placed
    <3>2. 1..i \subseteq Nat /\ 0..i \subseteq Nat
      OBVIOUS
    <3>3. acc.tails \in Seq(Nat) /\ acc.previous \in Seq(Nat)
      BY <3>1, <3>2, SeqMonotonic
    <3> QED
      BY <3>1, <3>3
  <2>1. 0 \in T
    <3>1. g[0] = none
      BY <1>4 DEF Recursive
    <3>2. <<>> \in Seq(1..0) /\ <<>> \in Seq(0..0) /\ Len(<<>>) = 0
      BY EmptySeq
    <3>3. \A i \in 1..0 : FALSE
      OBVIOUS
    <3>4. Placed(anchors, 0, none)
      BY <3>2, <3>3 DEF Placed
    <3> QED
      BY <3>1, <3>4
  <2>2. ASSUME NEW i \in Nat, Placed(anchors, i, g[i])
        PROVE  /\ Placed(anchors, i + 1, g[i + 1])
               /\ g[i + 1] = PlaceAnchor(anchors, g[i], i + 1)
    <3>1. Placed(anchors, i + 1, PlaceAnchor(anchors, g[i], i + 1))
      BY <2>2, AnchorPlaced
    <3>2. g[i] \in V /\ PlaceAnchor(anchors, g[i], i + 1) \in V
      <4>1. i + 1 \in Nat
        OBVIOUS
      <4> HIDE DEF V
      <4> QED
        BY <2>0, <2>2, <3>1, <4>1
    <3>3. g[i + 1] = step[<<i, g[i]>>]
      BY <1>4 DEF Recursive
    <3> HIDE DEF V
    <3>4. step[<<i, g[i]>>] = PlaceAnchor(anchors, g[i], i + 1)
      BY <1>3, <3>2
    <3> QED
      BY <3>1, <3>3, <3>4
  <2>3. \A i \in Nat : i \in T => i + 1 \in T
    BY <2>2
  <2>4. \A i \in Nat : i \in T
    <3> HIDE DEF T
    <3> QED
      BY <2>1, <2>3, Induction
  <2> QED
    BY <2>2, <2>4
<1> DEFINE h == [i \in 0..n |-> g[i]]
<1>6. h = [i \in 0..n |-> IF i = 0 THEN none ELSE PlaceAnchor(anchors, h[i - 1], i)]
  <2>1. ASSUME NEW i \in 0..n
        PROVE  g[i] = IF i = 0 THEN none ELSE PlaceAnchor(anchors, h[i - 1], i)
    <3>1. CASE i = 0
      BY <1>4, <3>1 DEF Recursive
    <3>2. CASE i # 0
      <4>1. i - 1 \in Nat /\ (i - 1) + 1 = i /\ i - 1 \in 0..n
        BY <3>2
      <4>2. g[(i - 1) + 1] = PlaceAnchor(anchors, g[i - 1], (i - 1) + 1)
        BY <1>5, <4>1
      <4>3. h[i - 1] = g[i - 1]
        BY <4>1
      <4> HIDE DEF h
      <4> QED
        BY <3>2, <4>1, <4>2, <4>3
    <3> QED
      BY <3>1, <3>2
  <2> QED
    BY <2>1
<1> HIDE DEF h
<1> QED
  BY <1>6

(* A chain that ends with anchor i.                                        *)
ChainTo(anchors, i, c) ==
    /\ c \in Seq(Nat \X Nat)
    /\ \A k \in 1..Len(c) : /\ \E q \in 1..Len(anchors) : c[k] = anchors[q]
                            /\ c[k][1] <= anchors[i][1] /\ c[k][2] <= anchors[i][2]
    /\ \A k, l \in 1..Len(c) : k < l => c[k][1] < c[l][1] /\ c[k][2] < c[l][2]

(* Each anchor is linked to one with smaller positions on both sides.      *)
Links(anchors, links) ==
    /\ DOMAIN links = 1..Len(anchors)
    /\ \A i \in 1..Len(anchors) :
          /\ links[i] \in 0..(i - 1)
          /\ links[i] # 0 => anchors[links[i]][2] < anchors[i][2]

(* A chain and an anchor that follows its last one.                        *)
LEMMA ChainGrows ==
    ASSUME NEW anchors \in Seq(Nat \X Nat), NEW links, Links(anchors, links),
           \A k, l \in 1..Len(anchors) : k < l => anchors[k][1] < anchors[l][1],
           NEW i \in 1..Len(anchors), NEW c,
           links[i] # 0 => ChainTo(anchors, links[i], c), links[i] = 0 => c = <<>>
    PROVE  ChainTo(anchors, i, Append(c, anchors[i]))
<1> DEFINE P == Nat \X Nat
           d == Append(c, anchors[i])
           e == anchors[i]
           j == links[i]
<1>1. Len(anchors) \in Nat /\ \A k \in 1..Len(anchors) : /\ anchors[k] \in P
                                                        /\ anchors[k][1] \in Nat
                                                        /\ anchors[k][2] \in Nat
  <2>1. Len(anchors) \in Nat /\ \A k \in 1..Len(anchors) : anchors[k] \in P
    BY LenProperties, ElementOfSeq
  <2> QED
    BY <2>1
<1>2. /\ j \in 0..(i - 1)
      /\ j # 0 => j \in 1..Len(anchors) /\ anchors[j][2] < e[2] /\ anchors[j][1] < e[1]
  <2>1. j \in 0..(i - 1) /\ (j # 0 => anchors[j][2] < e[2])
    BY DEF Links
  <2> HIDE DEF j
  <2>20. i \in 1..Len(anchors) /\ i \in Nat /\ i <= Len(anchors)
    BY <1>1
  <2>21. \A x, y, z \in Nat : x <= z - 1 /\ z <= y /\ x # 0 => x \in 1..y /\ x < z
    OBVIOUS
  <2>22. j \in Nat /\ j <= i - 1
    BY <2>1, <2>20
  <2>2. j # 0 => j \in 1..Len(anchors) /\ j < i
    BY <1>1, <2>20, <2>21, <2>22
  <2>23. j # 0 => anchors[j][1] < e[1]
    BY <2>2
  <2> QED
    BY <2>1, <2>2
<1>3. /\ c \in Seq(P) /\ Len(c) \in Nat
      /\ \A k \in 1..Len(c) : /\ \E q \in 1..Len(anchors) : c[k] = anchors[q]
                              /\ c[k][1] < e[1] /\ c[k][2] < e[2]
      /\ \A k, l \in 1..Len(c) : k < l => c[k][1] < c[l][1] /\ c[k][2] < c[l][2]
  <2>1. CASE j = 0
    <3>1. c = <<>> /\ <<>> \in Seq(P) /\ Len(<<>>) = 0
      BY <2>1, EmptySeq
    <3>2. Len(c) = 0 /\ \A k \in 1..Len(c) : FALSE
      BY <3>1
    <3> QED
      BY <3>1, <3>2
  <2>2. CASE j # 0
    <3>1. ChainTo(anchors, j, c)
      BY <2>2
    <3>2. c \in Seq(P)
      BY <3>1 DEF ChainTo
    <3>3. ASSUME NEW k \in 1..Len(c)
          PROVE  c[k][1] < e[1] /\ c[k][2] < e[2] /\ \E q \in 1..Len(anchors) : c[k] = anchors[q]
      <4>1. /\ c[k][1] <= anchors[j][1] /\ c[k][2] <= anchors[j][2]
            /\ \E q \in 1..Len(anchors) : c[k] = anchors[q]
        BY <3>1 DEF ChainTo
      <4>2. c[k][1] \in Nat /\ c[k][2] \in Nat
        BY <1>1, <4>1
      <4>3. /\ anchors[j][1] \in Nat /\ anchors[j][2] \in Nat /\ e[1] \in Nat /\ e[2] \in Nat
            /\ anchors[j][1] < e[1] /\ anchors[j][2] < e[2]
        BY <1>1, <1>2, <2>2
      <4>4. \A x, y, z \in Nat : x <= y /\ y < z => x < z
        OBVIOUS
      <4> HIDE DEF e, j
      <4> QED
        BY <4>1, <4>2, <4>3, <4>4
    <3> QED
      BY <3>1, <3>2, <3>3, LenProperties DEF ChainTo
  <2> QED
    BY <2>1, <2>2
<1>4. /\ d \in Seq(P) /\ Len(d) = Len(c) + 1
      /\ \A k \in 1..Len(c) : d[k] = c[k]
      /\ d[Len(c) + 1] = e
  <2>1. e \in P
    BY <1>1
  <2> HIDE DEF P, e
  <2>2. /\ Append(c, e) \in Seq(P) /\ Len(Append(c, e)) = Len(c) + 1
        /\ \A k \in 1..Len(c) : Append(c, e)[k] = c[k]
        /\ Append(c, e)[Len(c) + 1] = e
    BY <1>3, <2>1, AppendProperties
  <2> QED
    BY <2>2 DEF e
<1> HIDE DEF d
<1>5. e[1] \in Nat /\ e[2] \in Nat /\ \E q \in 1..Len(anchors) : e = anchors[q]
  BY <1>1
<1> HIDE DEF e, j, P
<1>6. ASSUME NEW k \in 1..Len(d)
      PROVE  /\ \E q \in 1..Len(anchors) : d[k] = anchors[q]
             /\ d[k][1] <= e[1] /\ d[k][2] <= e[2]
  <2>1. CASE k = Len(c) + 1
    BY <1>4, <1>5, <2>1
  <2>2. CASE k \in 1..Len(c)
    <3>1. d[k] = c[k] /\ c[k][1] < e[1] /\ c[k][2] < e[2] /\ \E q \in 1..Len(anchors) : c[k] = anchors[q]
      BY <1>3, <1>4, <2>2
    <3>2. c[k][1] \in Nat /\ c[k][2] \in Nat
      BY <1>1, <3>1
    <3>3. \A x, y \in Nat : x < y => x <= y
      OBVIOUS
    <3> QED
      BY <1>5, <3>1, <3>2, <3>3
  <2> QED
    BY <1>3, <1>4, <2>1, <2>2
<1>7. ASSUME NEW k \in 1..Len(d), NEW l \in 1..Len(d), k < l
      PROVE  d[k][1] < d[l][1] /\ d[k][2] < d[l][2]
  <2>1. k \in 1..Len(c)
    BY <1>3, <1>4, <1>7
  <2>2. CASE l = Len(c) + 1
    BY <1>3, <1>4, <2>1, <2>2
  <2>3. CASE l \in 1..Len(c)
    BY <1>3, <1>4, <1>7, <2>1, <2>3
  <2> QED
    BY <1>3, <1>4, <2>2, <2>3
<1> QED
  BY <1>4, <1>6, <1>7 DEF ChainTo, d, e, P

(* Each anchor ends a chain of the links that lead to it.                  *)
LEMMA ChainsFound ==
    ASSUME NEW anchors \in Seq(Nat \X Nat), NEW links, Links(anchors, links),
           \A k, l \in 1..Len(anchors) : k < l => anchors[k][1] < anchors[l][1],
           NEW chains, chains[0] = <<>>,
           \A i \in 1..Len(anchors) : chains[i] = Append(chains[links[i]], anchors[i])
    PROVE  \A i \in 1..Len(anchors) : ChainTo(anchors, i, chains[i])
<1> DEFINE D == 0..Len(anchors)
           size == [i \in D |-> i]
           T == {i \in D : i # 0 => ChainTo(anchors, i, chains[i])}
<1>0. Len(anchors) \in Nat
  BY LenProperties
<1>1. size \in [D -> Nat] /\ \A i \in D : size[i] = i
  BY <1>0
<1>3. ASSUME NEW i \in D, \A q \in D : size[q] < size[i] => q \in T PROVE i \in T
  <2> SUFFICES ASSUME i # 0 PROVE ChainTo(anchors, i, chains[i])
    OBVIOUS
  <2>1. i \in 1..Len(anchors) /\ links[i] \in 0..(i - 1)
    BY <1>0 DEF Links
  <2>2. links[i] \in D /\ size[links[i]] < size[i]
    BY <1>0, <1>1, <2>1
  <2>3. links[i] # 0 => ChainTo(anchors, links[i], chains[links[i]])
    BY <1>3, <2>2
  <2>4. ChainTo(anchors, i, Append(chains[links[i]], anchors[i]))
    BY <2>1, <2>3, ChainGrows
  <2> QED
    BY <2>1, <2>4
<1> HIDE DEF T, size
<1>4. \A i \in D : i \in T
  <2> HIDE DEF D
  <2> QED
    BY <1>1, <1>3, SmallerFirst
<1> SUFFICES ASSUME NEW i \in 1..Len(anchors) PROVE ChainTo(anchors, i, chains[i])
  OBVIOUS
<1>5. i \in D /\ i # 0
  BY <1>0
<1>6. i \in T
  BY <1>4, <1>5
<1> QED
  BY <1>5, <1>6 DEF T

LEMMA ChainsExist ==
    ASSUME NEW anchors \in Seq(Nat \X Nat), NEW links, Links(anchors, links)
    PROVE  \E chains : chains = [i \in 0..Len(anchors) |->
                        IF i = 0 THEN <<>> ELSE Append(chains[links[i]], anchors[i])]
<1> DEFINE D == 0..Len(anchors)
           V == Seq(Nat \X Nat)
           size == [i \in D |-> i]
           step == [p \in D \X [D -> V] |->
                      IF p[1] = 0 THEN <<>> ELSE Append(p[2][links[p[1]]], anchors[p[1]])]
<1>0. Len(anchors) \in Nat /\ \A i \in 1..Len(anchors) : anchors[i] \in Nat \X Nat
  BY LenProperties, ElementOfSeq
<1>1. size \in [D -> Nat] /\ \A i \in D : size[i] = i
  BY <1>0
<1>2. \A i \in D, g \in [D -> V] :
         step[<<i, g>>] = IF i = 0 THEN <<>> ELSE Append(g[links[i]], anchors[i])
  <2> HIDE DEF D, V
  <2> QED
    OBVIOUS
<1>3. \A i \in D : i # 0 => /\ i \in 1..Len(anchors) /\ links[i] \in D
                            /\ size[links[i]] < size[i]
  <2> TAKE i \in D
  <2> SUFFICES ASSUME i # 0
               PROVE  i \in 1..Len(anchors) /\ links[i] \in D /\ size[links[i]] < size[i]
    OBVIOUS
  <2>1. i \in 1..Len(anchors) /\ links[i] \in 0..(i - 1)
    BY <1>0 DEF Links
  <2>2. links[i] \in D /\ links[i] < i
    BY <1>0, <2>1
  <2> QED
    BY <1>1, <2>1, <2>2
<1>4. <<>> \in V
  BY EmptySeq
<1>5. step \in [D \X [D -> V] -> V]
  <2>1. ASSUME NEW i \in D, NEW g \in [D -> V]
        PROVE  (IF i = 0 THEN <<>> ELSE Append(g[links[i]], anchors[i])) \in V
    <3>1. CASE i = 0
      BY <1>4, <3>1
    <3>2. CASE i # 0
      <4>1. g[links[i]] \in V /\ anchors[i] \in Nat \X Nat
        BY <1>0, <1>3, <3>2
      <4>2. Append(g[links[i]], anchors[i]) \in V
        BY <4>1, AppendProperties
      <4> QED
        BY <3>2, <4>2
    <3> QED
      BY <3>1, <3>2
  <2> HIDE DEF D, V
  <2>2. \A p \in D \X [D -> V] : step[p] \in V
    BY <2>1
  <2> QED
    BY <2>2
<1>6. \A i \in D : \A g, h \in [D -> V] :
         (\A q \in D : size[q] < size[i] => g[q] = h[q]) => step[<<i, g>>] = step[<<i, h>>]
  <2> HIDE DEF D, V, step, size
  <2> SUFFICES ASSUME NEW i \in D, NEW g \in [D -> V], NEW h \in [D -> V],
                      \A q \in D : size[q] < size[i] => g[q] = h[q]
               PROVE  step[<<i, g>>] = step[<<i, h>>]
    OBVIOUS
  <2>1. i # 0 => g[links[i]] = h[links[i]]
    BY <1>3
  <2>2. /\ step[<<i, g>>] = IF i = 0 THEN <<>> ELSE Append(g[links[i]], anchors[i])
        /\ step[<<i, h>>] = IF i = 0 THEN <<>> ELSE Append(h[links[i]], anchors[i])
    BY <1>2
  <2> QED
    BY <2>1, <2>2
<1> HIDE DEF step, size
<1>7. PICK f \in [D -> V] : \A i \in D : f[i] = step[<<i, f>>]
  <2> HIDE DEF D, V
  <2>1. Smaller(D, V, size, step)
    BY <1>1, <1>5, <1>6 DEF Smaller
  <2>2. PICK f : Computed(f, D, V, step)
    BY <1>4, <2>1, ComputedExists
  <2> QED
    BY <2>2 DEF Computed
<1>8. f = [i \in D |-> IF i = 0 THEN <<>> ELSE Append(f[links[i]], anchors[i])]
  <2> HIDE DEF D, V
  <2> QED
    BY <1>2, <1>7
<1> QED
  BY <1>8

(* The longest increasing chain of anchors is a matching.                  *)
LEMMA LongestMatches ==
    ASSUME NEW base, NEW side, NEW r \in Ranges, NEW anchors, Anchored(base, side, r, anchors)
    PROVE  Matching(base, side, r, LongestIncreasing(anchors))
<1> DEFINE n == Len(anchors)
           IsPlace(f) == f = [i \in 0..n |-> IF i = 0 THEN [tails |-> <<>>, previous |-> <<>>]
                                             ELSE PlaceAnchor(anchors, f[i - 1], i)]
           place == CHOOSE f : IsPlace(f)
           placed == place[n]
           IsChains(f) == f = [i \in 0..n |-> IF i = 0 THEN <<>>
                                 ELSE Append(f[placed.previous[i]], anchors[i])]
           chains == CHOOSE f : IsChains(f)
<1>1. n \in Nat /\ anchors \in Seq(Nat \X Nat)
  BY LenProperties DEF Anchored
<1>2. LongestIncreasing(anchors) = IF anchors = <<>> THEN <<>> ELSE chains[Last(placed.tails)]
  BY DEF LongestIncreasing
<1>3. CASE anchors = <<>>
  BY <1>2, <1>3, NoMatches
<1>4. CASE anchors # <<>>
  <2>1. IsPlace(place)
    <3>1. \E f : IsPlace(f)
      BY <1>1, PlacesExist
    <3> HIDE DEF IsPlace
    <3> QED
      BY <3>1
  <2> HIDE DEF place
  <2>2. Placed(anchors, n, placed)
    <3>1. /\ place[0] = [tails |-> <<>>, previous |-> <<>>]
          /\ \A i \in 1..n : place[i] = PlaceAnchor(anchors, place[i - 1], i)
      <4> HIDE DEF n
      <4>1. place = [i \in 0..n |-> IF i = 0 THEN [tails |-> <<>>, previous |-> <<>>]
                                    ELSE PlaceAnchor(anchors, place[i - 1], i)]
        BY <2>1
      <4> QED
        BY <1>1, <4>1
    <3> HIDE DEF n
    <3>2. \A i \in 0..n : Placed(anchors, i, place[i])
      BY <1>1, <3>1, AllPlaced
    <3> QED
      BY <1>1, <3>2 DEF placed
  <2> HIDE DEF placed
  <2>3. n # 0
    BY <1>1, <1>4, EmptySeq
  <2>4. Last(placed.tails) \in 1..n
    <3>1. placed.tails \in Seq(1..n) /\ placed.tails # <<>>
      BY <1>1, <2>2, <2>3 DEF Placed
    <3>2. Len(placed.tails) \in Nat \ {0}
      <4> HIDE DEF n
      <4> QED
        BY <3>1, EmptySeq
    <3>20. Len(placed.tails) \in 1..Len(placed.tails)
      BY <3>2
    <3> HIDE DEF n
    <3>3. placed.tails[Len(placed.tails)] \in 1..n
      BY <3>1, <3>20, ElementOfSeq
    <3> QED
      BY <3>3 DEF Last
  <2>5. Links(anchors, placed.previous)
    <3>1. placed.previous \in Seq(0..n) /\ Len(placed.previous) = n
      BY <2>2 DEF Placed
    <3>2. DOMAIN placed.previous = 1..n /\ \A i \in 1..n : placed.previous[i] \in 0..n
      <4> HIDE DEF n
      <4> QED
        BY <3>1, LenProperties, ElementOfSeq
    <3>3. ASSUME NEW i \in 1..n
          PROVE  /\ placed.previous[i] \in 0..(i - 1)
                 /\ placed.previous[i] # 0 => anchors[placed.previous[i]][2] < anchors[i][2]
      <4>1. /\ placed.previous[i] < i
            /\ placed.previous[i] # 0 => anchors[placed.previous[i]][2] < anchors[i][2]
        BY <2>2 DEF Placed
      <4>2. placed.previous[i] \in 0..n
        BY <3>2
      <4> QED
        BY <1>1, <4>1, <4>2
    <3> QED
      BY <3>2, <3>3 DEF Links
  <2>6. IsChains(chains)
    <3>1. \E f : IsChains(f)
      BY <1>1, <2>5, ChainsExist
    <3> HIDE DEF IsChains
    <3> QED
      BY <3>1
  <2> HIDE DEF chains
  <2>7. \A i \in 1..n : ChainTo(anchors, i, chains[i])
    <3>1. \A k, l \in 1..Len(anchors) : k < l => anchors[k][1] < anchors[l][1]
      BY DEF Anchored
    <3>2. /\ chains[0] = <<>>
          /\ \A i \in 1..n : chains[i] = Append(chains[placed.previous[i]], anchors[i])
      <4> HIDE DEF n
      <4>1. chains = [i \in 0..n |-> IF i = 0 THEN <<>>
                                     ELSE Append(chains[placed.previous[i]], anchors[i])]
        BY <2>6
      <4> DEFINE value(i) == IF i = 0 THEN <<>>
                             ELSE Append(chains[placed.previous[i]], anchors[i])
      <4>2. chains = [i \in 0..n |-> value(i)]
        BY <4>1
      <4>3. \A i \in 0..n : chains[i] = value(i)
        <5> HIDE DEF value
        <5> QED
          BY <4>2
      <4>4. chains[0] = <<>>
        BY <1>1, <4>3
      <4>5. ASSUME NEW i \in 1..n
            PROVE  chains[i] = Append(chains[placed.previous[i]], anchors[i])
        <5>1. i \in 0..n /\ i # 0
          BY <1>1
        <5> QED
          BY <4>3, <5>1
      <4> QED
        BY <4>4, <4>5
    <3> QED
      BY <1>1, <2>5, <3>1, <3>2, ChainsFound
  <2> DEFINE c == chains[Last(placed.tails)]
  <2>8. ChainTo(anchors, Last(placed.tails), c)
    BY <2>4, <2>7
  <2> HIDE DEF c, n
  <2>9. ASSUME NEW k \in 1..Len(c)
        PROVE  /\ r.bs <= c[k][1] /\ c[k][1] < r.be
               /\ r.ss <= c[k][2] /\ c[k][2] < r.se
               /\ At(base, c[k][1]) = At(side, c[k][2])
    <3>1. PICK q \in 1..Len(anchors) : c[k] = anchors[q]
      BY <2>8 DEF ChainTo
    <3> QED
      BY <3>1 DEF Anchored
  <2>10. Matching(base, side, r, c)
    BY <2>8, <2>9 DEF ChainTo, Matching
  <2> QED
    BY <1>2, <1>4, <2>10 DEF c
<1> QED
  BY <1>3, <1>4

(* What unique_lis_anchors returns for a stretch is a matching of it.      *)
LEMMA AnchorsMatch ==
    ASSUME NEW base, NEW side, NEW r \in Ranges
    PROVE  Matching(base, side, r, UniqueLisAnchors(base, side, r))
  BY AnchorsFound, LongestMatches DEF UniqueLisAnchors

-----------------------------------------------------------------------------
(* The fallback: a longest common subsequence.                             *)

(* One stretch inside another.                                             *)
Inside(q, r) ==
    /\ r.bs <= q.bs /\ q.be <= r.be
    /\ r.ss <= q.ss /\ q.se <= r.se

(* A matching of a stretch is one of any that contains it.                 *)
LEMMA WiderMatching ==
    ASSUME NEW base, NEW side, NEW r \in Ranges, NEW q \in Ranges, Inside(q, r),
           NEW m, Matching(base, side, q, m)
    PROVE  Matching(base, side, r, m)
<1>1. /\ r.bs \in Nat /\ r.be \in Nat /\ r.ss \in Nat /\ r.se \in Nat
      /\ q.bs \in Nat /\ q.be \in Nat /\ q.ss \in Nat /\ q.se \in Nat
  BY DEF Ranges
<1>2. m \in Seq(Nat \X Nat)
  BY DEF Matching
<1>3. ASSUME NEW k \in 1..Len(m)
      PROVE  /\ r.bs <= m[k][1] /\ m[k][1] < r.be
             /\ r.ss <= m[k][2] /\ m[k][2] < r.se
  <2>1. m[k] \in Nat \X Nat
    BY <1>2, ElementOfSeq
  <2>2. m[k][1] \in Nat /\ m[k][2] \in Nat
    BY <2>1
  <2>3. /\ q.bs <= m[k][1] /\ m[k][1] < q.be
        /\ q.ss <= m[k][2] /\ m[k][2] < q.se
    BY DEF Matching
  <2>4. \A x, y, z \in Nat : (x <= y /\ y <= z => x <= z) /\ (x < y /\ y <= z => x < z)
    OBVIOUS
  <2>5. r.bs <= m[k][1] /\ r.ss <= m[k][2]
    BY <1>1, <2>2, <2>3, <2>4 DEF Inside
  <2>6. m[k][1] < r.be /\ m[k][2] < r.se
    BY <1>1, <2>2, <2>3, <2>4 DEF Inside
  <2> QED
    BY <2>5, <2>6
<1> QED
  BY <1>3 DEF Matching

LEMMA StretchIs ==
    ASSUME NEW a, NEW b, NEW c, NEW d
    PROVE  /\ Stretch(a, b, c, d).bs = a /\ Stretch(a, b, c, d).be = b
           /\ Stretch(a, b, c, d).ss = c /\ Stretch(a, b, c, d).se = d
           /\ (a \in Nat /\ b \in Nat /\ c \in Nat /\ d \in Nat => Stretch(a, b, c, d) \in Ranges)
  BY DEF Stretch, Ranges

(* The positions of the table of lengths, and what is left to compare at   *)
(* one.                                                                    *)
Grid(r) == (r.bs..r.be) \X (r.ss..r.se)
Rest(r, p) == Stretch(p[1], r.be, p[2], r.se)

(* The walk through the table of lengths gives a matching.                 *)
LEMMA WalkMatches ==
    ASSUME NEW base, NEW side, NEW r \in Ranges, NEW lengths, NEW path, NEW p \in Grid(r),
           \A q \in Grid(r) : p[1] + p[2] < q[1] + q[2]
                              => Matching(base, side, Rest(r, q), path[q])
    PROVE  Matching(base, side, Rest(r, p), LcsWalk(base, side, r, lengths, path, p))
<1> DEFINE b == p[1]
           s == p[2]
<1>1. /\ r.bs \in Nat /\ r.be \in Nat /\ r.ss \in Nat /\ r.se \in Nat
      /\ b \in r.bs..r.be /\ s \in r.ss..r.se /\ p = <<b, s>>
  BY DEF Ranges, Grid
<1> HIDE DEF b, s
<1>10. b \in Nat /\ s \in Nat /\ b <= r.be /\ s <= r.se
  BY <1>1
<1>11. Rest(r, p) = Stretch(b, r.be, s, r.se) /\ Rest(r, p) \in Ranges
  BY <1>1, <1>10, StretchIs DEF Rest, b, s
<1>2. ASSUME b # r.be, s # r.se
      PROVE  /\ <<b + 1, s + 1>> \in Grid(r) /\ <<b + 1, s>> \in Grid(r) /\ <<b, s + 1>> \in Grid(r)
             /\ b + 1 \in Nat /\ s + 1 \in Nat /\ b + 1 <= r.be /\ s + 1 <= r.se
  BY <1>1, <1>10, <1>2 DEF Grid
<1>3. ASSUME b # r.be, s # r.se, NEW i \in {b, b + 1}, NEW j \in {s, s + 1}, b + s < i + j
      PROVE  /\ Matching(base, side, Stretch(i, r.be, j, r.se), path[<<i, j>>])
             /\ Stretch(i, r.be, j, r.se) \in Ranges
             /\ Matching(base, side, Rest(r, p), path[<<i, j>>])
  <2>1. <<i, j>> \in Grid(r) /\ i \in Nat /\ j \in Nat /\ b <= i /\ s <= j
    BY <1>1, <1>10, <1>2, <1>3
  <2>2. p[1] + p[2] < <<i, j>>[1] + <<i, j>>[2]
    BY <1>3 DEF b, s
  <2>3. Matching(base, side, Rest(r, <<i, j>>), path[<<i, j>>])
    BY <2>1, <2>2
  <2>4. Rest(r, <<i, j>>) = Stretch(i, r.be, j, r.se)
    BY DEF Rest
  <2>5. Stretch(i, r.be, j, r.se) \in Ranges
    BY <1>1, <2>1, StretchIs
  <2>6. Inside(Stretch(i, r.be, j, r.se), Rest(r, p))
    BY <1>1, <1>11, <2>1, StretchIs DEF Inside
  <2> QED
    BY <1>11, <2>3, <2>4, <2>5, <2>6, WiderMatching
<1>4. CASE b = r.be \/ s = r.se
  BY <1>4, NoMatches DEF LcsWalk, b, s
<1>5. CASE b # r.be /\ s # r.se /\ At(base, b) = At(side, s)
  <2>1. LcsWalk(base, side, r, lengths, path, p) = <<p>> \o path[<<b + 1, s + 1>>]
    BY <1>5 DEF LcsWalk, b, s
  <2>2. b + s < (b + 1) + (s + 1)
    BY <1>10
  <2>3. Matching(base, side, Stretch(b + 1, r.be, s + 1, r.se), path[<<b + 1, s + 1>>])
    BY <1>3, <1>5, <2>2
  <2>4. Matching(base, side, Stretch(b, b + 1, s, s + 1), <<<<b, s>>>>)
    BY <1>5, <1>10, OneMatch
  <2> DEFINE r1 == Stretch(b, b + 1, s, s + 1)
             r2 == Stretch(b + 1, r.be, s + 1, r.se)
             rr == Rest(r, p)
  <2>5. /\ r1 \in Ranges /\ r2 \in Ranges /\ rr \in Ranges
        /\ r1.bs = b /\ r1.be = b + 1 /\ r1.ss = s /\ r1.se = s + 1
        /\ r2.bs = b + 1 /\ r2.be = r.be /\ r2.ss = s + 1 /\ r2.se = r.se
        /\ rr.bs = b /\ rr.be = r.be /\ rr.ss = s /\ rr.se = r.se
    BY <1>1, <1>2, <1>5, <1>10, <1>11, StretchIs
  <2>6. Matching(base, side, r1, <<<<b, s>>>>) /\ Matching(base, side, r2, path[<<b + 1, s + 1>>])
    BY <2>3, <2>4
  <2> HIDE DEF r1, r2, rr
  <2>7. /\ rr.bs <= r1.bs /\ r1.be <= r2.bs /\ r2.be <= rr.be /\ rr.bs <= r2.bs /\ r1.be <= rr.be
        /\ rr.ss <= r1.ss /\ r1.se <= r2.ss /\ r2.se <= rr.se /\ rr.ss <= r2.ss /\ r1.se <= rr.se
    BY <1>1, <1>2, <1>5, <1>10, <2>5
  <2>8. Matching(base, side, rr, <<<<b, s>>>> \o path[<<b + 1, s + 1>>])
    BY <2>5, <2>6, <2>7, JoinMatchings
  <2> QED
    BY <1>1, <2>1, <2>8 DEF rr
<1>6. CASE b # r.be /\ s # r.se /\ At(base, b) # At(side, s)
  <2>1. b + s < (b + 1) + s /\ b + s < b + (s + 1)
    BY <1>10
  <2>2. Matching(base, side, Rest(r, p), path[<<b + 1, s>>])
    BY <1>3, <1>6, <2>1
  <2>3. Matching(base, side, Rest(r, p), path[<<b, s + 1>>])
    BY <1>3, <1>6, <2>1
  <2>4. LcsWalk(base, side, r, lengths, path, p) \in {path[<<b + 1, s>>], path[<<b, s + 1>>]}
    BY <1>6 DEF LcsWalk, b, s
  <2> QED
    BY <2>2, <2>3, <2>4
<1> QED
  BY <1>4, <1>5, <1>6

(* The walk that LcsMatches chooses.                                       *)
IsWalk(base, side, r, lengths, path) ==
    path = [p \in Grid(r) |-> LcsWalk(base, side, r, lengths, path, p)]

LEMMA WalkExists ==
    ASSUME NEW base, NEW side, NEW r \in Ranges, NEW lengths
    PROVE  \E path : IsWalk(base, side, r, lengths, path)
<1> DEFINE D == Grid(r)
           P == Nat \X Nat
           V == Seq(P)
           size == [p \in D |-> (r.be - p[1]) + (r.se - p[2])]
           step == [a \in D \X [D -> V] |-> LcsWalk(base, side, r, lengths, a[2], a[1])]
<1>1. /\ r.bs \in Nat /\ r.be \in Nat /\ r.ss \in Nat /\ r.se \in Nat
      /\ \A p \in D : /\ p[1] \in Nat /\ p[2] \in Nat /\ p[1] <= r.be /\ p[2] <= r.se
                      /\ r.bs <= p[1] /\ r.ss <= p[2] /\ p \in P
  BY DEF Ranges, Grid
<1>2. size \in [D -> Nat] /\ \A p \in D : size[p] = (r.be - p[1]) + (r.se - p[2])
  <2>1. \A p \in D : (r.be - p[1]) + (r.se - p[2]) \in Nat
    BY <1>1
  <2> HIDE DEF D
  <2> QED
    BY <2>1
<1>3. ASSUME NEW p \in D, p[1] # r.be, p[2] # r.se
      PROVE  /\ <<p[1] + 1, p[2] + 1>> \in D /\ size[<<p[1] + 1, p[2] + 1>>] < size[p]
             /\ <<p[1] + 1, p[2]>> \in D /\ size[<<p[1] + 1, p[2]>>] < size[p]
             /\ <<p[1], p[2] + 1>> \in D /\ size[<<p[1], p[2] + 1>>] < size[p]
  <2>1. /\ p[1] + 1 \in r.bs..r.be /\ p[2] + 1 \in r.ss..r.se
        /\ p[1] \in r.bs..r.be /\ p[2] \in r.ss..r.se
    BY <1>1, <1>3
  <2>2. /\ <<p[1] + 1, p[2] + 1>> \in D /\ <<p[1] + 1, p[2]>> \in D /\ <<p[1], p[2] + 1>> \in D
    BY <2>1 DEF Grid
  <2>3. /\ size[<<p[1] + 1, p[2] + 1>>] = (r.be - (p[1] + 1)) + (r.se - (p[2] + 1))
        /\ size[<<p[1] + 1, p[2]>>] = (r.be - (p[1] + 1)) + (r.se - p[2])
        /\ size[<<p[1], p[2] + 1>>] = (r.be - p[1]) + (r.se - (p[2] + 1))
        /\ size[p] = (r.be - p[1]) + (r.se - p[2])
    BY <1>2, <2>2
  <2>4. p[1] \in Nat /\ p[2] \in Nat
    BY <1>1
  <2> HIDE DEF size, D
  <2> QED
    BY <1>1, <2>2, <2>3, <2>4
<1>4. ASSUME NEW p \in D, NEW g \in [D -> V]
      PROVE  LcsWalk(base, side, r, lengths, g, p) \in V
  <2>1. <<>> \in V
    BY EmptySeq
  <2>2. CASE p[1] = r.be \/ p[2] = r.se
    BY <2>1, <2>2 DEF LcsWalk
  <2>3. CASE p[1] # r.be /\ p[2] # r.se
    <3>1. /\ g[<<p[1] + 1, p[2] + 1>>] \in V /\ g[<<p[1] + 1, p[2]>>] \in V
          /\ g[<<p[1], p[2] + 1>>] \in V
      <4> HIDE DEF V, D
      <4> QED
        BY <1>3, <2>3
    <3>2. <<p>> \in V
      <4>1. p \in P
        BY <1>1
      <4> HIDE DEF P
      <4> QED
        BY <4>1
    <3>3. <<p>> \o g[<<p[1] + 1, p[2] + 1>>] \in V
      <4> HIDE DEF P
      <4> QED
        BY <3>1, <3>2, ConcatProperties
    <3> HIDE DEF V
    <3> QED
      BY <2>3, <3>1, <3>3 DEF LcsWalk
  <2> QED
    BY <2>2, <2>3
<1> HIDE DEF size, D, V
<1>5. /\ step \in [D \X [D -> V] -> V]
      /\ \A p \in D, g \in [D -> V] : step[<<p, g>>] = LcsWalk(base, side, r, lengths, g, p)
  <2>1. \A a \in D \X [D -> V] : LcsWalk(base, side, r, lengths, a[2], a[1]) \in V
    BY <1>4
  <2> QED
    BY <2>1
<1> HIDE DEF step
<1>6. ASSUME NEW p \in D, NEW g \in [D -> V], NEW h \in [D -> V],
             \A q \in D : size[q] < size[p] => g[q] = h[q]
      PROVE  step[<<p, g>>] = step[<<p, h>>]
  <2>1. LcsWalk(base, side, r, lengths, g, p) = LcsWalk(base, side, r, lengths, h, p)
    <3>1. CASE p[1] = r.be \/ p[2] = r.se
      BY <3>1 DEF LcsWalk
    <3>2. CASE p[1] # r.be /\ p[2] # r.se
      <4>1. /\ g[<<p[1] + 1, p[2] + 1>>] = h[<<p[1] + 1, p[2] + 1>>]
            /\ g[<<p[1] + 1, p[2]>>] = h[<<p[1] + 1, p[2]>>]
            /\ g[<<p[1], p[2] + 1>>] = h[<<p[1], p[2] + 1>>]
        BY <1>3, <1>6, <3>2
      <4> QED
        BY <3>2, <4>1 DEF LcsWalk
    <3> QED
      BY <3>1, <3>2
  <2> QED
    BY <1>5, <2>1
<1>7. Smaller(D, V, size, step)
  BY <1>2, <1>5, <1>6 DEF Smaller
<1>8. <<>> \in V
  BY EmptySeq DEF V
<1>9. PICK path : Computed(path, D, V, step)
  BY <1>7, <1>8, ComputedExists
<1>10. path = [p \in D |-> LcsWalk(base, side, r, lengths, path, p)]
  BY <1>5, <1>9 DEF Computed
<1> QED
  BY <1>10 DEF D, IsWalk

(* What the fallback returns is a matching, with any table of lengths.     *)
LEMMA LcsMatch ==
    ASSUME NEW base, NEW side, NEW r \in Ranges, r.bs <= r.be, r.ss <= r.se
    PROVE  Matching(base, side, r, LcsMatches(base, side, r))
<1> DEFINE lengths == CHOOSE lengths :
              lengths = [p \in Grid(r) |-> LcsLength(base, side, r, lengths, p)]
           path == CHOOSE path : IsWalk(base, side, r, lengths, path)
<1>1. LcsMatches(base, side, r) =
         IF (r.be - r.bs) * (r.se - r.ss) > MaxLcsCells THEN <<>> ELSE path[<<r.bs, r.ss>>]
  BY DEF LcsMatches, Grid, IsWalk
<1> HIDE DEF lengths
<1>2. IsWalk(base, side, r, lengths, path)
  BY WalkExists
<1> HIDE DEF path
<1>3. \A p \in Grid(r) : path[p] = LcsWalk(base, side, r, lengths, path, p)
  BY <1>2 DEF IsWalk
<1> DEFINE D == Grid(r)
           size == [p \in D |-> (r.be - p[1]) + (r.se - p[2])]
           T == {p \in D : Matching(base, side, Rest(r, p), path[p])}
<1>4. /\ r.bs \in Nat /\ r.be \in Nat /\ r.ss \in Nat /\ r.se \in Nat
      /\ \A p \in D : /\ p[1] \in Nat /\ p[2] \in Nat /\ p[1] <= r.be /\ p[2] <= r.se
  BY DEF Ranges, Grid
<1>5. size \in [D -> Nat] /\ \A p \in D : size[p] = (r.be - p[1]) + (r.se - p[2])
  <2>1. \A p \in D : (r.be - p[1]) + (r.se - p[2]) \in Nat
    BY <1>4
  <2> HIDE DEF D
  <2> QED
    BY <2>1
<1>6. ASSUME NEW p \in D, \A q \in D : size[q] < size[p] => q \in T PROVE p \in T
  <2>1. ASSUME NEW q \in D, p[1] + p[2] < q[1] + q[2]
        PROVE  Matching(base, side, Rest(r, q), path[q])
    <3>1. size[q] = (r.be - q[1]) + (r.se - q[2]) /\ size[p] = (r.be - p[1]) + (r.se - p[2])
      BY <1>5
    <3>2. p[1] \in Nat /\ p[2] \in Nat /\ q[1] \in Nat /\ q[2] \in Nat
      BY <1>4
    <3> HIDE DEF size, D
    <3>3. size[q] < size[p]
      BY <1>4, <2>1, <3>1, <3>2
    <3> QED
      BY <1>6, <3>3
  <2>2. Matching(base, side, Rest(r, p), LcsWalk(base, side, r, lengths, path, p))
    BY <2>1, WalkMatches
  <2> QED
    BY <1>3, <2>2
<1> HIDE DEF size, T
<1>7. \A p \in D : p \in T
  <2> HIDE DEF D
  <2> QED
    BY <1>5, <1>6, SmallerFirst
<1>8. <<r.bs, r.ss>> \in D
  BY <1>4 DEF Grid
<1>9. Matching(base, side, Rest(r, <<r.bs, r.ss>>), path[<<r.bs, r.ss>>])
  BY <1>7, <1>8 DEF T
<1>10. Rest(r, <<r.bs, r.ss>>) = r
  BY DEF Rest, Stretch, Ranges
<1> QED
  BY <1>1, <1>9, <1>10, NoMatches

-----------------------------------------------------------------------------
(* The stretches between anchors.                                          *)

(* The places before, between and after the anchors.                       *)
Ends(r, anchors) == <<<<r.bs - 1, r.ss - 1>>>> \o anchors \o <<<<r.be, r.se>>>>
Gap(ends, k) == Stretch(ends[k][1] + 1, ends[k + 1][1], ends[k][2] + 1, ends[k + 1][2])

(* The places increase.                                                    *)
LEMMA EndsAre ==
    ASSUME NEW r \in Ranges, NEW m \in Seq(Nat \X Nat)
    PROVE  LET ends == Ends(r, m)
           IN /\ Len(ends) = Len(m) + 2
              /\ ends[1] = <<r.bs - 1, r.ss - 1>>
              /\ \A k \in 1..Len(m) : ends[k + 1] = m[k]
              /\ ends[Len(m) + 2] = <<r.be, r.se>>
<1> DEFINE P == Int \X Int
           a == <<<<r.bs - 1, r.ss - 1>>>>
           z == <<<<r.be, r.se>>>>
           n == Len(m)
<1>1. /\ r.bs \in Nat /\ r.be \in Nat /\ r.ss \in Nat /\ r.se \in Nat
  BY DEF Ranges
<1>2. /\ a \in Seq(P) /\ Len(a) = 1 /\ a[1] = <<r.bs - 1, r.ss - 1>>
      /\ z \in Seq(P) /\ Len(z) = 1 /\ z[1] = <<r.be, r.se>>
  BY <1>1
<1>3. m \in Seq(P) /\ n \in Nat
  <2>1. Nat \X Nat \subseteq P
    OBVIOUS
  <2>2. n \in Nat /\ \A k \in 1..n : m[k] \in Nat \X Nat
    BY LenProperties, ElementOfSeq
  <2>3. m = [k \in 1..n |-> m[k]]
    BY LenProperties
  <2> HIDE DEF n, P
  <2>4. m \in [1..n -> P]
    BY <2>1, <2>2, <2>3
  <2> QED
    BY <2>2, <2>4, SeqDef
<1> HIDE DEF P, a, z
<1>4. /\ a \o m \in Seq(P) /\ Len(a \o m) = 1 + n
      /\ \A i \in 1..(1 + n) : (a \o m)[i] = IF i <= 1 THEN a[i] ELSE m[i - 1]
  <2> HIDE DEF n
  <2>1. /\ a \o m \in Seq(P) /\ Len(a \o m) = Len(a) + Len(m)
        /\ \A i \in 1..(Len(a) + Len(m)) : (a \o m)[i] = IF i <= Len(a) THEN a[i] ELSE m[i - Len(a)]
    BY <1>2, <1>3, ConcatProperties
  <2> QED
    BY <1>2, <2>1 DEF n
<1> DEFINE am == a \o m
<1>5. /\ Len(am \o z) = (1 + n) + 1
      /\ \A i \in 1..((1 + n) + 1) : (am \o z)[i] = IF i <= 1 + n THEN am[i] ELSE z[i - (1 + n)]
  <2> HIDE DEF n, am
  <2>1. am \in Seq(P) /\ Len(am) = 1 + n
    BY <1>4 DEF am
  <2>2. /\ Len(am \o z) = Len(am) + Len(z)
        /\ \A i \in 1..(Len(am) + Len(z)) : (am \o z)[i] = IF i <= Len(am) THEN am[i] ELSE z[i - Len(am)]
    BY <1>2, <2>1, ConcatProperties
  <2> QED
    BY <1>2, <2>1, <2>2
<1>6. Ends(r, m) = am \o z
  BY DEF Ends, a, z
<1> DEFINE ends == Ends(r, m)
<1> HIDE DEF n, am, ends
<1>7. /\ Len(ends) = n + 2
      /\ \A i \in 1..(n + 2) : ends[i] = IF i <= 1 + n THEN (IF i <= 1 THEN a[i] ELSE m[i - 1])
                                         ELSE z[i - (1 + n)]
  <2>1. (1 + n) + 1 = n + 2 /\ \A i \in 1..(n + 2) : i <= 1 + n => i \in 1..(1 + n)
    BY <1>3
  <2> QED
    BY <1>4, <1>5, <1>6, <2>1 DEF am, ends
<1>8. ends[1] = <<r.bs - 1, r.ss - 1>>
  <2>1. 1 \in 1..(n + 2) /\ 1 <= 1 + n /\ 1 <= 1
    BY <1>3
  <2> QED
    BY <1>2, <1>7, <2>1
<1>9. \A k \in 1..n : ends[k + 1] = m[k]
  <2> TAKE k \in 1..n
  <2>1. k + 1 \in 1..(n + 2) /\ k + 1 <= 1 + n /\ ~(k + 1 <= 1) /\ (k + 1) - 1 = k
    BY <1>3
  <2> QED
    BY <1>7, <2>1
<1>10. ends[n + 2] = <<r.be, r.se>>
  <2>1. n + 2 \in 1..(n + 2) /\ ~(n + 2 <= 1 + n) /\ (n + 2) - (1 + n) = 1
    BY <1>3
  <2> QED
    BY <1>2, <1>7, <2>1
<1> QED
  BY <1>7, <1>8, <1>9, <1>10 DEF n, ends

(* The stretches between them lie inside the stretch and follow each       *)
(* other.                                                                  *)
LEMMA GapsInside ==
    ASSUME NEW base, NEW side, NEW r \in Ranges, r.bs <= r.be, r.ss <= r.se,
           NEW m, Matching(base, side, r, m), NEW k \in 1..(Len(m) + 1)
    PROVE  LET q == Gap(Ends(r, m), k)
           IN /\ q \in Ranges /\ q.bs <= q.be /\ q.ss <= q.se /\ Inside(q, r)
              /\ m # <<>> => q.be - q.bs < r.be - r.bs
              /\ k <= Len(m) => q.be = m[k][1] /\ q.se = m[k][2]
              /\ k = Len(m) + 1 => q.be = r.be /\ q.se = r.se
              /\ k = 1 => q.bs = r.bs /\ q.ss = r.ss
              /\ k # 1 => q.bs = m[k - 1][1] + 1 /\ q.ss = m[k - 1][2] + 1
<1> DEFINE n == Len(m)
           ends == Ends(r, m)
           q == Gap(ends, k)
<1>1. /\ r.bs \in Nat /\ r.be \in Nat /\ r.ss \in Nat /\ r.se \in Nat
  BY DEF Ranges
<1>2. /\ m \in Seq(Nat \X Nat) /\ n \in Nat
      /\ \A i \in 1..n : /\ m[i][1] \in Nat /\ m[i][2] \in Nat
                         /\ r.bs <= m[i][1] /\ m[i][1] < r.be
                         /\ r.ss <= m[i][2] /\ m[i][2] < r.se
      /\ \A i, j \in 1..n : i < j => m[i][1] < m[j][1] /\ m[i][2] < m[j][2]
  <2>1. m \in Seq(Nat \X Nat)
    BY DEF Matching
  <2>2. n \in Nat /\ \A i \in 1..n : m[i] \in Nat \X Nat
    BY <2>1, LenProperties, ElementOfSeq
  <2> QED
    BY <2>1, <2>2 DEF Matching
<1>3. /\ ends[1] = <<r.bs - 1, r.ss - 1>>
      /\ \A i \in 1..n : ends[i + 1] = m[i]
      /\ ends[n + 2] = <<r.be, r.se>>
  BY <1>2, EndsAre
<1> HIDE DEF n, ends
<1>4. m # <<>> => n # 0
  BY <1>2, EmptySeq DEF n
<1>5. /\ k \in 1..(n + 1) /\ k \in Nat
  BY <1>2 DEF n
<1> DEFINE u == IF k = 1 THEN r.bs ELSE m[k - 1][1] + 1
           v == IF k = 1 THEN r.ss ELSE m[k - 1][2] + 1
           x == IF k = n + 1 THEN r.be ELSE m[k][1]
           y == IF k = n + 1 THEN r.se ELSE m[k][2]
<1>6. ends[k][1] + 1 = u /\ ends[k][2] + 1 = v
  <2>1. CASE k = 1
    BY <1>1, <1>3, <2>1
  <2>2. CASE k # 1
    <3>1. k - 1 \in 1..n /\ (k - 1) + 1 = k
      BY <1>2, <1>5, <2>2
    <3> QED
      BY <1>3, <2>2, <3>1
  <2> QED
    BY <2>1, <2>2
<1>7. ends[k + 1][1] = x /\ ends[k + 1][2] = y
  <2>1. CASE k = n + 1
    <3>1. k + 1 = n + 2
      BY <1>2, <2>1
    <3> QED
      BY <1>3, <2>1, <3>1
  <2>2. CASE k # n + 1
    <3>1. k \in 1..n
      BY <1>2, <1>5, <2>2
    <3> QED
      BY <1>3, <2>2, <3>1
  <2> QED
    BY <2>1, <2>2
<1>8. q = Stretch(u, x, v, y)
  BY <1>6, <1>7 DEF Gap
<1>9. /\ u \in Nat /\ r.bs <= u /\ v \in Nat /\ r.ss <= v
      /\ k # 1 => k - 1 \in 1..n /\ r.bs < u
  <2>1. CASE k = 1
    BY <1>1, <2>1
  <2>2. CASE k # 1
    <3>1. k - 1 \in 1..n
      BY <1>2, <1>5, <2>2
    <3> DEFINE i == m[k - 1][1]
               j == m[k - 1][2]
    <3>2. i \in Nat /\ r.bs <= i /\ j \in Nat /\ r.ss <= j
      BY <1>2, <3>1
    <3> HIDE DEF i, j
    <3>3. u = i + 1 /\ v = j + 1
      BY <2>2 DEF i, j
    <3> HIDE DEF u, v
    <3> QED
      BY <1>1, <3>1, <3>2, <3>3
  <2> QED
    BY <2>1, <2>2
<1>10. /\ x \in Nat /\ x <= r.be /\ y \in Nat /\ y <= r.se
       /\ k # n + 1 => k \in 1..n /\ x < r.be
  <2>1. CASE k = n + 1
    BY <1>1, <2>1
  <2>2. CASE k # n + 1
    <3>1. k \in 1..n
      BY <1>2, <1>5, <2>2
    <3> DEFINE i == m[k][1]
               j == m[k][2]
    <3>2. i \in Nat /\ i < r.be /\ j \in Nat /\ j < r.se
      BY <1>2, <3>1
    <3> HIDE DEF i, j
    <3>3. x = i /\ y = j
      BY <2>2 DEF i, j
    <3> HIDE DEF x, y
    <3> QED
      BY <1>1, <3>1, <3>2, <3>3
  <2> QED
    BY <2>1, <2>2
<1>110. \A i, j \in Nat : i < j => i + 1 <= j
  OBVIOUS
<1>11. u <= x /\ v <= y
  <2>1. CASE k = 1 /\ k = n + 1
    BY <2>1
  <2>2. CASE k = 1 /\ k # n + 1
    <3>1. k \in 1..n
      BY <1>10, <2>2
    <3> QED
      BY <1>2, <2>2, <3>1
  <2>3. CASE k # 1 /\ k = n + 1
    <3>1. k - 1 \in 1..n
      BY <1>9, <2>3
    <3>2. /\ m[k - 1][1] \in Nat /\ m[k - 1][2] \in Nat
          /\ m[k - 1][1] < r.be /\ m[k - 1][2] < r.se
      BY <1>2, <3>1
    <3>3. m[k - 1][1] + 1 <= r.be /\ m[k - 1][2] + 1 <= r.se
      BY <1>1, <1>110, <3>2
    <3> QED
      BY <2>3, <3>3
  <2>4. CASE k # 1 /\ k # n + 1
    <3>1. k - 1 \in 1..n /\ k \in 1..n /\ k - 1 < k
      BY <1>5, <1>9, <1>10, <2>4
    <3>2. /\ m[k - 1][1] \in Nat /\ m[k - 1][2] \in Nat
          /\ m[k][1] \in Nat /\ m[k][2] \in Nat
      BY <1>2, <3>1
    <3>3. m[k - 1][1] < m[k][1] /\ m[k - 1][2] < m[k][2]
      BY <1>2, <3>1
    <3>4. m[k - 1][1] + 1 <= m[k][1] /\ m[k - 1][2] + 1 <= m[k][2]
      BY <1>110, <3>2, <3>3
    <3> QED
      BY <2>4, <3>4
  <2> QED
    BY <2>1, <2>2, <2>3, <2>4
<1>12. /\ k <= Len(m) => k # n + 1 /\ x = m[k][1] /\ y = m[k][2]
       /\ k = Len(m) + 1 => x = r.be /\ y = r.se
       /\ k = 1 => u = r.bs /\ v = r.ss
       /\ k # 1 => u = m[k - 1][1] + 1 /\ v = m[k - 1][2] + 1
  <2>1. k <= n => k # n + 1
    BY <1>2, <1>5
  <2> QED
    BY <2>1 DEF n
<1> HIDE DEF u, v, x, y
<1>13. n # 0 => x - u < r.be - r.bs
  <2>1. n # 0 => k # 1 \/ k # n + 1
    BY <1>2
  <2> QED
    BY <1>1, <1>9, <1>10, <2>1
<1>14. /\ q.bs = u /\ q.be = x /\ q.ss = v /\ q.se = y /\ q \in Ranges
  BY <1>8, <1>9, <1>10, StretchIs
<1>15. Inside(q, r)
  BY <1>9, <1>10, <1>14 DEF Inside
<1>16. q = Gap(Ends(r, m), k)
  BY DEF ends
<1> HIDE DEF q
<1> QED
  BY <1>4, <1>11, <1>12, <1>13, <1>14, <1>15, <1>16

(* The matches of a stretch between two places.                            *)
Pieces(m, ends, patience) ==
    [k \in DOMAIN m |-> Append(patience[Gap(ends, k)], m[k])]

(* The matches of a split stretch are its pieces, one after the other.     *)
LEMMA SplitIs ==
    ASSUME NEW r, NEW m, NEW patience
    PROVE  SplitMatches(r, m, patience) =
              FlattenSeq(Pieces(m, Ends(r, m), patience))
              \o patience[Gap(Ends(r, m), Len(m) + 1)]
  BY DEF SplitMatches, Ends, Pieces, Gap

(* Matches of a stretch and of the rest up to an anchor, with the anchor.  *)
LEMMA SplitMatched ==
    ASSUME NEW base, NEW side, NEW r \in Ranges, r.bs <= r.be, r.ss <= r.se,
           NEW m, Matching(base, side, r, m), m # <<>>, NEW patience,
           \A k \in 1..(Len(m) + 1) :
              Matching(base, side, Gap(Ends(r, m), k), patience[Gap(Ends(r, m), k)])
    PROVE  Matching(base, side, r, SplitMatches(r, m, patience))
<1> DEFINE n == Len(m)
           P == Nat \X Nat
           q(k) == Gap(Ends(r, m), k)
           pieces == Pieces(m, Ends(r, m), patience)
           upto(k) == Stretch(r.bs, m[k][1] + 1, r.ss, m[k][2] + 1)
<1>1. /\ r.bs \in Nat /\ r.be \in Nat /\ r.ss \in Nat /\ r.se \in Nat
  BY DEF Ranges
<1>2. /\ m \in Seq(P) /\ n \in Nat /\ DOMAIN m = 1..n
      /\ \A i \in 1..n : /\ m[i] \in P /\ m[i] = <<m[i][1], m[i][2]>>
                         /\ m[i][1] \in Nat /\ m[i][2] \in Nat
                         /\ r.bs <= m[i][1] /\ m[i][1] < r.be
                         /\ r.ss <= m[i][2] /\ m[i][2] < r.se
                         /\ At(base, m[i][1]) = At(side, m[i][2])
  <2>1. m \in Seq(P)
    BY DEF Matching
  <2>2. n \in Nat /\ DOMAIN m = 1..n /\ \A i \in 1..n : m[i] \in P
    <3> HIDE DEF P
    <3> QED
      BY <2>1, LenProperties, ElementOfSeq
  <2> QED
    BY <2>1, <2>2 DEF Matching
<1>3. n # 0
  BY <1>2, EmptySeq
<1>4. ASSUME NEW k \in 1..(n + 1)
      PROVE  /\ q(k) \in Ranges /\ q(k).bs <= q(k).be /\ q(k).ss <= q(k).se /\ Inside(q(k), r)
             /\ k <= n => q(k).be = m[k][1] /\ q(k).se = m[k][2]
             /\ k = n + 1 => q(k).be = r.be /\ q(k).se = r.se
             /\ k = 1 => q(k).bs = r.bs /\ q(k).ss = r.ss
             /\ k # 1 => q(k).bs = m[k - 1][1] + 1 /\ q(k).ss = m[k - 1][2] + 1
             /\ Matching(base, side, q(k), patience[q(k)])
  BY GapsInside
<1>5. ASSUME NEW k \in 1..n
      PROVE  /\ k \in 1..(n + 1) /\ upto(k) \in Ranges
             /\ upto(k).bs = r.bs /\ upto(k).be = m[k][1] + 1
             /\ upto(k).ss = r.ss /\ upto(k).se = m[k][2] + 1
  <2>1. m[k][1] \in Nat /\ m[k][2] \in Nat
    BY <1>2
  <2>2. m[k][1] + 1 \in Nat /\ m[k][2] + 1 \in Nat
    BY <2>1
  <2>3. k \in 1..(n + 1)
    BY <1>2
  <2> QED
    BY <1>1, <2>2, <2>3, StretchIs
<1> HIDE DEF q, n, upto
<1>6. ASSUME NEW k \in 1..n
      PROVE  Matching(base, side, Stretch(q(k).bs, m[k][1] + 1, q(k).ss, m[k][2] + 1),
                      Append(patience[q(k)], m[k]))
  <2> DEFINE i == m[k][1]
             j == m[k][2]
             r1 == q(k)
             r2 == Stretch(i, i + 1, j, j + 1)
             rr == Stretch(r1.bs, i + 1, r1.ss, j + 1)
  <2>1. /\ i \in Nat /\ j \in Nat /\ m[k] = <<i, j>> /\ At(base, i) = At(side, j) /\ m[k] \in P
    BY <1>2
  <2>2. /\ r1 \in Ranges /\ r1.be = i /\ r1.se = j /\ Matching(base, side, r1, patience[r1])
        /\ r1.bs <= i /\ r1.ss <= j
    <3>1. k \in 1..(n + 1) /\ k <= n
      BY <1>2
    <3> QED
      BY <1>4, <3>1
  <2> HIDE DEF i, j, r1
  <2>3. Matching(base, side, r2, <<<<i, j>>>>)
    BY <2>1, OneMatch
  <2>4. /\ r1.bs \in Nat /\ r1.ss \in Nat
        /\ r2 \in Ranges /\ r2.bs = i /\ r2.be = i + 1 /\ r2.ss = j /\ r2.se = j + 1
        /\ rr \in Ranges /\ rr.bs = r1.bs /\ rr.be = i + 1 /\ rr.ss = r1.ss /\ rr.se = j + 1
    <3>1. r1.bs \in Nat /\ r1.ss \in Nat /\ i + 1 \in Nat /\ j + 1 \in Nat
      BY <2>1, <2>2 DEF Ranges
    <3> QED
      BY <2>1, <3>1, StretchIs
  <2>5. Matching(base, side, rr, patience[r1] \o <<<<i, j>>>>)
    <3> HIDE DEF r2, rr
    <3>1. /\ rr.bs <= r1.bs /\ r1.be <= r2.bs /\ r2.be <= rr.be /\ rr.bs <= r2.bs /\ r1.be <= rr.be
          /\ rr.ss <= r1.ss /\ r1.se <= r2.ss /\ r2.se <= rr.se /\ rr.ss <= r2.ss /\ r1.se <= rr.se
      BY <2>1, <2>2, <2>4
    <3> QED
      BY <2>2, <2>3, <2>4, <3>1, JoinMatchings
  <2>6. patience[r1] \o <<<<i, j>>>> = Append(patience[r1], m[k])
    <3>1. patience[r1] \in Seq(P)
      BY <2>2 DEF Matching
    <3> HIDE DEF P
    <3> QED
      BY <2>1, <3>1, AppendIsConcat
  <2> QED
    BY <2>5, <2>6 DEF i, j, r1
<1>7. pieces \in Seq(Seq(P)) /\ Len(pieces) = n /\ \A k \in 1..n : pieces[k] = Append(patience[q(k)], m[k])
  <2>1. pieces = [k \in 1..n |-> Append(patience[q(k)], m[k])]
    BY <1>2 DEF Pieces, q
  <2>2. \A k \in 1..n : Append(patience[q(k)], m[k]) \in Seq(P)
    BY <1>6 DEF Matching
  <2> HIDE DEF pieces, P
  <2>3. pieces \in [1..n -> Seq(P)]
    BY <2>1, <2>2
  <2>4. pieces \in Seq(Seq(P))
    BY <1>2, <2>3, SeqDef
  <2> QED
    BY <1>2, <2>1, <2>4, LenProperties
<1>8. SplitMatches(r, m, patience) = FlattenSeq(pieces) \o patience[q(n + 1)]
  BY SplitIs DEF n, q
<1> HIDE DEF pieces, P
<1>9. PICK f \in [1..n -> Seq(P)] :
         /\ FlattenSeq(pieces) = f[n] /\ f[1] = pieces[1]
         /\ \A i \in 1..(n - 1) : f[i + 1] = f[i] \o pieces[i + 1]
  <2>1. pieces # <<>>
    BY <1>3, <1>7
  <2> QED
    BY <1>7, <2>1, FlattenParts, ZenonT(60)
<1> DEFINE T == {k \in Nat : k + 1 <= n => Matching(base, side, upto(k + 1), f[k + 1])}
<1>10. 0 \in T
  <2>1. 1 \in 1..n /\ 1 \in 1..(n + 1)
    BY <1>2, <1>3
  <2>2. Matching(base, side, Stretch(q(1).bs, m[1][1] + 1, q(1).ss, m[1][2] + 1), pieces[1])
    BY <1>6, <1>7, <2>1
  <2>3. q(1).bs = r.bs /\ q(1).ss = r.ss
    BY <1>4, <2>1
  <2>4. Matching(base, side, upto(1), f[1])
    BY <1>9, <2>2, <2>3 DEF upto
  <2> QED
    BY <2>4
<1>11. ASSUME NEW k \in Nat, k \in T PROVE k + 1 \in T
  <2> SUFFICES ASSUME (k + 1) + 1 <= n
               PROVE  Matching(base, side, upto((k + 1) + 1), f[(k + 1) + 1])
    OBVIOUS
  <2> DEFINE i == k + 1
             r1 == upto(i)
             r2 == Stretch(q(i + 1).bs, m[i + 1][1] + 1, q(i + 1).ss, m[i + 1][2] + 1)
             rr == upto(i + 1)
  <2>1. /\ i \in 1..n /\ i \in 1..(n - 1) /\ i + 1 \in 1..n /\ i + 1 \in 1..(n + 1) /\ i + 1 <= n
        /\ i + 1 # 1 /\ (i + 1) - 1 = i /\ k + 1 <= n
    BY <1>2
  <2>2. Matching(base, side, r1, f[i])
    BY <1>11, <2>1
  <2> HIDE DEF i, T
  <2>3. Matching(base, side, r2, pieces[i + 1])
    BY <1>6, <1>7, <2>1
  <2>4. /\ q(i + 1).bs = m[i][1] + 1 /\ q(i + 1).ss = m[i][2] + 1
        /\ q(i + 1).be = m[i + 1][1] /\ q(i + 1).se = m[i + 1][2]
        /\ q(i + 1).bs <= q(i + 1).be /\ q(i + 1).ss <= q(i + 1).se
    BY <1>4, <2>1
  <2>5. /\ m[i][1] \in Nat /\ m[i][2] \in Nat /\ m[i + 1][1] \in Nat /\ m[i + 1][2] \in Nat
        /\ r.bs <= m[i][1] /\ r.ss <= m[i][2]
    BY <1>2, <2>1
  <2>6. /\ m[i][1] + 1 \in Nat /\ m[i][2] + 1 \in Nat /\ m[i + 1][1] + 1 \in Nat /\ m[i + 1][2] + 1 \in Nat
    BY <2>5, SMTT(30)
  <2>7. /\ r1 \in Ranges /\ r1.bs = r.bs /\ r1.be = m[i][1] + 1 /\ r1.ss = r.ss /\ r1.se = m[i][2] + 1
        /\ rr \in Ranges /\ rr.bs = r.bs /\ rr.be = m[i + 1][1] + 1
        /\ rr.ss = r.ss /\ rr.se = m[i + 1][2] + 1
    BY <1>5, <2>1
  <2>8. /\ r2 \in Ranges /\ r2.bs = m[i][1] + 1 /\ r2.be = m[i + 1][1] + 1
        /\ r2.ss = m[i][2] + 1 /\ r2.se = m[i + 1][2] + 1
    BY <2>4, <2>6, StretchIs
  <2> HIDE DEF r1, r2, rr
  <2>9. /\ rr.bs <= r1.bs /\ r1.be <= r2.bs /\ r2.be <= rr.be /\ rr.bs <= r2.bs /\ r1.be <= rr.be
        /\ rr.ss <= r1.ss /\ r1.se <= r2.ss /\ r2.se <= rr.se /\ rr.ss <= r2.ss /\ r1.se <= rr.se
    <3> DEFINE a == m[i][1]
               b == m[i][2]
               c == m[i + 1][1]
               d == m[i + 1][2]
    <3>1. /\ a \in Nat /\ b \in Nat /\ c \in Nat /\ d \in Nat /\ r.bs <= a /\ r.ss <= b
          /\ a + 1 <= c /\ b + 1 <= d
      BY <2>4, <2>5
    <3>2. /\ r1.bs = r.bs /\ r1.be = a + 1 /\ r1.ss = r.ss /\ r1.se = b + 1
          /\ rr.bs = r.bs /\ rr.be = c + 1 /\ rr.ss = r.ss /\ rr.se = d + 1
          /\ r2.bs = a + 1 /\ r2.be = c + 1 /\ r2.ss = b + 1 /\ r2.se = d + 1
      BY <2>7, <2>8
    <3> HIDE DEF a, b, c, d
    <3> QED
      BY <1>1, <3>1, <3>2
  <2>10. Matching(base, side, rr, f[i] \o pieces[i + 1])
    BY <2>2, <2>3, <2>7, <2>8, <2>9, JoinMatchings
  <2>11. f[i + 1] = f[i] \o pieces[i + 1]
    BY <1>9, <2>1
  <2> QED
    BY <2>10, <2>11 DEF rr, i
<1>12. \A k \in Nat : k \in T
  <2> HIDE DEF T
  <2> QED
    BY <1>10, <1>11, Induction
<1>13. Matching(base, side, upto(n), f[n])
  <2>1. n - 1 \in Nat /\ (n - 1) + 1 = n /\ n <= n
    BY <1>2, <1>3
  <2>2. n - 1 \in T
    BY <1>12, <2>1
  <2>3. (n - 1) + 1 <= n => Matching(base, side, upto((n - 1) + 1), f[(n - 1) + 1])
    BY <2>2
  <2> QED
    BY <2>1, <2>3
<1> DEFINE r1 == upto(n)
           r2 == q(n + 1)
<1>14. /\ r1 \in Ranges /\ r1.bs = r.bs /\ r1.be = m[n][1] + 1 /\ r1.ss = r.ss /\ r1.se = m[n][2] + 1
       /\ m[n][1] \in Nat /\ m[n][2] \in Nat
       /\ m[n][1] < r.be /\ m[n][2] < r.se /\ r.bs <= m[n][1] /\ r.ss <= m[n][2]
  <2>1. n \in 1..n
    BY <1>2, <1>3
  <2> QED
    BY <1>2, <1>5, <2>1
<1>15. /\ r2 \in Ranges /\ r2.bs = m[n][1] + 1 /\ r2.ss = m[n][2] + 1 /\ r2.be = r.be /\ r2.se = r.se
       /\ Matching(base, side, r2, patience[r2])
  <2>1. n + 1 \in 1..(n + 1) /\ n + 1 # 1 /\ (n + 1) - 1 = n
    BY <1>2, <1>3
  <2> QED
    BY <1>4, <2>1
<1> HIDE DEF r1, r2, T
<1>16. /\ r.bs <= r1.bs /\ r1.be <= r2.bs /\ r2.be <= r.be /\ r.bs <= r2.bs /\ r1.be <= r.be
       /\ r.ss <= r1.ss /\ r1.se <= r2.ss /\ r2.se <= r.se /\ r.ss <= r2.ss /\ r1.se <= r.se
  <2> DEFINE a == m[n][1]
             b == m[n][2]
  <2>1. /\ a \in Nat /\ b \in Nat /\ a < r.be /\ b < r.se /\ r.bs <= a /\ r.ss <= b
        /\ r1.bs = r.bs /\ r1.be = a + 1 /\ r1.ss = r.ss /\ r1.se = b + 1
        /\ r2.bs = a + 1 /\ r2.ss = b + 1 /\ r2.be = r.be /\ r2.se = r.se
    BY <1>14, <1>15
  <2> HIDE DEF a, b
  <2> QED
    BY <1>1, <2>1
<1>17. Matching(base, side, r1, f[n]) /\ Matching(base, side, r2, patience[r2])
  BY <1>13, <1>15 DEF r1
<1>18. Matching(base, side, r, f[n] \o patience[r2])
  BY <1>14, <1>15, <1>16, <1>17, JoinMatchings
<1> QED
  BY <1>8, <1>9, <1>18 DEF r2

-----------------------------------------------------------------------------
(* Patience matching.                                                      *)

(* A stretch whose ends are not before its beginnings.                     *)
Proper(r) == r \in Ranges /\ r.bs <= r.be /\ r.ss <= r.se

(* A stretch is compared with the help of these.                           *)
Narrower(q, r) == Proper(q) /\ Inside(q, r) /\ q.be - q.bs < r.be - r.bs

(* What the common prefix leaves, and the common suffix after it.          *)
Left(base, side, r) ==
    LET n == CommonPrefix(base, side, r) IN Stretch(r.bs + n, r.be, r.ss + n, r.se)
Middle(base, side, r) ==
    LET left == Left(base, side, r)
        m == CommonSuffix(base, side, left)
    IN Stretch(left.bs, r.be - m, left.ss, r.se - m)

(* The comparison in terms of the stretches it makes.                      *)
LEMMA PatienceIs ==
    ASSUME NEW base, NEW side, NEW patience, NEW r
    PROVE  PatienceMatches(base, side, patience, r) =
              Diagonal(r.bs, r.ss, CommonPrefix(base, side, r))
              \o MiddleMatches(base, side, Middle(base, side, r),
                               UniqueLisAnchors(base, side, Middle(base, side, r)), patience)
              \o Diagonal(Middle(base, side, r).be, Middle(base, side, r).se,
                          CommonSuffix(base, side, Left(base, side, r)))
  BY DEF PatienceMatches, Middle, Left

(* What the common prefix and suffix leave.                                *)
LEMMA MiddleIs ==
    ASSUME NEW base, NEW side, NEW r, Proper(r)
    PROVE  LET n == CommonPrefix(base, side, r)
               m == CommonSuffix(base, side, Left(base, side, r))
               middle == Middle(base, side, r)
           IN /\ n \in Nat /\ m \in Nat
              /\ Proper(middle) /\ Inside(middle, r)
              /\ middle.bs = r.bs + n /\ middle.be + m = r.be
              /\ middle.ss = r.ss + n /\ middle.se + m = r.se
              /\ Matching(base, side, Stretch(r.bs, middle.bs, r.ss, middle.ss),
                          Diagonal(r.bs, r.ss, n))
              /\ Matching(base, side, Stretch(middle.be, r.be, middle.se, r.se),
                          Diagonal(middle.be, middle.se, m))
<1> DEFINE n == CommonPrefix(base, side, r)
           left == Left(base, side, r)
           m == CommonSuffix(base, side, left)
           middle == Middle(base, side, r)
<1>1. /\ r \in Ranges /\ r.bs <= r.be /\ r.ss <= r.se
      /\ r.bs \in Nat /\ r.be \in Nat /\ r.ss \in Nat /\ r.se \in Nat
  BY DEF Proper, Ranges
<1>2. /\ n \in Nat /\ r.bs + n <= r.be /\ r.ss + n <= r.se
      /\ \A k \in 0..(n - 1) : At(base, r.bs + k) = At(side, r.ss + k)
  BY <1>1, PrefixLines
<1> HIDE DEF n
<1>3. /\ left.bs = r.bs + n /\ left.be = r.be /\ left.ss = r.ss + n /\ left.se = r.se
      /\ left \in Ranges
  <2>1. left = Stretch(r.bs + n, r.be, r.ss + n, r.se)
    BY DEF Left, n
  <2>2. r.bs + n \in Nat /\ r.ss + n \in Nat
    BY <1>1, <1>2
  <2> QED
    BY <1>1, <2>1, <2>2, StretchIs
<1> HIDE DEF left
<1>4. /\ m \in Nat /\ left.bs + m <= left.be /\ left.ss + m <= left.se
      /\ \A k \in 0..(m - 1) : At(base, (left.be - m) + k) = At(side, (left.se - m) + k)
  <2>1. left.bs <= left.be /\ left.ss <= left.se
    BY <1>2, <1>3
  <2> QED
    BY <1>3, <2>1, SuffixLines
<1> HIDE DEF m
<1>5. /\ r.be - m \in Nat /\ r.se - m \in Nat /\ r.bs + n \in Nat /\ r.ss + n \in Nat
      /\ r.bs + n <= r.be - m /\ r.ss + n <= r.se - m
  BY <1>1, <1>2, <1>3, <1>4
<1>6. /\ middle.bs = r.bs + n /\ middle.be = r.be - m /\ middle.ss = r.ss + n /\ middle.se = r.se - m
      /\ middle \in Ranges
  <2>1. middle = Stretch(r.bs + n, r.be - m, r.ss + n, r.se - m)
    BY <1>3 DEF Middle, m, left
  <2> QED
    BY <1>5, <2>1, StretchIs
<1>7. Matching(base, side, Stretch(r.bs, r.bs + n, r.ss, r.ss + n), Diagonal(r.bs, r.ss, n))
  BY <1>1, <1>2, DiagonalMatches
<1>8. Matching(base, side, Stretch(r.be - m, (r.be - m) + m, r.se - m, (r.se - m) + m),
               Diagonal(r.be - m, r.se - m, m))
  BY <1>3, <1>4, <1>5, DiagonalMatches
<1>9. (r.be - m) + m = r.be /\ (r.se - m) + m = r.se
  BY <1>1, <1>4
<1> HIDE DEF middle
<1>10. Proper(middle) /\ Inside(middle, r)
  <2>1. middle.bs <= middle.be /\ middle.ss <= middle.se
    BY <1>5, <1>6
  <2>2. Inside(middle, r)
    BY <1>1, <1>2, <1>4, <1>5, <1>6 DEF Inside
  <2> QED
    BY <1>6, <2>1, <2>2 DEF Proper
<1> QED
  BY <1>2, <1>4, <1>6, <1>7, <1>8, <1>9, <1>10 DEF n, m, left, middle

(* A stretch is compared with the help of narrower ones: an anchor is      *)
(* between any two.                                                        *)
LEMMA GapsNarrower ==
    ASSUME NEW base, NEW side, NEW r, Proper(r)
    PROVE  LET middle == Middle(base, side, r)
               anchors == UniqueLisAnchors(base, side, middle)
           IN /\ Matching(base, side, middle, anchors)
              /\ anchors # <<>> =>
                    \A k \in 1..(Len(anchors) + 1) : Narrower(Gap(Ends(middle, anchors), k), r)
<1> DEFINE middle == Middle(base, side, r)
           anchors == UniqueLisAnchors(base, side, middle)
<1>1. Proper(middle) /\ Inside(middle, r)
  BY MiddleIs
<1> HIDE DEF middle
<1>2. middle \in Ranges /\ middle.bs <= middle.be /\ middle.ss <= middle.se
  BY <1>1 DEF Proper
<1>3. Matching(base, side, middle, anchors)
  BY <1>2, AnchorsMatch
<1> HIDE DEF anchors
<1>4. ASSUME anchors # <<>>, NEW k \in 1..(Len(anchors) + 1)
      PROVE  Narrower(Gap(Ends(middle, anchors), k), r)
  <2> DEFINE q == Gap(Ends(middle, anchors), k)
  <2>1. /\ q \in Ranges /\ q.bs <= q.be /\ q.ss <= q.se /\ Inside(q, middle)
        /\ q.be - q.bs < middle.be - middle.bs
    BY <1>2, <1>3, <1>4, GapsInside
  <2> HIDE DEF q
  <2>2. /\ r.bs \in Nat /\ r.be \in Nat /\ r.ss \in Nat /\ r.se \in Nat
        /\ q.bs \in Nat /\ q.be \in Nat /\ q.ss \in Nat /\ q.se \in Nat
        /\ middle.bs \in Nat /\ middle.be \in Nat /\ middle.ss \in Nat /\ middle.se \in Nat
    BY <1>2, <2>1 DEF Proper, Ranges
  <2>30. /\ r.bs <= middle.bs /\ middle.be <= r.be /\ r.ss <= middle.ss /\ middle.se <= r.se
         /\ middle.bs <= q.bs /\ q.be <= middle.be /\ middle.ss <= q.ss /\ q.se <= middle.se
    BY <1>1, <2>1 DEF Inside
  <2>31. \A x, y, z \in Nat : x <= y /\ y <= z => x <= z
    OBVIOUS
  <2>32. r.bs <= q.bs /\ q.be <= r.be /\ r.ss <= q.ss /\ q.se <= r.se
    BY <2>2, <2>30, <2>31
  <2>34. q.be - q.bs \in Nat
    BY <2>1, <2>2, SMTT(30)
  <2>35. q.be - q.bs < r.be - r.bs
    <3> DEFINE x == q.be - q.bs
    <3>1. x \in Nat /\ x < middle.be - middle.bs
      BY <2>1, <2>34
    <3> HIDE DEF x
    <3>3. \A t, a, b, c, d \in Nat : a <= c /\ d <= b /\ t < d - c => t < b - a
      OBVIOUS
    <3>2. x < r.be - r.bs
      BY <2>2, <2>30, <3>1, <3>3
    <3> QED
      BY <3>2 DEF x
  <2>3. Inside(q, r) /\ q.be - q.bs < r.be - r.bs
    BY <2>32, <2>35 DEF Inside
  <2> QED
    BY <2>1, <2>3 DEF Narrower, Proper, q
<1> QED
  BY <1>3, <1>4 DEF anchors, middle

(* A matching of a stretch, if the narrower ones are compared to           *)
(* matchings.                                                              *)
LEMMA PatienceSound ==
    ASSUME NEW base, NEW side, NEW r, Proper(r), NEW patience,
           \A q : Narrower(q, r) => Matching(base, side, q, patience[q])
    PROVE  Matching(base, side, r, PatienceMatches(base, side, patience, r))
<1> DEFINE n == CommonPrefix(base, side, r)
           m == CommonSuffix(base, side, Left(base, side, r))
           middle == Middle(base, side, r)
           anchors == UniqueLisAnchors(base, side, middle)
           inner == MiddleMatches(base, side, middle, anchors, patience)
<1>1. /\ n \in Nat /\ m \in Nat
      /\ Proper(middle) /\ Inside(middle, r)
      /\ middle.bs = r.bs + n /\ middle.be + m = r.be
      /\ middle.ss = r.ss + n /\ middle.se + m = r.se
      /\ Matching(base, side, Stretch(r.bs, middle.bs, r.ss, middle.ss), Diagonal(r.bs, r.ss, n))
      /\ Matching(base, side, Stretch(middle.be, r.be, middle.se, r.se),
                  Diagonal(middle.be, middle.se, m))
  BY MiddleIs
<1>2. /\ Matching(base, side, middle, anchors)
      /\ anchors # <<>> =>
            \A k \in 1..(Len(anchors) + 1) : Narrower(Gap(Ends(middle, anchors), k), r)
  BY GapsNarrower
<1> HIDE DEF n, m, middle, anchors
<1>3. middle \in Ranges /\ middle.bs <= middle.be /\ middle.ss <= middle.se
  BY <1>1 DEF Proper
<1>4. Matching(base, side, middle, inner)
  <2>1. CASE middle.bs = middle.be \/ middle.ss = middle.se
    BY <2>1, NoMatches DEF MiddleMatches
  <2>2. CASE ~(middle.bs = middle.be \/ middle.ss = middle.se) /\ anchors = <<>>
    BY <1>3, <2>2, LcsMatch DEF MiddleMatches
  <2>3. CASE ~(middle.bs = middle.be \/ middle.ss = middle.se) /\ anchors # <<>>
    <3>1. \A k \in 1..(Len(anchors) + 1) :
             Matching(base, side, Gap(Ends(middle, anchors), k), patience[Gap(Ends(middle, anchors), k)])
      BY <1>2, <2>3
    <3>2. Matching(base, side, middle, SplitMatches(middle, anchors, patience))
      BY <1>2, <1>3, <2>3, <3>1, SplitMatched
    <3> QED
      BY <2>3, <3>2 DEF MiddleMatches
  <2> QED
    BY <2>1, <2>2, <2>3
<1> HIDE DEF inner
<1> DEFINE r1 == Stretch(r.bs, middle.bs, r.ss, middle.ss)
           r2 == Stretch(middle.be, r.be, middle.se, r.se)
           r12 == Stretch(r.bs, middle.be, r.ss, middle.se)
<1>5. /\ r \in Ranges /\ r.bs \in Nat /\ r.be \in Nat /\ r.ss \in Nat /\ r.se \in Nat
      /\ middle.bs \in Nat /\ middle.be \in Nat /\ middle.ss \in Nat /\ middle.se \in Nat
  BY <1>3 DEF Proper, Ranges
<1>6. /\ r1 \in Ranges /\ r1.bs = r.bs /\ r1.be = middle.bs /\ r1.ss = r.ss /\ r1.se = middle.ss
      /\ r2 \in Ranges /\ r2.bs = middle.be /\ r2.be = r.be /\ r2.ss = middle.se /\ r2.se = r.se
      /\ r12 \in Ranges /\ r12.bs = r.bs /\ r12.be = middle.be /\ r12.ss = r.ss /\ r12.se = middle.se
  BY <1>5, StretchIs
<1> HIDE DEF r1, r2, r12
<1>70. r.bs <= middle.bs /\ middle.be <= r.be /\ r.ss <= middle.ss /\ middle.se <= r.se
  BY <1>1 DEF Inside
<1>7. /\ r12.bs <= r1.bs /\ r1.be <= middle.bs /\ middle.be <= r12.be /\ r12.bs <= middle.bs
      /\ r1.be <= r12.be
      /\ r12.ss <= r1.ss /\ r1.se <= middle.ss /\ middle.se <= r12.se /\ r12.ss <= middle.ss
      /\ r1.se <= r12.se
      /\ r.bs <= r12.bs /\ r12.be <= r2.bs /\ r2.be <= r.be /\ r.bs <= r2.bs /\ r12.be <= r.be
      /\ r.ss <= r12.ss /\ r12.se <= r2.ss /\ r2.se <= r.se /\ r.ss <= r2.ss /\ r12.se <= r.se
  BY <1>3, <1>5, <1>6, <1>70
<1>8. /\ Matching(base, side, r1, Diagonal(r.bs, r.ss, n))
      /\ Matching(base, side, r2, Diagonal(middle.be, middle.se, m))
  BY <1>1 DEF r1, r2
<1>9. Matching(base, side, r12, Diagonal(r.bs, r.ss, n) \o inner)
  BY <1>3, <1>4, <1>6, <1>7, <1>8, JoinMatchings
<1>10. Matching(base, side, r, (Diagonal(r.bs, r.ss, n) \o inner) \o Diagonal(middle.be, middle.se, m))
  BY <1>5, <1>6, <1>7, <1>8, <1>9, JoinMatchings
<1>11. PatienceMatches(base, side, patience, r) =
          (Diagonal(r.bs, r.ss, n) \o inner) \o Diagonal(middle.be, middle.se, m)
  BY PatienceIs DEF inner, anchors, middle, n, m
<1> QED
  BY <1>10, <1>11

(* The stretches of two versions.                                          *)
LEMMA StretchesAre ==
    ASSUME NEW n \in Nat, NEW m \in Nat, NEW r \in Stretches(n, m)
    PROVE  /\ Proper(r)
           /\ \A q : Narrower(q, r) => q \in Stretches(n, m)
<1>1. /\ r \in [bs: 0..n, be: 0..n, ss: 0..m, se: 0..m] /\ r.bs <= r.be /\ r.ss <= r.se
  BY DEF Stretches
<1>2. /\ r.bs \in 0..n /\ r.be \in 0..n /\ r.ss \in 0..m /\ r.se \in 0..m
      /\ r = [bs |-> r.bs, be |-> r.be, ss |-> r.ss, se |-> r.se]
  BY <1>1
<1>3. r \in Ranges
  <2>1. r.bs \in Nat /\ r.be \in Nat /\ r.ss \in Nat /\ r.se \in Nat
    BY <1>2
  <2> QED
    BY <1>2, <2>1 DEF Ranges
<1>4. ASSUME NEW q, Narrower(q, r) PROVE q \in Stretches(n, m)
  <2>1. q \in Ranges /\ q.bs <= q.be /\ q.ss <= q.se /\ Inside(q, r)
    BY <1>4 DEF Narrower, Proper
  <2>2. /\ q.bs \in Nat /\ q.be \in Nat /\ q.ss \in Nat /\ q.se \in Nat
        /\ q = [bs |-> q.bs, be |-> q.be, ss |-> q.ss, se |-> q.se]
    BY <2>1 DEF Ranges
  <2>3. q.be <= r.be /\ q.se <= r.se
    BY <2>1 DEF Inside
  <2>4. \A x, y, z, k \in Nat : x <= y /\ y <= z /\ z <= k => x \in 0..k /\ y \in 0..k
    OBVIOUS
  <2>5. r.be \in Nat /\ r.be <= n /\ r.se \in Nat /\ r.se <= m
    BY <1>2
  <2>6. q.bs \in 0..n /\ q.be \in 0..n /\ q.ss \in 0..m /\ q.se \in 0..m
    BY <2>1, <2>2, <2>3, <2>4, <2>5
  <2> QED
    BY <2>1, <2>2, <2>6 DEF Stretches
<1> QED
  BY <1>1, <1>3, <1>4 DEF Proper

(* The comparison is defined by its values for narrower stretches, so      *)
(* there is one.                                                           *)
LEMMA SplitTyped ==
    ASSUME NEW P, NEW r, NEW m \in Seq(P), NEW patience,
           \A k \in 1..(Len(m) + 1) : patience[Gap(Ends(r, m), k)] \in Seq(P)
    PROVE  SplitMatches(r, m, patience) \in Seq(P)
<1> DEFINE n == Len(m)
           q(k) == Gap(Ends(r, m), k)
           pieces == Pieces(m, Ends(r, m), patience)
<1>1. n \in Nat /\ DOMAIN m = 1..n /\ \A k \in 1..n : m[k] \in P
  BY LenProperties, ElementOfSeq
<1>2. \A k \in 1..(n + 1) : patience[q(k)] \in Seq(P)
  OBVIOUS
<1>3. n + 1 \in 1..(n + 1) /\ \A k \in 1..n : k \in 1..(n + 1)
  BY <1>1
<1>4. pieces = [k \in 1..n |-> Append(patience[q(k)], m[k])]
  BY <1>1 DEF Pieces
<1> HIDE DEF pieces, n, q
<1>5. \A k \in 1..n : Append(patience[q(k)], m[k]) \in Seq(P)
  BY <1>1, <1>2, <1>3, AppendProperties
<1>6. pieces \in Seq(Seq(P))
  <2>1. pieces \in [1..n -> Seq(P)]
    BY <1>4, <1>5
  <2> QED
    BY <1>1, <2>1, SeqDef
<1>7. FlattenSeq(pieces) \in Seq(P)
  <2>1. <<>> \in Seq(P)
    BY EmptySeq
  <2> QED
    BY <1>6, <2>1, FlattenCons
<1>8. patience[q(n + 1)] \in Seq(P)
  BY <1>2, <1>3
<1>9. SplitMatches(r, m, patience) = FlattenSeq(pieces) \o patience[q(n + 1)]
  BY SplitIs DEF pieces, n, q
<1> QED
  BY <1>7, <1>8, <1>9, ConcatProperties

LEMMA SplitSame ==
    ASSUME NEW r, NEW m \in Seq(Nat \X Nat), NEW g, NEW h,
           \A k \in 1..(Len(m) + 1) : g[Gap(Ends(r, m), k)] = h[Gap(Ends(r, m), k)]
    PROVE  SplitMatches(r, m, g) = SplitMatches(r, m, h)
<1> DEFINE n == Len(m)
           q(k) == Gap(Ends(r, m), k)
<1>1. n \in Nat /\ DOMAIN m = 1..n
  BY LenProperties
<1>2. \A k \in 1..(n + 1) : g[q(k)] = h[q(k)]
  OBVIOUS
<1>3. n + 1 \in 1..(n + 1) /\ \A k \in 1..n : k \in 1..(n + 1)
  BY <1>1
<1> HIDE DEF n, q
<1>4. Pieces(m, Ends(r, m), g) = Pieces(m, Ends(r, m), h)
  <2>1. /\ Pieces(m, Ends(r, m), g) = [k \in 1..n |-> Append(g[q(k)], m[k])]
        /\ Pieces(m, Ends(r, m), h) = [k \in 1..n |-> Append(h[q(k)], m[k])]
    BY <1>1 DEF Pieces, q
  <2>2. \A k \in 1..n : Append(g[q(k)], m[k]) = Append(h[q(k)], m[k])
    BY <1>2, <1>3
  <2> QED
    BY <2>1, <2>2
<1>5. g[q(n + 1)] = h[q(n + 1)]
  BY <1>2, <1>3
<1> QED
  BY <1>4, <1>5, SplitIs DEF n, q

LEMMA PatienceTyped ==
    ASSUME NEW base, NEW side, NEW r, Proper(r), NEW patience,
           \A q : Narrower(q, r) => patience[q] \in Seq(Nat \X Nat)
    PROVE  PatienceMatches(base, side, patience, r) \in Seq(Nat \X Nat)
<1> DEFINE n == CommonPrefix(base, side, r)
           m == CommonSuffix(base, side, Left(base, side, r))
           middle == Middle(base, side, r)
           anchors == UniqueLisAnchors(base, side, middle)
           inner == MiddleMatches(base, side, middle, anchors, patience)
           P == Nat \X Nat
<1>1. /\ Proper(middle)
      /\ Diagonal(r.bs, r.ss, n) \in Seq(P) /\ Diagonal(middle.be, middle.se, m) \in Seq(P)
  BY MiddleIs DEF Matching
<1>2. /\ Matching(base, side, middle, anchors)
      /\ anchors # <<>> =>
            \A k \in 1..(Len(anchors) + 1) : Narrower(Gap(Ends(middle, anchors), k), r)
  BY GapsNarrower
<1> HIDE DEF n, m, middle, anchors
<1>3. middle \in Ranges /\ middle.bs <= middle.be /\ middle.ss <= middle.se
  BY <1>1 DEF Proper
<1>4. inner \in Seq(P)
  <2>1. CASE middle.bs = middle.be \/ middle.ss = middle.se
    <3>1. <<>> \in Seq(P)
      BY EmptySeq
    <3> QED
      BY <2>1, <3>1 DEF MiddleMatches
  <2>2. CASE ~(middle.bs = middle.be \/ middle.ss = middle.se) /\ anchors = <<>>
    <3>1. Matching(base, side, middle, LcsMatches(base, side, middle))
      BY <1>3, LcsMatch
    <3> QED
      BY <2>2, <3>1 DEF MiddleMatches, Matching
  <2>3. CASE ~(middle.bs = middle.be \/ middle.ss = middle.se) /\ anchors # <<>>
    <3>1. \A k \in 1..(Len(anchors) + 1) : patience[Gap(Ends(middle, anchors), k)] \in Seq(P)
      BY <1>2, <2>3
    <3>2. anchors \in Seq(P)
      BY <1>2 DEF Matching
    <3> HIDE DEF P
    <3>3. SplitMatches(middle, anchors, patience) \in Seq(P)
      BY <3>1, <3>2, SplitTyped
    <3> QED
      BY <2>3, <3>3 DEF MiddleMatches
  <2> QED
    BY <2>1, <2>2, <2>3
<1> DEFINE first == Diagonal(r.bs, r.ss, n)
           last == Diagonal(middle.be, middle.se, m)
<1>5. first \in Seq(P) /\ last \in Seq(P)
  BY <1>1
<1>6. PatienceMatches(base, side, patience, r) = (first \o inner) \o last
  BY PatienceIs DEF inner, anchors, middle, n, m
<1> HIDE DEF inner, first, last, P
<1>7. first \o inner \in Seq(P)
  BY <1>4, <1>5, ConcatProperties
<1>8. (first \o inner) \o last \in Seq(P)
  BY <1>5, <1>7, ConcatProperties
<1> QED
  BY <1>6, <1>8 DEF P

LEMMA PatienceSame ==
    ASSUME NEW base, NEW side, NEW r, Proper(r), NEW g, NEW h,
           \A q : Narrower(q, r) => g[q] = h[q]
    PROVE  PatienceMatches(base, side, g, r) = PatienceMatches(base, side, h, r)
<1> DEFINE middle == Middle(base, side, r)
           anchors == UniqueLisAnchors(base, side, middle)
<1>1. /\ anchors \in Seq(Nat \X Nat)
      /\ anchors # <<>> =>
            \A k \in 1..(Len(anchors) + 1) : Narrower(Gap(Ends(middle, anchors), k), r)
  BY GapsNarrower DEF Matching
<1> HIDE DEF middle, anchors
<1>2. MiddleMatches(base, side, middle, anchors, g) = MiddleMatches(base, side, middle, anchors, h)
  <2>1. CASE anchors = <<>>
    BY <2>1 DEF MiddleMatches
  <2>2. CASE anchors # <<>>
    <3>1. \A k \in 1..(Len(anchors) + 1) :
             g[Gap(Ends(middle, anchors), k)] = h[Gap(Ends(middle, anchors), k)]
      BY <1>1, <2>2
    <3>2. SplitMatches(middle, anchors, g) = SplitMatches(middle, anchors, h)
      BY <1>1, <3>1, SplitSame
    <3> QED
      BY <2>2, <3>2 DEF MiddleMatches
  <2> QED
    BY <2>1, <2>2
<1> QED
  BY <1>2, PatienceIs DEF middle, anchors

(* The function that MatchingPairs chooses.                                *)
IsPatience(base, side, D, patience) ==
    patience = [r \in D |-> PatienceMatches(base, side, patience, r)]

LEMMA PatienceExists ==
    ASSUME NEW base, NEW side, NEW n \in Nat, NEW m \in Nat
    PROVE  \E patience : IsPatience(base, side, Stretches(n, m), patience)
<1> DEFINE D == Stretches(n, m)
           V == Seq(Nat \X Nat)
           size == [r \in D |-> r.be - r.bs]
           step == [a \in D \X [D -> V] |-> PatienceMatches(base, side, a[2], a[1])]
<1>1. ASSUME NEW r \in D
      PROVE  /\ Proper(r) /\ r.be - r.bs \in Nat
             /\ \A q : Narrower(q, r) => q \in D /\ q.be - q.bs < r.be - r.bs
  <2>1. Proper(r) /\ \A q : Narrower(q, r) => q \in D
    BY StretchesAre
  <2>2. r.be - r.bs \in Nat
    BY <2>1 DEF Proper, Ranges
  <2> QED
    BY <2>1, <2>2 DEF Narrower
<1> HIDE DEF D
<1>2. size \in [D -> Nat] /\ \A r \in D : size[r] = r.be - r.bs
  BY <1>1
<1>3. /\ step \in [D \X [D -> V] -> V]
      /\ \A r \in D, g \in [D -> V] : step[<<r, g>>] = PatienceMatches(base, side, g, r)
  <2>1. ASSUME NEW r \in D, NEW g \in [D -> V] PROVE PatienceMatches(base, side, g, r) \in V
    <3>1. \A q : Narrower(q, r) => g[q] \in V
      BY <1>1
    <3> QED
      BY <1>1, <3>1, PatienceTyped
  <2> HIDE DEF V
  <2>2. \A a \in D \X [D -> V] : PatienceMatches(base, side, a[2], a[1]) \in V
    BY <2>1
  <2> QED
    BY <2>2
<1> HIDE DEF size, step, V
<1>4. ASSUME NEW r \in D, NEW g \in [D -> V], NEW h \in [D -> V],
             \A q \in D : size[q] < size[r] => g[q] = h[q]
      PROVE  step[<<r, g>>] = step[<<r, h>>]
  <2>1. ASSUME NEW q, Narrower(q, r) PROVE g[q] = h[q]
    <3>1. q \in D /\ q.be - q.bs < r.be - r.bs
      BY <1>1, <2>1
    <3>2. size[q] < size[r]
      BY <1>2, <3>1
    <3> QED
      BY <1>4, <3>1, <3>2
  <2>2. PatienceMatches(base, side, g, r) = PatienceMatches(base, side, h, r)
    BY <1>1, <2>1, PatienceSame
  <2> QED
    BY <1>3, <2>2
<1>5. Smaller(D, V, size, step)
  BY <1>2, <1>3, <1>4 DEF Smaller
<1>6. <<>> \in V
  BY EmptySeq DEF V
<1>7. PICK f : Computed(f, D, V, step)
  BY <1>5, <1>6, ComputedExists
<1>8. f = [r \in D |-> PatienceMatches(base, side, f, r)]
  BY <1>3, <1>7 DEF Computed
<1>9. IsPatience(base, side, D, f)
  BY <1>8 DEF IsPatience
<1> QED
  BY <1>9 DEF D

(* The pairs the comparison finds are equal lines in increasing order.     *)
LEMMA PairsMatch ==
    ASSUME NEW base, NEW side, Len(base) \in Nat, Len(side) \in Nat
    PROVE  Matching(base, side, Stretch(0, Len(base), 0, Len(side)), MatchingPairs(base, side))
<1> DEFINE n == Len(base)
           m == Len(side)
           D == Stretches(n, m)
           patience == CHOOSE patience : IsPatience(base, side, D, patience)
           size == [r \in D |-> r.be - r.bs]
           T == {r \in D : Matching(base, side, r, patience[r])}
           whole == Stretch(0, n, 0, m)
<1>1. MatchingPairs(base, side) = patience[whole]
  BY DEF MatchingPairs, IsPatience
<1>2. IsPatience(base, side, D, patience)
  BY PatienceExists
<1> HIDE DEF patience
<1>3. \A r \in D : patience[r] = PatienceMatches(base, side, patience, r)
  BY <1>2 DEF IsPatience
<1>4. ASSUME NEW r \in D
      PROVE  /\ Proper(r) /\ r.be - r.bs \in Nat
             /\ \A q : Narrower(q, r) => q \in D /\ q.be - q.bs < r.be - r.bs
  <2>1. Proper(r) /\ \A q : Narrower(q, r) => q \in D
    BY StretchesAre
  <2>2. r.be - r.bs \in Nat
    BY <2>1 DEF Proper, Ranges
  <2> QED
    BY <2>1, <2>2 DEF Narrower
<1>5. whole \in D
  <2>1. 0 \in 0..n /\ n \in 0..n /\ 0 <= n /\ 0 \in 0..m /\ m \in 0..m /\ 0 <= m
    OBVIOUS
  <2> QED
    BY <2>1 DEF Stretch, Stretches
<1> HIDE DEF D, n, m, whole
<1>6. size \in [D -> Nat] /\ \A r \in D : size[r] = r.be - r.bs
  BY <1>4
<1>7. ASSUME NEW r \in D, \A q \in D : size[q] < size[r] => q \in T PROVE r \in T
  <2>1. ASSUME NEW q, Narrower(q, r) PROVE Matching(base, side, q, patience[q])
    <3>1. q \in D /\ q.be - q.bs < r.be - r.bs
      BY <1>4, <2>1
    <3>2. size[q] < size[r]
      BY <1>6, <3>1
    <3> QED
      BY <1>7, <3>1, <3>2
  <2>2. Matching(base, side, r, PatienceMatches(base, side, patience, r))
    BY <1>4, <2>1, PatienceSound
  <2> QED
    BY <1>3, <2>2
<1> HIDE DEF size, T
<1>8. \A r \in D : r \in T
  BY <1>6, <1>7, SmallerFirst
<1>9. Matching(base, side, whole, patience[whole])
  BY <1>5, <1>8 DEF T
<1> QED
  BY <1>1, <1>9 DEF whole, n, m

-----------------------------------------------------------------------------
(* Slices, and the track of a matching: where two versions meet.           *)

(* What a slice holds.                                                     *)
LEMMA SliceIs ==
    ASSUME NEW X, NEW s \in Seq(X), NEW a \in Nat, NEW n \in Nat, a + n <= Len(s)
    PROVE  /\ Slice(s, a, a + n) \in Seq(X)
           /\ Len(Slice(s, a, a + n)) = n
           /\ \A k \in 1..n : Slice(s, a, a + n)[k] = At(s, a + k - 1)
<1>1. Len(s) \in Nat /\ \A i \in 1..Len(s) : s[i] \in X
  BY LenProperties, ElementOfSeq
<1>2. a + 1 \in Int /\ a + n \in Int /\ \A i \in (a + 1)..(a + n) : i \in 1..Len(s)
  BY <1>1
<1>3. \A i \in (a + 1)..(a + n) : s[i] \in X
  BY <1>1, <1>2
<1>4. /\ SubSeq(s, a + 1, a + n) \in Seq(X)
      /\ Len(SubSeq(s, a + 1, a + n)) =
            IF a + 1 <= a + n THEN (a + n) - (a + 1) + 1 ELSE 0
      /\ \A i \in 1..((a + n) - (a + 1) + 1) : SubSeq(s, a + 1, a + n)[i] = s[(a + 1) + i - 1]
  BY <1>2, <1>3, SubSeqProperties
<1>5. /\ (a + n) - (a + 1) + 1 = n
      /\ (IF a + 1 <= a + n THEN n ELSE 0) = n
      /\ \A k \in 1..n : (a + 1) + k - 1 = (a + k - 1) + 1
  OBVIOUS
<1> QED
  BY <1>4, <1>5 DEF Slice, At

(* n equal lines from i and from j.                                        *)
SameFrom(s, i, t, j, n) == \A k \in 0..(n - 1) : At(s, i + k) = At(t, j + k)

(* Slices of equal lines are equal, and slices that touch make one.        *)
LEMMA EqualSlices ==
    ASSUME NEW X, NEW s \in Seq(X), NEW t \in Seq(X), NEW i \in Nat, NEW j \in Nat, NEW n \in Nat,
           i + n <= Len(s), j + n <= Len(t), SameFrom(s, i, t, j, n)
    PROVE  Slice(s, i, i + n) = Slice(t, j, j + n)
<1> DEFINE x == Slice(s, i, i + n)
           y == Slice(t, j, j + n)
<1>0. x \in Seq(X) /\ Len(x) = n /\ \A k \in 1..n : x[k] = At(s, i + k - 1)
  BY SliceIs
<1>00. y \in Seq(X) /\ Len(y) = n /\ \A k \in 1..n : y[k] = At(t, j + k - 1)
  BY SliceIs
<1>1. /\ x \in Seq(X) /\ Len(x) = n /\ \A k \in 1..n : x[k] = At(s, i + k - 1)
      /\ y \in Seq(X) /\ Len(y) = n /\ \A k \in 1..n : y[k] = At(t, j + k - 1)
  BY <1>0, <1>00
<1> HIDE DEF x, y
<1>2. ASSUME NEW k \in 1..n PROVE x[k] = y[k]
  <2>1. k - 1 \in 0..(n - 1) /\ i + (k - 1) = i + k - 1 /\ j + (k - 1) = j + k - 1
    OBVIOUS
  <2>2. At(s, i + (k - 1)) = At(t, j + (k - 1))
    BY <2>1 DEF SameFrom
  <2> QED
    BY <1>1, <2>1, <2>2
<1>3. x = y
  BY <1>1, <1>2, SeqEqual
<1> QED
  BY <1>3 DEF x, y

LEMMA JoinSlices ==
    ASSUME NEW X, NEW s \in Seq(X), NEW a \in Nat, NEW b \in Nat, NEW c \in Nat,
           a <= b, b <= c, c <= Len(s)
    PROVE  Slice(s, a, b) \o Slice(s, b, c) = Slice(s, a, c)
<1>1. Len(s) \in Nat
  BY LenProperties
<1>2. /\ a + 1 \in 1..(Len(s) + 1) /\ b \in ((a + 1) - 1)..Len(s) /\ c \in b..Len(s)
  BY <1>1
<1> QED
  BY <1>2, ConcatAdjacentSubSeq DEF Slice

LEMMA SliceTyped ==
    ASSUME NEW X, NEW s \in Seq(X), NEW a \in Nat, NEW b \in Nat, a <= b, b <= Len(s)
    PROVE  Slice(s, a, b) \in Seq(X) /\ Len(Slice(s, a, b)) = b - a
<1> DEFINE n == b - a
<1>1. n \in Nat /\ a + n = b
  OBVIOUS
<1>3. n = b - a
  OBVIOUS
<1> HIDE DEF n
<1>2. Slice(s, a, a + n) \in Seq(X) /\ Len(Slice(s, a, a + n)) = n
  BY <1>1, SliceIs, ZenonT(60)
<1> QED
  BY <1>1, <1>2, <1>3

(* The places where two versions meet: before their first lines, at pairs  *)
(* of equal lines and after their last lines.                              *)
Track(base, side, e) ==
    /\ Len(e) \in Nat /\ 2 <= Len(e)
    /\ \A i \in 1..Len(e) : e[i] \in Int \X Int
    /\ e[1] = <<-1, -1>>
    /\ e[Len(e)] = <<Len(base), Len(side)>>
    /\ \A i, j \in 1..Len(e) : i < j => e[i][1] < e[j][1] /\ e[i][2] < e[j][2]
    /\ \A i \in 2..(Len(e) - 1) : At(base, e[i][1]) = At(side, e[i][2])

(* The edits are the gaps of a track.                                      *)
LEMMA EditsFollowTrack ==
    ASSUME NEW base, NEW side, Len(base) \in Nat, Len(side) \in Nat
    PROVE  \E e : Track(base, side, e) /\ EditRegions(base, side) = Gaps(side, e)
<1> DEFINE r == Stretch(0, Len(base), 0, Len(side))
           m == MatchingPairs(base, side)
           e == Ends(r, m)
           n == Len(m)
<1>1. Matching(base, side, r, m)
  BY PairsMatch
<1> HIDE DEF m
<1>2. /\ r \in Ranges /\ r.bs = 0 /\ r.be = Len(base) /\ r.ss = 0 /\ r.se = Len(side)
  BY StretchIs
<1> HIDE DEF r
<1>3. /\ m \in Seq(Nat \X Nat) /\ n \in Nat
      /\ \A i \in 1..n : /\ m[i] \in Nat \X Nat /\ m[i][1] \in Nat /\ m[i][2] \in Nat
                         /\ m[i][1] < Len(base) /\ m[i][2] < Len(side)
                         /\ At(base, m[i][1]) = At(side, m[i][2])
      /\ \A i, j \in 1..n : i < j => m[i][1] < m[j][1] /\ m[i][2] < m[j][2]
  <2>1. m \in Seq(Nat \X Nat)
    BY <1>1 DEF Matching
  <2>2. n \in Nat /\ \A i \in 1..n : m[i] \in Nat \X Nat
    BY <2>1, LenProperties, ElementOfSeq
  <2> QED
    BY <1>1, <1>2, <2>1, <2>2 DEF Matching
<1>4. /\ Len(e) = n + 2 /\ e[1] = <<r.bs - 1, r.ss - 1>>
      /\ \A k \in 1..n : e[k + 1] = m[k]
      /\ e[n + 2] = <<r.be, r.se>>
  BY <1>2, <1>3, EndsAre
<1>5. EditRegions(base, side) = Gaps(side, e)
  <2>1. <<r.bs - 1, r.ss - 1>> = <<-1, -1>> /\ <<r.be, r.se>> = <<Len(base), Len(side)>>
    BY <1>2
  <2> QED
    BY <2>1 DEF EditRegions, Ends, m
<1>6. e[1] = <<-1, -1>> /\ e[n + 2] = <<Len(base), Len(side)>>
  BY <1>2, <1>4
<1> HIDE DEF e, n
<1>7. \A i \in 1..(n + 2) : i = 1 \/ i = n + 2 \/ (i - 1 \in 1..n /\ (i - 1) + 1 = i)
  BY <1>3
<1>80. <<-1, -1>> \in Int \X Int
  OBVIOUS
<1>81. <<Len(base), Len(side)>> \in Int \X Int
  <2>1. Nat \subseteq Int
    OBVIOUS
  <2> QED
    BY <2>1
<1>8. \A i \in 1..(n + 2) : e[i] \in Int \X Int
  <2> TAKE i \in 1..(n + 2)
  <2>1. CASE i = 1
    BY <1>6, <1>80, <2>1
  <2>2. CASE i = n + 2
    BY <1>6, <1>81, <2>2
  <2>3. CASE i - 1 \in 1..n /\ (i - 1) + 1 = i
    <3>1. e[i] = m[i - 1] /\ m[i - 1] \in Nat \X Nat
      BY <1>3, <1>4, <2>3
    <3> QED
      BY <3>1
  <2> QED
    BY <1>7, <2>1, <2>2, <2>3
<1>9. ASSUME NEW i \in 1..(n + 2), NEW j \in 1..(n + 2), i < j
      PROVE  e[i][1] < e[j][1] /\ e[i][2] < e[j][2]
  <2>0. i # n + 2 /\ j # 1
    BY <1>3, <1>9
  <2>1. CASE i = 1 /\ j = n + 2
    BY <1>6, <2>1
  <2>2. CASE i = 1 /\ j # n + 2
    <3>1. j - 1 \in 1..n /\ e[j] = m[j - 1]
      BY <1>4, <1>7, <2>0, <2>2
    <3>2. m[j - 1][1] \in Nat /\ m[j - 1][2] \in Nat
      BY <1>3, <3>1
    <3>3. \A x \in Nat : -1 < x
      OBVIOUS
    <3> QED
      BY <1>6, <2>2, <3>1, <3>2, <3>3
  <2>3. CASE i # 1 /\ j = n + 2
    <3>1. i - 1 \in 1..n /\ e[i] = m[i - 1]
      BY <1>4, <1>7, <2>0, <2>3
    <3> QED
      BY <1>3, <1>6, <2>3, <3>1
  <2>4. CASE i # 1 /\ j # n + 2
    <3>1. i - 1 \in 1..n /\ e[i] = m[i - 1] /\ j - 1 \in 1..n /\ e[j] = m[j - 1]
      BY <1>4, <1>7, <2>0, <2>4
    <3>2. i - 1 < j - 1
      BY <1>3, <1>9
    <3> QED
      BY <1>3, <3>1, <3>2
  <2> QED
    BY <2>1, <2>2, <2>3, <2>4
<1>10. ASSUME NEW i \in 2..(Len(e) - 1) PROVE At(base, e[i][1]) = At(side, e[i][2])
  <2>1. i \in 1..(n + 2) /\ i # 1 /\ i # n + 2
    BY <1>3, <1>4
  <2>2. i - 1 \in 1..n /\ e[i] = m[i - 1]
    BY <1>4, <1>7, <2>1
  <2> QED
    BY <1>3, <2>2
<1>11. Track(base, side, e)
  <2>1. n + 2 \in Nat /\ 2 <= n + 2
    BY <1>3
  <2> QED
    BY <1>4, <1>6, <1>8, <1>9, <1>10, <2>1 DEF Track
<1> QED
  BY <1>5, <1>11

(* The places of a track where the versions differ up to the next place.   *)
Differ(e) == {k \in 1..(Len(e) - 1) : e[k + 1] # <<e[k][1] + 1, e[k][2] + 1>>}
(* What lies between them.                                                 *)
EditAfter(side, e, k) ==
    EditRegion(e[k][1] + 1, e[k + 1][1], Slice(side, e[k][2] + 1, e[k + 1][2]))

(* One edit for each place where the versions differ.                      *)
LEMMA GapsAre ==
    ASSUME NEW base, NEW side, NEW e, Track(base, side, e)
    PROVE  \E d : /\ Len(d) \in Nat
                  /\ \A n \in 1..Len(d) : d[n] \in Nat /\ d[n] \in Differ(e)
                  /\ \A k \in Differ(e) : \E n \in 1..Len(d) : d[n] = k
                  /\ \A i, j \in 1..Len(d) : i < j <=> d[i] < d[j]
                  /\ Gaps(side, e) = [n \in 1..Len(d) |-> EditAfter(side, e, d[n])]
<1> DEFINE S == Differ(e)
           d == InOrder(S, <)
<1>1. S \in SUBSET Nat /\ IsFiniteSet(S)
  <2>1. Len(e) - 1 \in Int
    BY DEF Track
  <2>2. IsFiniteSet(1..(Len(e) - 1))
    BY <2>1, FS_Interval
  <2>3. S \in SUBSET (1..(Len(e) - 1)) /\ 1..(Len(e) - 1) \subseteq Nat
    BY DEF Differ
  <2> HIDE DEF S
  <2> QED
    BY <2>2, <2>3, FS_Subset
<1>2. Gaps(side, e) = [n \in DOMAIN d |-> EditAfter(side, e, d[n])]
  BY DEF Gaps, Differ, EditAfter
<1> HIDE DEF S
<1>3. /\ d \in Seq(S) /\ DOMAIN d = 1..Len(d)
      /\ \A k : k \in S <=> \E n \in DOMAIN d : d[n] = k
      /\ \A i, j \in DOMAIN d : i < j <=> d[i] < d[j]
  BY <1>1, SortedNumbers
<1> HIDE DEF d
<1>4. Len(d) \in Nat /\ \A n \in 1..Len(d) : d[n] \in S
  BY <1>3, LenProperties, ElementOfSeq
<1> QED
  BY <1>1, <1>2, <1>3, <1>4 DEF S

(* Places a to b have no edits between them, and go on together.           *)
NoEdits(e, a, b) == \A k \in a..(b - 1) : k \notin Differ(e)
Together(e, a, b) ==
    \A j \in Nat : a + j <= b => e[a + j] = <<e[a][1] + j, e[a][2] + j>>

(* A track without edits goes on by one line at a time on both sides.      *)
LEMMA DiagonalRun ==
    ASSUME NEW base, NEW side, NEW e, Track(base, side, e),
           NEW a \in 1..Len(e), NEW b \in 1..Len(e),
           NoEdits(e, a, b)
    PROVE  Together(e, a, b)
<1>1. /\ Len(e) \in Nat /\ a \in Nat /\ b \in Nat /\ 1 <= a /\ b <= Len(e)
      /\ e[a] \in Int \X Int
  BY DEF Track
<1>2. e[a] = <<e[a][1], e[a][2]>> /\ e[a][1] \in Int /\ e[a][2] \in Int
  BY <1>1
<1> DEFINE x == e[a][1]
           y == e[a][2]
           T == {j \in Nat : a + j <= b => e[a + j] = <<x + j, y + j>>}
<1>3. 0 \in T
  <2>1. x + 0 = x /\ y + 0 = y /\ a + 0 = a
    BY <1>1, <1>2
  <2>2. e[a + 0] = <<x + 0, y + 0>>
    BY <1>2, <2>1
  <2> QED
    BY <2>2
<1>4. ASSUME NEW j \in Nat, j \in T PROVE j + 1 \in T
  <2> SUFFICES ASSUME a + (j + 1) <= b PROVE e[a + (j + 1)] = <<x + (j + 1), y + (j + 1)>>
    OBVIOUS
  <2> DEFINE k == a + j
  <2>1. a + j <= b /\ k \in a..(b - 1) /\ k \in 1..(Len(e) - 1) /\ a + (j + 1) = k + 1
    BY <1>1
  <2>2. e[k] = <<x + j, y + j>>
    BY <1>4, <2>1
  <2> HIDE DEF k, x, y
  <2>3. e[k + 1] = <<e[k][1] + 1, e[k][2] + 1>>
    BY <2>1 DEF NoEdits, Differ
  <2>4. e[k][1] = x + j /\ e[k][2] = y + j
    BY <2>2
  <2>5. (x + j) + 1 = x + (j + 1) /\ (y + j) + 1 = y + (j + 1)
    BY <1>2 DEF x, y
  <2> QED
    BY <2>1, <2>3, <2>4, <2>5
<1> HIDE DEF T
<1>5. \A j \in Nat : j \in T
  BY <1>3, <1>4, Induction
<1> QED
  BY <1>5 DEF T, Together

(* The slices of n lines from i and from j are the same.                   *)
SameRun(base, side, i, j, n) ==
    /\ i \in Nat /\ j \in Nat /\ i + n <= Len(base) /\ j + n <= Len(side)
    /\ Slice(base, i, i + n) = Slice(side, j, j + n)

(* Between two edits both versions have the same lines.                    *)
LEMMA SameLines ==
    ASSUME NEW X, NEW base \in Seq(X), NEW side \in Seq(X), NEW e, Track(base, side, e),
           NEW a \in 1..Len(e), NEW b \in 1..Len(e),
           NoEdits(e, a, b),
           NEW u \in {0, 1}, 2 <= a + u,
           NEW n \in Nat, a + u + n - 1 <= b, a + u + n <= Len(e)
    PROVE  SameRun(base, side, e[a][1] + u, e[a][2] + u, n)
<1> DEFINE i == e[a][1] + u
           j == e[a][2] + u
<1>1. /\ Len(e) \in Nat /\ a \in Nat /\ b \in Nat /\ 1 <= a /\ b <= Len(e) /\ a <= Len(e)
      /\ Len(base) \in Nat /\ Len(side) \in Nat /\ u \in Nat
      /\ \A k \in 1..Len(e) : e[k] \in Int \X Int
  <2>1. Len(e) \in Nat /\ \A k \in 1..Len(e) : e[k] \in Int \X Int
    BY DEF Track
  <2>2. Len(base) \in Nat /\ Len(side) \in Nat
    BY LenProperties
  <2> QED
    BY <2>1, <2>2
<1>2. \A k \in 1..Len(e) : e[k][1] \in Int /\ e[k][2] \in Int
  BY <1>1
<1>3. /\ e[1][1] = -1 /\ e[1][2] = -1
      /\ e[Len(e)][1] = Len(base) /\ e[Len(e)][2] = Len(side)
  BY DEF Track
<1>4. \A k, l \in 1..Len(e) : k < l => e[k][1] < e[l][1] /\ e[k][2] < e[l][2]
  BY DEF Track
<1>5. i \in Nat /\ j \in Nat
  <2>1. CASE a = 1
    <3>1. u = 1
      BY <2>1
    <3>2. i = -1 + 1 /\ j = -1 + 1
      BY <1>3, <2>1, <3>1
    <3> QED
      BY <3>2
  <2>2. CASE a # 1
    <3>1. 1 \in 1..Len(e) /\ 1 < a
      BY <1>1, <2>2
    <3>2. -1 < e[a][1] /\ -1 < e[a][2]
      BY <1>3, <1>4, <3>1
    <3>3. \A t \in Int : -1 < t => t + u \in Nat
      BY <1>1
    <3> QED
      BY <1>2, <3>2, <3>3
  <2> QED
    BY <2>1, <2>2
<1>60. Together(e, a, b)
  BY DiagonalRun
<1>6. \A k \in Nat : a + k <= b => e[a + k] = <<e[a][1] + k, e[a][2] + k>>
  BY <1>60 DEF Together
<1>7. ASSUME NEW k \in Nat, k < n
      PROVE  /\ a + (u + k) \in 2..(Len(e) - 1)
             /\ e[a + (u + k)][1] = i + k /\ e[a + (u + k)][2] = j + k
  <2> DEFINE v == u + k
  <2>1. v \in Nat /\ a + v <= b /\ a + v \in 2..(Len(e) - 1)
    BY <1>1, <1>7
  <2>2. e[a + v] = <<e[a][1] + v, e[a][2] + v>>
    BY <1>6, <2>1
  <2>3. e[a][1] + v = i + k /\ e[a][2] + v = j + k
    BY <1>1, <1>2
  <2> HIDE DEF i, j
  <2> QED
    BY <2>1, <2>2, <2>3
<1>8. i + n <= Len(base) /\ j + n <= Len(side)
  <2>1. CASE n = 0
    <3>1. CASE a = Len(e)
      <4>1. u = 0
        BY <1>1, <2>1, <3>1
      <4> QED
        BY <1>1, <1>3, <2>1, <3>1, <4>1
    <3>2. CASE a # Len(e)
      <4>1. a < Len(e) /\ Len(e) \in 1..Len(e)
        BY <1>1, <3>2
      <4>2. e[a][1] < Len(base) /\ e[a][2] < Len(side)
        BY <1>3, <1>4, <4>1
      <4>3. \A s, t \in Int : s < t => (s + u) + 0 <= t
        BY <1>1
      <4> QED
        BY <1>1, <1>2, <2>1, <4>2, <4>3
    <3> QED
      BY <3>1, <3>2
  <2>2. CASE n # 0
    <3> DEFINE k == n - 1
               l == a + (u + k)
    <3>1. k \in Nat /\ k < n
      BY <2>2
    <3>2. l \in 2..(Len(e) - 1) /\ e[l][1] = i + k /\ e[l][2] = j + k
      BY <1>7, <3>1
    <3> HIDE DEF k, l
    <3>30. \A z \in Nat : \A x \in 2..(z - 1) : x \in 1..z /\ z \in 1..z /\ x < z
      OBVIOUS
    <3>31. l \in 2..(Len(e) - 1) /\ Len(e) \in Nat
      BY <1>1, <3>2
    <3>3. l \in 1..Len(e) /\ Len(e) \in 1..Len(e) /\ l < Len(e)
      BY <3>30, <3>31
    <3>4. i + k < Len(base) /\ j + k < Len(side)
      BY <1>3, <1>4, <3>2, <3>3
    <3> HIDE DEF i, j
    <3> QED
      BY <1>1, <1>5, <3>4 DEF k
  <2> QED
    BY <2>1, <2>2
<1>9. ASSUME NEW k \in 0..(n - 1) PROVE At(base, i + k) = At(side, j + k)
  <2>1. k \in Nat /\ k < n
    OBVIOUS
  <2>2. /\ a + (u + k) \in 2..(Len(e) - 1)
        /\ e[a + (u + k)][1] = i + k /\ e[a + (u + k)][2] = j + k
    BY <1>7, <2>1
  <2>3. At(base, e[a + (u + k)][1]) = At(side, e[a + (u + k)][2])
    BY <2>2 DEF Track
  <2> QED
    BY <2>2, <2>3
<1> HIDE DEF i, j
<1>11. SameFrom(base, i, side, j, n)
  BY <1>9 DEF SameFrom
<1>10. Slice(base, i, i + n) = Slice(side, j, j + n)
  BY <1>5, <1>8, <1>11, EqualSlices
<1> QED
  BY <1>5, <1>8, <1>10 DEF SameRun, i, j

-----------------------------------------------------------------------------
(* The edits between two versions.                                         *)

(* The edits of a track: one after each of the places d, where it leaves   *)
(* the diagonal.                                                           *)
Along(base, side, e, d, edits) ==
    /\ Track(base, side, e)
    /\ Len(d) \in Nat
    /\ \A n \in 1..Len(d) : d[n] \in Nat /\ d[n] \in Differ(e)
    /\ \A k \in Differ(e) : \E n \in 1..Len(d) : d[n] = k
    /\ \A i, j \in 1..Len(d) : i < j <=> d[i] < d[j]
    /\ edits = [n \in 1..Len(d) |-> EditAfter(side, e, d[n])]

(* Edits that are found follow a track.                                    *)
LEMMA EditsAlong ==
    ASSUME NEW base, NEW side, Len(base) \in Nat, Len(side) \in Nat
    PROVE  \E e, d : Along(base, side, e, d, EditRegions(base, side))
<1>1. PICK e : Track(base, side, e) /\ EditRegions(base, side) = Gaps(side, e)
  BY EditsFollowTrack
<1>2. PICK d : /\ Len(d) \in Nat
               /\ \A n \in 1..Len(d) : d[n] \in Nat /\ d[n] \in Differ(e)
               /\ \A k \in Differ(e) : \E n \in 1..Len(d) : d[n] = k
               /\ \A i, j \in 1..Len(d) : i < j <=> d[i] < d[j]
               /\ Gaps(side, e) = [n \in 1..Len(d) |-> EditAfter(side, e, d[n])]
  BY <1>1, GapsAre
<1>3. Along(base, side, e, d, EditRegions(base, side))
  BY <1>1, <1>2 DEF Along
<1> QED
  BY <1>3

(* Where they begin and end, and what they put there.                      *)
LEMMA AlongIs ==
    ASSUME NEW base, NEW side, Len(base) \in Nat, Len(side) \in Nat,
           NEW e, NEW d, NEW edits, Along(base, side, e, d, edits)
    PROVE  /\ Len(edits) = Len(d) /\ Len(d) \in Nat /\ DOMAIN edits = 1..Len(d)
           /\ \A n \in 1..Len(d) :
                 /\ d[n] \in Nat /\ d[n] \in 1..Len(e) /\ d[n] + 1 \in 1..Len(e) /\ d[n] < Len(e)
                 /\ edits[n].start = e[d[n]][1] + 1 /\ edits[n].end = e[d[n] + 1][1]
                 /\ edits[n].replacement = Slice(side, e[d[n]][2] + 1, e[d[n] + 1][2])
                 /\ e[d[n]][1] + 1 \in Nat /\ e[d[n] + 1][1] \in Nat
                 /\ e[d[n]][2] + 1 \in Nat /\ e[d[n] + 1][2] \in Nat
                 /\ e[d[n]][1] + 1 <= e[d[n] + 1][1] /\ e[d[n]][2] + 1 <= e[d[n] + 1][2]
                 /\ e[d[n] + 1][1] <= Len(base) /\ e[d[n] + 1][2] <= Len(side)
<1>1. /\ Len(d) \in Nat /\ edits = [n \in 1..Len(d) |-> EditAfter(side, e, d[n])]
      /\ \A n \in 1..Len(d) : d[n] \in Nat /\ d[n] \in Differ(e)
  BY DEF Along
<1>2. /\ Len(e) \in Nat /\ 2 <= Len(e)
      /\ \A i \in 1..Len(e) : e[i] \in Int \X Int
      /\ e[1][1] = -1 /\ e[1][2] = -1
      /\ e[Len(e)][1] = Len(base) /\ e[Len(e)][2] = Len(side)
      /\ \A i, j \in 1..Len(e) : i < j => e[i][1] < e[j][1] /\ e[i][2] < e[j][2]
  BY DEF Along, Track
<1>3. Len(edits) = Len(d) /\ DOMAIN edits = 1..Len(d)
  BY <1>1
<1>4. ASSUME NEW k \in Nat, k \in 1..Len(e), k + 1 \in 1..Len(e)
      PROVE  /\ e[k][1] + 1 \in Nat /\ e[k + 1][1] \in Nat
             /\ e[k][2] + 1 \in Nat /\ e[k + 1][2] \in Nat
             /\ e[k][1] + 1 <= e[k + 1][1] /\ e[k][2] + 1 <= e[k + 1][2]
             /\ e[k + 1][1] <= Len(base) /\ e[k + 1][2] <= Len(side)
  <2>1. /\ e[k][1] \in Int /\ e[k][2] \in Int /\ e[k + 1][1] \in Int /\ e[k + 1][2] \in Int
    <3>1. e[k] \in Int \X Int /\ e[k + 1] \in Int \X Int
      BY <1>2, <1>4
    <3> QED
      BY <3>1
  <2>2. e[k][1] < e[k + 1][1] /\ e[k][2] < e[k + 1][2]
    <3>1. k < k + 1
      BY <1>4
    <3> QED
      BY <1>2, <1>4, <3>1
  <2>3. -1 <= e[k][1] /\ -1 <= e[k][2]
    <3>1. CASE k = 1
      BY <1>2, <3>1
    <3>2. CASE k # 1
      <4>1. 1 \in 1..Len(e) /\ 1 < k
        BY <1>2, <1>4, <3>2
      <4>2. -1 < e[k][1] /\ -1 < e[k][2]
        BY <1>2, <1>4, <4>1
      <4> QED
        BY <2>1, <4>2
    <3> QED
      BY <3>1, <3>2
  <2>4. e[k + 1][1] <= Len(base) /\ e[k + 1][2] <= Len(side)
    <3>1. CASE k + 1 = Len(e)
      <4>1. e[k + 1] = e[Len(e)]
        BY <3>1
      <4>2. e[k + 1][1] = Len(base) /\ e[k + 1][2] = Len(side)
        BY <4>1, <1>2
      <4> QED
        BY <4>2, <2>1
    <3>2. CASE k + 1 # Len(e)
      <4>1. Len(e) \in 1..Len(e) /\ k + 1 < Len(e)
        BY <1>2, <1>4, <3>2
      <4>2. e[k + 1][1] < Len(base) /\ e[k + 1][2] < Len(side)
        BY <1>2, <1>4, <4>1
      <4> QED
        BY <2>1, <4>2
    <3> QED
      BY <3>1, <3>2
  <2>5. \A x, y \in Int : -1 <= x /\ x < y => x + 1 \in Nat /\ y \in Nat /\ x + 1 <= y
    OBVIOUS
  <2>6. e[k][1] + 1 \in Nat /\ e[k + 1][1] \in Nat /\ e[k][1] + 1 <= e[k + 1][1]
    BY <2>1, <2>2, <2>3, <2>5
  <2>7. e[k][2] + 1 \in Nat /\ e[k + 1][2] \in Nat /\ e[k][2] + 1 <= e[k + 1][2]
    BY <2>1, <2>2, <2>3, <2>5
  <2> QED
    BY <2>4, <2>6, <2>7
<1>5. ASSUME NEW n \in 1..Len(d)
      PROVE  /\ d[n] \in Nat /\ d[n] \in 1..Len(e) /\ d[n] + 1 \in 1..Len(e) /\ d[n] < Len(e)
             /\ edits[n].start = e[d[n]][1] + 1 /\ edits[n].end = e[d[n] + 1][1]
             /\ edits[n].replacement = Slice(side, e[d[n]][2] + 1, e[d[n] + 1][2])
  <2>1. edits[n] = EditAfter(side, e, d[n])
    BY <1>1
  <2>2. d[n] \in Nat /\ d[n] \in 1..(Len(e) - 1)
    BY <1>1 DEF Differ
  <2>3. \A z \in Nat : \A x \in 1..(z - 1) : x \in 1..z /\ x + 1 \in 1..z /\ x < z
    OBVIOUS
  <2>4. d[n] \in 1..Len(e) /\ d[n] + 1 \in 1..Len(e) /\ d[n] < Len(e)
    BY <1>2, <2>2, <2>3
  <2> QED
    BY <2>1, <2>2, <2>4 DEF EditAfter, EditRegion
<1> QED
  BY <1>1, <1>3, <1>4, <1>5

(* An unchanged line is between any two.                                   *)
LEMMA AlongSeparated ==
    ASSUME NEW base, NEW side, Len(base) \in Nat, Len(side) \in Nat,
           NEW e, NEW d, NEW edits, Along(base, side, e, d, edits)
    PROVE  Separated(base, edits)
<1>1. /\ Len(d) \in Nat /\ DOMAIN edits = 1..Len(d)
      /\ \A n \in 1..Len(d) :
            /\ d[n] \in Nat /\ d[n] \in 1..Len(e) /\ d[n] + 1 \in 1..Len(e)
            /\ edits[n].start = e[d[n]][1] + 1 /\ edits[n].end = e[d[n] + 1][1]
            /\ e[d[n]][1] + 1 \in Nat /\ e[d[n] + 1][1] \in Nat
            /\ e[d[n]][1] + 1 <= e[d[n] + 1][1]
            /\ e[d[n] + 1][1] <= Len(base)
  BY AlongIs
<1>2. /\ \A i, j \in 1..Len(d) : i < j <=> d[i] < d[j]
      /\ \A i, j \in 1..Len(e) : i < j => e[i][1] < e[j][1]
      /\ \A i \in 1..Len(e) : e[i] \in Int \X Int
  BY DEF Along, Track
<1>3. ASSUME NEW n \in 1..Len(d), n > 1 PROVE edits[n - 1].end < edits[n].start
  <2>1. n - 1 \in 1..Len(d) /\ n - 1 < n
    BY <1>1, <1>3
  <2>2. d[n - 1] < d[n]
    BY <1>2, <2>1
  <2>3. /\ edits[n - 1].end = e[d[n - 1] + 1][1] /\ edits[n].start = e[d[n]][1] + 1
        /\ d[n - 1] + 1 \in 1..Len(e) /\ d[n] \in 1..Len(e) /\ d[n - 1] \in Nat /\ d[n] \in Nat
    BY <1>1, <2>1
  <2>4. \A x, y \in Nat : x < y => x + 1 = y \/ x + 1 < y
    OBVIOUS
  <2>5. d[n - 1] + 1 = d[n] \/ e[d[n - 1] + 1][1] < e[d[n]][1]
    BY <1>2, <2>2, <2>3, <2>4
  <2>6. e[d[n]][1] \in Int /\ e[d[n - 1] + 1][1] \in Int
    <3>1. e[d[n]] \in Int \X Int /\ e[d[n - 1] + 1] \in Int \X Int
      BY <1>2, <2>3
    <3> QED
      BY <3>1
  <2>7. \A x, y \in Int : x = y \/ x < y => x < y + 1
    OBVIOUS
  <2> QED
    BY <2>3, <2>5, <2>6, <2>7
<1>4. ASSUME NEW n \in 1..Len(d)
      PROVE  0 <= edits[n].start /\ edits[n].start <= edits[n].end /\ edits[n].end <= Len(base)
  <2>1. \A x \in Nat : 0 <= x
    OBVIOUS
  <2> QED
    BY <1>1, <2>1
<1> QED
  BY <1>1, <1>3, <1>4 DEF Separated

(* Where the lines after the first n - 1 edits begin.                      *)
PlaceAfter(d, n) == IF n = 1 THEN 1 ELSE d[n - 1] + 1
SkipAfter(n) == IF n = 1 THEN 1 ELSE 0
BaseAfter(e, d, n) == e[PlaceAfter(d, n)][1] + SkipAfter(n)
SideAfter(e, d, n) == e[PlaceAfter(d, n)][2] + SkipAfter(n)

(* From one edit to the next the track has no edits.                       *)
LEMMA PlaceIs ==
    ASSUME NEW base, NEW side, Len(base) \in Nat, Len(side) \in Nat,
           NEW e, NEW d, NEW edits, Along(base, side, e, d, edits),
           NEW n \in 1..(Len(d) + 1)
    PROVE  LET a == PlaceAfter(d, n)
               u == SkipAfter(n)
               b == IF n = Len(d) + 1 THEN Len(e) ELSE d[n]
           IN /\ a \in Nat /\ b \in Nat /\ u \in {0, 1} /\ 2 <= a + u
              /\ a \in 1..Len(e) /\ b \in 1..Len(e) /\ a <= b
              /\ n = 1 => a < b \/ n # Len(d) + 1
              /\ NoEdits(e, a, b)
<1> DEFINE a == PlaceAfter(d, n)
           u == SkipAfter(n)
           b == IF n = Len(d) + 1 THEN Len(e) ELSE d[n]
<1>1. /\ Len(d) \in Nat
      /\ \A i \in 1..Len(d) : /\ d[i] \in Nat /\ d[i] \in 1..Len(e) /\ d[i] + 1 \in 1..Len(e)
                              /\ d[i] < Len(e)
  BY AlongIs
<1>2. /\ Len(e) \in Nat /\ 2 <= Len(e)
      /\ \A i, j \in 1..Len(d) : i < j <=> d[i] < d[j]
      /\ \A k \in Differ(e) : \E i \in 1..Len(d) : d[i] = k
  BY DEF Along, Track
<1>3. n \in Nat /\ 1 <= n /\ n <= Len(d) + 1
  BY <1>1
<1>4. /\ a \in Nat /\ a \in 1..Len(e) /\ u \in {0, 1} /\ 2 <= a + u
      /\ n # 1 => n - 1 \in 1..Len(d) /\ a = d[n - 1] + 1
      /\ n = 1 => a = 1
  <2>1. CASE n = 1
    BY <1>2, <2>1 DEF PlaceAfter, SkipAfter
  <2>2. CASE n # 1
    <3>1. n - 1 \in 1..Len(d)
      BY <1>1, <1>3, <2>2
    <3>2. a = d[n - 1] + 1 /\ u = 0
      BY <2>2 DEF PlaceAfter, SkipAfter
    <3>3. d[n - 1] \in Nat /\ d[n - 1] + 1 \in 1..Len(e) /\ d[n - 1] \in 1..Len(e)
      BY <1>1, <3>1
    <3> HIDE DEF a, u
    <3>4. a \in Nat /\ a \in 1..Len(e) /\ 2 <= a + u
      BY <1>2, <3>2, <3>3
    <3> QED
      BY <2>2, <3>1, <3>2, <3>4
  <2> QED
    BY <2>1, <2>2
<1>5. /\ b \in Nat /\ b \in 1..Len(e)
      /\ n # Len(d) + 1 => n \in 1..Len(d) /\ b = d[n]
      /\ n = Len(d) + 1 => b = Len(e)
  <2>1. CASE n = Len(d) + 1
    BY <1>2, <2>1
  <2>2. CASE n # Len(d) + 1
    <3>0. \A z \in Nat : \A k \in 1..(z + 1) : k # z + 1 => k \in 1..z
      OBVIOUS
    <3>1. n \in 1..Len(d)
      BY <1>1, <2>2, <3>0
    <3> QED
      BY <1>1, <2>2, <3>1
  <2> QED
    BY <2>1, <2>2
<1> HIDE DEF a, b, u
<1>6. a <= b
  <2>1. CASE n = 1
    BY <1>2, <1>4, <1>5, <2>1
  <2>2. CASE n # 1 /\ n = Len(d) + 1
    BY <1>2, <1>4, <1>5, <2>2
  <2>3. CASE n # 1 /\ n # Len(d) + 1
    <3>1. n - 1 \in 1..Len(d) /\ n \in 1..Len(d) /\ n - 1 < n
      BY <1>3, <1>4, <1>5, <2>3
    <3>2. d[n - 1] < d[n] /\ d[n - 1] \in Nat /\ d[n] \in Nat
      BY <1>1, <1>2, <3>1
    <3>3. \A x, y \in Nat : x < y => x + 1 <= y
      OBVIOUS
    <3> QED
      BY <1>4, <1>5, <2>3, <3>2, <3>3
  <2> QED
    BY <2>1, <2>2, <2>3
<1>7. NoEdits(e, a, b)
  <2> SUFFICES ASSUME NEW k \in a..(b - 1), k \in Differ(e) PROVE FALSE
    BY DEF NoEdits
  <2>1. PICK i \in 1..Len(d) : d[i] = k
    BY <1>2
  <2>2. k \in Nat /\ a <= k /\ k < b
    BY <1>4, <1>5
  <2>3. ASSUME n # 1 PROVE n <= i
    <3>1. n - 1 \in 1..Len(d) /\ a = d[n - 1] + 1 /\ d[n - 1] \in Nat
      BY <1>1, <1>4, <2>3
    <3>2. d[n - 1] < d[i]
      BY <2>1, <2>2, <3>1
    <3>3. n - 1 < i
      BY <1>2, <3>1, <3>2
    <3> QED
      BY <1>3, <3>3
  <2>4. n <= i
    BY <1>3, <2>3
  <2>5. n # Len(d) + 1
    BY <1>1, <1>3, <2>4
  <2>6. n \in 1..Len(d) /\ d[i] < d[n]
    BY <1>5, <2>1, <2>2, <2>5
  <2>7. i < n
    BY <1>2, <2>6
  <2> QED
    BY <1>3, <2>4, <2>7
<1>8. n = 1 => a < b \/ n # Len(d) + 1
  BY <1>2, <1>4, <1>5
<1> QED
  BY <1>4, <1>5, <1>6, <1>7, <1>8 DEF a, b, u

(* The lines from one edit to the next are the same in both versions.      *)
LEMMA LinesBefore ==
    ASSUME NEW X, NEW base \in Seq(X), NEW side \in Seq(X),
           NEW e, NEW d, NEW edits, Along(base, side, e, d, edits),
           NEW n \in 1..(Len(d) + 1)
    PROVE  LET i == BaseAfter(e, d, n)
               j == SideAfter(e, d, n)
               x == IF n = Len(d) + 1 THEN Len(base) ELSE e[d[n]][1] + 1
               y == IF n = Len(d) + 1 THEN Len(side) ELSE e[d[n]][2] + 1
           IN /\ i \in Nat /\ j \in Nat /\ i <= x /\ j <= y
              /\ Slice(base, i, x) = Slice(side, j, y)
<1> DEFINE a == PlaceAfter(d, n)
           u == SkipAfter(n)
           b == IF n = Len(d) + 1 THEN Len(e) ELSE d[n]
           w == IF n = Len(d) + 1 THEN 0 ELSE 1
           i == BaseAfter(e, d, n)
           j == SideAfter(e, d, n)
           x == IF n = Len(d) + 1 THEN Len(base) ELSE e[d[n]][1] + 1
           y == IF n = Len(d) + 1 THEN Len(side) ELSE e[d[n]][2] + 1
           c == b - a
           m == (c - u) + w
<1>0. Len(base) \in Nat /\ Len(side) \in Nat
  BY LenProperties
<1>1. /\ a \in Nat /\ b \in Nat /\ u \in {0, 1} /\ 2 <= a + u
      /\ a \in 1..Len(e) /\ b \in 1..Len(e) /\ a <= b
      /\ n = 1 => a < b \/ n # Len(d) + 1
      /\ NoEdits(e, a, b)
  BY <1>0, PlaceIs
<1>2. /\ Track(base, side, e) /\ Len(e) \in Nat
      /\ \A k \in 1..Len(e) : e[k] \in Int \X Int
      /\ e[Len(e)][1] = Len(base) /\ e[Len(e)][2] = Len(side)
  BY DEF Along, Track
<1>3. /\ x = e[b][1] + w /\ y = e[b][2] + w /\ w \in {0, 1}
      /\ i = e[a][1] + u /\ j = e[a][2] + u
      /\ n # Len(d) + 1 => w = 1 /\ b = d[n]
      /\ n = Len(d) + 1 => w = 0 /\ b = Len(e)
      /\ n # 1 => u = 0
  <2>1. i = e[a][1] + u /\ j = e[a][2] + u /\ (n # 1 => u = 0)
    BY DEF BaseAfter, SideAfter, SkipAfter
  <2>2. CASE n = Len(d) + 1
    <3>1. x = Len(base) /\ y = Len(side) /\ b = Len(e) /\ w = 0
      BY <2>2
    <3>2. e[b][1] = Len(base) /\ e[b][2] = Len(side)
      BY <1>2, <3>1
    <3> HIDE DEF i, j, u, a, x, y, b, w
    <3> QED
      BY <1>0, <2>1, <2>2, <3>1, <3>2
  <2>3. CASE n # Len(d) + 1
    <3>1. x = e[b][1] + 1 /\ y = e[b][2] + 1 /\ b = d[n] /\ w = 1
      BY <2>3
    <3> HIDE DEF i, j, u, a, x, y, b, w
    <3> QED
      BY <2>1, <2>3, <3>1
  <2> QED
    BY <2>2, <2>3
<1>4. n # Len(d) + 1 => b < Len(e)
  <2>1. n # Len(d) + 1 => n \in 1..Len(d)
    <3>1. Len(d) \in Nat
      BY DEF Along
    <3> QED
      BY <3>1
  <2>2. \A k \in 1..Len(d) : d[k] < Len(e)
    BY <1>0, AlongIs
  <2> QED
    BY <1>3, <2>1, <2>2
<1> HIDE DEF a, b, u, w, i, j, x, y
<1>5. /\ c \in Nat /\ a + c = b /\ m \in Nat
      /\ a + u + m - 1 <= b /\ a + u + m <= Len(e) /\ u + m = c + w
  <2>1. c \in Nat /\ a + c = b
    BY <1>1
  <2>2. u <= c + w
    BY <1>1, <1>3
  <2> QED
    BY <1>1, <1>2, <1>3, <1>4, <2>1, <2>2
<1>6. e[b][1] = e[a][1] + c /\ e[b][2] = e[a][2] + c
  <2>1. Together(e, a, b)
    BY <1>1, <1>2, DiagonalRun
  <2>2. a + c <= b
    BY <1>1, <1>5
  <2>3. e[a + c] = <<e[a][1] + c, e[a][2] + c>>
    BY <1>5, <2>1, <2>2 DEF Together
  <2> HIDE DEF c
  <2> QED
    BY <1>5, <2>3
<1>7. e[a][1] \in Int /\ e[a][2] \in Int
  BY <1>1, <1>2
<1> HIDE DEF c, m
<1>8. /\ i \in Nat /\ j \in Nat
      /\ Slice(base, i, i + m) = Slice(side, j, j + m)
  <2>1. SameRun(base, side, e[a][1] + u, e[a][2] + u, m)
    BY <1>1, <1>2, <1>5, SameLines
  <2> QED
    BY <1>3, <2>1 DEF SameRun
<1>9. i + m = x /\ j + m = y
  <2> DEFINE p == e[a][1]
             q == e[a][2]
  <2>1. /\ p \in Int /\ q \in Int /\ i = p + u /\ j = q + u
        /\ x = (p + c) + w /\ y = (q + c) + w
    BY <1>3, <1>6, <1>7
  <2> HIDE DEF p, q
  <2>2. u \in Int /\ w \in Int /\ c \in Int /\ m \in Int /\ u + m = c + w
    <3>1. 0 \in Int /\ 1 \in Int /\ \A k \in Nat : k \in Int
      OBVIOUS
    <3>2. u \in Int /\ w \in Int
      BY <1>1, <1>3, <3>1
    <3> QED
      BY <1>5, <3>1, <3>2
  <2>3. (p + u) + m = (p + c) + w /\ (q + u) + m = (q + c) + w
    BY <2>1, <2>2
  <2> QED
    BY <2>1, <2>3
<1>10. i <= x /\ j <= y
  BY <1>5, <1>8, <1>9
<1> QED
  BY <1>8, <1>9, <1>10 DEF i, j, x, y

(* What Patch makes of the edits from the n-th on.                         *)
RestFrom(base, edits, rest, n) ==
    LET from == IF n = 1 THEN 0 ELSE edits[n - 1].end
    IN IF n > Len(edits) THEN Slice(base, from, Len(base))
       ELSE Slice(base, from, edits[n].start)
            \o edits[n].replacement \o rest[n + 1]
IsRest(base, edits, rest) ==
    rest = [n \in 1..(Len(edits) + 1) |-> RestFrom(base, edits, rest, n)]

(* Applying the edits gives the side, from the last edit to the first.     *)
LEMMA PatchIs ==
    ASSUME NEW base, NEW edits
    PROVE  Patch(base, edits) = (CHOOSE rest : IsRest(base, edits, rest))[1]
  BY DEF Patch, IsRest, RestFrom

LEMMA AlongRebuilds ==
    ASSUME NEW X, NEW base \in Seq(X), NEW side \in Seq(X),
           NEW e, NEW d, NEW edits, Along(base, side, e, d, edits)
    PROVE  Patch(base, edits) = side
<1> DEFINE L == Len(d)
           M == Len(side)
           tail(n) == Slice(side, SideAfter(e, d, n), M)
           f == [n \in 1..(L + 1) |-> tail(n)]
<1>0. Len(base) \in Nat /\ M \in Nat
  BY LenProperties
<1>1. /\ Len(edits) = L /\ L \in Nat
      /\ \A n \in 1..L :
            /\ d[n] \in Nat /\ d[n] + 1 \in 1..Len(e)
            /\ edits[n].start = e[d[n]][1] + 1 /\ edits[n].end = e[d[n] + 1][1]
            /\ edits[n].replacement = Slice(side, e[d[n]][2] + 1, e[d[n] + 1][2])
            /\ e[d[n]][2] + 1 \in Nat /\ e[d[n] + 1][2] \in Nat /\ e[d[n] + 1][1] \in Nat
            /\ e[d[n]][2] + 1 <= e[d[n] + 1][2]
            /\ e[d[n] + 1][2] <= M
  BY <1>0, AlongIs
<1>2. e[1][1] = -1 /\ e[1][2] = -1
  BY DEF Along, Track
<1>3. ASSUME NEW n \in 1..(L + 1)
      PROVE  BaseAfter(e, d, n) = IF n = 1 THEN 0 ELSE edits[n - 1].end
  <2>1. CASE n = 1
    BY <1>2, <2>1 DEF BaseAfter, PlaceAfter, SkipAfter
  <2>2. CASE n # 1
    <3>0. \A z \in Nat : \A k \in 1..(z + 1) : k # 1 => k - 1 \in 1..z
      OBVIOUS
    <3>1. n - 1 \in 1..L
      BY <1>1, <2>2, <3>0
    <3>2. edits[n - 1].end = e[d[n - 1] + 1][1] /\ e[d[n - 1] + 1][1] \in Nat
      BY <1>1, <3>1
    <3>3. BaseAfter(e, d, n) = e[d[n - 1] + 1][1] + 0
      BY <2>2 DEF BaseAfter, PlaceAfter, SkipAfter
    <3> QED
      BY <2>2, <3>2, <3>3
  <2> QED
    BY <2>1, <2>2
<1>4. ASSUME NEW n \in 1..L
      PROVE  /\ n \in 1..(L + 1) /\ n + 1 \in 1..(L + 1) /\ n # L + 1 /\ ~(n > Len(edits))
             /\ SideAfter(e, d, n + 1) = e[d[n] + 1][2]
  <2>1. /\ n \in 1..(L + 1) /\ n + 1 \in 1..(L + 1) /\ n # L + 1 /\ ~(n > L)
        /\ n + 1 # 1 /\ (n + 1) - 1 = n
    BY <1>1
  <2>2. SideAfter(e, d, n + 1) = e[d[n] + 1][2] + 0
    BY <2>1 DEF SideAfter, PlaceAfter, SkipAfter
  <2>3. e[d[n] + 1][2] \in Nat
    BY <1>1
  <2> QED
    BY <1>1, <2>1, <2>2, <2>3
<1>5. ASSUME NEW n \in 1..L
      PROVE  Slice(base, BaseAfter(e, d, n), edits[n].start) \o edits[n].replacement \o tail(n + 1)
             = tail(n)
  <2> DEFINE j == SideAfter(e, d, n)
             y == e[d[n]][2] + 1
             z == e[d[n] + 1][2]
  <2>1. /\ j \in Nat /\ j <= y
        /\ Slice(base, BaseAfter(e, d, n), e[d[n]][1] + 1) = Slice(side, j, y)
    <3>1. LET x == IF n = Len(d) + 1 THEN Len(base) ELSE e[d[n]][1] + 1
              v == IF n = Len(d) + 1 THEN Len(side) ELSE e[d[n]][2] + 1
          IN /\ j \in Nat /\ j <= v
             /\ Slice(base, BaseAfter(e, d, n), x) = Slice(side, j, v)
      BY <1>4, LinesBefore
    <3> QED
      BY <1>4, <3>1
  <2>2. /\ y \in Nat /\ z \in Nat /\ y <= z /\ z <= M
        /\ edits[n].start = e[d[n]][1] + 1 /\ edits[n].replacement = Slice(side, y, z)
        /\ tail(n + 1) = Slice(side, z, M)
    BY <1>1, <1>4
  <2> HIDE DEF j, y, z, tail
  <2>3. Slice(side, j, y) \o Slice(side, y, z) = Slice(side, j, z)
    BY <2>1, <2>2, JoinSlices
  <2>4. j <= z /\ M <= Len(side)
    BY <1>0, <2>1, <2>2
  <2>5. Slice(side, j, z) \o Slice(side, z, M) = Slice(side, j, M)
    BY <1>0, <2>1, <2>2, <2>4, JoinSlices, ZenonT(60)
  <2>6. Slice(base, BaseAfter(e, d, n), edits[n].start) \o edits[n].replacement \o tail(n + 1)
        = (Slice(side, j, y) \o Slice(side, y, z)) \o Slice(side, z, M)
    BY <2>1, <2>2
  <2> QED
    BY <2>3, <2>5, <2>6 DEF j, tail
<1>6. Slice(base, BaseAfter(e, d, L + 1), Len(base)) = tail(L + 1)
  <2>1. L + 1 \in 1..(L + 1)
    BY <1>1
  <2>2. LET n == L + 1
            x == IF n = Len(d) + 1 THEN Len(base) ELSE e[d[n]][1] + 1
            v == IF n = Len(d) + 1 THEN Len(side) ELSE e[d[n]][2] + 1
        IN Slice(base, BaseAfter(e, d, n), x) = Slice(side, SideAfter(e, d, n), v)
    BY <2>1, LinesBefore
  <2> QED
    BY <2>2
<1>7. tail(1) = side
  <2>1. SideAfter(e, d, 1) = 0
    BY <1>2 DEF SideAfter, PlaceAfter, SkipAfter
  <2>2. SubSeq(side, 1, M) = side
    BY SubSeqFull
  <2> QED
    BY <2>1, <2>2 DEF Slice
<1> HIDE DEF tail
<1>8. \A n \in 1..(L + 1) : n \in 1..L \/ n = L + 1
  BY <1>1
<1>9. ASSUME NEW rest, NEW n \in 1..(L + 1), n # L + 1 => rest[n + 1] = tail(n + 1)
      PROVE  RestFrom(base, edits, rest, n) = tail(n)
  <2>1. CASE n = L + 1
    <3>1. n > Len(edits)
      BY <1>1, <2>1
    <3>2. RestFrom(base, edits, rest, n) = Slice(base, BaseAfter(e, d, n), Len(base))
      BY <1>3, <3>1 DEF RestFrom
    <3> QED
      BY <1>6, <2>1, <3>2
  <2>2. CASE n # L + 1
    <3>1. n \in 1..L
      BY <1>8, <2>2
    <3>2. RestFrom(base, edits, rest, n) =
            Slice(base, BaseAfter(e, d, n), edits[n].start) \o edits[n].replacement \o rest[n + 1]
      BY <1>3, <1>4, <3>1 DEF RestFrom
    <3> QED
      BY <1>5, <1>9, <2>2, <3>1, <3>2
  <2> QED
    BY <2>1, <2>2
<1>10. IsRest(base, edits, f)
  <2>1. ASSUME NEW n \in 1..(L + 1) PROVE f[n] = RestFrom(base, edits, f, n)
    <3>1. n # L + 1 => f[n + 1] = tail(n + 1)
      <4>1. n # L + 1 => n + 1 \in 1..(L + 1)
        BY <1>4, <1>8
      <4> QED
        BY <4>1
    <3>2. f[n] = tail(n)
      OBVIOUS
    <3> HIDE DEF f
    <3> QED
      BY <1>9, <3>1, <3>2
  <2>2. f = [n \in 1..(L + 1) |-> f[n]]
    OBVIOUS
  <2> HIDE DEF f
  <2>3. f = [n \in 1..(L + 1) |-> RestFrom(base, edits, f, n)]
    BY <2>1, <2>2
  <2> QED
    BY <1>1, <2>3 DEF IsRest
<1> DEFINE rest == CHOOSE rest : IsRest(base, edits, rest)
<1>11. IsRest(base, edits, rest)
  BY <1>10
<1> HIDE DEF rest, f
<1>12. \A n \in 1..(L + 1) : rest[n] = RestFrom(base, edits, rest, n)
  BY <1>1, <1>11 DEF IsRest
<1> DEFINE D == 1..(L + 1)
           size == [n \in D |-> (L + 1) - n]
           T == {n \in D : rest[n] = tail(n)}
<1>13. size \in [D -> Nat] /\ \A n \in D : size[n] = (L + 1) - n
  BY <1>1
<1>14. ASSUME NEW n \in D, \A q \in D : size[q] < size[n] => q \in T PROVE n \in T
  <2>1. ASSUME n # L + 1 PROVE rest[n + 1] = tail(n + 1)
    <3>1. n \in Nat /\ n + 1 \in D
      BY <1>4, <1>8, <2>1
    <3>2. size[n + 1] < size[n]
      BY <1>1, <1>13, <3>1
    <3> QED
      BY <1>14, <3>1, <3>2
  <2>2. RestFrom(base, edits, rest, n) = tail(n)
    BY <1>9, <2>1
  <2> QED
    BY <1>12, <2>2
<1> HIDE DEF size, T
<1>15. \A n \in D : n \in T
  <2> HIDE DEF D
  <2> QED
    BY <1>13, <1>14, SmallerFirst
<1>16. 1 \in D
  BY <1>1
<1>17. rest[1] = tail(1)
  BY <1>15, <1>16 DEF T
<1> QED
  BY <1>7, <1>17, PatchIs DEF rest

(* The edits found between two versions turn the one into the other, and   *)
(* leave an unchanged line between any two of them.                        *)
THEOREM EditsRebuild ==
    ASSUME NEW X, NEW base \in Seq(X), NEW side \in Seq(X)
    PROVE  /\ Separated(base, EditRegions(base, side))
           /\ Patch(base, EditRegions(base, side)) = side
<1>1. Len(base) \in Nat /\ Len(side) \in Nat
  BY LenProperties
<1>2. PICK e, d : Along(base, side, e, d, EditRegions(base, side))
  BY <1>1, EditsAlong
<1> QED
  BY <1>1, <1>2, AlongSeparated, AlongRebuilds

-----------------------------------------------------------------------------
(* Lines and bytes.                                                        *)

(* A sequence that is not empty has a last element, and can be given       *)
(* another.                                                                *)
LastIs(ss, V, front, last) ==
    /\ ss = Append(front, last) /\ ss[Len(ss)] = last
    /\ \A v \in V : [ss EXCEPT ![Len(ss)] = v] = Append(front, v)

LEMMA SnocOf ==
    ASSUME NEW V, NEW ss \in Seq(V), ss # <<>>
    PROVE  \E front \in Seq(V), last \in V : LastIs(ss, V, front, last)
<1> DEFINE n == Len(ss)
           front == SubSeq(ss, 1, n - 1)
           last == ss[n]
<1>1. n \in Nat /\ n # 0 /\ DOMAIN ss = 1..n /\ \A i \in 1..n : ss[i] \in V
  BY LenProperties, EmptySeq, ElementOfSeq
<1>2. /\ front \in Seq(V) /\ Len(front) = n - 1
      /\ \A i \in 1..(n - 1) : front[i] = ss[i]
  <2>1. 1 \in Int /\ n - 1 \in Int /\ \A i \in 1..(n - 1) : ss[i] \in V
    BY <1>1
  <2>2. /\ SubSeq(ss, 1, n - 1) \in Seq(V)
        /\ Len(SubSeq(ss, 1, n - 1)) = IF 1 <= n - 1 THEN (n - 1) - 1 + 1 ELSE 0
        /\ \A i \in 1..((n - 1) - 1 + 1) : SubSeq(ss, 1, n - 1)[i] = ss[1 + i - 1]
    BY <2>1, SubSeqProperties
  <2>3. /\ (IF 1 <= n - 1 THEN (n - 1) - 1 + 1 ELSE 0) = n - 1
        /\ (n - 1) - 1 + 1 = n - 1
        /\ \A i \in 1..(n - 1) : 1 + i - 1 = i
    BY <1>1
  <2> QED
    BY <2>2, <2>3
<1>3. n \in 1..n /\ last \in V
  BY <1>1
<1> HIDE DEF n, front, last
<1>4. ASSUME NEW v \in V, NEW t \in Seq(V), Len(t) = n, t[n] = v,
             \A i \in 1..(n - 1) : t[i] = ss[i]
      PROVE  t = Append(front, v)
  <2>1. /\ Append(front, v) \in Seq(V) /\ Len(Append(front, v)) = n
        /\ \A i \in 1..(n - 1) : Append(front, v)[i] = front[i]
        /\ Append(front, v)[n] = v
    <3>1. /\ Append(front, v) \in Seq(V) /\ Len(Append(front, v)) = Len(front) + 1
          /\ \A i \in 1..Len(front) : Append(front, v)[i] = front[i]
          /\ Append(front, v)[Len(front) + 1] = v
      BY <1>2, AppendProperties
    <3>2. Len(front) + 1 = n
      BY <1>1, <1>2
    <3> QED
      BY <1>2, <3>1, <3>2
  <2>2. \A i \in 1..n : i = n \/ i \in 1..(n - 1)
    BY <1>1
  <2>3. \A i \in 1..n : t[i] = Append(front, v)[i]
    BY <1>2, <1>4, <2>1, <2>2
  <2> QED
    BY <1>4, <2>1, <2>3, SeqEqual
<1>5. ss = Append(front, last)
  BY <1>3, <1>4 DEF n, last
<1>6. ASSUME NEW v \in V PROVE [ss EXCEPT ![n] = v] = Append(front, v)
  <2> DEFINE t == [ss EXCEPT ![n] = v]
  <2>1. t \in Seq(V) /\ Len(t) = n /\ t[n] = v /\ \A i \in 1..(n - 1) : t[i] = ss[i]
    <3>1. t = [i \in 1..n |-> IF i = n THEN v ELSE ss[i]]
      BY <1>1
    <3>2. t \in [1..n -> V]
      BY <1>1, <3>1
    <3>3. \A i \in 1..(n - 1) : i \in 1..n /\ i # n
      BY <1>1
    <3>4. t[n] = v /\ \A i \in 1..(n - 1) : t[i] = ss[i]
      BY <1>3, <3>1, <3>3
    <3> HIDE DEF t
    <3>5. t \in Seq(V) /\ DOMAIN t = 1..n
      BY <1>1, <3>2, SeqDef
    <3>6. Len(t) = n
      BY <1>1, <3>5, LenProperties
    <3> QED
      BY <3>4, <3>5, <3>6
  <2> QED
    BY <1>4, <2>1
<1>7. LastIs(ss, V, front, last)
  BY <1>5, <1>6 DEF LastIs, n, last
<1> QED
  BY <1>2, <1>3, <1>7

(* A byte more to split into lines is a byte more of the lines.            *)
LEMMA ByteAdded ==
    ASSUME NEW V, NEW lines \in Seq(Seq(V)), NEW byte \in V
    PROVE  /\ AddByte(lines, byte) \in Seq(Seq(V))
           /\ FlattenSeq(AddByte(lines, byte)) = FlattenSeq(lines) \o <<byte>>
<1>1. <<byte>> \in Seq(V)
  OBVIOUS
<1>2. CASE lines = <<>> \/ Last(Last(lines)) = Newline
  <2>1. AddByte(lines, byte) = Append(lines, <<byte>>)
    BY <1>2 DEF AddByte
  <2>2. Append(lines, <<byte>>) \in Seq(Seq(V))
    BY <1>1, AppendProperties
  <2> QED
    BY <1>1, <2>1, <2>2, FlattenAppend
<1>3. CASE ~(lines = <<>> \/ Last(Last(lines)) = Newline)
  <2>0. lines # <<>>
    BY <1>3
  <2>a. PICK front \in Seq(Seq(V)), last \in Seq(V) : LastIs(lines, Seq(V), front, last)
    BY <2>0, SnocOf
  <2>1. /\ lines = Append(front, last) /\ lines[Len(lines)] = last
        /\ \A v \in Seq(V) : [lines EXCEPT ![Len(lines)] = v] = Append(front, v)
    BY <2>a DEF LastIs
  <2>2. Append(last, byte) \in Seq(V) /\ Append(last, byte) = last \o <<byte>>
    BY AppendProperties, AppendIsConcat
  <2>3. AddByte(lines, byte) = Append(front, Append(last, byte))
    <3>1. AddByte(lines, byte) = [lines EXCEPT ![Len(lines)] = Append(lines[Len(lines)], byte)]
      BY <1>3 DEF AddByte
    <3> QED
      BY <2>1, <2>2, <3>1
  <2>4. /\ FlattenSeq(front) \in Seq(V)
        /\ FlattenSeq(lines) = FlattenSeq(front) \o last
    BY <2>1, FlattenAppend
  <2>5. FlattenSeq(AddByte(lines, byte)) = FlattenSeq(front) \o (last \o <<byte>>)
    <3>1. FlattenSeq(Append(front, Append(last, byte))) = FlattenSeq(front) \o Append(last, byte)
      BY <2>2, FlattenAppend
    <3> QED
      BY <2>2, <2>3, <3>1
  <2>6. FlattenSeq(front) \o (last \o <<byte>>) = (FlattenSeq(front) \o last) \o <<byte>>
    BY <1>1, <2>4, ConcatAssociative
  <2>7. AddByte(lines, byte) \in Seq(Seq(V))
    BY <2>2, <2>3, AppendProperties
  <2> QED
    BY <2>4, <2>5, <2>6, <2>7
<1> QED
  BY <1>2, <1>3

(* The function that SplitLines chooses.                                   *)
IsSplit(bytes, lines) ==
    lines = [i \in 0..Len(bytes) |->
                IF i = 0 THEN <<>> ELSE AddByte(lines[i - 1], bytes[i])]

LEMMA SplitExists ==
    ASSUME NEW V, NEW bytes \in Seq(V)
    PROVE  \E lines : IsSplit(bytes, lines)
<1> DEFINE n == Len(bytes)
           S == Seq(Seq(V))
           step == [p \in Nat \X S |->
                      IF p[1] + 1 \in 1..n THEN AddByte(p[2], bytes[p[1] + 1]) ELSE p[2]]
<1>1. n \in Nat /\ \A i \in 1..n : bytes[i] \in V
  BY LenProperties, ElementOfSeq
<1>2. \A p \in Nat \X S :
         (IF p[1] + 1 \in 1..n THEN AddByte(p[2], bytes[p[1] + 1]) ELSE p[2]) \in S
  <2> TAKE p \in Nat \X S
  <2>1. p[2] \in S
    OBVIOUS
  <2>2. ASSUME p[1] + 1 \in 1..n PROVE AddByte(p[2], bytes[p[1] + 1]) \in S
    <3>1. bytes[p[1] + 1] \in V
      BY <1>1, <2>2
    <3> QED
      BY <2>1, <3>1, ByteAdded
  <2> QED
    BY <2>1, <2>2
<1> HIDE DEF n, S
<1>3. /\ step \in [Nat \X S -> S]
      /\ \A i \in Nat, s \in S :
            step[<<i, s>>] = IF i + 1 \in 1..n THEN AddByte(s, bytes[i + 1]) ELSE s
  BY <1>2
<1>4. <<>> \in S
  BY EmptySeq DEF S
<1> HIDE DEF step
<1>5. PICK g : Recursive(g, S, <<>>, step)
  BY <1>3, <1>4, Recursion
<1>6. /\ g \in [Nat -> S] /\ g[0] = <<>>
      /\ \A i \in Nat : g[i + 1] = step[<<i, g[i]>>]
  BY <1>5 DEF Recursive
<1> DEFINE h == [i \in 0..n |-> g[i]]
<1>7. ASSUME NEW i \in 0..n
      PROVE  h[i] = IF i = 0 THEN <<>> ELSE AddByte(h[i - 1], bytes[i])
  <2>1. CASE i = 0
    BY <1>6, <2>1
  <2>2. CASE i # 0
    <3> DEFINE k == i - 1
    <3>1. k \in Nat /\ k + 1 = i /\ i \in 1..n /\ k \in 0..n
      BY <1>1, <2>2
    <3> HIDE DEF k
    <3>2. g[k + 1] = step[<<k, g[k]>>] /\ g[k] \in S
      BY <1>6, <3>1
    <3>3. g[k + 1] = AddByte(g[k], bytes[k + 1])
      BY <1>3, <3>1, <3>2
    <3>4. h[i] = AddByte(h[k], bytes[i])
      BY <3>1, <3>3
    <3> QED
      BY <2>2, <3>4 DEF k
  <2> QED
    BY <2>1, <2>2
<1>8. h = [i \in 0..n |-> h[i]]
  OBVIOUS
<1> HIDE DEF h
<1>9. h = [i \in 0..n |-> IF i = 0 THEN <<>> ELSE AddByte(h[i - 1], bytes[i])]
  BY <1>7, <1>8
<1>10. IsSplit(bytes, h)
  BY <1>9 DEF IsSplit, n
<1> QED
  BY <1>10

(* The lines of a file are its bytes.                                      *)
LEMMA LinesOf ==
    ASSUME NEW V, NEW bytes \in Seq(V)
    PROVE  /\ SplitLines(bytes) \in Seq(Seq(V))
           /\ LinesToBytes(SplitLines(bytes)) = bytes
<1> DEFINE n == Len(bytes)
           lines == CHOOSE lines : IsSplit(bytes, lines)
           T == {i \in Nat : i <= n => /\ lines[i] \in Seq(Seq(V))
                                       /\ FlattenSeq(lines[i]) = SubSeq(bytes, 1, i)}
<1>1. n \in Nat /\ \A i \in 1..n : bytes[i] \in V
  BY LenProperties, ElementOfSeq
<1>2. SplitLines(bytes) = lines[n]
  BY DEF SplitLines, IsSplit
<1>3. IsSplit(bytes, lines)
  BY SplitExists
<1> HIDE DEF lines, n
<1>4. \A i \in 0..n : lines[i] = IF i = 0 THEN <<>> ELSE AddByte(lines[i - 1], bytes[i])
  BY <1>3 DEF IsSplit, n
<1>5. 0 \in T
  <2>1. 0 \in 0..n
    BY <1>1
  <2>2. lines[0] = <<>>
    BY <1>4, <2>1
  <2>3. SubSeq(bytes, 1, 0) = <<>>
    BY SubSeqEmpty
  <2>4. <<>> \in Seq(Seq(V))
    BY EmptySeq
  <2> QED
    BY <2>2, <2>3, <2>4, FlattenNone
<1>6. ASSUME NEW i \in Nat, i \in T PROVE i + 1 \in T
  <2> SUFFICES ASSUME i + 1 <= n
               PROVE  /\ lines[i + 1] \in Seq(Seq(V))
                      /\ FlattenSeq(lines[i + 1]) = SubSeq(bytes, 1, i + 1)
    OBVIOUS
  <2>1. /\ lines[i] \in Seq(Seq(V)) /\ FlattenSeq(lines[i]) = SubSeq(bytes, 1, i)
    BY <1>1, <1>6
  <2>2. /\ i + 1 \in 0..n /\ i + 1 # 0 /\ (i + 1) - 1 = i /\ i + 1 \in 1..n
        /\ 1 \in 1..n /\ i + 1 \in 1..n
    BY <1>1
  <2>3. lines[i + 1] = AddByte(lines[i], bytes[i + 1]) /\ bytes[i + 1] \in V
    BY <1>1, <1>4, <2>2
  <2>4. /\ AddByte(lines[i], bytes[i + 1]) \in Seq(Seq(V))
        /\ FlattenSeq(AddByte(lines[i], bytes[i + 1])) = FlattenSeq(lines[i]) \o <<bytes[i + 1]>>
    BY <2>1, <2>3, ByteAdded
  <2>5. SubSeq(bytes, 1, i + 1) = SubSeq(bytes, 1, i) \o <<bytes[i + 1]>>
    <3> DEFINE k == i + 1
    <3>1. 1 \in 1..Len(bytes) /\ k \in 1..Len(bytes) /\ k - 1 = i
      BY <2>2 DEF n
    <3> HIDE DEF k
    <3>2. SubSeq(bytes, 1, k) = SubSeq(bytes, 1, k - 1) \o <<bytes[k]>>
      BY <3>1, SubSeqRecursiveSecond
    <3> QED
      BY <3>1, <3>2 DEF k
  <2> QED
    BY <2>1, <2>3, <2>4, <2>5
<1>7. \A i \in Nat : i \in T
  <2> HIDE DEF T
  <2> QED
    BY <1>5, <1>6, Induction
<1>8. lines[n] \in Seq(Seq(V)) /\ FlattenSeq(lines[n]) = SubSeq(bytes, 1, n)
  <2>1. n \in T /\ n <= n
    BY <1>1, <1>7
  <2> QED
    BY <2>1
<1>9. SubSeq(bytes, 1, n) = bytes
  BY SubSeqFull DEF n
<1> QED
  BY <1>2, <1>8, <1>9 DEF LinesToBytes

-----------------------------------------------------------------------------
(* The edits of the two sides.                                             *)

(* A list of edits of a base with n lines.                                 *)
EditsOf(n, edits) ==
    /\ Len(edits) \in Nat /\ DOMAIN edits = 1..Len(edits)
    /\ \A i \in 1..Len(edits) :
          /\ edits[i].start \in Nat /\ edits[i].end \in Nat
          /\ edits[i].start <= edits[i].end /\ edits[i].end <= n
    /\ \A i, j \in 1..Len(edits) : i < j => edits[i].end < edits[j].start

(* The comparison of two versions finds such edits.                        *)
LEMMA EditsFound ==
    ASSUME NEW base, NEW side, Len(base) \in Nat, Len(side) \in Nat
    PROVE  EditsOf(Len(base), EditRegions(base, side))
<1> DEFINE edits == EditRegions(base, side)
<1>1. PICK e, d : Along(base, side, e, d, edits)
  BY EditsAlong
<1> HIDE DEF edits
<1>2. /\ Len(edits) = Len(d) /\ Len(d) \in Nat /\ DOMAIN edits = 1..Len(d)
      /\ \A n \in 1..Len(d) :
            /\ d[n] \in Nat /\ d[n] \in 1..Len(e) /\ d[n] + 1 \in 1..Len(e)
            /\ edits[n].start = e[d[n]][1] + 1 /\ edits[n].end = e[d[n] + 1][1]
            /\ e[d[n]][1] + 1 \in Nat /\ e[d[n] + 1][1] \in Nat
            /\ e[d[n]][1] + 1 <= e[d[n] + 1][1]
            /\ e[d[n] + 1][1] <= Len(base)
  BY <1>1, AlongIs
<1>3. /\ \A i, j \in 1..Len(d) : i < j <=> d[i] < d[j]
      /\ \A i, j \in 1..Len(e) : i < j => e[i][1] < e[j][1]
      /\ \A i \in 1..Len(e) : e[i] \in Int \X Int
  BY <1>1 DEF Along, Track
<1>4. ASSUME NEW i \in 1..Len(d), NEW j \in 1..Len(d), i < j
      PROVE  edits[i].end < edits[j].start
  <2> DEFINE k == d[i] + 1
             m == d[j]
  <2>1. d[i] < d[j] /\ d[i] \in Nat /\ d[j] \in Nat
    BY <1>2, <1>3, <1>4
  <2>2. k \in 1..Len(e) /\ m \in 1..Len(e) /\ k \in Nat /\ m \in Nat /\ k <= m
    BY <1>2, <2>1
  <2>3. edits[i].end = e[k][1] /\ edits[j].start = e[m][1] + 1
    BY <1>2
  <2> HIDE DEF k, m
  <2>4. e[k] \in Int \X Int /\ e[m] \in Int \X Int
    BY <1>3, <2>2
  <2>5. e[k][1] \in Int /\ e[m][1] \in Int
    BY <2>4
  <2>6. e[k][1] <= e[m][1]
    <3>1. CASE k = m
      BY <2>5, <3>1
    <3>2. CASE k # m
      <4>1. k < m
        BY <2>2, <3>2
      <4>2. e[k][1] < e[m][1]
        BY <1>3, <2>2, <4>1
      <4> QED
        BY <2>5, <4>2
    <3> QED
      BY <3>1, <3>2
  <2> QED
    BY <2>3, <2>5, <2>6
<1>5. EditsOf(Len(base), edits)
  BY <1>2, <1>4 DEF EditsOf
<1> QED
  BY <1>5 DEF edits

(* The edits of the two sides are those that the comparison finds.         *)
Compared ==
    /\ input \in Inputs
    /\ pc \in {"engine", "lines", "done"}
    /\ pc = "lines" =>
          /\ Absent \notin Versions
          /\ oursEdits = EditRegions(BaseLines, SplitLines(input.ours))
          /\ theirsEdits = EditRegions(BaseLines, SplitLines(input.theirs))

(* They are when the line strategy starts the walk, and no step changes    *)
(* them.                                                                   *)
LEMMA ComparedInit == Init => Compared
  BY DEF Init, Compared

LEMMA ComparedNext == Compared /\ [Next]_vars => Compared'
<1> SUFFICES ASSUME Compared, [Next]_vars PROVE Compared'
  OBVIOUS
<1> USE DEF Compared
<1>1. CASE StrategyDeclines
  BY <1>1 DEF StrategyDeclines, walk, Versions, BaseLines
<1>2. CASE Unsupported
  BY <1>2 DEF Unsupported, WholeFile, Done, walk
<1>3. CASE ResolveWhole
  BY <1>3 DEF ResolveWhole, Done, walk
<1>4. CASE ConflictWhole
  BY <1>4 DEF ConflictWhole, WholeFile, Done, walk
<1>5. CASE RejectLines
  BY <1>5 DEF RejectLines, WholeFile, Done, walk
<1>6. CASE StartLines
  BY <1>6 DEF StartLines, Versions, BaseLines
<1>7. CASE BothInsert
  BY <1>7 DEF BothInsert, Versions, BaseLines
<1>8. CASE ApplyOurs
  BY <1>8 DEF ApplyOurs, ApplyResolved, Versions, BaseLines
<1>9. CASE ApplyTheirs
  BY <1>9 DEF ApplyTheirs, ApplyResolved, Versions, BaseLines
<1>10. CASE Overlap
  BY <1>10 DEF Overlap, Versions, BaseLines
<1>11. CASE Finish
  BY <1>11 DEF Finish, walk
<1>12. CASE UNCHANGED vars
  BY <1>12 DEF vars, walk, Versions, BaseLines
<1> QED
  BY <1>1, <1>2, <1>3, <1>4, <1>5, <1>6, <1>7, <1>8, <1>9, <1>10, <1>11, <1>12 DEF Next

(* A version is a sequence of any set of bytes that has its own.           *)
LEMMA VersionLines ==
    ASSUME NEW v, v \in Seq(ToSet(v)), NEW V, ToSet(v) \subseteq V
    PROVE  v \in Seq(V)
<1>1. v \in [1..Len(v) -> ToSet(v)] /\ Len(v) \in Nat
  BY LenProperties
<1>2. v \in [1..Len(v) -> V]
  BY <1>1
<1>3. DOMAIN v = 1..Len(v)
  BY LenProperties
<1> QED
  BY <1>1, <1>2, SeqDef

(* What the comparison of the base with a side finds.                      *)
LEMMA SidesTyped ==
    ASSUME input \in Inputs, Absent \notin Versions,
           NEW side \in {input.ours, input.theirs}
    PROVE  LET edits == EditRegions(BaseLines, SplitLines(side))
           IN /\ Len(BaseLines) \in Nat
              /\ EditsOf(Len(BaseLines), edits)
              /\ Separated(BaseLines, edits)
              /\ LinesToBytes(Patch(BaseLines, edits)) = side
<1> DEFINE V == ToSet(input.base) \cup ToSet(side)
<1>1. input.base \in Seq(ToSet(input.base)) /\ side \in Seq(ToSet(side))
  BY MergeAssumption DEF Versions
<1>2. ToSet(input.base) \subseteq V /\ ToSet(side) \subseteq V
  OBVIOUS
<1> HIDE DEF V
<1>3. input.base \in Seq(V) /\ side \in Seq(V)
  BY <1>1, <1>2, VersionLines
<1>4. /\ BaseLines \in Seq(Seq(V)) /\ SplitLines(side) \in Seq(Seq(V))
      /\ LinesToBytes(SplitLines(side)) = side
  BY <1>3, LinesOf DEF BaseLines
<1>5. Len(BaseLines) \in Nat /\ Len(SplitLines(side)) \in Nat
  BY <1>4, LenProperties
<1> QED
  BY <1>4, <1>5, EditsFound, EditsRebuild

LEMMA SidesRebuilt ==
    ASSUME Compared, pc = "lines", NEW side \in {input.ours, input.theirs}
    PROVE  LET edits == EditRegions(BaseLines, SplitLines(side))
           IN /\ Len(BaseLines) \in Nat
              /\ EditsOf(Len(BaseLines), edits)
              /\ Separated(BaseLines, edits)
              /\ LinesToBytes(Patch(BaseLines, edits)) = side
  BY SidesTyped DEF Compared

(* Always, then.                                                           *)
LEMMA ComparedAlways == Spec => []Compared
<1> QED
  BY ComparedInit, ComparedNext, PTL DEF Spec

(* The edits that patience matching with its fallback finds rebuild each   *)
(* side from the base, byte for byte, and leave an unchanged line between  *)
(* any two of them: for all files, with or without a last newline.         *)
THEOREM MergeRebuildsSides == Spec => []EditsRebuildSides
<1>1. Compared => EditsRebuildSides
  <2> SUFFICES ASSUME Compared, pc = "lines" PROVE EditsRebuildSides
    BY DEF EditsRebuildSides
  <2>1. /\ oursEdits = EditRegions(BaseLines, SplitLines(input.ours))
        /\ theirsEdits = EditRegions(BaseLines, SplitLines(input.theirs))
    BY DEF Compared
  <2> QED
    BY <2>1, SidesRebuilt DEF EditsRebuildSides
<1> QED
  BY <1>1, ComparedAlways, PTL

-----------------------------------------------------------------------------
(* Conflict groups.                                                        *)

(* The greater of two numbers.                                             *)
LEMMA GreaterOf ==
    ASSUME NEW m \in Nat, NEW n \in Nat
    PROVE  /\ Max({m, n}) \in Nat
           /\ m <= Max({m, n}) /\ n <= Max({m, n})
           /\ Max({m, n}) \in {m, n}
<1>1. \E x \in {m, n} : \A y \in {m, n} : x >= y
  OBVIOUS
<1> QED
  BY <1>1 DEF Max

(* The loop of TakeInside, the places it comes to, and the function        *)
(* chosen.                                                                 *)
TakeNext(edits, start, take, p) ==
    LET k == p[1]
        e == p[2]
    IN IF k <= Len(edits) /\ EditInsideConflict(edits[k], start, e)
       THEN take[<<k + 1, Max({e, edits[k].end})>>]
       ELSE [next |-> k, end |-> e]
TakePlaces(edits) == (1..(Len(edits) + 1)) \X Nat
IsTake(edits, start, take) ==
    take = [p \in TakePlaces(edits) |-> TakeNext(edits, start, take, p)]

(* The loop ends: it goes from edit to edit.                               *)
LEMMA TakeExists ==
    ASSUME NEW edits, NEW n \in Nat, EditsOf(n, edits), NEW start
    PROVE  \E take : IsTake(edits, start, take)
<1> DEFINE L == Len(edits)
           D == TakePlaces(edits)
           V == [next : 1..(L + 1), end : Nat]
           size == [p \in D |-> (L + 1) - p[1]]
           step == [q \in D \X [D -> V] |-> TakeNext(edits, start, q[2], q[1])]
<1>1. L \in Nat /\ \A i \in 1..L : edits[i].end \in Nat
  BY DEF EditsOf
<1>2. ASSUME NEW p \in D
      PROVE  /\ p = <<p[1], p[2]>> /\ p[1] \in 1..(L + 1) /\ p[2] \in Nat
             /\ (L + 1) - p[1] \in Nat
             /\ p[1] <= L => /\ <<p[1] + 1, Max({p[2], edits[p[1]].end})>> \in D
                             /\ (L + 1) - (p[1] + 1) < (L + 1) - p[1]
  <2>1. p = <<p[1], p[2]>> /\ p[1] \in 1..(L + 1) /\ p[2] \in Nat
    BY DEF TakePlaces
  <2>2. (L + 1) - p[1] \in Nat
    BY <1>1, <2>1
  <2>3. ASSUME p[1] <= L
        PROVE  /\ <<p[1] + 1, Max({p[2], edits[p[1]].end})>> \in D
               /\ (L + 1) - (p[1] + 1) < (L + 1) - p[1]
    <3>1. p[1] \in 1..L /\ p[1] + 1 \in 1..(L + 1)
      BY <1>1, <2>1, <2>3
    <3>2. Max({p[2], edits[p[1]].end}) \in Nat
      BY <1>1, <2>1, <3>1, GreaterOf
    <3>3. (L + 1) - (p[1] + 1) < (L + 1) - p[1]
      BY <1>1, <2>1
    <3> QED
      BY <3>1, <3>2, <3>3 DEF TakePlaces
  <2> QED
    BY <2>1, <2>2, <2>3
<1>3. [next |-> 1, end |-> 0] \in V
  BY <1>1
<1>4. size \in [D -> Nat] /\ \A p \in D : size[p] = (L + 1) - p[1]
  BY <1>2
<1>5. ASSUME NEW p \in D, NEW g \in [D -> V]
      PROVE  TakeNext(edits, start, g, p) \in V
  <2> DEFINE q == <<p[1] + 1, Max({p[2], edits[p[1]].end})>>
  <2>1. p[1] <= L => g[q] \in V
    BY <1>2
  <2>2. [next |-> p[1], end |-> p[2]] \in V
    BY <1>2
  <2> HIDE DEF V, D
  <2> QED
    BY <2>1, <2>2 DEF TakeNext
<1>6. step \in [D \X [D -> V] -> V]
  <2> HIDE DEF D, V
  <2> QED
    BY <1>5
<1>7. ASSUME NEW p \in D, NEW g \in [D -> V], NEW h \in [D -> V],
             \A q \in D : size[q] < size[p] => g[q] = h[q]
      PROVE  step[<<p, g>>] = step[<<p, h>>]
  <2> DEFINE q == <<p[1] + 1, Max({p[2], edits[p[1]].end})>>
  <2>1. p[1] <= L => g[q] = h[q]
    <3>1. p[1] <= L => q \in D /\ q[1] = p[1] + 1 /\ (L + 1) - (p[1] + 1) < (L + 1) - p[1]
      BY <1>2
    <3> HIDE DEF q, D, size
    <3>2. p[1] <= L => size[q] < size[p]
      BY <1>4, <3>1
    <3> QED
      BY <1>7, <3>1, <3>2
  <2>2. TakeNext(edits, start, g, p) = TakeNext(edits, start, h, p)
    BY <2>1 DEF TakeNext
  <2>3. step[<<p, g>>] = TakeNext(edits, start, g, p) /\ step[<<p, h>>] = TakeNext(edits, start, h, p)
    <3> HIDE DEF D, V
    <3> QED
      OBVIOUS
  <2> QED
    BY <2>2, <2>3
<1> HIDE DEF D, V, size, step
<1>8. Smaller(D, V, size, step)
  BY <1>4, <1>6, <1>7 DEF Smaller
<1>9. PICK f : Computed(f, D, V, step)
  BY <1>3, <1>8, ComputedExists
<1>10. f \in [D -> V] /\ \A p \in D : f[p] = TakeNext(edits, start, f, p)
  <2>1. f \in [D -> V] /\ \A p \in D : f[p] = step[<<p, f>>]
    BY <1>9 DEF Computed
  <2>2. ASSUME NEW p \in D PROVE step[<<p, f>>] = TakeNext(edits, start, f, p)
    BY <2>1 DEF step
  <2> QED
    BY <2>1, <2>2
<1>11. f = [p \in D |-> TakeNext(edits, start, f, p)]
  BY <1>10
<1> QED
  BY <1>11 DEF IsTake, D

LEMMA TakeInsideIs ==
    ASSUME NEW edits, NEW n, NEW start, NEW end
    PROVE  TakeInside(edits, n, start, end)
             = (CHOOSE take : IsTake(edits, start, take))[<<n, end>>]
  BY DEF TakeInside, IsTake, TakeNext, TakePlaces

(* What the loop returns from place k with the range up to e.              *)
Taken(B, edits, start, k, e, r) ==
    /\ r.next \in 1..(Len(edits) + 1) /\ k <= r.next
    /\ r.end \in Nat /\ e <= r.end
    /\ e <= B => r.end <= B
    /\ r.next <= Len(edits) => ~EditInsideConflict(edits[r.next], start, r.end)
    /\ r.next = k => r.end = e

(* It stops at an edit that is not inside the range.                       *)
LEMMA InsideTaken ==
    ASSUME NEW B \in Nat, NEW edits, EditsOf(B, edits), NEW start,
           NEW k \in 1..(Len(edits) + 1), NEW e \in Nat
    PROVE  Taken(B, edits, start, k, e, TakeInside(edits, k, start, e))
<1> DEFINE L == Len(edits)
           D == TakePlaces(edits)
           take == CHOOSE take : IsTake(edits, start, take)
           size == [p \in D |-> (L + 1) - p[1]]
           T == {p \in D : Taken(B, edits, start, p[1], p[2], take[p])}
<1>1. L \in Nat /\ \A i \in 1..L : edits[i].end \in Nat /\ edits[i].end <= B
  BY DEF EditsOf
<1>2. IsTake(edits, start, take)
  BY TakeExists
<1> HIDE DEF take
<1>3. \A p \in D : take[p] = TakeNext(edits, start, take, p)
  BY <1>2 DEF IsTake
<1>4. ASSUME NEW p \in D
      PROVE  p[1] \in 1..(L + 1) /\ p[2] \in Nat /\ (L + 1) - p[1] \in Nat
  <2>1. p[1] \in 1..(L + 1) /\ p[2] \in Nat
    BY DEF TakePlaces
  <2> QED
    BY <1>1, <2>1
<1>5. size \in [D -> Nat] /\ \A p \in D : size[p] = (L + 1) - p[1]
  BY <1>4
<1>6. ASSUME NEW p \in D, \A q \in D : size[q] < size[p] => q \in T PROVE p \in T
  <2> DEFINE kk == p[1]
             ee == p[2]
             inside == kk <= L /\ EditInsideConflict(edits[kk], start, ee)
  <2>1. kk \in 1..(L + 1) /\ ee \in Nat
    BY <1>4
  <2>2. CASE inside
    <3> DEFINE mm == Max({ee, edits[kk].end})
               q == <<kk + 1, mm>>
    <3>1. kk \in 1..L /\ kk + 1 \in 1..(L + 1)
      BY <1>1, <2>1, <2>2
    <3>2. mm \in Nat /\ ee <= mm /\ mm \in {ee, edits[kk].end}
      BY <1>1, <2>1, <3>1, GreaterOf
    <3>3. q \in D /\ q[1] = kk + 1 /\ q[2] = mm
      BY <3>1, <3>2 DEF TakePlaces
    <3>4. take[p] = take[q]
      BY <1>3, <2>2 DEF TakeNext
    <3> HIDE DEF q, mm, kk, ee, D, T
    <3>5. size[q] < size[p]
      <4>1. size[q] = (L + 1) - (kk + 1) /\ size[p] = (L + 1) - kk
        BY <1>5, <3>3 DEF kk
      <4> HIDE DEF size
      <4> QED
        BY <1>1, <3>1, <4>1
    <3>6. q \in T
      BY <1>6, <3>3, <3>5
    <3>7. Taken(B, edits, start, kk + 1, mm, take[p])
      BY <3>3, <3>4, <3>6 DEF T
    <3> DEFINE r == take[p]
    <3>8. /\ r.next \in 1..(L + 1) /\ kk + 1 <= r.next
          /\ r.end \in Nat /\ mm <= r.end
          /\ mm <= B => r.end <= B
          /\ r.next <= L => ~EditInsideConflict(edits[r.next], start, r.end)
      BY <3>7 DEF Taken
    <3> HIDE DEF r
    <3>9. kk <= r.next /\ r.next # kk
      BY <1>1, <3>1, <3>8
    <3>10. ee <= r.end
      BY <2>1, <3>2, <3>8
    <3>11. ee <= B => mm <= B
      BY <1>1, <3>1, <3>2
    <3>12. Taken(B, edits, start, kk, ee, r)
      BY <3>8, <3>9, <3>10, <3>11 DEF Taken
    <3> QED
      BY <3>12 DEF T, kk, ee, r
  <2>3. CASE ~inside
    <3>1. take[p] = [next |-> kk, end |-> ee]
      BY <1>3, <2>3 DEF TakeNext
    <3> HIDE DEF D, kk, ee
    <3>2. take[p].next = kk /\ take[p].end = ee
      BY <3>1
    <3>3. kk <= kk /\ ee <= ee
      BY <2>1
    <3>4. Taken(B, edits, start, kk, ee, take[p])
      BY <2>1, <2>3, <3>2, <3>3 DEF Taken
    <3> QED
      BY <3>4 DEF kk, ee
  <2> QED
    BY <2>2, <2>3
<1> DEFINE p == <<k, e>>
<1>7. p \in D /\ p[1] = k /\ p[2] = e
  BY DEF TakePlaces
<1> HIDE DEF D, size, T, p
<1>8. p \in T
  BY <1>5, <1>6, <1>7, SmallerFirst
<1>9. Taken(B, edits, start, k, e, take[p])
  BY <1>7, <1>8 DEF T
<1> QED
  BY <1>9, TakeInsideIs DEF take, p

(* The turns of ConflictGroup, and the function chosen.                    *)
GrowNext(start, grow, p) ==
    LET o == TakeInside(oursEdits, p[2], start, p[1])
        t == TakeInside(theirsEdits, p[3], start, o.end)
    IN IF o.next = p[2] /\ t.next = p[3]
       THEN [end |-> p[1], ours |-> p[2], theirs |-> p[3]]
       ELSE grow[<<t.end, o.next, t.next>>]
Turns == Nat \X (1..(Len(oursEdits) + 1)) \X (1..(Len(theirsEdits) + 1))
IsGrow(start, grow) == grow = [p \in Turns |-> GrowNext(start, grow, p)]

(* It is a recursive function.                                             *)
LEMMA ConflictGroupIs ==
    ASSUME NEW start, NEW end
    PROVE  ConflictGroup(start, end)
             = (CHOOSE grow : IsGrow(start, grow))[<<end, oursIndex, theirsIndex>>]
  BY DEF ConflictGroup, IsGrow, GrowNext, Turns

(* A turn in which a side takes an edit leaves fewer.                      *)
LEMMA FewerLeft ==
    ASSUME NEW m \in Nat, NEW n \in Nat,
           NEW i \in 1..(m + 1), NEW j \in 1..(n + 1),
           NEW k \in 1..(m + 1), NEW l \in 1..(n + 1),
           i <= k, j <= l, ~(k = i /\ l = j)
    PROVE  ((m + 1) - k) + ((n + 1) - l) < ((m + 1) - i) + ((n + 1) - j)
<1>1. i \in Int /\ j \in Int /\ k \in Int /\ l \in Int
  OBVIOUS
<1>2. i < k \/ j < l
  BY <1>1
<1> QED
  BY <1>1, <1>2

(* A turn of both sides ends the loop or takes an edit.                    *)
LEMMA TurnTaken ==
    ASSUME NEW B \in Nat, EditsOf(B, oursEdits), EditsOf(B, theirsEdits),
           NEW start, NEW p \in Turns
    PROVE  LET o == TakeInside(oursEdits, p[2], start, p[1])
               t == TakeInside(theirsEdits, p[3], start, o.end)
               q == <<t.end, o.next, t.next>>
           IN /\ p[1] \in Nat
              /\ p[2] \in 1..(Len(oursEdits) + 1) /\ p[3] \in 1..(Len(theirsEdits) + 1)
              /\ Taken(B, oursEdits, start, p[2], p[1], o)
              /\ Taken(B, theirsEdits, start, p[3], o.end, t)
              /\ q \in Turns /\ q[1] = t.end /\ q[2] = o.next /\ q[3] = t.next
<1> DEFINE o == TakeInside(oursEdits, p[2], start, p[1])
           t == TakeInside(theirsEdits, p[3], start, o.end)
           q == <<t.end, o.next, t.next>>
<1>1. p[1] \in Nat /\ p[2] \in 1..(Len(oursEdits) + 1) /\ p[3] \in 1..(Len(theirsEdits) + 1)
  BY DEF Turns
<1>2. Taken(B, oursEdits, start, p[2], p[1], o)
  BY <1>1, InsideTaken
<1> HIDE DEF o
<1>3. o.end \in Nat /\ o.next \in 1..(Len(oursEdits) + 1)
  BY <1>2 DEF Taken
<1>4. Taken(B, theirsEdits, start, p[3], o.end, t)
  BY <1>1, <1>3, InsideTaken
<1> HIDE DEF t
<1>5. t.end \in Nat /\ t.next \in 1..(Len(theirsEdits) + 1)
  BY <1>4 DEF Taken
<1>6. q \in Turns /\ q[1] = t.end /\ q[2] = o.next /\ q[3] = t.next
  BY <1>3, <1>5 DEF Turns
<1> QED
  BY <1>1, <1>2, <1>4, <1>6 DEF o, t

(* So the turns end.                                                       *)
LEMMA GrowExists ==
    ASSUME NEW B \in Nat, EditsOf(B, oursEdits), EditsOf(B, theirsEdits), NEW start
    PROVE  \E grow : IsGrow(start, grow)
<1> DEFINE Lo == Len(oursEdits)
           Lt == Len(theirsEdits)
           D == Turns
           V == [end : Nat, ours : 1..(Lo + 1), theirs : 1..(Lt + 1)]
           left(p) == ((Lo + 1) - p[2]) + ((Lt + 1) - p[3])
           o(p) == TakeInside(oursEdits, p[2], start, p[1])
           t(p) == TakeInside(theirsEdits, p[3], start, o(p).end)
           q(p) == <<t(p).end, o(p).next, t(p).next>>
           stop(p) == o(p).next = p[2] /\ t(p).next = p[3]
           here(p) == [end |-> p[1], ours |-> p[2], theirs |-> p[3]]
           size == [p \in D |-> left(p)]
           step == [z \in D \X [D -> V] |-> IF stop(z[1]) THEN here(z[1]) ELSE z[2][q(z[1])]]
<1>1. Lo \in Nat /\ Lt \in Nat
  BY DEF EditsOf
<1>2. ASSUME NEW p \in D
      PROVE  /\ here(p) \in V /\ q(p) \in D /\ left(p) \in Nat
             /\ ~stop(p) => left(q(p)) < left(p)
  <2>1. /\ p[1] \in Nat /\ p[2] \in 1..(Lo + 1) /\ p[3] \in 1..(Lt + 1)
        /\ Taken(B, oursEdits, start, p[2], p[1], o(p))
        /\ Taken(B, theirsEdits, start, p[3], o(p).end, t(p))
        /\ q(p) \in D /\ q(p)[2] = o(p).next /\ q(p)[3] = t(p).next
    BY TurnTaken
  <2>2. here(p) \in V
    BY <2>1
  <2>3. /\ o(p).next \in 1..(Lo + 1) /\ p[2] <= o(p).next
        /\ t(p).next \in 1..(Lt + 1) /\ p[3] <= t(p).next
    BY <2>1 DEF Taken
  <2> HIDE DEF o, t, q, D
  <2>4. left(p) \in Nat
    BY <1>1, <2>1
  <2>5. ASSUME ~stop(p) PROVE left(q(p)) < left(p)
    <3>1. /\ ((Lo + 1) - o(p).next) + ((Lt + 1) - t(p).next)
                 < ((Lo + 1) - p[2]) + ((Lt + 1) - p[3])
      BY <1>1, <2>1, <2>3, <2>5, FewerLeft
    <3> QED
      BY <2>1, <3>1
  <2> QED
    BY <2>1, <2>2, <2>4, <2>5
<1> HIDE DEF left, o, t, q, stop, here
<1>3. [end |-> 0, ours |-> 1, theirs |-> 1] \in V
  BY <1>1
<1>4. size \in [D -> Nat] /\ \A p \in D : size[p] = left(p)
  BY <1>2
<1> HIDE DEF D, V, size
<1>5. /\ step \in [D \X [D -> V] -> V]
      /\ \A p \in D, g \in [D -> V] : step[<<p, g>>] = IF stop(p) THEN here(p) ELSE g[q(p)]
  <2>1. \A p \in D, g \in [D -> V] : (IF stop(p) THEN here(p) ELSE g[q(p)]) \in V
    BY <1>2
  <2> QED
    BY <2>1
<1> HIDE DEF step
<1>6. ASSUME NEW p \in D, NEW g \in [D -> V], NEW h \in [D -> V],
             \A r \in D : size[r] < size[p] => g[r] = h[r]
      PROVE  step[<<p, g>>] = step[<<p, h>>]
  <2>1. ~stop(p) => size[q(p)] < size[p] /\ q(p) \in D
    BY <1>2, <1>4
  <2>2. ~stop(p) => g[q(p)] = h[q(p)]
    BY <1>6, <2>1
  <2> QED
    BY <1>5, <2>2
<1>7. Smaller(D, V, size, step)
  BY <1>4, <1>5, <1>6 DEF Smaller
<1>8. PICK f : Computed(f, D, V, step)
  BY <1>3, <1>7, ComputedExists
<1>9. f \in [D -> V] /\ \A p \in D : f[p] = IF stop(p) THEN here(p) ELSE f[q(p)]
  BY <1>5, <1>8 DEF Computed
<1>10. \A p \in D : f[p] = GrowNext(start, f, p)
  BY <1>9 DEF GrowNext, stop, here, q, o, t
<1>11. f = [p \in D |-> GrowNext(start, f, p)]
  BY <1>9, <1>10
<1> QED
  BY <1>11 DEF IsGrow, D

(* What the loop returns: the next edit of either side is not inside.      *)
Grown(B, start, p, g) ==
    /\ g.ours \in 1..(Len(oursEdits) + 1) /\ p[2] <= g.ours
    /\ g.theirs \in 1..(Len(theirsEdits) + 1) /\ p[3] <= g.theirs
    /\ g.end \in Nat /\ p[1] <= g.end
    /\ p[1] <= B => g.end <= B
    /\ g.ours <= Len(oursEdits) => ~EditInsideConflict(oursEdits[g.ours], start, g.end)
    /\ g.theirs <= Len(theirsEdits) => ~EditInsideConflict(theirsEdits[g.theirs], start, g.end)

(* And what they return is outside for both sides.                         *)
LEMMA GroupGrown ==
    ASSUME NEW B \in Nat, EditsOf(B, oursEdits), EditsOf(B, theirsEdits),
           NEW start, NEW end \in Nat,
           oursIndex \in 1..(Len(oursEdits) + 1), theirsIndex \in 1..(Len(theirsEdits) + 1)
    PROVE  Grown(B, start, <<end, oursIndex, theirsIndex>>, ConflictGroup(start, end))
<1> DEFINE Lo == Len(oursEdits)
           Lt == Len(theirsEdits)
           D == Turns
           left(p) == ((Lo + 1) - p[2]) + ((Lt + 1) - p[3])
           grow == CHOOSE grow : IsGrow(start, grow)
           size == [p \in D |-> left(p)]
           T == {p \in D : Grown(B, start, p, grow[p])}
<1>1. Lo \in Nat /\ Lt \in Nat
  BY DEF EditsOf
<1>2. IsGrow(start, grow)
  BY GrowExists
<1> HIDE DEF grow
<1>3. \A p \in D : grow[p] = GrowNext(start, grow, p)
  BY <1>2 DEF IsGrow
<1>4. \A p \in D : left(p) \in Nat
  <2> TAKE p \in D
  <2>1. p[2] \in 1..(Lo + 1) /\ p[3] \in 1..(Lt + 1)
    BY DEF Turns
  <2> QED
    BY <1>1, <2>1
<1>5. size \in [D -> Nat] /\ \A p \in D : size[p] = left(p)
  BY <1>4
<1>6. ASSUME NEW p \in D, \A q \in D : size[q] < size[p] => q \in T PROVE p \in T
  <2> DEFINE o == TakeInside(oursEdits, p[2], start, p[1])
             t == TakeInside(theirsEdits, p[3], start, o.end)
             q == <<t.end, o.next, t.next>>
  <2>1. /\ p[1] \in Nat /\ p[2] \in 1..(Lo + 1) /\ p[3] \in 1..(Lt + 1)
        /\ Taken(B, oursEdits, start, p[2], p[1], o)
        /\ Taken(B, theirsEdits, start, p[3], o.end, t)
        /\ q \in D /\ q[1] = t.end /\ q[2] = o.next /\ q[3] = t.next
    BY TurnTaken
  <2>2. /\ o.next \in 1..(Lo + 1) /\ p[2] <= o.next
        /\ t.next \in 1..(Lt + 1) /\ p[3] <= t.next
        /\ o.end \in Nat /\ t.end \in Nat /\ p[1] <= o.end /\ o.end <= t.end
        /\ p[1] <= B => o.end <= B
        /\ o.end <= B => t.end <= B
        /\ o.next <= Lo => ~EditInsideConflict(oursEdits[o.next], start, o.end)
        /\ t.next <= Lt => ~EditInsideConflict(theirsEdits[t.next], start, t.end)
        /\ o.next = p[2] => o.end = p[1]
        /\ t.next = p[3] => t.end = o.end
    BY <2>1 DEF Taken
  <2>3. grow[p] = IF o.next = p[2] /\ t.next = p[3]
                  THEN [end |-> p[1], ours |-> p[2], theirs |-> p[3]]
                  ELSE grow[q]
    BY <1>3 DEF GrowNext
  <2> HIDE DEF o, t, q, D, T
  <2>4. CASE o.next = p[2] /\ t.next = p[3]
    <3> DEFINE g == grow[p]
    <3>1. g.end = p[1] /\ g.ours = p[2] /\ g.theirs = p[3]
      BY <2>3, <2>4
    <3> HIDE DEF g
    <3>2. Grown(B, start, p, g)
      BY <2>1, <2>2, <2>4, <3>1 DEF Grown
    <3> QED
      BY <3>2 DEF T, g
  <2>5. CASE ~(o.next = p[2] /\ t.next = p[3])
    <3>1. left(q) < left(p)
      <4>1. ((Lo + 1) - o.next) + ((Lt + 1) - t.next) < ((Lo + 1) - p[2]) + ((Lt + 1) - p[3])
        BY <1>1, <2>1, <2>2, <2>5, FewerLeft
      <4> QED
        BY <2>1, <4>1
    <3>2. size[q] < size[p]
      BY <1>5, <2>1, <3>1
    <3> DEFINE g == grow[p]
    <3>3. q \in T /\ g = grow[q]
      BY <1>6, <2>1, <2>3, <2>5, <3>2
    <3> HIDE DEF g, size, left
    <3>4. Grown(B, start, q, g)
      BY <3>3 DEF T
    <3>5. /\ g.ours \in 1..(Lo + 1) /\ o.next <= g.ours
          /\ g.theirs \in 1..(Lt + 1) /\ t.next <= g.theirs
          /\ g.end \in Nat /\ t.end <= g.end
          /\ t.end <= B => g.end <= B
          /\ g.ours <= Lo => ~EditInsideConflict(oursEdits[g.ours], start, g.end)
          /\ g.theirs <= Lt => ~EditInsideConflict(theirsEdits[g.theirs], start, g.end)
      <4>1. q[1] = t.end /\ q[2] = o.next /\ q[3] = t.next
        BY <2>1
      <4> QED
        BY <3>4, <4>1 DEF Grown
    <3>6. p[2] <= g.ours /\ p[3] <= g.theirs /\ p[1] <= g.end
      <4>1. \A n \in Nat : \A i, j, k \in 1..(n + 1) : i <= j /\ j <= k => i <= k
        OBVIOUS
      <4>2. \A i, j, k, l \in Nat : i <= j /\ j <= k /\ k <= l => i <= l
        OBVIOUS
      <4>3. p[2] <= g.ours
        <5>1. p[2] <= o.next /\ o.next <= g.ours
          BY <2>2, <3>5
        <5>2. p[2] \in 1..(Lo + 1) /\ o.next \in 1..(Lo + 1) /\ g.ours \in 1..(Lo + 1)
          BY <2>1, <2>2, <3>5
        <5> QED
          BY <1>1, <4>1, <5>1, <5>2
      <4>4. p[3] <= g.theirs
        <5>1. p[3] <= t.next /\ t.next <= g.theirs
          BY <2>2, <3>5
        <5>2. p[3] \in 1..(Lt + 1) /\ t.next \in 1..(Lt + 1) /\ g.theirs \in 1..(Lt + 1)
          BY <2>1, <2>2, <3>5
        <5> QED
          BY <1>1, <4>1, <5>1, <5>2
      <4> QED
        BY <2>1, <2>2, <3>5, <4>2, <4>3, <4>4
    <3>7. p[1] <= B => g.end <= B
      BY <2>2, <3>5
    <3>8. Grown(B, start, p, g)
      BY <3>5, <3>6, <3>7 DEF Grown
    <3> QED
      BY <3>8 DEF T, g
  <2> QED
    BY <2>4, <2>5
<1> DEFINE p == <<end, oursIndex, theirsIndex>>
<1>7. p \in D
  BY DEF Turns
<1> HIDE DEF D, size, T, p
<1>8. p \in T
  BY <1>5, <1>6, <1>7, SmallerFirst
<1>9. Grown(B, start, p, grow[p])
  BY <1>8 DEF T
<1> QED
  BY <1>9, ConflictGroupIs DEF grow, p

-----------------------------------------------------------------------------
(* The walk.                                                               *)

(* The walk stays behind the next edit of either side.                     *)
Behind ==
    /\ Compared
    /\ pc = "engine" => basePos = 0 /\ oursIndex = 1 /\ theirsIndex = 1
    /\ pc = "lines" =>
          /\ basePos \in 0..Len(BaseLines)
          /\ oursIndex \in 1..(Len(oursEdits) + 1)
          /\ theirsIndex \in 1..(Len(theirsEdits) + 1)
          /\ OursLeft => basePos <= OursEdit.start
          /\ TheirsLeft => basePos <= TheirsEdit.start

(* An edit after the n-th begins after the end of the n-th.                *)
LEMMA NextEdit ==
    ASSUME NEW B \in Nat, NEW edits, EditsOf(B, edits),
           NEW n \in 1..Len(edits), NEW k \in 1..Len(edits), n < k
    PROVE  edits[n].end < edits[k].start
  BY DEF EditsOf

(* The n-th edit, and that the next one begins after it.                   *)
LEMMA EditIs ==
    ASSUME NEW B \in Nat, NEW edits, EditsOf(B, edits),
           NEW n \in 1..(Len(edits) + 1), n <= Len(edits)
    PROVE  /\ n \in 1..Len(edits) /\ n + 1 \in 1..(Len(edits) + 1)
           /\ edits[n].start \in Nat /\ edits[n].end \in Nat
           /\ edits[n].start <= edits[n].end /\ edits[n].end <= B
           /\ n + 1 <= Len(edits) => edits[n].end <= edits[n + 1].start
<1>1. Len(edits) \in Nat
  BY DEF EditsOf
<1>2. n \in 1..Len(edits) /\ n + 1 \in 1..(Len(edits) + 1) /\ n < n + 1
  BY <1>1
<1>3. n + 1 <= Len(edits) => n + 1 \in 1..Len(edits)
  BY <1>1
<1>4. /\ edits[n].start \in Nat /\ edits[n].end \in Nat
      /\ edits[n].start <= edits[n].end /\ edits[n].end <= B
  BY <1>2 DEF EditsOf
<1>5. ASSUME n + 1 <= Len(edits) PROVE edits[n].end <= edits[n + 1].start
  <2>1. edits[n].end < edits[n + 1].start /\ edits[n + 1].start \in Nat
    BY <1>2, <1>3, <1>5 DEF EditsOf
  <2> QED
    BY <1>4, <2>1
<1> QED
  BY <1>2, <1>4, <1>5

(* An edit that is not inside a range of base lines and does not begin     *)
(* before it begins where the range ends or later.                         *)
LEMMA Outside ==
    ASSUME NEW edit, edit.start \in Nat, edit.end \in Nat, edit.start <= edit.end,
           NEW start \in Nat, NEW end \in Nat, start < end,
           start <= edit.start, IsInsertion(edit) => start < edit.start,
           ~EditInsideConflict(edit, start, end)
    PROVE  end <= edit.start
<1> DEFINE s == edit.start
           t == edit.end
<1>1. s \in Nat /\ t \in Nat /\ s <= t /\ start <= s
  OBVIOUS
<1>2. start # end
  OBVIOUS
<1>3. s = t => start < s /\ ~(start < s /\ s < end)
  BY <1>2 DEF IsInsertion, EditInsideConflict
<1>4. s # t => ~(s < end /\ start < t)
  BY <1>2 DEF IsInsertion, EditInsideConflict
<1> HIDE DEF s, t
<1>5. end <= s
  BY <1>1, <1>3, <1>4
<1> QED
  BY <1>5 DEF s

(* The next edit of a side after a conflict group begins after it.         *)
LEMMA AfterGroup ==
    ASSUME NEW B \in Nat, NEW edits, EditsOf(B, edits),
           NEW n \in 1..Len(edits), NEW k \in 1..(Len(edits) + 1), n <= k, k <= Len(edits),
           NEW start \in Nat, NEW end \in Nat, start < end,
           start <= edits[n].start, IsInsertion(edits[n]) => start < edits[n].start,
           ~EditInsideConflict(edits[k], start, end)
    PROVE  end <= edits[k].start
<1>0. Len(edits) \in Nat
  BY DEF EditsOf
<1>1. n \in Nat /\ k \in 1..Len(edits)
  BY <1>0
<1>2. /\ edits[n].start \in Nat /\ edits[n].end \in Nat /\ edits[n].start <= edits[n].end
      /\ edits[k].start \in Nat /\ edits[k].end \in Nat /\ edits[k].start <= edits[k].end
  BY <1>1 DEF EditsOf
<1>3. CASE k = n
  BY <1>2, <1>3, Outside
<1>4. CASE k # n
  <2>1. n < k
    BY <1>1, <1>4
  <2>2. edits[n].end < edits[k].start
    BY <1>1, <2>1, NextEdit
  <2>3. start < edits[k].start /\ start <= edits[k].start
    BY <1>2, <2>2
  <2> QED
    BY <1>2, <2>3, Outside
<1> QED
  BY <1>3, <1>4

(* The walk is behind the next edits when it starts, and stays behind.     *)
LEMMA BehindInit == Init => Behind
<1> SUFFICES ASSUME Init PROVE Behind
  OBVIOUS
<1>1. Compared
  BY ComparedInit
<1> QED
  BY <1>1 DEF Init, Behind

LEMMA BehindNext == Behind /\ [Next]_vars => Behind'
<1> SUFFICES ASSUME Behind, [Next]_vars PROVE Behind'
  OBVIOUS
<1>0. Compared /\ Compared'
  BY ComparedNext DEF Behind
<1> DEFINE B == Len(BaseLines)
           Lo == Len(oursEdits)
           Lt == Len(theirsEdits)
<1>1. ASSUME pc = "lines"
      PROVE  B \in Nat /\ EditsOf(B, oursEdits) /\ EditsOf(B, theirsEdits)
  <2>1. /\ oursEdits = EditRegions(BaseLines, SplitLines(input.ours))
        /\ theirsEdits = EditRegions(BaseLines, SplitLines(input.theirs))
    BY <1>0, <1>1 DEF Compared
  <2> QED
    BY <1>0, <1>1, <2>1, SidesRebuilt
<1>2. ASSUME pc = "lines"
      PROVE  /\ basePos \in Nat /\ basePos <= B /\ Lo \in Nat /\ Lt \in Nat
             /\ oursIndex \in 1..(Lo + 1) /\ theirsIndex \in 1..(Lt + 1)
             /\ OursLeft => /\ oursIndex \in 1..Lo /\ oursIndex + 1 \in 1..(Lo + 1)
                            /\ OursEdit.start \in Nat /\ OursEdit.end \in Nat
                            /\ OursEdit.start <= OursEdit.end /\ OursEdit.end <= B
                            /\ basePos <= OursEdit.start
                            /\ oursIndex + 1 <= Lo => OursEdit.end <= oursEdits[oursIndex + 1].start
             /\ TheirsLeft => /\ theirsIndex \in 1..Lt /\ theirsIndex + 1 \in 1..(Lt + 1)
                              /\ TheirsEdit.start \in Nat /\ TheirsEdit.end \in Nat
                              /\ TheirsEdit.start <= TheirsEdit.end /\ TheirsEdit.end <= B
                              /\ basePos <= TheirsEdit.start
                              /\ theirsIndex + 1 <= Lt => TheirsEdit.end <= theirsEdits[theirsIndex + 1].start
  <2>1. /\ basePos \in 0..B
        /\ oursIndex \in 1..(Lo + 1) /\ theirsIndex \in 1..(Lt + 1)
        /\ OursLeft => basePos <= OursEdit.start
        /\ TheirsLeft => basePos <= TheirsEdit.start
    BY <1>2 DEF Behind
  <2>2. B \in Nat /\ EditsOf(B, oursEdits) /\ EditsOf(B, theirsEdits)
    BY <1>1, <1>2
  <2>3. Lo \in Nat /\ Lt \in Nat
    BY <2>2 DEF EditsOf
  <2> HIDE DEF B
  <2>4. OursLeft => /\ oursIndex \in 1..Lo /\ oursIndex + 1 \in 1..(Lo + 1)
                    /\ OursEdit.start \in Nat /\ OursEdit.end \in Nat
                    /\ OursEdit.start <= OursEdit.end /\ OursEdit.end <= B
                    /\ oursIndex + 1 <= Lo => OursEdit.end <= oursEdits[oursIndex + 1].start
    BY <2>1, <2>2, EditIs DEF OursLeft, OursEdit
  <2>5. TheirsLeft => /\ theirsIndex \in 1..Lt /\ theirsIndex + 1 \in 1..(Lt + 1)
                      /\ TheirsEdit.start \in Nat /\ TheirsEdit.end \in Nat
                      /\ TheirsEdit.start <= TheirsEdit.end /\ TheirsEdit.end <= B
                      /\ theirsIndex + 1 <= Lt => TheirsEdit.end <= theirsEdits[theirsIndex + 1].start
    BY <2>1, <2>2, EditIs DEF TheirsLeft, TheirsEdit
  <2>6. basePos \in Nat /\ basePos <= B
    BY <2>1, <2>2
  <2> QED
    BY <2>1, <2>3, <2>4, <2>5, <2>6
<1> HIDE DEF B, Lo, Lt
<1>3. ASSUME pc = "lines", UNCHANGED <<input, oursEdits, theirsEdits>>, pc' = "lines",
             basePos' \in Nat, basePos' <= B,
             oursIndex' \in 1..(Lo + 1), theirsIndex' \in 1..(Lt + 1),
             oursIndex' <= Lo => basePos' <= oursEdits[oursIndex'].start,
             theirsIndex' <= Lt => basePos' <= theirsEdits[theirsIndex'].start
      PROVE  Behind'
  <2>1. B' = B /\ Lo' = Lo /\ Lt' = Lt
    BY <1>3 DEF B, Lo, Lt, BaseLines
  <2>2. B \in Nat
    BY <1>1, <1>3
  <2>3. basePos' \in 0..B
    BY <1>3, <2>2
  <2>4. /\ basePos' \in 0..(Len(BaseLines)')
        /\ oursIndex' \in 1..(Len(oursEdits)' + 1) /\ theirsIndex' \in 1..(Len(theirsEdits)' + 1)
    BY <1>3, <2>1, <2>3 DEF B, Lo, Lt
  <2>5. /\ OursLeft' => basePos' <= OursEdit.start'
        /\ TheirsLeft' => basePos' <= TheirsEdit.start'
    BY <1>3 DEF OursLeft, OursEdit, TheirsLeft, TheirsEdit, Lo, Lt
  <2> QED
    BY <1>0, <1>3, <2>4, <2>5 DEF Behind
<1>4. ASSUME pc' = "done" PROVE Behind'
  BY <1>0, <1>4 DEF Behind
<1>5. CASE StrategyDeclines
  <2>1. pc = "engine" /\ pc' = "engine" /\ UNCHANGED walk
    BY <1>5 DEF StrategyDeclines
  <2> QED
    BY <1>0, <2>1 DEF Behind, walk
<1>6. CASE Unsupported
  BY <1>4, <1>6 DEF Unsupported, WholeFile, Done
<1>7. CASE ResolveWhole
  BY <1>4, <1>7 DEF ResolveWhole, Done
<1>8. CASE ConflictWhole
  BY <1>4, <1>8 DEF ConflictWhole, WholeFile, Done
<1>9. CASE RejectLines
  BY <1>4, <1>9 DEF RejectLines, WholeFile, Done
<1>10. CASE StartLines
  <2>1. /\ basePos' = 0 /\ oursIndex' = 1 /\ theirsIndex' = 1 /\ pc' = "lines"
    BY <1>10 DEF StartLines, LineStrategy, Behind
  <2>2. /\ oursEdits' = EditRegions(BaseLines', SplitLines(input.ours)')
        /\ theirsEdits' = EditRegions(BaseLines', SplitLines(input.theirs)')
        /\ input' = input /\ BaseLines' = BaseLines
    BY <1>10 DEF StartLines, BaseLines
  <2>3. /\ Len(BaseLines)' \in Nat
        /\ EditsOf(Len(BaseLines), oursEdits)' /\ EditsOf(Len(BaseLines), theirsEdits)'
    <3>1. input \in Inputs /\ Absent \notin Versions
      BY <1>0, <1>10 DEF StartLines, Compared
    <3>2. \A side \in {input.ours, input.theirs} :
             /\ Len(BaseLines) \in Nat
             /\ EditsOf(Len(BaseLines), EditRegions(BaseLines, SplitLines(side)))
      BY <3>1, SidesTyped
    <3>3. EditsOf(Len(BaseLines), oursEdits') /\ EditsOf(Len(BaseLines), theirsEdits')
      BY <1>10, <3>2 DEF StartLines
    <3> QED
      BY <2>2, <3>2, <3>3 DEF EditsOf
  <2>4. /\ Len(oursEdits)' \in Nat /\ Len(theirsEdits)' \in Nat
        /\ OursLeft' => 0 <= OursEdit.start'
        /\ TheirsLeft' => 0 <= TheirsEdit.start'
    <3>1. /\ Len(oursEdits') \in Nat /\ Len(theirsEdits') \in Nat
          /\ \A i \in 1..Len(oursEdits') : oursEdits'[i].start \in Nat
          /\ \A i \in 1..Len(theirsEdits') : theirsEdits'[i].start \in Nat
      BY <2>3 DEF EditsOf
    <3>2. 1 <= Len(oursEdits') => 1 \in 1..Len(oursEdits')
      BY <3>1
    <3>3. 1 <= Len(theirsEdits') => 1 \in 1..Len(theirsEdits')
      BY <3>1
    <3> QED
      BY <2>1, <3>1, <3>2, <3>3 DEF OursLeft, OursEdit, TheirsLeft, TheirsEdit
  <2>5. /\ 0 \in 0..(Len(BaseLines)')
        /\ 1 \in 1..(Len(oursEdits)' + 1) /\ 1 \in 1..(Len(theirsEdits)' + 1)
    BY <2>3, <2>4
  <2> QED
    BY <1>0, <2>1, <2>4, <2>5 DEF Behind
<1>11. CASE BothInsert
  <2>1. /\ pc = "lines" /\ pc' = "lines" /\ UNCHANGED <<input, oursEdits, theirsEdits>>
        /\ OursLeft /\ TheirsLeft /\ IsInsertion(OursEdit) /\ IsInsertion(TheirsEdit)
        /\ OursEdit.start = TheirsEdit.start
        /\ basePos' = OursEdit.start /\ oursIndex' = oursIndex + 1
        /\ theirsIndex' = theirsIndex + 1
    BY <1>11 DEF BothInsert, SamePlace
  <2>2. OursEdit.end = OursEdit.start /\ TheirsEdit.end = OursEdit.start
    BY <2>1 DEF IsInsertion
  <2> QED
    BY <1>2, <1>3, <2>1, <2>2
<1>12. CASE ApplyOurs
  <2>1. /\ pc = "lines" /\ pc' = "lines" /\ UNCHANGED <<input, oursEdits, theirsEdits, theirsIndex>>
        /\ OursLeft /\ (TheirsLeft => OursEdit.end <= TheirsEdit.start)
        /\ basePos' = OursEdit.end /\ oursIndex' = oursIndex + 1
    BY <1>12 DEF ApplyOurs, ApplyResolved, OursBefore
  <2> QED
    BY <1>2, <1>3, <2>1 DEF TheirsLeft, TheirsEdit, Lt
<1>13. CASE ApplyTheirs
  <2>1. /\ pc = "lines" /\ pc' = "lines" /\ UNCHANGED <<input, oursEdits, theirsEdits, oursIndex>>
        /\ TheirsLeft /\ (OursLeft => TheirsEdit.end <= OursEdit.start)
        /\ basePos' = TheirsEdit.end /\ theirsIndex' = theirsIndex + 1
    BY <1>13 DEF ApplyTheirs, ApplyResolved, TheirsBefore
  <2> QED
    BY <1>2, <1>3, <2>1 DEF OursLeft, OursEdit, Lo
<1>14. CASE Overlap
  <2> DEFINE start == Min({OursEdit.start, TheirsEdit.start})
             initial == Max({OursEdit.end, TheirsEdit.end})
             group == ConflictGroup(start, initial)
  <2>1. /\ pc = "lines" /\ pc' = "lines" /\ UNCHANGED <<input, oursEdits, theirsEdits>>
        /\ OursLeft /\ TheirsLeft
        /\ ~(OursEdit.end <= TheirsEdit.start) /\ ~(TheirsEdit.end <= OursEdit.start)
        /\ basePos' = group.end /\ oursIndex' = group.ours /\ theirsIndex' = group.theirs
    BY <1>14 DEF Overlap, OursBefore, TheirsBefore
  <2>2. /\ B \in Nat /\ EditsOf(B, oursEdits) /\ EditsOf(B, theirsEdits)
        /\ oursIndex \in 1..Lo /\ theirsIndex \in 1..Lt
        /\ oursIndex \in 1..(Lo + 1) /\ theirsIndex \in 1..(Lt + 1)
        /\ OursEdit.start \in Nat /\ OursEdit.end \in Nat /\ OursEdit.end <= B
        /\ TheirsEdit.start \in Nat /\ TheirsEdit.end \in Nat /\ TheirsEdit.end <= B
    BY <1>1, <1>2, <2>1
  <2>3. /\ start \in Nat /\ start <= OursEdit.start /\ start <= TheirsEdit.start
    BY <2>2, MinOf
  <2>4. /\ initial \in Nat /\ OursEdit.end <= initial /\ TheirsEdit.end <= initial
        /\ initial \in {OursEdit.end, TheirsEdit.end}
    BY <2>2, GreaterOf
  <2>5. Grown(B, start, <<initial, oursIndex, theirsIndex>>, group)
    <3> HIDE DEF start, initial
    <3> QED
      BY <2>2, <2>4, GroupGrown DEF Lo, Lt
  <2> HIDE DEF start, initial, group
  <2>6. /\ group.ours \in 1..(Lo + 1) /\ oursIndex <= group.ours
        /\ group.theirs \in 1..(Lt + 1) /\ theirsIndex <= group.theirs
        /\ group.end \in Nat /\ initial <= group.end
        /\ initial <= B => group.end <= B
        /\ group.ours <= Lo => ~EditInsideConflict(oursEdits[group.ours], start, group.end)
        /\ group.theirs <= Lt => ~EditInsideConflict(theirsEdits[group.theirs], start, group.end)
    BY <2>5 DEF Grown, Lo, Lt
  <2>7. /\ start < group.end /\ group.end <= B
        /\ IsInsertion(OursEdit) => start < OursEdit.start
        /\ IsInsertion(TheirsEdit) => start < TheirsEdit.start
    BY <2>1, <2>2, <2>3, <2>4, <2>6 DEF IsInsertion
  <2>8. group.ours <= Lo => group.end <= oursEdits[group.ours].start
    BY <2>2, <2>3, <2>6, <2>7, AfterGroup DEF Lo, OursEdit
  <2>9. group.theirs <= Lt => group.end <= theirsEdits[group.theirs].start
    BY <2>2, <2>3, <2>6, <2>7, AfterGroup DEF Lt, TheirsEdit
  <2> QED
    BY <1>3, <2>1, <2>6, <2>7, <2>8, <2>9
<1>15. CASE Finish
  BY <1>4, <1>15 DEF Finish
<1>16. CASE UNCHANGED vars
  <2>1. UNCHANGED <<pc, input, oursEdits, theirsEdits, basePos, oursIndex, theirsIndex>>
    BY <1>16 DEF vars, walk
  <2> QED
    BY <1>0, <2>1 DEF Behind, OursLeft, TheirsLeft, OursEdit, TheirsEdit, BaseLines
<1> QED
  BY <1>5, <1>6, <1>7, <1>8, <1>9, <1>10, <1>11, <1>12, <1>13, <1>14, <1>15, <1>16 DEF Next

(* The slices of the base that the walk takes are ranges of it: what has   *)
(* been output never lies beyond the next edit of either side, after a     *)
(* conflict group of any shape.                                            *)
THEOREM MergeSlicesInBounds == Spec => []SlicesInBounds
<1>1. Behind => SlicesInBounds
  <2> SUFFICES ASSUME Behind, pc = "lines" PROVE SlicesInBounds
    BY DEF SlicesInBounds
  <2>1. Compared /\ basePos \in 0..Len(BaseLines)
    BY DEF Behind
  <2>2. Len(BaseLines) \in Nat
    BY <2>1, SidesRebuilt
  <2>3. basePos <= Len(BaseLines)
    BY <2>1, <2>2
  <2> QED
    BY <2>3 DEF Behind, SlicesInBounds
<1> QED
  BY <1>1, BehindInit, BehindNext, PTL DEF Spec

=============================================================================
