----------------------------- MODULE CodecProofs ------------------------------
(* Deltas, trees and snapshots of any size and content, in files that are  *)
(* damaged in any way.                                                     *)
(*                                                                         *)
(* Provers cannot instantiate an operator, so the steps of a recursion are *)
(* given as a function and an induction hypothesis as a set of numbers.    *)
EXTENDS ObjectCodec, FiniteSetTheorems, FunctionTheorems, SequenceTheorems,
        WellFoundedInduction, TLAPS

-----------------------------------------------------------------------------
(* Numbers, sequences of sequences and sets in order.                      *)

(* A set of numbers that is not empty has a least one.                     *)
LEMMA LeastOf ==
    ASSUME NEW T \in SUBSET Nat, T # {}
    PROVE  \E x \in T : \A y \in T : x <= y
<1>1. \A x, y \in Nat : <<y, x>> \in OpToRel(<, Nat) <=> y < x
  BY DEF OpToRel
<1>2. \E R : IsWellFoundedOn(R, Nat) /\ \A x, y \in Nat : <<y, x>> \in R <=> y < x
  BY <1>1, NatLessThanWellFounded
<1>3. PICK R : IsWellFoundedOn(R, Nat) /\ \A x, y \in Nat : <<y, x>> \in R <=> y < x
  BY <1>2
<1>4. PICK x \in T : \A y \in T : ~(<<y, x>> \in R)
  BY <1>3, WFMin
<1>5. \A y \in T : ~(y < x)
  BY <1>3, <1>4, Zenon
<1> QED
  BY <1>5

(* A set that has 0, and with a number the next one, has all.              *)
LEMMA Induction ==
    ASSUME NEW T, 0 \in T, \A n \in Nat : n \in T => n + 1 \in T
    PROVE  \A n \in Nat : n \in T
<1> SUFFICES ASSUME NEW m \in Nat, m \notin T PROVE FALSE
  OBVIOUS
<1>1. PICK x \in Nat \ T : \A y \in Nat \ T : x <= y
  <2>1. (Nat \ T) \in SUBSET Nat /\ Nat \ T # {}
    OBVIOUS
  <2> QED
    BY <2>1, LeastOf
<1>2. x # 0 /\ x - 1 \in Nat /\ (x - 1) + 1 = x
  BY <1>1
<1>3. x - 1 \in T
  BY <1>1, <1>2
<1> QED
  BY <1>1, <1>2, <1>3

(* A function is determined by its value at 0 and the step from a value to *)
(* the next.                                                               *)
Recursive(f, V, base, step) ==
    f \in [Nat -> V] /\ f[0] = base /\ \A n \in Nat : f[n + 1] = step[<<n, f[n]>>]

LEMMA Recursion ==
    ASSUME NEW V, NEW base \in V, NEW step \in [Nat \X V -> V]
    PROVE  \E f : Recursive(f, V, base, step)
<1> DEFINE Upto(n, g) == /\ g \in [0..n -> V] /\ g[0] = base
                         /\ \A i \in 0..(n - 1) : g[i + 1] = step[<<i, g[i]>>]
           T == {n \in Nat : \E g : Upto(n, g)}
<1>1. 0 \in T
  <2>1. Upto(0, [i \in 0..0 |-> base])
    OBVIOUS
  <2> QED
    BY <2>1
<1>2. ASSUME NEW n \in Nat, n \in T PROVE n + 1 \in T
  <2>1. PICK g : Upto(n, g)
    BY <1>2
  <2> DEFINE h == [i \in 0..(n + 1) |-> IF i <= n THEN g[i] ELSE step[<<n, g[n]>>]]
  <2>2. g[n] \in V /\ step[<<n, g[n]>>] \in V
    BY <2>1
  <2>3. h \in [0..(n + 1) -> V]
    BY <2>1, <2>2
  <2>4. \A i \in 0..n : h[i + 1] = step[<<i, h[i]>>]
    <3> TAKE i \in 0..n
    <3>1. CASE i < n
      <4>1. i \in 0..(n - 1) /\ h[i] = g[i] /\ h[i + 1] = g[i + 1]
        BY <3>1
      <4> QED
        BY <4>1, <2>1
    <3>2. CASE i = n
      <4>1. h[n + 1] = step[<<n, g[n]>>] /\ h[n] = g[n]
        OBVIOUS
      <4> QED
        BY <3>2, <4>1
    <3> QED
      BY <3>1, <3>2
  <2>5. h[0] = base
    BY <2>1
  <2>6. (n + 1) - 1 = n
    OBVIOUS
  <2> HIDE DEF h
  <2>7. Upto(n + 1, h)
    BY <2>3, <2>4, <2>5, <2>6
  <2> QED
    BY <2>7
<1>3. \A n \in Nat : n \in T
  <2> HIDE DEF T
  <2> QED
    BY <1>1, <1>2, Induction
<1> DEFINE upto == [n \in Nat |-> CHOOSE g : Upto(n, g)]
<1>4. \A n \in Nat : Upto(n, upto[n])
  <2> TAKE n \in Nat
  <2>1. \E g : Upto(n, g)
    BY <1>3
  <2>2. upto[n] = CHOOSE g : Upto(n, g)
    OBVIOUS
  <2> HIDE DEF upto, Upto
  <2> QED
    BY <2>1, <2>2, Zenon
<1> HIDE DEF upto
<1>5. ASSUME NEW n \in Nat PROVE \A i \in 0..n : upto[n][i] = upto[n + 1][i]
  <2> DEFINE S == {i \in Nat : i <= n => upto[n][i] = upto[n + 1][i]}
  <2>1. Upto(n, upto[n]) /\ Upto(n + 1, upto[n + 1])
    BY <1>4
  <2>2. 0 \in S
    BY <2>1
  <2>3. ASSUME NEW i \in Nat, i \in S PROVE i + 1 \in S
    <3>1. CASE i + 1 <= n
      <4>1. i \in 0..(n - 1) /\ i \in 0..((n + 1) - 1) /\ upto[n][i] = upto[n + 1][i]
        BY <2>3, <3>1
      <4>2. upto[n][i + 1] = step[<<i, upto[n][i]>>]
        BY <2>1, <4>1
      <4>3. upto[n + 1][i + 1] = step[<<i, upto[n + 1][i]>>]
        BY <2>1, <4>1
      <4> QED
        BY <4>1, <4>2, <4>3
    <3> QED
      BY <3>1
  <2>4. \A i \in Nat : i \in S
    <3> HIDE DEF S
    <3> QED
      BY <2>2, <2>3, Induction
  <2> QED
    BY <2>4
<1> DEFINE f == [n \in Nat |-> upto[n][n]]
<1>6. \A n \in Nat : upto[n][n] \in V
  BY <1>4
<1>7. f \in [Nat -> V] /\ f[0] = base
  BY <1>4, <1>6
<1>8. ASSUME NEW n \in Nat PROVE f[n + 1] = step[<<n, f[n]>>]
  <2>1. Upto(n + 1, upto[n + 1]) /\ n \in 0..((n + 1) - 1)
    BY <1>4
  <2>2. upto[n + 1][n + 1] = step[<<n, upto[n + 1][n]>>]
    BY <2>1
  <2>3. upto[n + 1][n] = upto[n][n]
    BY <1>5
  <2> QED
    BY <2>2, <2>3
<1> HIDE DEF f
<1>9. Recursive(f, V, base, step)
  BY <1>7, <1>8 DEF Recursive
<1> QED
  BY <1>9

-----------------------------------------------------------------------------
(* A sequence of sequences, one after the other.                           *)

LEMMA FlattenParts ==
    ASSUME NEW V, NEW ss \in Seq(Seq(V)), ss # <<>>
    PROVE  \E f \in [1..Len(ss) -> Seq(V)] :
              /\ FlattenSeq(ss) = f[Len(ss)]
              /\ f[1] = ss[1]
              /\ \A i \in 1..(Len(ss) - 1) : f[i + 1] = f[i] \o ss[i + 1]
<1> DEFINE n == Len(ss)
           Is(f) == f = [i \in 1..n |-> IF i = 1 THEN ss[i] ELSE f[i - 1] \o ss[i]]
           step == [p \in Nat \X Seq(V) |->
                      IF p[1] + 2 \in 1..n THEN p[2] \o ss[p[1] + 2] ELSE p[2]]
<1>0. n \in Nat /\ n # 0 /\ DOMAIN ss = 1..n /\ \A i \in 1..n : ss[i] \in Seq(V)
  BY LenProperties, EmptySeq
<1>1. FlattenSeq(ss) = (CHOOSE f : Is(f))[n]
  BY <1>0 DEF FlattenSeq
<1>2. step \in [Nat \X Seq(V) -> Seq(V)]
  <2>1. \A p \in Nat \X Seq(V) :
          (IF p[1] + 2 \in 1..n THEN p[2] \o ss[p[1] + 2] ELSE p[2]) \in Seq(V)
    <3> TAKE p \in Nat \X Seq(V)
    <3>1. p[2] \in Seq(V)
      OBVIOUS
    <3>2. ASSUME p[1] + 2 \in 1..n PROVE p[2] \o ss[p[1] + 2] \in Seq(V)
      <4>1. ss[p[1] + 2] \in Seq(V)
        BY <1>0, <3>2
      <4> QED
        BY <3>1, <4>1, ConcatProperties
    <3> QED
      BY <3>1, <3>2
  <2> QED
    BY <2>1
<1>3. ss[1] \in Seq(V)
  BY <1>0
<1>4. \A m \in Nat, s \in Seq(V) :
         step[<<m, s>>] = IF m + 2 \in 1..n THEN s \o ss[m + 2] ELSE s
  OBVIOUS
<1> HIDE DEF step, n
<1>5. PICK g : Recursive(g, Seq(V), ss[1], step)
  BY <1>2, <1>3, Recursion, Zenon
<1>50. /\ g \in [Nat -> Seq(V)] /\ g[0] = ss[1]
       /\ \A m \in Nat : g[m + 1] = step[<<m, g[m]>>]
  BY <1>5 DEF Recursive
<1> DEFINE h == [i \in 1..n |-> g[i - 1]]
<1>6. Is(h)
  <2>1. ASSUME NEW i \in 1..n
        PROVE  g[i - 1] = IF i = 1 THEN ss[i] ELSE h[i - 1] \o ss[i]
    <3>1. CASE i = 1
      BY <1>50, <3>1
    <3>2. CASE i # 1
      <4>1. i - 2 \in Nat /\ i - 1 = (i - 2) + 1 /\ (i - 2) + 2 = i /\ i - 1 \in 1..n
            /\ (i - 1) - 1 = i - 2
        BY <1>0, <3>2
      <4>2. h[i - 1] = g[i - 2] /\ g[i - 2] \in Seq(V)
        BY <1>50, <4>1
      <4>3. g[i - 1] = step[<<i - 2, g[i - 2]>>]
        BY <1>50, <4>1
      <4>4. step[<<i - 2, g[i - 2]>>] = g[i - 2] \o ss[i]
        BY <1>4, <4>1, <4>2
      <4> QED
        BY <3>2, <4>2, <4>3, <4>4
    <3> QED
      BY <3>1, <3>2
  <2> QED
    BY <2>1
<1> DEFINE f == CHOOSE f : Is(f)
<1>7. Is(f)
  <2> HIDE DEF h, Is
  <2> QED
    BY <1>6
<1> HIDE DEF f, h
<1>8. f[1] = ss[1] /\ \A i \in 1..(n - 1) : f[i + 1] = f[i] \o ss[i + 1]
  <2>1. f[1] = ss[1]
    BY <1>0, <1>7
  <2>2. ASSUME NEW i \in 1..(n - 1) PROVE f[i + 1] = f[i] \o ss[i + 1]
    <3>1. i + 1 \in 1..n /\ i + 1 # 1 /\ (i + 1) - 1 = i
      BY <1>0
    <3> QED
      BY <1>7, <3>1
  <2> QED
    BY <2>1, <2>2
<1>9. \A m \in Nat : m \in {k \in Nat : k + 1 \in 1..n => f[k + 1] \in Seq(V)}
  <2> DEFINE T == {k \in Nat : k + 1 \in 1..n => f[k + 1] \in Seq(V)}
  <2>1. 0 \in T
    BY <1>0, <1>8
  <2>2. ASSUME NEW m \in Nat, m \in T PROVE m + 1 \in T
    <3>1. CASE (m + 1) + 1 \in 1..n
      <4>1. m + 1 \in 1..(n - 1) /\ f[m + 1] \in Seq(V) /\ ss[(m + 1) + 1] \in Seq(V)
        BY <1>0, <2>2, <3>1
      <4>2. f[(m + 1) + 1] = f[m + 1] \o ss[(m + 1) + 1]
        BY <1>8, <4>1
      <4>3. f[m + 1] \o ss[(m + 1) + 1] \in Seq(V)
        BY <4>1, ConcatProperties
      <4>4. f[(m + 1) + 1] \in Seq(V)
        BY <4>2, <4>3
      <4> HIDE DEF n
      <4> QED
        BY <4>4
    <3> QED
      BY <3>1
  <2> HIDE DEF T
  <2>3. \A m \in Nat : m \in T
    BY <2>1, <2>2, Induction
  <2> QED
    BY <2>3 DEF T
<1>10. f \in [1..n -> Seq(V)]
  <2>1. ASSUME NEW i \in 1..n PROVE f[i] \in Seq(V)
    <3>1. i - 1 \in Nat /\ (i - 1) + 1 = i
      OBVIOUS
    <3> QED
      BY <1>9, <3>1
  <2>2. f = [i \in 1..n |-> f[i]]
    BY <1>7
  <2> QED
    BY <2>1, <2>2
<1> QED
  BY <1>1, <1>8, <1>10 DEF n, f

LEMMA FlattenNone == FlattenSeq(<<>>) = <<>>
  BY DEF FlattenSeq

LEMMA FlattenCons ==
    ASSUME NEW V, NEW s \in Seq(V), NEW ss \in Seq(Seq(V))
    PROVE  /\ FlattenSeq(ss) \in Seq(V)
           /\ FlattenSeq(<<s>> \o ss) = s \o FlattenSeq(ss)
<1> DEFINE all == <<s>> \o ss
           n == Len(ss)
<1>1. n \in Nat /\ \A i \in 1..n : ss[i] \in Seq(V)
  BY LenProperties
<1>2. <<s>> \in Seq(Seq(V)) /\ Len(<<s>>) = 1
  OBVIOUS
<1>3. all \in Seq(Seq(V)) /\ Len(all) = n + 1 /\ all[1] = s
  BY <1>1, <1>2, ConcatProperties
<1>4. \A i \in 1..n : all[i + 1] = ss[i]
  <2> TAKE i \in 1..n
  <2>1. i + 1 \in 1..(1 + n) /\ (i + 1) - 1 = i /\ ~(i + 1 <= 1)
    BY <1>1
  <2> QED
    BY <1>2, <2>1, ConcatProperties
<1>5. all # <<>>
  BY <1>1, <1>3
<1> HIDE DEF all, n
<1>6. PICK h \in [1..Len(all) -> Seq(V)] :
         /\ FlattenSeq(all) = h[Len(all)] /\ h[1] = all[1]
         /\ \A i \in 1..(Len(all) - 1) : h[i + 1] = h[i] \o all[i + 1]
  BY <1>3, <1>5, FlattenParts
<1>7. CASE ss = <<>>
  <2>1. n = 0 /\ FlattenSeq(ss) = <<>> /\ <<>> \in Seq(V)
    BY <1>7, FlattenNone DEF n
  <2>2. FlattenSeq(all) = s
    BY <1>3, <1>6, <2>1
  <2> QED
    BY <2>1, <2>2, ConcatEmptySeq DEF all
<1>8. CASE ss # <<>>
  <2>1. PICK f \in [1..n -> Seq(V)] :
           /\ FlattenSeq(ss) = f[n] /\ f[1] = ss[1]
           /\ \A i \in 1..(n - 1) : f[i + 1] = f[i] \o ss[i + 1]
    BY <1>8, FlattenParts DEF n
  <2>2. n # 0
    BY <1>8, EmptySeq DEF n
  <2> DEFINE T == {k \in Nat : k + 1 <= n => h[k + 2] = s \o f[k + 1]}
  <2>3. 0 \in T
    <3>0. 1 \in 1..n /\ 1 \in 1..(Len(all) - 1)
      BY <1>1, <1>3, <2>2
    <3>1. h[1 + 1] = h[1] \o all[1 + 1] /\ all[1 + 1] = ss[1]
      BY <1>4, <1>6, <3>0
    <3>2. h[2] = s \o f[1]
      BY <3>1, <1>3, <1>6, <2>1
    <3> QED
      BY <3>2
  <2>4. ASSUME NEW k \in Nat, k \in T PROVE k + 1 \in T
    <3> SUFFICES ASSUME (k + 1) + 1 <= n PROVE h[(k + 1) + 2] = s \o f[(k + 1) + 1]
      OBVIOUS
    <3>1. h[k + 2] = s \o f[k + 1]
      BY <1>1, <2>4
    <3>2. /\ k + 1 \in 1..(n - 1) /\ k + 2 \in 1..n /\ k + 2 \in 1..(Len(all) - 1)
          /\ (k + 1) + 2 = (k + 2) + 1 /\ (k + 1) + 1 = k + 2 /\ k + 1 \in 1..n
      BY <1>1, <1>3
    <3>3. h[(k + 2) + 1] = h[k + 2] \o all[(k + 2) + 1]
      BY <1>6, <3>2
    <3>4. f[k + 2] = f[k + 1] \o ss[k + 2]
      BY <2>1, <3>2
    <3>5. all[(k + 2) + 1] = ss[k + 2]
      BY <1>4, <3>2
    <3>6. f[k + 1] \in Seq(V) /\ ss[k + 2] \in Seq(V)
      BY <1>1, <2>1, <3>2
    <3>7. (s \o f[k + 1]) \o ss[k + 2] = s \o (f[k + 1] \o ss[k + 2])
      <4>1. ASSUME NEW x \in Seq(V), NEW y \in Seq(V)
            PROVE  (s \o x) \o y = s \o (x \o y)
        BY ConcatAssociative, SMTT(60)
      <4> QED
        BY <3>6, <4>1, Zenon
    <3> QED
      BY <3>1, <3>2, <3>3, <3>4, <3>5, <3>7
  <2>5. \A k \in Nat : k \in T
    <3> HIDE DEF T
    <3> QED
      BY <2>3, <2>4, Induction
  <2>6. n - 1 \in Nat /\ (n - 1) + 1 = n /\ (n - 1) + 2 = Len(all)
    BY <1>1, <1>3, <2>2
  <2>7. h[Len(all)] = s \o f[n]
    <3>1. n - 1 \in T
      BY <2>5, <2>6
    <3>2. (n - 1) + 1 <= n => h[(n - 1) + 2] = s \o f[(n - 1) + 1]
      BY <3>1
    <3> QED
      BY <1>1, <2>6, <3>2
  <2>8. f[n] \in Seq(V)
    BY <1>1, <2>1, <2>2
  <2> QED
    BY <1>6, <2>1, <2>7, <2>8 DEF all
<1> QED
  BY <1>7, <1>8

(* One sequence more to join.                                              *)
LEMMA FlattenAppend ==
    ASSUME NEW V, NEW ss \in Seq(Seq(V)), NEW s \in Seq(V)
    PROVE  /\ FlattenSeq(ss) \in Seq(V)
           /\ FlattenSeq(Append(ss, s)) = FlattenSeq(ss) \o s
<1> DEFINE all == Append(ss, s)
           n == Len(ss)
<1>0. FlattenSeq(ss) \in Seq(V)
  BY FlattenCons
<1>1. n \in Nat /\ \A i \in 1..n : ss[i] \in Seq(V)
  BY LenProperties, ElementOfSeq
<1>2. /\ all \in Seq(Seq(V)) /\ Len(all) = n + 1 /\ all # <<>>
      /\ \A i \in 1..n : all[i] = ss[i]
      /\ all[n + 1] = s
  BY AppendProperties
<1> HIDE DEF all
<1>3. PICK h \in [1..Len(all) -> Seq(V)] :
         /\ FlattenSeq(all) = h[Len(all)] /\ h[1] = all[1]
         /\ \A i \in 1..(Len(all) - 1) : h[i + 1] = h[i] \o all[i + 1]
  BY <1>2, FlattenParts
<1>4. CASE ss = <<>>
  <2>1. n = 0
    BY <1>4, EmptySeq
  <2>2. FlattenSeq(all) = s
    BY <1>2, <1>3, <2>1
  <2>3. <<>> \o s = s
    BY ConcatEmptySeq
  <2> QED
    BY <1>0, <1>4, <2>2, <2>3, FlattenNone DEF all
<1>5. CASE ss # <<>>
  <2>1. PICK f \in [1..n -> Seq(V)] :
           /\ FlattenSeq(ss) = f[n] /\ f[1] = ss[1]
           /\ \A i \in 1..(n - 1) : f[i + 1] = f[i] \o ss[i + 1]
    BY <1>5, FlattenParts
  <2>2. n # 0
    BY <1>5, EmptySeq
  <2> HIDE DEF n
  <2> DEFINE T == {k \in Nat : k + 1 <= n => h[k + 1] = f[k + 1]}
  <2>3. 0 \in T
    <3>1. 1 \in 1..n
      BY <1>1, <2>2
    <3> QED
      BY <1>2, <1>3, <2>1, <3>1
  <2>4. ASSUME NEW k \in Nat, k \in T PROVE k + 1 \in T
    <3> SUFFICES ASSUME (k + 1) + 1 <= n PROVE h[(k + 1) + 1] = f[(k + 1) + 1]
      OBVIOUS
    <3> DEFINE i == k + 1
    <3>1. /\ i \in 1..(n - 1) /\ i \in 1..(Len(all) - 1) /\ i + 1 \in 1..n /\ i <= n
      BY <1>1, <1>2
    <3>2. h[i] = f[i]
      BY <2>4, <3>1
    <3> HIDE DEF i
    <3>3. h[i + 1] = h[i] \o all[i + 1] /\ f[i + 1] = f[i] \o ss[i + 1] /\ all[i + 1] = ss[i + 1]
      BY <1>2, <1>3, <2>1, <3>1
    <3> QED
      BY <3>2, <3>3 DEF i
  <2>5. \A k \in Nat : k \in T
    <3> HIDE DEF T
    <3> QED
      BY <2>3, <2>4, Induction
  <2>6. n - 1 \in Nat /\ (n - 1) + 1 = n /\ n <= n
    BY <1>1, <2>2
  <2>7. h[n] = f[n]
    <3>1. n - 1 \in T
      BY <2>5, <2>6
    <3>2. (n - 1) + 1 <= n => h[(n - 1) + 1] = f[(n - 1) + 1]
      BY <3>1
    <3> QED
      BY <2>6, <3>2
  <2>8. h[n + 1] = h[n] \o all[n + 1]
    <3>1. n \in 1..(Len(all) - 1)
      BY <1>1, <1>2, <2>2
    <3> QED
      BY <1>3, <3>1
  <2> QED
    BY <1>0, <1>2, <1>3, <2>1, <2>7, <2>8 DEF all
<1> QED
  BY <1>4, <1>5

-----------------------------------------------------------------------------
(* Sorting.  The number of elements before e is less than that before f if *)
(* e comes before f, so that they are 0, 1, ... in the order's direction.  *)

LEMMA Ranks ==
    ASSUME NEW S, IsFiniteSet(S), NEW before \in [S -> SUBSET S],
           \A d, e \in S : d \in before[e] => before[d] \subseteq before[e],
           \A d \in S : d \notin before[d],
           \A d, e \in S : d = e \/ d \in before[e] \/ e \in before[d],
           NEW s, s = [k \in 1..Cardinality(S) |-> s[k]],
           \A k \in 1..Cardinality(S) : \A e \in S :
              Cardinality(before[e]) = k - 1 => s[k] \in S /\ Cardinality(before[s[k]]) = k - 1
    PROVE  /\ Cardinality(S) \in Nat
           /\ s \in [1..Cardinality(S) -> S]
           /\ \A e \in S : \E k \in 1..Cardinality(S) : s[k] = e
           /\ \A i, j \in 1..Cardinality(S) : i < j <=> s[i] \in before[s[j]]
<1> DEFINE n == Cardinality(S)
           rank == [e \in S |-> Cardinality(before[e])]
<1>0. n \in Nat
  BY FS_CardinalityType
<1>1. ASSUME NEW e \in S
      PROVE  before[e] \in SUBSET S /\ IsFiniteSet(before[e]) /\ Cardinality(before[e]) \in Nat
  <2>1. before[e] \in SUBSET S
    OBVIOUS
  <2> QED
    BY <2>1, FS_Subset, FS_CardinalityType
<1>2. ASSUME NEW d \in S, NEW e \in S, d \in before[e] PROVE rank[d] < rank[e]
  <2>1. before[d] \cup {d} \in SUBSET before[e] /\ d \notin before[d]
    BY <1>2
  <2>2. IsFiniteSet(before[d]) /\ IsFiniteSet(before[e])
    BY <1>1
  <2>3. Cardinality(before[d] \cup {d}) = Cardinality(before[d]) + 1
    BY <2>1, <2>2, FS_AddElement
  <2>4. Cardinality(before[d] \cup {d}) <= Cardinality(before[e])
    BY <2>1, <2>2, FS_Subset
  <2> QED
    BY <1>1, <2>3, <2>4
<1>3. ASSUME NEW e \in S PROVE rank[e] \in 0..(n - 1)
  <2>1. before[e] \in SUBSET (S \ {e})
    BY <1>1
  <2>2. IsFiniteSet(S \ {e}) /\ Cardinality(S \ {e}) = n - 1
    BY FS_RemoveElement
  <2>3. Cardinality(before[e]) <= Cardinality(S \ {e})
    BY <2>1, <2>2, FS_Subset
  <2> HIDE DEF n
  <2> QED
    BY <1>0, <1>1, <2>2, <2>3
<1>4. \A d \in S : rank[d] \in Nat
  BY <1>1
<1> HIDE DEF rank
<1>5. \A d, e \in S : d \in before[e] <=> rank[d] < rank[e]
  <2> TAKE d, e \in S
  <2>1. rank[d] \in Nat /\ rank[e] \in Nat
    BY <1>4
  <2>2. CASE d = e
    BY <2>1, <2>2
  <2>3. CASE d \in before[e]
    BY <1>2, <2>3
  <2>4. CASE e \in before[d]
    <3>1. rank[e] < rank[d]
      BY <1>2, <2>4
    <3>2. d \notin before[e]
      BY <1>2, <3>1, <2>1
    <3> QED
      BY <2>1, <3>1, <3>2
  <2> QED
    BY <2>2, <2>3, <2>4
<1>6. \A d, e \in S : rank[d] = rank[e] => d = e
  <2> SUFFICES ASSUME NEW d \in S, NEW e \in S, rank[d] = rank[e] PROVE d = e
    OBVIOUS
  <2>1. rank[d] \in Nat
    BY <1>4
  <2>2. ~(rank[d] < rank[e]) /\ ~(rank[e] < rank[d])
    BY <2>1
  <2> QED
    BY <1>5, <2>2
<1>7. IsFiniteSet(0..(n - 1)) /\ Cardinality(0..(n - 1)) = n
  <2> HIDE DEF n
  <2>0. \A a, b \in Int : /\ IsFiniteSet(a..b)
                          /\ Cardinality(a..b) = IF a > b THEN 0 ELSE b - a + 1
    BY FS_Interval
  <2> DEFINE m == n - 1
  <2>1. m \in Int /\ 0 \in Int
    BY <1>0
  <2> HIDE DEF m
  <2>2. IsFiniteSet(0..m) /\ Cardinality(0..m) = IF 0 > m THEN 0 ELSE m - 0 + 1
    BY <2>0, <2>1
  <2>3. Cardinality(0..m) = n
    BY <1>0, <2>2 DEF m
  <2> QED
    BY <2>2, <2>3 DEF m
<1> HIDE DEF n
<1>8. rank \in Injection(S, 0..(n - 1))
  <2>1. rank \in [S -> 0..(n - 1)] /\ DOMAIN rank = S
    BY <1>3 DEF rank
  <2> QED
    BY <1>6, <2>1 DEF Injection, IsInjective
<1>9. rank \in Surjection(S, 0..(n - 1))
  BY <1>7, <1>8, FS_Injection DEF n
<1>10. \A k \in 0..(n - 1) : \E e \in S : rank[e] = k
  BY <1>9 DEF Surjection
<1>11. ASSUME NEW k \in 1..n, NEW e \in S, rank[e] = k - 1
      PROVE  s[k] \in S /\ rank[s[k]] = k - 1
  BY <1>11 DEF rank, n
<1>12. ASSUME NEW k \in 1..n PROVE s[k] \in S /\ rank[s[k]] = k - 1
  <2>1. k - 1 \in 0..(n - 1)
    BY <1>0
  <2>2. PICK e \in S : rank[e] = k - 1
    BY <1>10, <2>1, Zenon
  <2> QED
    BY <1>11, <2>2
<1>13. s \in [1..n -> S]
  BY <1>12 DEF n
<1>14. ASSUME NEW e \in S PROVE \E k \in 1..n : s[k] = e
  <2>1. rank[e] + 1 \in 1..n /\ (rank[e] + 1) - 1 = rank[e]
    BY <1>0, <1>3, <1>4
  <2>2. rank[s[rank[e] + 1]] = rank[e] /\ s[rank[e] + 1] \in S
    BY <1>12, <2>1
  <2> QED
    BY <1>6, <2>1, <2>2
<1>15. \A i, j \in 1..n : i < j <=> s[i] \in before[s[j]]
  <2> TAKE i, j \in 1..n
  <2>1. s[i] \in S /\ s[j] \in S /\ rank[s[i]] = i - 1 /\ rank[s[j]] = j - 1
    BY <1>12
  <2>2. s[i] \in before[s[j]] <=> i - 1 < j - 1
    BY <1>5, <2>1
  <2> QED
    BY <1>0, <2>2
<1> QED
  BY <1>0, <1>13, <1>14, <1>15 DEF n

(* Different elements in places 1..n are n elements.                       *)
LEMMA Counted ==
    ASSUME NEW n \in Nat, NEW f, \A i, j \in 1..n : f[i] = f[j] => i = j,
           NEW S, S = {f[i] : i \in 1..n}
    PROVE  IsFiniteSet(S) /\ Cardinality(S) = n
<1> DEFINE g == [i \in 1..n |-> f[i]]
<1>1. g \in [1..n -> S] /\ DOMAIN g = 1..n
  OBVIOUS
<1>2. \A i, j \in 1..n : g[i] = g[j] => i = j
  OBVIOUS
<1>3. \A e \in S : \E i \in 1..n : g[i] = e
  OBVIOUS
<1> HIDE DEF g
<1>4. g \in Bijection(1..n, S)
  BY <1>1, <1>2, <1>3 DEF Bijection, Injection, Surjection, IsInjective
<1>5. ExistsBijection(1..n, S)
  BY <1>4 DEF ExistsBijection
<1>6. IsFiniteSet(S)
  BY <1>5, FS_NatBijection
<1>7. Cardinality(S) = n
  BY <1>5, FS_CountingElements
<1> QED
  BY <1>6, <1>7

-----------------------------------------------------------------------------
(* The fields of a file are numbers below Limit.                           *)

LEMMA LengthsAreNumbers ==
    /\ Lengths \subseteq Nat /\ 0 \in Lengths /\ DeltaMagic \in Lengths /\ BaseId \in Lengths
    /\ Limit \in Nat /\ HeaderFields < Limit
  BY DeltaAssumption DEF DeltaAssumption, Lengths, DeltaMagic, HeaderFields, BaseId

LEMMA LengthIsBelow == \A n : n \in Lengths <=> n \in Nat /\ n < Limit
<1>1. Limit \in Nat
  BY LengthsAreNumbers
<1> QED
  BY <1>1 DEF Lengths

(* One that is bounded has a greatest one, and Max is it.                  *)
LEMMA MaxOf ==
    ASSUME NEW n \in Nat, NEW S \in SUBSET (0..n), S # {}
    PROVE  Max(S) \in S /\ \A y \in S : y <= Max(S)
<1> DEFINE T == {n - y : y \in S}
<1>1. T \in SUBSET Nat /\ T # {}
  <2>1. \A y \in S : y \in Nat /\ n - y \in Nat
    OBVIOUS
  <2> QED
    BY <2>1
<1>2. PICK x \in T : \A y \in T : x <= y
  BY <1>1, LeastOf
<1>3. PICK m \in S : x = n - m
  BY <1>2
<1>4. \A y \in S : y <= m
  BY <1>2, <1>3
<1>5. \E k \in S : \A y \in S : k >= y
  BY <1>4
<1> QED
  BY <1>5 DEF Max

LEMMA MinOf ==
    ASSUME NEW m \in Nat, NEW n \in Nat
    PROVE  /\ Min({m, n}) \in Nat
           /\ Min({m, n}) <= m /\ Min({m, n}) <= n
           /\ Min({m, n}) \in {m, n}
<1>1. \E x \in {m, n} : \A y \in {m, n} : x <= y
  OBVIOUS
<1> QED
  BY <1>1 DEF Min

-----------------------------------------------------------------------------
(* Deltas of any two blobs.                                                *)

(* The prefix is common, and the suffix is, and neither reaches into the   *)
(* other.                                                                  *)
LEMMA PrefixIsCommon ==
    ASSUME NEW S, NEW base \in Seq(S), NEW target \in Seq(S)
    PROVE  LET n == CommonPrefixLen(base, target)
           IN /\ n \in Nat /\ n <= Len(base) /\ n <= Len(target)
              /\ \A k \in 1..n : base[k] = target[k]
<1> DEFINE least == Min({Len(base), Len(target)})
           N == {n \in 0..least : \A k \in 1..n : base[k] = target[k]}
<1>1. least \in Nat /\ least <= Len(base) /\ least <= Len(target)
  BY MinOf, LenProperties
<1> HIDE DEF least
<1>2. 0 \in N
  BY <1>1
<1>3. N \in SUBSET (0..least) /\ N # {}
  BY <1>2
<1>4. Max(N) \in N
  BY <1>1, <1>3, MaxOf
<1>5. CommonPrefixLen(base, target) = Max(N)
  BY DEF CommonPrefixLen, least
<1> QED
  BY <1>1, <1>4, <1>5, LenProperties

LEMMA SuffixIsCommon ==
    ASSUME NEW S, NEW base \in Seq(S), NEW target \in Seq(S), NEW prefix \in Nat,
           prefix <= Len(base), prefix <= Len(target)
    PROVE  LET n == CommonSuffixLen(base, target, prefix)
           IN /\ n \in Nat /\ prefix + n <= Len(base) /\ prefix + n <= Len(target)
              /\ \A k \in 0..(n - 1) : base[Len(base) - k] = target[Len(target) - k]
<1> DEFINE least == Min({Len(base), Len(target)}) - prefix
           N == {n \in 0..least :
                    \A k \in 0..(n - 1) : base[Len(base) - k] = target[Len(target) - k]}
<1>1. least \in Nat /\ prefix + least <= Len(base) /\ prefix + least <= Len(target)
  BY MinOf, LenProperties
<1> HIDE DEF least
<1>2. 0 \in N
  BY <1>1
<1>3. N \in SUBSET (0..least) /\ N # {}
  BY <1>2
<1>4. PICK n \in N : n = Max(N)
  BY <1>1, <1>3, MaxOf
<1>5. CommonSuffixLen(base, target, prefix) = Max(N)
  BY DEF CommonSuffixLen, least
<1>6. n \in Nat /\ n <= least
  BY <1>1, <1>4
<1>7. prefix + n <= Len(base) /\ prefix + n <= Len(target)
  BY <1>1, <1>6, LenProperties
<1>8. \A k \in 0..(n - 1) : base[Len(base) - k] = target[Len(target) - k]
  BY <1>4
<1> HIDE DEF N
<1> QED
  BY <1>4, <1>5, <1>6, <1>7, <1>8

(* A blob is its prefix, what is inserted and its suffix.                  *)
LEMMA ThreeParts ==
    ASSUME NEW S, NEW base \in Seq(S), NEW target \in Seq(S),
           NEW prefix \in Nat, NEW suffix \in Nat,
           prefix + suffix <= Len(base), prefix + suffix <= Len(target),
           \A k \in 1..prefix : base[k] = target[k],
           \A k \in 0..(suffix - 1) : base[Len(base) - k] = target[Len(target) - k]
    PROVE  SubSeq(base, 1, prefix) \o SubSeq(target, prefix + 1, Len(target) - suffix)
           \o SubSeq(base, Len(base) - suffix + 1, Len(base)) = target
<1> DEFINE first == SubSeq(base, 1, prefix)
           insert == SubSeq(target, prefix + 1, Len(target) - suffix)
           last == SubSeq(base, Len(base) - suffix + 1, Len(base))
<1>0. /\ Len(base) \in Nat /\ Len(target) \in Nat
      /\ \A i \in 1..Len(base) : base[i] \in S
      /\ \A i \in 1..Len(target) : target[i] \in S
  BY LenProperties, ElementOfSeq
<1>1. /\ first \in Seq(S) /\ Len(first) = prefix
      /\ \A i \in 1..prefix : first[i] = base[i]
  <2>1. \A i \in 1..prefix : base[i] \in S
    BY <1>0
  <2>2. /\ first \in Seq(S)
        /\ Len(first) = IF 1 <= prefix THEN prefix - 1 + 1 ELSE 0
        /\ \A i \in 1..(prefix - 1 + 1) : first[i] = base[1 + i - 1]
    BY <2>1, SubSeqProperties
  <2> HIDE DEF first
  <2> QED
    BY <2>2
<1>2. /\ insert \in Seq(S) /\ Len(insert) = Len(target) - suffix - prefix
      /\ \A i \in 1..(Len(target) - suffix - prefix) : insert[i] = target[prefix + i]
  <2> DEFINE m == prefix + 1
             n == Len(target) - suffix
  <2>1. m \in Int /\ n \in Int /\ \A i \in m..n : target[i] \in S
    BY <1>0
  <2>2. /\ insert \in Seq(S)
        /\ Len(insert) = IF m <= n THEN n - m + 1 ELSE 0
        /\ \A i \in 1..(n - m + 1) : insert[i] = target[m + i - 1]
    BY <2>1, SubSeqProperties
  <2> HIDE DEF insert
  <2> QED
    BY <1>0, <2>2
<1>3. /\ last \in Seq(S) /\ Len(last) = suffix
      /\ \A i \in 1..suffix : last[i] = base[Len(base) - suffix + i]
  <2> DEFINE m == Len(base) - suffix + 1
             n == Len(base)
  <2>1. m \in Int /\ n \in Int /\ \A i \in m..n : base[i] \in S
    BY <1>0
  <2>2. /\ last \in Seq(S)
        /\ Len(last) = IF m <= n THEN n - m + 1 ELSE 0
        /\ \A i \in 1..(n - m + 1) : last[i] = base[m + i - 1]
    BY <2>1, SubSeqProperties
  <2> HIDE DEF last
  <2> QED
    BY <1>0, <2>2
<1> HIDE DEF first, insert, last
<1> DEFINE front == first \o insert
           all == front \o last
<1>4. /\ front \in Seq(S) /\ Len(front) = Len(target) - suffix
      /\ \A i \in 1..(Len(target) - suffix) :
            front[i] = IF i <= prefix THEN first[i] ELSE insert[i - prefix]
  <2>1. /\ front \in Seq(S) /\ Len(front) = Len(first) + Len(insert)
        /\ \A i \in 1..(Len(first) + Len(insert)) :
              front[i] = IF i <= Len(first) THEN first[i] ELSE insert[i - Len(first)]
    BY <1>1, <1>2, ConcatProperties
  <2> HIDE DEF front
  <2> QED
    BY <1>0, <1>1, <1>2, <2>1
<1> HIDE DEF front
<1>5. /\ all \in Seq(S) /\ Len(all) = Len(target)
      /\ \A i \in 1..Len(target) :
            all[i] = IF i <= Len(target) - suffix THEN front[i]
                     ELSE last[i - (Len(target) - suffix)]
  <2>0. front \in Seq(S) /\ last \in Seq(S)
    BY <1>3, <1>4
  <2>1. /\ all \in Seq(S) /\ Len(all) = Len(front) + Len(last)
        /\ \A i \in 1..(Len(front) + Len(last)) :
              all[i] = IF i <= Len(front) THEN front[i] ELSE last[i - Len(front)]
    BY <2>0, ConcatProperties
  <2> HIDE DEF all
  <2> QED
    BY <1>0, <1>3, <1>4, <2>1
<1> HIDE DEF all
<1>6. ASSUME NEW i \in 1..Len(all) PROVE all[i] = target[i]
  <2>1. CASE i <= prefix
    <3>1. /\ i \in 1..prefix /\ i \in 1..(Len(target) - suffix) /\ i \in 1..Len(target)
          /\ i <= Len(target) - suffix
      BY <1>0, <1>5, <2>1
    <3>2. all[i] = front[i] /\ front[i] = first[i] /\ first[i] = base[i]
      BY <1>1, <1>4, <1>5, <2>1, <3>1
    <3> QED
      BY <3>1, <3>2
  <2>2. CASE i > prefix /\ i <= Len(target) - suffix
    <3>1. i - prefix \in 1..(Len(target) - suffix - prefix) /\ prefix + (i - prefix) = i
      BY <1>0, <2>2
    <3>2. all[i] = insert[i - prefix]
      BY <1>0, <1>4, <1>5, <2>2
    <3> QED
      BY <1>2, <3>1, <3>2
  <2>3. CASE i > Len(target) - suffix
    <3> DEFINE j == i - (Len(target) - suffix)
               k == Len(target) - i
    <3>1. /\ j \in 1..suffix /\ k \in 0..(suffix - 1)
          /\ Len(base) - suffix + j = Len(base) - k /\ Len(target) - k = i
      BY <1>0, <1>5, <2>3
    <3>2. all[i] = last[j]
      BY <1>0, <1>5, <2>3
    <3> HIDE DEF j, k
    <3> QED
      BY <1>3, <3>1, <3>2
  <2> QED
    BY <1>0, <1>5, <2>1, <2>2, <2>3
<1>7. all = target
  BY <1>5, <1>6, SeqEqual
<1> QED
  BY <1>7 DEF all, front, first, insert, last

(* The delta of any two blobs takes ranges of the base that exist, and     *)
(* rebuilds the target from it (BlobDelta::create, reconstruct).           *)
THEOREM DeltaRebuilds ==
    ASSUME NEW S, NEW base \in Seq(S), NEW target \in Seq(S), NEW id, NEW depth \in Nat,
           CreateDelta(id, base, depth, target) # Invalid
    PROVE  LET d == CreateDelta(id, base, depth, target)
           IN RangesFit(d, base) /\ Reconstruct(d, base) = target
<1> DEFINE prefix == CommonPrefixLen(base, target)
           suffix == CommonSuffixLen(base, target, prefix)
           insert == SubSeq(target, prefix + 1, Len(target) - suffix)
           d == CreateDelta(id, base, depth, target)
<1>0. Len(base) \in Nat /\ Len(target) \in Nat
  BY LenProperties
<1>1. /\ prefix \in Nat /\ prefix <= Len(base) /\ prefix <= Len(target)
      /\ \A k \in 1..prefix : base[k] = target[k]
  BY PrefixIsCommon
<1> HIDE DEF prefix
<1>2. /\ suffix \in Nat /\ prefix + suffix <= Len(base) /\ prefix + suffix <= Len(target)
      /\ \A k \in 0..(suffix - 1) : base[Len(base) - k] = target[Len(target) - k]
  BY <1>1, SuffixIsCommon
<1>3. d = [depth |-> depth + 1, baseId |-> id, baseLen |-> Len(base),
           targetLen |-> Len(target), prefix |-> prefix, suffix |-> suffix, insert |-> insert]
  BY DEF CreateDelta, prefix
<1> HIDE DEF suffix, d
<1>4. Len(insert) = Len(target) - prefix - suffix
  <2> DEFINE m == prefix + 1
             n == Len(target) - suffix
  <2>1. m \in Int /\ n \in Int /\ \A i \in m..n : target[i] \in S
    BY <1>0, <1>1, <1>2, ElementOfSeq
  <2>2. Len(insert) = IF m <= n THEN n - m + 1 ELSE 0
    BY <2>1, SubSeqProperties
  <2> HIDE DEF insert
  <2> QED
    BY <1>0, <1>1, <1>2, <2>2
<1>5. SubSeq(base, 1, prefix) \o insert
      \o SubSeq(base, Len(base) - suffix + 1, Len(base)) = target
  BY <1>1, <1>2, ThreeParts
<1> HIDE DEF insert
<1>6. RangesFit(d, base)
  BY <1>0, <1>1, <1>2, <1>3, <1>4 DEF RangesFit
<1>7. Reconstruct(d, base) = target
  BY <1>3, <1>5, <1>6 DEF Reconstruct
<1> QED
  BY <1>6, <1>7 DEF d

(* What fits into the fields is read as it was written, also where the     *)
(* sum of the lengths is computed without a check for overflow.            *)
DeltaRecords ==
    [depth : Lengths, baseId : Lengths, baseLen : Lengths, targetLen : Lengths,
     prefix : Lengths, suffix : Lengths, insert : Seq(Lengths)]

LEMMA ModOfLength ==
    ASSUME NEW n \in Lengths
    PROVE  /\ n % Limit = n
           /\ HeaderFields + n >= Limit => (HeaderFields + n) % Limit = HeaderFields + n - Limit
<1>1. Limit \in Nat /\ HeaderFields < Limit /\ n \in Nat /\ n < Limit
  BY LengthsAreNumbers DEF Lengths
<1>2. \A a \in Nat, q \in Nat : a < q => a % q = a
  OBVIOUS
<1>3. \A a \in Nat, q \in Nat : q <= a /\ a < q + q => a % q = a - q
  OBVIOUS
<1>4. HeaderFields + n \in Nat /\ HeaderFields + n < Limit + Limit
  BY <1>1 DEF HeaderFields
<1>5. n % Limit = n
  BY <1>1, <1>2
<1>6. ASSUME HeaderFields + n >= Limit
      PROVE  (HeaderFields + n) % Limit = HeaderFields + n - Limit
  <2> DEFINE a == HeaderFields + n
  <2>1. a \in Nat /\ Limit \in Nat /\ Limit <= a /\ a < Limit + Limit
    BY <1>1, <1>4, <1>6
  <2> HIDE DEF a
  <2>2. a % Limit = a - Limit
    BY <2>1, <1>3
  <2> QED
    BY <1>1, <2>2 DEF a, HeaderFields
<1> QED
  BY <1>5, <1>6

LEMMA EncodedDelta ==
    ASSUME NEW d \in DeltaRecords, HeaderFields + Len(d.insert) \in Lengths
    PROVE  /\ EncodeDelta(d) \in Seq(Lengths)
           /\ EncodeDelta(d) # <<>>
           /\ DecodeDelta(EncodeDelta(d)) = d
<1> DEFINE header == <<DeltaMagic, d.depth, d.baseId, d.baseLen, d.targetLen, d.prefix,
                       d.suffix, Len(d.insert)>>
           bytes == header \o d.insert
<1>0. d.insert \in Seq(Lengths) /\ Len(d.insert) \in Nat
  BY LenProperties DEF DeltaRecords
<1>1. Len(d.insert) \in Lengths
  BY <1>0, LengthsAreNumbers DEF Lengths, HeaderFields
<1>2. header \in Seq(Lengths) /\ Len(header) = 8
  BY <1>1, LengthsAreNumbers DEF DeltaRecords
<1>3. /\ header[1] = DeltaMagic /\ header[2] = d.depth /\ header[3] = d.baseId
      /\ header[4] = d.baseLen /\ header[5] = d.targetLen /\ header[6] = d.prefix
      /\ header[7] = d.suffix /\ header[8] = Len(d.insert)
  OBVIOUS
<1> HIDE DEF header
<1>4. /\ bytes \in Seq(Lengths) /\ Len(bytes) = 8 + Len(d.insert)
      /\ \A i \in 1..(8 + Len(d.insert)) :
            bytes[i] = IF i <= 8 THEN header[i] ELSE d.insert[i - 8]
  <2>1. /\ bytes \in Seq(Lengths) /\ Len(bytes) = Len(header) + Len(d.insert)
        /\ \A i \in 1..(Len(header) + Len(d.insert)) :
              bytes[i] = IF i <= Len(header) THEN header[i] ELSE d.insert[i - Len(header)]
    BY <1>0, <1>2, ConcatProperties
  <2> HIDE DEF bytes
  <2> QED
    BY <1>2, <2>1
<1>5. EncodeDelta(d) = bytes
  BY DEF EncodeDelta, header
<1> HIDE DEF bytes
<1>6. SubSeq(bytes, 9, Len(bytes)) = d.insert
  <2> DEFINE tail == SubSeq(bytes, 9, Len(bytes))
  <2>1. Len(bytes) \in Int /\ \A i \in 9..Len(bytes) : bytes[i] \in Lengths
    BY <1>0, <1>4, ElementOfSeq
  <2>2. /\ tail \in Seq(Lengths)
        /\ Len(tail) = IF 9 <= Len(bytes) THEN Len(bytes) - 9 + 1 ELSE 0
        /\ \A i \in 1..(Len(bytes) - 9 + 1) : tail[i] = bytes[9 + i - 1]
    BY <2>1, SubSeqProperties
  <2> HIDE DEF tail
  <2>3. Len(tail) = Len(d.insert)
    BY <1>0, <1>4, <2>2
  <2>4. ASSUME NEW i \in 1..Len(tail) PROVE tail[i] = d.insert[i]
    <3>1. /\ 9 + i - 1 \in 1..(8 + Len(d.insert)) /\ ~(9 + i - 1 <= 8)
          /\ (9 + i - 1) - 8 = i /\ i \in 1..(Len(bytes) - 9 + 1)
      BY <1>0, <1>4, <2>3
    <3> QED
      BY <1>4, <2>2, <3>1
  <2>5. tail = d.insert
    BY <1>0, <2>2, <2>3, <2>4, SeqEqual
  <2> QED
    BY <2>5 DEF tail
<1>7. /\ bytes[1] = DeltaMagic /\ bytes[2] = d.depth /\ bytes[3] = d.baseId
      /\ bytes[4] = d.baseLen /\ bytes[5] = d.targetLen /\ bytes[6] = d.prefix
      /\ bytes[7] = d.suffix /\ bytes[8] = Len(d.insert)
  BY <1>0, <1>3, <1>4
<1>8. (HeaderFields + bytes[8]) % Limit = Len(bytes)
  BY <1>4, <1>7, ModOfLength DEF HeaderFields
<1>9. DecodeDelta(bytes) =
         [depth |-> bytes[2], baseId |-> bytes[3], baseLen |-> bytes[4],
          targetLen |-> bytes[5], prefix |-> bytes[6], suffix |-> bytes[7],
          insert |-> SubSeq(bytes, 9, Len(bytes))]
  BY <1>0, <1>4, <1>7, <1>8 DEF DecodeDelta, HeaderFields
<1>10. DecodeDelta(bytes) = d
  BY <1>6, <1>7, <1>9 DEF DeltaRecords
<1>11. bytes # <<>>
  BY <1>0, <1>4
<1> QED
  BY <1>4, <1>5, <1>10, <1>11

(* Any bytes that decode to a delta have the length their header says: a   *)
(* sum that wraps around is shorter than the header.                       *)
LEMMA DecodedDelta ==
    ASSUME NEW bytes \in Seq(Lengths), DecodeDelta(bytes) # Invalid
    PROVE  LET d == DecodeDelta(bytes)
           IN d \in DeltaRecords /\ bytes[HeaderFields] = Len(d.insert)
<1> DEFINE d == DecodeDelta(bytes)
<1>0. Len(bytes) \in Nat /\ \A i \in 1..Len(bytes) : bytes[i] \in Lengths
  BY LenProperties, ElementOfSeq
<1>1. /\ Len(bytes) >= 8 /\ Len(bytes) = (HeaderFields + bytes[8]) % Limit
      /\ d = [depth |-> bytes[2], baseId |-> bytes[3], baseLen |-> bytes[4],
              targetLen |-> bytes[5], prefix |-> bytes[6], suffix |-> bytes[7],
              insert |-> SubSeq(bytes, 9, Len(bytes))]
  BY <1>0 DEF DecodeDelta, HeaderFields
<1> HIDE DEF d
<1>2. bytes[8] \in Lengths /\ bytes[8] \in Nat /\ bytes[8] < Limit /\ Limit \in Nat
  <2>1. bytes[8] \in Lengths
    BY <1>0, <1>1
  <2> QED
    BY <2>1, LengthIsBelow, LengthsAreNumbers
<1>3. Len(bytes) = 8 + bytes[8]
  <2>1. CASE HeaderFields + bytes[8] >= Limit
    <3>1. (HeaderFields + bytes[8]) % Limit = HeaderFields + bytes[8] - Limit
      BY <1>2, <2>1, ModOfLength
    <3>2. Len(bytes) = 8 + bytes[8] - Limit
      BY <1>1, <3>1 DEF HeaderFields
    <3> QED
      BY <1>1, <1>2, <3>2
  <2>2. CASE ~(HeaderFields + bytes[8] >= Limit)
    <3>1. 8 + bytes[8] \in Lengths
      BY <1>2, <2>2 DEF HeaderFields, Lengths
    <3>2. (8 + bytes[8]) % Limit = 8 + bytes[8]
      BY <3>1, ModOfLength
    <3> QED
      BY <1>1, <3>2 DEF HeaderFields
  <2> QED
    BY <2>1, <2>2
<1>4. /\ SubSeq(bytes, 9, Len(bytes)) \in Seq(Lengths)
      /\ Len(SubSeq(bytes, 9, Len(bytes))) = Len(bytes) - 8
  <2> DEFINE tail == SubSeq(bytes, 9, Len(bytes))
  <2>1. Len(bytes) \in Int /\ \A i \in 9..Len(bytes) : bytes[i] \in Lengths
    BY <1>0
  <2>2. /\ tail \in Seq(Lengths)
        /\ Len(tail) = IF 9 <= Len(bytes) THEN Len(bytes) - 9 + 1 ELSE 0
    BY <2>1, SubSeqProperties
  <2> HIDE DEF tail
  <2>3. tail \in Seq(Lengths) /\ Len(tail) = Len(bytes) - 8
    BY <1>0, <1>1, <2>2
  <2> QED
    BY <2>3 DEF tail
<1>5. \A i \in 2..7 : bytes[i] \in Lengths
  BY <1>0, <1>1
<1>6. d \in DeltaRecords
  BY <1>1, <1>4, <1>5 DEF DeltaRecords
<1>7. bytes[8] = Len(d.insert)
  BY <1>1, <1>2, <1>3, <1>4
<1> QED
  BY <1>6, <1>7 DEF d, HeaderFields

(* The ranges that pass the checks are in the base, do not overlap, and    *)
(* give a blob of the length promised.                                     *)
LEMMA RangesAreSound ==
    ASSUME NEW base \in Seq(Lengths), NEW d \in DeltaRecords, RangesFit(d, base)
    PROVE  /\ d.prefix + d.suffix <= Len(base)
           /\ Len(Reconstruct(d, base)) = d.targetLen
<1> DEFINE first == SubSeq(base, 1, d.prefix)
           last == SubSeq(base, Len(base) - d.suffix + 1, Len(base))
<1>0. /\ Len(base) \in Nat /\ \A i \in 1..Len(base) : base[i] \in Lengths
      /\ d.insert \in Seq(Lengths) /\ Len(d.insert) \in Nat
      /\ d.prefix \in Nat /\ d.suffix \in Nat /\ d.targetLen \in Nat
  BY LenProperties, ElementOfSeq, LengthsAreNumbers DEF DeltaRecords
<1>1. /\ d.prefix + d.suffix <= Len(base)
      /\ Len(d.insert) = d.targetLen - d.prefix - d.suffix
  BY <1>0 DEF RangesFit
<1>2. first \in Seq(Lengths) /\ Len(first) = d.prefix
  <2>1. \A i \in 1..d.prefix : base[i] \in Lengths
    BY <1>0, <1>1
  <2>2. first \in Seq(Lengths) /\ Len(first) = IF 1 <= d.prefix THEN d.prefix - 1 + 1 ELSE 0
    BY <1>0, <2>1, SubSeqProperties
  <2> HIDE DEF first
  <2> QED
    BY <1>0, <2>2
<1>3. last \in Seq(Lengths) /\ Len(last) = d.suffix
  <2> DEFINE m == Len(base) - d.suffix + 1
             n == Len(base)
  <2>1. m \in Int /\ n \in Int /\ \A i \in m..n : base[i] \in Lengths
    BY <1>0, <1>1
  <2>2. last \in Seq(Lengths) /\ Len(last) = IF m <= n THEN n - m + 1 ELSE 0
    BY <2>1, SubSeqProperties
  <2> HIDE DEF last
  <2> QED
    BY <1>0, <1>1, <2>2
<1> HIDE DEF first, last
<1>4. first \o d.insert \in Seq(Lengths) /\ Len(first \o d.insert) = d.prefix + Len(d.insert)
  <2>1. /\ first \o d.insert \in Seq(Lengths)
        /\ Len(first \o d.insert) = Len(first) + Len(d.insert)
    BY <1>0, <1>2, ConcatProperties
  <2> QED
    BY <1>2, <2>1
<1> DEFINE front == first \o d.insert
<1> HIDE DEF front
<1>5. front \in Seq(Lengths) /\ Len(front) = d.prefix + Len(d.insert)
  BY <1>4 DEF front
<1>6. Len(front \o last) = Len(front) + Len(last)
  BY <1>3, <1>5, ConcatProperties
<1>7. Reconstruct(d, base) = front \o last
  BY DEF Reconstruct, front, first, last
<1> QED
  BY <1>0, <1>1, <1>3, <1>5, <1>6, <1>7

(* What the delta of a blob in memory is.                                  *)
LEMMA DeltaOfFits ==
    ASSUME NEW v \in Deltas, DeltaOf(v) # Invalid
    PROVE  /\ DeltaOf(v) \in DeltaRecords
           /\ HeaderFields + Len(DeltaOf(v).insert) \in Lengths
           /\ DeltaOf(v).depth <= MaxDeltaDepth
           /\ Reconstruct(DeltaOf(v), v.base) = v.target
<1> DEFINE prefix == CommonPrefixLen(v.base, v.target)
           suffix == CommonSuffixLen(v.base, v.target, prefix)
           insert == SubSeq(v.target, prefix + 1, Len(v.target) - suffix)
           d == DeltaOf(v)
<1>0. /\ v.base \in Seq(Lengths) /\ Len(v.base) \in Lengths
      /\ v.target \in Seq(Lengths) /\ HeaderFields + Len(v.target) \in Lengths
      /\ v.baseDepth \in Nat
  BY CodecAssumption DEF CodecAssumption
<1>1. Len(v.base) \in Nat /\ Len(v.target) \in Nat /\ Len(v.target) \in Lengths
  BY <1>0, LenProperties, LengthsAreNumbers DEF Lengths, HeaderFields
<1>2. RangesFit(d, v.base) /\ Reconstruct(d, v.base) = v.target
  BY <1>0, DeltaRebuilds DEF DeltaOf
<1>3. prefix \in Nat /\ prefix <= Len(v.base) /\ prefix <= Len(v.target)
  BY <1>0, PrefixIsCommon
<1> HIDE DEF prefix
<1>4. suffix \in Nat /\ prefix + suffix <= Len(v.base)
  BY <1>0, <1>3, SuffixIsCommon
<1>5. /\ d = [depth |-> v.baseDepth + 1, baseId |-> BaseId, baseLen |-> Len(v.base),
              targetLen |-> Len(v.target), prefix |-> prefix, suffix |-> suffix,
              insert |-> insert]
      /\ ~(v.baseDepth >= MaxDeltaDepth)
  BY DEF DeltaOf, CreateDelta, prefix
<1> HIDE DEF suffix, d
<1>6. prefix \in Lengths /\ suffix \in Lengths
  <2>1. Limit \in Nat /\ Len(v.base) < Limit
    BY <1>0, LengthIsBelow, LengthsAreNumbers
  <2>2. prefix < Limit /\ suffix < Limit
    BY <1>1, <1>3, <1>4, <2>1
  <2> QED
    BY <1>3, <1>4, <2>2, LengthIsBelow
<1>7. v.baseDepth + 1 \in Lengths /\ v.baseDepth + 1 <= MaxDeltaDepth
  BY <1>0, <1>5, DeltaAssumption DEF DeltaAssumption, Lengths
<1>8. insert \in Seq(Lengths)
  <2>1. \A i \in (prefix + 1)..(Len(v.target) - suffix) : v.target[i] \in Lengths
    BY <1>0, <1>1, <1>3, <1>4, ElementOfSeq
  <2> QED
    BY <1>1, <1>3, <1>4, <2>1, SubSeqProperties
<1> HIDE DEF insert
<1>9. d \in DeltaRecords
  BY <1>0, <1>1, <1>5, <1>6, <1>7, <1>8, LengthsAreNumbers DEF DeltaRecords
<1>10. HeaderFields + Len(d.insert) \in Lengths
  <2>1. Len(d.insert) = Len(v.target) - prefix - suffix /\ Len(d.insert) \in Nat
    BY <1>2, <1>5, <1>8, LenProperties DEF RangesFit
  <2>2. Limit \in Nat /\ 8 + Len(v.target) < Limit
    BY <1>0, LengthIsBelow, LengthsAreNumbers DEF HeaderFields
  <2>3. 8 + Len(d.insert) \in Nat /\ 8 + Len(d.insert) < Limit
    BY <1>1, <1>3, <1>4, <2>1, <2>2
  <2> QED
    BY <2>3, LengthIsBelow DEF HeaderFields
<1> QED
  BY <1>2, <1>5, <1>7, <1>9, <1>10 DEF d

-----------------------------------------------------------------------------
(* The order of byte strings: the first difference decides.                *)

Strings == Seq(Lengths)

FirstLess(s, t, k) ==
    /\ k \in 1..Len(t)
    /\ \A i \in 1..(k - 1) : i <= Len(s) /\ s[i] = t[i]
    /\ k > Len(s) \/ s[k] < t[k]

LEMMA StringMeans ==
    ASSUME NEW s \in Strings
    PROVE  /\ Len(s) \in Nat /\ DOMAIN s = 1..Len(s)
           /\ \A i \in 1..Len(s) : s[i] \in Lengths /\ s[i] \in Nat
<1>1. Len(s) \in Nat /\ DOMAIN s = 1..Len(s)
  BY LenProperties DEF Strings
<1>2. \A i \in 1..Len(s) : s[i] \in Lengths
  BY ElementOfSeq DEF Strings
<1> QED
  BY <1>1, <1>2, LengthsAreNumbers

LEMMA LessMeans ==
    ASSUME NEW s \in Strings, NEW t \in Strings
    PROVE  BytesLess(s, t) <=> \E k \in Nat : FirstLess(s, t, k)
<1>0. /\ Len(s) \in Nat /\ DOMAIN s = 1..Len(s) /\ \A i \in 1..Len(s) : s[i] \in Nat
      /\ Len(t) \in Nat /\ DOMAIN t = 1..Len(t) /\ \A i \in 1..Len(t) : t[i] \in Nat
  BY StringMeans
<1>1. ASSUME Len(s) <= Len(t)
      PROVE  /\ SubSeq(s, 1, Len(s)) = s
             /\ SubSeq(t, 1, Len(s)) \in Strings
             /\ Len(SubSeq(t, 1, Len(s))) = Len(s)
             /\ \A i \in 1..Len(s) : SubSeq(t, 1, Len(s))[i] = t[i]
  <2>1. \A i \in 1..Len(s) : t[i] \in Lengths
    BY <1>0, <1>1, StringMeans
  <2>2. SubSeq(s, 1, Len(s)) = s
    BY SubSeqFull DEF Strings
  <2>3. /\ SubSeq(t, 1, Len(s)) \in Seq(Lengths)
        /\ Len(SubSeq(t, 1, Len(s))) = IF 1 <= Len(s) THEN Len(s) - 1 + 1 ELSE 0
        /\ \A i \in 1..(Len(s) - 1 + 1) : SubSeq(t, 1, Len(s))[i] = t[1 + i - 1]
    BY <1>0, <2>1, SubSeqProperties
  <2>4. Len(SubSeq(t, 1, Len(s))) = Len(s) /\ Len(s) - 1 + 1 = Len(s)
    BY <1>0, <2>3
  <2>5. \A i \in 1..Len(s) : 1 + i - 1 = i
    BY <1>0
  <2>6. \A i \in 1..Len(s) : SubSeq(t, 1, Len(s))[i] = t[i]
    BY <2>3, <2>4, <2>5
  <2> QED
    BY <2>2, <2>3, <2>4, <2>6 DEF Strings
<1>2. ASSUME IsStrictPrefix(s, t) PROVE FirstLess(s, t, Len(s) + 1)
  <2>1. Len(s) <= Len(t) /\ s = SubSeq(t, 1, Len(s)) /\ s # t
    BY <1>1, <1>2 DEF IsStrictPrefix, IsPrefix
  <2>2. \A i \in 1..Len(s) : s[i] = t[i]
    BY <1>1, <2>1
  <2>3. Len(s) # Len(t)
    BY <2>1, <2>2, SeqEqual DEF Strings
  <2>4. Len(s) + 1 \in 1..Len(t) /\ Len(s) + 1 > Len(s) /\ (Len(s) + 1) - 1 = Len(s)
    <3>1. \A m, n \in Nat : m <= n /\ m # n => m + 1 \in 1..n /\ m + 1 > m /\ (m + 1) - 1 = m
      OBVIOUS
    <3>2. Len(s) <= Len(t) /\ Len(s) \in Nat /\ Len(t) \in Nat
      BY <1>0, <2>1
    <3> QED
      BY <2>3, <3>1, <3>2
  <2>5. \A i \in 1..((Len(s) + 1) - 1) : i <= Len(s) /\ s[i] = t[i]
    BY <1>0, <2>2, <2>4
  <2> QED
    BY <2>4, <2>5 DEF FirstLess
<1>3. ASSUME NEW k \in DOMAIN s \cap DOMAIN t, s[k] < t[k],
             \A i \in 1..(k - 1) : s[i] = t[i]
      PROVE  k \in Nat /\ FirstLess(s, t, k)
  BY <1>0, <1>3 DEF FirstLess
<1>4. ASSUME NEW k \in Nat, FirstLess(s, t, k), k > Len(s) PROVE IsStrictPrefix(s, t)
  <2>1. k \in 1..Len(t) /\ \A i \in 1..(k - 1) : i <= Len(s) /\ s[i] = t[i]
    BY <1>4 DEF FirstLess
  <2>2. k - 1 = Len(s) /\ Len(s) < Len(t)
    <3>1. k - 1 <= Len(s)
      BY <1>0, <2>1
    <3> QED
      BY <1>0, <1>4, <2>1, <3>1
  <2>3. SubSeq(t, 1, Len(s)) = s
    <3>1. \A i \in 1..Len(s) : s[i] = SubSeq(t, 1, Len(s))[i]
      BY <1>0, <1>1, <2>1, <2>2
    <3> QED
      BY <1>0, <1>1, <2>2, <3>1, SeqEqual DEF Strings
  <2>4. s # t
    BY <1>0, <2>2
  <2> QED
    BY <1>0, <1>1, <2>2, <2>3, <2>4 DEF IsStrictPrefix, IsPrefix
<1>5. ASSUME NEW k \in Nat, FirstLess(s, t, k), ~(k > Len(s))
      PROVE  /\ k \in DOMAIN s \cap DOMAIN t /\ s[k] < t[k]
             /\ \A i \in 1..(k - 1) : s[i] = t[i]
  BY <1>0, <1>5 DEF FirstLess
<1>6. ASSUME BytesLess(s, t) PROVE \E k \in Nat : FirstLess(s, t, k)
  <2>1. CASE IsStrictPrefix(s, t)
    <3>1. Len(s) + 1 \in Nat
      BY <1>0
    <3> QED
      BY <1>2, <2>1, <3>1
  <2>2. CASE \E k \in DOMAIN s \cap DOMAIN t :
               s[k] < t[k] /\ \A i \in 1..(k - 1) : s[i] = t[i]
    BY <1>3, <2>2
  <2> QED
    BY <1>6, <2>1, <2>2 DEF BytesLess
<1>7. ASSUME NEW k \in Nat, FirstLess(s, t, k) PROVE BytesLess(s, t)
  BY <1>4, <1>5, <1>7 DEF BytesLess
<1> QED
  BY <1>6, <1>7

LEMMA BytesOrder ==
    /\ \A s \in Strings : ~BytesLess(s, s)
    /\ \A s, t, u \in Strings : BytesLess(s, t) /\ BytesLess(t, u) => BytesLess(s, u)
    /\ \A s, t \in Strings : s = t \/ BytesLess(s, t) \/ BytesLess(t, s)
<1>1. ASSUME NEW s \in Strings PROVE ~BytesLess(s, s)
  <2> SUFFICES ASSUME NEW k \in Nat, FirstLess(s, s, k) PROVE FALSE
    BY LessMeans
  <2> QED
    BY StringMeans DEF FirstLess
<1>2. ASSUME NEW s \in Strings, NEW t \in Strings, NEW u \in Strings,
             BytesLess(s, t), BytesLess(t, u)
      PROVE  BytesLess(s, u)
  <2>0. /\ Len(s) \in Nat /\ \A i \in 1..Len(s) : s[i] \in Nat
        /\ Len(t) \in Nat /\ \A i \in 1..Len(t) : t[i] \in Nat
        /\ Len(u) \in Nat /\ \A i \in 1..Len(u) : u[i] \in Nat
    BY StringMeans
  <2>1. PICK k \in Nat : FirstLess(s, t, k)
    BY <1>2, LessMeans
  <2>2. PICK m \in Nat : FirstLess(t, u, m)
    BY <1>2, LessMeans
  <2>3. CASE k < m
    <3>1. k \in 1..(m - 1) /\ k <= Len(t) /\ t[k] = u[k] /\ k \in 1..Len(u)
      BY <2>0, <2>1, <2>2, <2>3 DEF FirstLess
    <3>2. \A i \in 1..(k - 1) : i <= Len(s) /\ s[i] = u[i]
      BY <2>0, <2>1, <2>2, <2>3 DEF FirstLess
    <3>3. FirstLess(s, u, k)
      BY <2>1, <3>1, <3>2 DEF FirstLess
    <3> QED
      BY <3>3, LessMeans
  <2>4. CASE m < k
    <3>1. m \in 1..(k - 1) /\ m <= Len(s) /\ s[m] = t[m] /\ m \in 1..Len(u) /\ m <= Len(t)
      BY <2>0, <2>1, <2>2, <2>4 DEF FirstLess
    <3>2. \A i \in 1..(m - 1) : i <= Len(s) /\ s[i] = u[i]
      BY <2>0, <2>1, <2>2, <2>4 DEF FirstLess
    <3>3. FirstLess(s, u, m)
      BY <2>0, <2>2, <3>1, <3>2 DEF FirstLess
    <3> QED
      BY <3>3, LessMeans
  <2>5. CASE k = m
    <3>1. k \in 1..Len(t) /\ k \in 1..Len(u) /\ t[k] < u[k]
      BY <2>0, <2>1, <2>2, <2>5 DEF FirstLess
    <3>2. \A i \in 1..(k - 1) : i <= Len(s) /\ s[i] = u[i]
      BY <2>0, <2>1, <2>2, <2>5 DEF FirstLess
    <3>3. k > Len(s) \/ s[k] < u[k]
      BY <2>0, <2>1, <3>1 DEF FirstLess
    <3>4. FirstLess(s, u, k)
      BY <3>1, <3>2, <3>3 DEF FirstLess
    <3> QED
      BY <3>4, LessMeans
  <2> QED
    BY <2>3, <2>4, <2>5
<1>3. ASSUME NEW s \in Strings, NEW t \in Strings, s # t
      PROVE  BytesLess(s, t) \/ BytesLess(t, s)
  <2> DEFINE Same(k) == k <= Len(s) /\ k <= Len(t) /\ s[k] = t[k]
             T == {k \in Nat : k # 0 /\ ~Same(k)}
  <2>0. /\ Len(s) \in Nat /\ \A i \in 1..Len(s) : s[i] \in Nat
        /\ Len(t) \in Nat /\ \A i \in 1..Len(t) : t[i] \in Nat
    BY StringMeans
  <2>1. T \in SUBSET Nat /\ T # {}
    <3>1. Len(s) + 1 \in T
      BY <2>0
    <3> QED
      BY <3>1
  <2>2. PICK k \in T : \A m \in T : k <= m
    <3> HIDE DEF T
    <3> QED
      BY <2>1, LeastOf
  <2>3. k \in Nat /\ k # 0 /\ ~Same(k) /\ \A i \in 1..(k - 1) : Same(i)
    <3>1. ASSUME NEW i \in 1..(k - 1), ~Same(i) PROVE FALSE
      <4>1. i \in T
        BY <3>1, <2>2
      <4> QED
        BY <2>2, <4>1
    <3> QED
      BY <2>2, <3>1
  <2>4. CASE k <= Len(t) /\ (k > Len(s) \/ s[k] < t[k])
    <3>1. FirstLess(s, t, k)
      BY <2>0, <2>3, <2>4 DEF FirstLess
    <3> QED
      BY <2>3, <3>1, LessMeans
  <2>5. CASE k <= Len(s) /\ (k > Len(t) \/ t[k] < s[k])
    <3>1. FirstLess(t, s, k)
      BY <2>0, <2>3, <2>5 DEF FirstLess
    <3> QED
      BY <2>3, <3>1, LessMeans
  <2>6. CASE k > Len(s) /\ k > Len(t)
    <3>1. k - 1 <= Len(s) /\ k - 1 <= Len(t)
      BY <2>0, <2>3
    <3>2. Len(s) = Len(t) /\ Len(s) = k - 1
      BY <2>0, <2>3, <2>6, <3>1
    <3>3. \A i \in 1..Len(s) : s[i] = t[i]
      BY <2>3, <3>2
    <3> QED
      BY <1>3, <3>2, <3>3, SeqEqual DEF Strings
  <2> QED
    BY <2>0, <2>3, <2>4, <2>5, <2>6
<1> QED
  BY <1>1, <1>2, <1>3

LEMMA SortedMeans ==
    ASSUME NEW S \in SUBSET Strings, IsFiniteSet(S)
    PROVE  /\ Cardinality(S) \in Nat
           /\ SortedStrings(S) \in [1..Cardinality(S) -> S]
           /\ \A e \in S : \E k \in 1..Cardinality(S) : SortedStrings(S)[k] = e
           /\ \A i, j \in 1..Cardinality(S) :
                 i < j => BytesLess(SortedStrings(S)[i], SortedStrings(S)[j])
<1> DEFINE before == [e \in S |-> {d \in S : BytesLess(d, e)}]
           s == SortedStrings(S)
<1>1. before \in [S -> SUBSET S] /\ \A d, e \in S : d \in before[e] <=> BytesLess(d, e)
  OBVIOUS
<1>2. /\ s = [k \in 1..Cardinality(S) |-> s[k]]
      /\ \A k \in 1..Cardinality(S) : s[k] = CHOOSE e \in S : Cardinality(before[e]) = k - 1
  <2> DEFINE pick(k) == CHOOSE e \in S : Cardinality({d \in S : BytesLess(d, e)}) = k - 1
  <2>1. s = [k \in 1..Cardinality(S) |-> pick(k)]
    BY DEF SortedStrings, InOrder
  <2>2. \A k : pick(k) = CHOOSE e \in S : Cardinality(before[e]) = k - 1
    OBVIOUS
  <2> HIDE DEF s, before, pick
  <2>3. s = [k \in 1..Cardinality(S) |-> s[k]]
    BY <2>1
  <2>4. \A k \in 1..Cardinality(S) : s[k] = pick(k)
    BY <2>1
  <2> QED
    BY <2>2, <2>3, <2>4, Zenon
<1> HIDE DEF before, s
<1>3. \A d, e \in S : d \in before[e] => before[d] \subseteq before[e]
  <2> SUFFICES ASSUME NEW d \in S, NEW e \in S, BytesLess(d, e), NEW f \in before[d]
               PROVE  f \in before[e]
    BY <1>1
  <2>1. f \in S /\ BytesLess(f, d)
    BY <1>1
  <2> QED
    BY <1>1, <2>1, BytesOrder
<1>4. \A d \in S : d \notin before[d]
  BY <1>1, BytesOrder
<1>5. \A d, e \in S : d = e \/ d \in before[e] \/ e \in before[d]
  BY <1>1, BytesOrder
<1>6. \A k \in 1..Cardinality(S) : \A e \in S :
         Cardinality(before[e]) = k - 1 => s[k] \in S /\ Cardinality(before[s[k]]) = k - 1
  BY <1>2
<1>7. /\ Cardinality(S) \in Nat
      /\ s \in [1..Cardinality(S) -> S]
      /\ \A e \in S : \E k \in 1..Cardinality(S) : s[k] = e
      /\ \A i, j \in 1..Cardinality(S) : i < j <=> s[i] \in before[s[j]]
  BY <1>1, <1>2, <1>3, <1>4, <1>5, <1>6, Ranks
<1>8. \A i, j \in 1..Cardinality(S) : i < j => BytesLess(s[i], s[j])
  BY <1>1, <1>7
<1> QED
  BY <1>7, <1>8 DEF s

(* Names that increase from each to the next are different, and they are   *)
(* already in order.                                                       *)
LEMMA IncreasingPairs ==
    ASSUME NEW names \in Seq(Strings), Increasing(names)
    PROVE  \A i, j \in 1..Len(names) : i < j <=> BytesLess(names[i], names[j])
<1> DEFINE n == Len(names)
           T == {d \in Nat : \A i \in 1..n : i + d + 1 <= n => BytesLess(names[i], names[i + d + 1])}
<1>0. n \in Nat /\ \A i \in 1..n : names[i] \in Strings
  BY LenProperties
<1>1. \A k \in 1..(n - 1) : BytesLess(names[k], names[k + 1])
  BY DEF Increasing
<1> HIDE DEF n
<1>2. 0 \in T
  <2> SUFFICES ASSUME NEW i \in 1..n, i + 0 + 1 <= n PROVE BytesLess(names[i], names[i + 0 + 1])
    OBVIOUS
  <2>1. i \in 1..(n - 1) /\ i + 0 + 1 = i + 1
    BY <1>0
  <2> QED
    BY <1>1, <2>1
<1>3. ASSUME NEW d \in Nat, d \in T PROVE d + 1 \in T
  <2> SUFFICES ASSUME NEW i \in 1..n, i + (d + 1) + 1 <= n
               PROVE  BytesLess(names[i], names[i + (d + 1) + 1])
    OBVIOUS
  <2> DEFINE k == i + d + 1
  <2>1. k \in 1..(n - 1) /\ k \in 1..n /\ k + 1 \in 1..n /\ i + (d + 1) + 1 = k + 1
    BY <1>0
  <2>2. BytesLess(names[i], names[k])
    BY <1>0, <1>3, <2>1
  <2>3. BytesLess(names[k], names[k + 1])
    BY <1>1, <2>1
  <2> HIDE DEF k
  <2>4. BytesLess(names[i], names[k + 1])
    BY <1>0, <2>1, <2>2, <2>3, BytesOrder
  <2> QED
    BY <2>1, <2>4
<1>4. \A d \in Nat : d \in T
  <2> HIDE DEF T
  <2> QED
    BY <1>2, <1>3, Induction
<1>5. ASSUME NEW i \in 1..n, NEW j \in 1..n, i < j PROVE BytesLess(names[i], names[j])
  <2>1. j - i - 1 \in Nat /\ i + (j - i - 1) + 1 = j
    BY <1>0, <1>5
  <2>2. j - i - 1 \in T
    BY <1>4, <2>1
  <2>3. i + (j - i - 1) + 1 <= n => BytesLess(names[i], names[i + (j - i - 1) + 1])
    BY <2>2
  <2> QED
    BY <1>0, <2>1, <2>3
<1>6. ASSUME NEW i \in 1..n, NEW j \in 1..n, BytesLess(names[i], names[j]), ~(i < j)
      PROVE  FALSE
  <2>1. i = j \/ j < i
    BY <1>0, <1>6
  <2>2. names[i] \in Strings /\ names[j] \in Strings
    BY <1>0
  <2>3. i # j
    BY <1>6, <2>2, BytesOrder
  <2>4. BytesLess(names[j], names[i])
    BY <1>5, <2>1, <2>3
  <2>5. BytesLess(names[i], names[i])
    BY <1>6, <2>2, <2>4, BytesOrder
  <2> QED
    BY <2>2, <2>5, BytesOrder
<1> QED
  BY <1>5, <1>6 DEF n

LEMMA IncreasingIsSorted ==
    ASSUME NEW names \in Seq(Strings), Increasing(names)
    PROVE  /\ IsFiniteSet(ToSet(names)) /\ Cardinality(ToSet(names)) = Len(names)
           /\ SortedStrings(ToSet(names)) = names
           /\ \A i, j \in 1..Len(names) : names[i] = names[j] => i = j
<1> DEFINE n == Len(names)
           S == ToSet(names)
           s == SortedStrings(S)
<1>0. n \in Nat /\ DOMAIN names = 1..n /\ \A i \in 1..n : names[i] \in Strings
  BY LenProperties
<1>1. \A i, j \in 1..n : i < j <=> BytesLess(names[i], names[j])
  BY IncreasingPairs
<1>2. S = {names[i] : i \in 1..n}
  BY <1>0 DEF ToSet
<1> HIDE DEF n, S
<1>3. ASSUME NEW i \in 1..n, NEW j \in 1..n, names[i] = names[j] PROVE i = j
  <2>1. ~BytesLess(names[i], names[j]) /\ ~BytesLess(names[j], names[i])
    BY <1>0, <1>3, BytesOrder
  <2>2. ~(i < j) /\ ~(j < i)
    BY <1>1, <2>1
  <2> QED
    BY <2>2
<1>4. IsFiniteSet(S) /\ Cardinality(S) = n
  BY <1>0, <1>2, <1>3, Counted
<1>5. ASSUME NEW k \in 1..n
      PROVE  Cardinality({d \in S : BytesLess(d, names[k])}) = k - 1
  <2> DEFINE m == k - 1
  <2>1. m \in Nat /\ \A i \in 1..m : i \in 1..n /\ i < k
    BY <1>0
  <2>2. {d \in S : BytesLess(d, names[k])} = {names[i] : i \in 1..m}
    <3>1. ASSUME NEW d \in S, BytesLess(d, names[k]) PROVE d \in {names[i] : i \in 1..m}
      <4>1. PICK i \in 1..n : d = names[i]
        BY <1>2
      <4>2. i < k
        BY <1>1, <3>1, <4>1
      <4>3. i \in 1..m
        BY <4>2
      <4> QED
        BY <4>1, <4>3
    <3>2. ASSUME NEW i \in 1..m PROVE names[i] \in S /\ BytesLess(names[i], names[k])
      BY <1>1, <1>2, <2>1
    <3> QED
      BY <3>1, <3>2
  <2>3. \A i, j \in 1..m : names[i] = names[j] => i = j
    BY <1>3, <2>1
  <2> HIDE DEF m
  <2>4. Cardinality({names[i] : i \in 1..m}) = m
    BY <2>1, <2>3, Counted
  <2> QED
    BY <2>2, <2>4 DEF m
<1>6. ASSUME NEW k \in 1..n
      PROVE  (CHOOSE e \in S : Cardinality({d \in S : BytesLess(d, e)}) = k - 1) = names[k]
  <2> DEFINE Here(e) == Cardinality({d \in S : BytesLess(d, e)}) = k - 1
  <2>1. names[k] \in S /\ Here(names[k])
    BY <1>2, <1>5
  <2>2. ASSUME NEW e \in S, Here(e) PROVE e = names[k]
    <3>1. PICK j \in 1..n : e = names[j]
      BY <1>2
    <3>2. j - 1 = k - 1
      BY <1>5, <2>2, <3>1
    <3> QED
      BY <3>1, <3>2
  <2> HIDE DEF Here
  <2>3. (CHOOSE e \in S : Here(e)) = names[k]
    BY <2>1, <2>2
  <2> QED
    BY <2>3 DEF Here
<1>7. s = names
  <2>1. s = [k \in 1..n |-> CHOOSE e \in S : Cardinality({d \in S : BytesLess(d, e)}) = k - 1]
    BY <1>4 DEF SortedStrings, InOrder
  <2>2. names = [k \in 1..n |-> names[k]]
    BY <1>0
  <2> DEFINE pick(k) == CHOOSE e \in S : Cardinality({d \in S : BytesLess(d, e)}) = k - 1
  <2>3. \A k \in 1..n : pick(k) = names[k]
    BY <1>6
  <2>4. s = [k \in 1..n |-> pick(k)]
    BY <2>1
  <2> HIDE DEF pick, s
  <2> QED
    BY <2>2, <2>3, <2>4
<1> QED
  BY <1>3, <1>4, <1>7 DEF n, S

-----------------------------------------------------------------------------
(* Reading.  What is still to be read is the rest of the file; a field is  *)
(* read if its encoding begins the rest.                                   *)

From(bytes, p) == SubSeq(bytes, p, Len(bytes))

LEMMA FromMeans ==
    ASSUME NEW bytes \in Strings, NEW p \in 1..(Len(bytes) + 1)
    PROVE  /\ From(bytes, p) \in Strings
           /\ Len(From(bytes, p)) = Len(bytes) - p + 1
           /\ \A i \in 1..(Len(bytes) - p + 1) : From(bytes, p)[i] = bytes[p + i - 1]
           /\ From(bytes, 1) = bytes
           /\ From(bytes, Len(bytes) + 1) = <<>>
<1>0. Len(bytes) \in Nat /\ \A i \in 1..Len(bytes) : bytes[i] \in Lengths
  BY StringMeans
<1>1. \A i \in p..Len(bytes) : bytes[i] \in Lengths
  BY <1>0
<1>2. /\ SubSeq(bytes, p, Len(bytes)) \in Seq(Lengths)
      /\ Len(SubSeq(bytes, p, Len(bytes))) = IF p <= Len(bytes) THEN Len(bytes) - p + 1 ELSE 0
      /\ \A i \in 1..(Len(bytes) - p + 1) : SubSeq(bytes, p, Len(bytes))[i] = bytes[p + i - 1]
  BY <1>0, <1>1, SubSeqProperties
<1>3. (IF p <= Len(bytes) THEN Len(bytes) - p + 1 ELSE 0) = Len(bytes) - p + 1
  BY <1>0
<1>4. SubSeq(bytes, 1, Len(bytes)) = bytes
  BY SubSeqFull DEF Strings
<1>5. SubSeq(bytes, Len(bytes) + 1, Len(bytes)) = <<>>
  BY <1>0, SubSeqEmpty
<1> QED
  BY <1>2, <1>3, <1>4, <1>5 DEF From, Strings

LEMMA FromSplit ==
    ASSUME NEW bytes \in Strings, NEW p \in 1..(Len(bytes) + 1), NEW n \in Nat,
           p + n <= Len(bytes) + 1
    PROVE  /\ SubSeq(bytes, p, p + n - 1) \in Strings
           /\ Len(SubSeq(bytes, p, p + n - 1)) = n
           /\ \A i \in 1..n : SubSeq(bytes, p, p + n - 1)[i] = bytes[p + i - 1]
           /\ From(bytes, p) = SubSeq(bytes, p, p + n - 1) \o From(bytes, p + n)
           /\ p + n \in 1..(Len(bytes) + 1)
<1>0. Len(bytes) \in Nat /\ \A i \in 1..Len(bytes) : bytes[i] \in Lengths
  BY StringMeans
<1> DEFINE k == p + n - 1
<1>1. /\ k \in (p - 1)..Len(bytes) /\ k + 1 = p + n /\ Len(bytes) \in k..Len(bytes)
      /\ \A i \in p..k : bytes[i] \in Lengths
      /\ (IF p <= k THEN k - p + 1 ELSE 0) = n /\ k - p + 1 = n
      /\ p \in Int /\ k \in Int
  BY <1>0
<1> HIDE DEF k
<1>2. SubSeq(bytes, p, k) \o SubSeq(bytes, k + 1, Len(bytes)) = SubSeq(bytes, p, Len(bytes))
  BY <1>0, <1>1, ConcatAdjacentSubSeq DEF Strings
<1>3. /\ SubSeq(bytes, p, k) \in Seq(Lengths)
      /\ Len(SubSeq(bytes, p, k)) = IF p <= k THEN k - p + 1 ELSE 0
      /\ \A i \in 1..(k - p + 1) : SubSeq(bytes, p, k)[i] = bytes[p + i - 1]
  BY <1>1, SubSeqProperties
<1>4. Len(SubSeq(bytes, p, k)) = n /\ \A i \in 1..n : SubSeq(bytes, p, k)[i] = bytes[p + i - 1]
  BY <1>1, <1>3
<1>5. From(bytes, p) = SubSeq(bytes, p, k) \o From(bytes, p + n)
  BY <1>1, <1>2 DEF From
<1>6. p + n \in 1..(Len(bytes) + 1)
  BY <1>0
<1> QED
  BY <1>3, <1>4, <1>5, <1>6 DEF k, Strings

LEMMA FromFirst ==
    ASSUME NEW bytes \in Strings, NEW p \in 1..Len(bytes)
    PROVE  /\ From(bytes, p) = <<bytes[p]>> \o From(bytes, p + 1)
           /\ p + 1 \in 1..(Len(bytes) + 1) /\ <<bytes[p]>> \in Strings
<1>0. Len(bytes) \in Nat /\ bytes[p] \in Lengths /\ Len(bytes) \in p..Len(bytes)
  BY StringMeans
<1>1. SubSeq(bytes, p, Len(bytes)) = <<bytes[p]>> \o SubSeq(bytes, p + 1, Len(bytes))
  BY <1>0, SubSeqRecursiveFirst DEF Strings
<1> QED
  BY <1>0, <1>1 DEF From, Strings

(* Two parts of the rest: the second is where the first ends.              *)
Splits(bytes, p, s, t) ==
    /\ bytes \in Strings /\ p \in 1..(Len(bytes) + 1) /\ s \in Strings /\ t \in Strings
    /\ From(bytes, p) = s \o t

Follows(bytes, p, s, t, q) ==
    /\ q \in 1..(Len(bytes) + 1) /\ q = p + Len(s)
    /\ \A i \in 1..Len(s) : p + i - 1 \in 1..Len(bytes) /\ bytes[p + i - 1] = s[i]
    /\ SubSeq(bytes, p, q - 1) = s
    /\ From(bytes, q) = t
    /\ Len(s) + Len(t) = Len(bytes) - p + 1

LEMMA FromRest ==
    ASSUME NEW bytes, NEW p, NEW s, NEW t, Splits(bytes, p, s, t)
    PROVE  Follows(bytes, p, s, t, p + Len(s))
<1> DEFINE n == Len(s)
           q == p + n
<1> DEFINE m == Len(t)
<1>01. /\ bytes \in Strings /\ p \in 1..(Len(bytes) + 1) /\ s \in Strings /\ t \in Strings
       /\ From(bytes, p) = s \o t
  BY DEF Splits
<1>0. Len(bytes) \in Nat /\ n \in Nat /\ m \in Nat
  BY <1>01, StringMeans
<1>1. /\ Len(s \o t) = n + m
      /\ \A i \in 1..(n + m) : (s \o t)[i] = IF i <= n THEN s[i] ELSE t[i - n]
  BY <1>01, ConcatProperties DEF Strings
<1>2. /\ Len(From(bytes, p)) = Len(bytes) - p + 1
      /\ \A i \in 1..(Len(bytes) - p + 1) : From(bytes, p)[i] = bytes[p + i - 1]
  BY <1>01, FromMeans
<1> HIDE DEF n, m
<1>3. n + m = Len(bytes) - p + 1
  BY <1>01, <1>1, <1>2
<1>4. \A i \in 1..(n + m) : bytes[p + i - 1] = IF i <= n THEN s[i] ELSE t[i - n]
  BY <1>01, <1>1, <1>2, <1>3
<1>5. q \in 1..(Len(bytes) + 1) /\ q <= Len(bytes) + 1
  BY <1>0, <1>01, <1>3
<1>6. /\ SubSeq(bytes, p, p + n - 1) \in Strings
      /\ Len(SubSeq(bytes, p, p + n - 1)) = n
      /\ \A i \in 1..n : SubSeq(bytes, p, p + n - 1)[i] = bytes[p + i - 1]
  BY <1>0, <1>01, <1>5, FromSplit
<1>7. \A i \in 1..n : bytes[p + i - 1] = s[i] /\ p + i - 1 \in 1..Len(bytes)
  BY <1>0, <1>01, <1>3, <1>4
<1>8. SubSeq(bytes, p, q - 1) = s
  <2> DEFINE x == SubSeq(bytes, p, p + n - 1)
  <2>1. x \in Strings /\ Len(x) = n /\ \A i \in 1..n : x[i] = bytes[p + i - 1]
    BY <1>6
  <2> HIDE DEF x
  <2>2. Len(x) = Len(s) /\ \A i \in 1..Len(x) : x[i] = s[i]
    BY <1>7, <2>1 DEF n
  <2>3. x = s
    BY <1>01, <2>1, <2>2, SeqEqual DEF Strings
  <2>4. q - 1 = p + n - 1
    BY <1>0, <1>01
  <2> QED
    BY <2>3, <2>4, Zenon DEF x
<1> HIDE DEF q
<1>9. /\ From(bytes, q) \in Strings
      /\ Len(From(bytes, q)) = Len(bytes) - q + 1
      /\ \A i \in 1..(Len(bytes) - q + 1) : From(bytes, q)[i] = bytes[q + i - 1]
  BY <1>01, <1>5, FromMeans
<1>10. Len(bytes) - q + 1 = m /\ \A i \in 1..m : /\ q + i - 1 = p + (n + i) - 1
                                                 /\ n + i \in 1..(n + m) /\ ~(n + i <= n)
                                                 /\ (n + i) - n = i
  BY <1>0, <1>01, <1>3 DEF q
<1>11. \A i \in 1..m : From(bytes, q)[i] = t[i]
  <2> TAKE i \in 1..m
  <2>1. From(bytes, q)[i] = bytes[p + (n + i) - 1]
    BY <1>9, <1>10
  <2>2. bytes[p + (n + i) - 1] = t[(n + i) - n]
    BY <1>4, <1>10
  <2> QED
    BY <2>1, <2>2, <1>10
<1>12. From(bytes, q) = t
  <2>1. Len(From(bytes, q)) = Len(t)
    BY <1>9, <1>10 DEF m
  <2>2. \A i \in 1..Len(From(bytes, q)) : From(bytes, q)[i] = t[i]
    BY <1>9, <1>10, <1>11
  <2> QED
    BY <1>01, <1>9, <2>1, <2>2, SeqEqual DEF Strings
<1>13. /\ q = p + Len(s) /\ SubSeq(bytes, p, q - 1) = s
       /\ Len(s) + Len(t) = Len(bytes) - p + 1
  <2>1. q = p + n
    BY DEF q
  <2>2. SubSeq(bytes, p, q - 1) = s
    BY <1>8
  <2>3. q = p + Len(s)
    BY <2>1 DEF n
  <2>4. Len(s) + Len(t) = Len(bytes) - p + 1
    BY <1>3 DEF n, m
  <2> QED
    BY <2>2, <2>3, <2>4
<1>14. Follows(bytes, p, s, t, q)
  BY <1>5, <1>7, <1>12, <1>13 DEF Follows, n
<1> QED
  BY <1>14 DEF q, n

LEMMA JoinedStrings ==
    /\ \A s, t \in Strings : s \o t \in Strings /\ Len(s \o t) = Len(s) + Len(t)
    /\ \A s, t, u \in Strings : (s \o t) \o u = s \o (t \o u)
    /\ \A s \in Strings : s \o <<>> = s /\ <<>> \o s = s
    /\ <<>> \in Strings /\ Len(<<>>) = 0
    /\ \A n \in Lengths : <<n>> \in Strings /\ Len(<<n>>) = 1
<1>1. ASSUME NEW s \in Strings, NEW t \in Strings
      PROVE  s \o t \in Strings /\ Len(s \o t) = Len(s) + Len(t)
  BY ConcatProperties DEF Strings
<1>2. ASSUME NEW s \in Seq(Lengths), NEW t \in Seq(Lengths), NEW u \in Seq(Lengths)
      PROVE  (s \o t) \o u = s \o (t \o u)
  BY ConcatAssociative, SMTT(60)
<1>3. ASSUME NEW s \in Strings PROVE s \o <<>> = s /\ <<>> \o s = s
  BY ConcatEmptySeq DEF Strings
<1>4. <<>> \in Strings /\ Len(<<>>) = 0
  BY DEF Strings
<1>5. \A n \in Lengths : <<n>> \in Strings /\ Len(<<n>>) = 1
  BY DEF Strings
<1>6. \A s, t, u \in Strings : (s \o t) \o u = s \o (t \o u)
  BY <1>2, Zenon DEF Strings
<1> QED
  BY <1>1, <1>3, <1>4, <1>5, <1>6

LEMMA EncodedString ==
    ASSUME NEW s, IsText(s)
    PROVE  /\ EncodeString(s) \in Strings /\ Len(EncodeString(s)) = Len(s) + 1
           /\ s \in Strings /\ Len(s) \in Nat
<1>1. s \in Strings /\ Len(s) \in Lengths
  BY DEF IsText, Strings
<1>2. Len(s) \in Nat /\ <<Len(s)>> \in Strings /\ Len(<<Len(s)>>) = 1
  BY <1>1, JoinedStrings, StringMeans
<1>3. <<Len(s)>> \o s \in Strings /\ Len(<<Len(s)>> \o s) = 1 + Len(s)
  BY <1>1, <1>2, JoinedStrings
<1> QED
  BY <1>1, <1>2, <1>3 DEF EncodeString

(* What is read begins the rest, and what begins the rest is read.         *)
LEMMA StringRead ==
    ASSUME NEW bytes \in Strings, NEW at \in Nat, NEW r, r = ReadString(bytes, at)
    PROVE  /\ r \in [value: Strings, next: Nat]
           /\ r.next # 0 => /\ at \in 1..Len(bytes)
                            /\ r.next \in 1..(Len(bytes) + 1)
                            /\ IsText(r.value)
                            /\ From(bytes, at) = EncodeString(r.value) \o From(bytes, r.next)
<1>0. Len(bytes) \in Nat /\ \A i \in 1..Len(bytes) : bytes[i] \in Lengths /\ bytes[i] \in Nat
  BY StringMeans
<1> DEFINE text == SubSeq(bytes, at + 1, at + bytes[at])
<1>1. CASE \/ at = 0 \/ at > Len(bytes)
           \/ at + bytes[at] > Len(bytes)
           \/ ~Utf8(SubSeq(bytes, at + 1, at + bytes[at]))
  <2>1. r = [value |-> <<>>, next |-> 0]
    BY <1>1 DEF ReadString, Failed
  <2> QED
    BY <2>1, JoinedStrings
<1>2. CASE ~(\/ at = 0 \/ at > Len(bytes)
             \/ at + bytes[at] > Len(bytes)
             \/ ~Utf8(SubSeq(bytes, at + 1, at + bytes[at])))
  <2>1. at \in 1..Len(bytes)
    BY <1>0, <1>2
  <2>2. bytes[at] \in Lengths /\ bytes[at] \in Nat /\ at + bytes[at] <= Len(bytes)
    BY <1>0, <1>2, <2>1
  <2>3. r = [value |-> text, next |-> at + bytes[at] + 1] /\ Utf8(text)
    BY <1>2 DEF ReadString
  <2> DEFINE p == at + 1
             n == bytes[at]
  <2>4. p \in 1..(Len(bytes) + 1) /\ n \in Nat /\ p + n <= Len(bytes) + 1
        /\ p + n - 1 = at + bytes[at] /\ p + n = at + bytes[at] + 1
    BY <1>0, <2>1, <2>2
  <2>5. /\ SubSeq(bytes, p, p + n - 1) \in Strings
        /\ Len(SubSeq(bytes, p, p + n - 1)) = n
        /\ From(bytes, p) = SubSeq(bytes, p, p + n - 1) \o From(bytes, p + n)
        /\ p + n \in 1..(Len(bytes) + 1)
    <3> HIDE DEF p, n
    <3> QED
      BY <2>4, FromSplit
  <2>6. text \in Strings /\ Len(text) = n /\ From(bytes, p) = text \o From(bytes, p + n)
    BY <2>4, <2>5
  <2>7. From(bytes, at) = <<n>> \o From(bytes, p) /\ <<n>> \in Strings
    BY <2>1, FromFirst
  <2>8. From(bytes, p + n) \in Strings
    BY <2>5, FromMeans
  <2> HIDE DEF text, n, p
  <2>9. From(bytes, at) = (<<n>> \o text) \o From(bytes, p + n)
    <3>1. (<<n>> \o text) \o From(bytes, p + n) = <<n>> \o (text \o From(bytes, p + n))
      BY <2>6, <2>7, <2>8, JoinedStrings, Zenon
    <3> QED
      BY <2>6, <2>7, <3>1, Zenon
  <2>10. IsText(text) /\ EncodeString(text) = <<n>> \o text
    BY <2>2, <2>3, <2>6 DEF IsText, Strings, EncodeString, n
  <2>11. r.next = p + n /\ r.value = text
    BY <2>3, <2>4
  <2>12. r \in [value: Strings, next: Nat]
    BY <2>3, <2>4, <2>5, <2>6
  <2> QED
    BY <2>1, <2>5, <2>9, <2>10, <2>11, <2>12
<1> QED
  BY <1>1, <1>2

LEMMA StringReadsBack ==
    ASSUME NEW bytes, NEW at, NEW s, NEW t, IsText(s), Splits(bytes, at, EncodeString(s), t)
    PROVE  /\ ReadString(bytes, at) = [value |-> s, next |-> at + Len(s) + 1]
           /\ at \in 1..Len(bytes)
           /\ at + Len(s) + 1 \in 1..(Len(bytes) + 1)
           /\ From(bytes, at + Len(s) + 1) = t
<1>0. /\ bytes \in Strings /\ at \in 1..(Len(bytes) + 1) /\ t \in Strings
      /\ From(bytes, at) = EncodeString(s) \o t
      /\ Len(bytes) \in Nat /\ \A i \in 1..Len(bytes) : bytes[i] \in Nat
  BY StringMeans DEF Splits
<1>1. /\ EncodeString(s) \in Strings /\ Len(EncodeString(s)) = Len(s) + 1
      /\ s \in Strings /\ Len(s) \in Nat /\ Len(s) \in Lengths /\ Utf8(s)
  BY EncodedString DEF IsText
<1>2. Follows(bytes, at, EncodeString(s), t, at + (Len(s) + 1))
  BY <1>1, FromRest
<1>3. at \in 1..Len(bytes) /\ bytes[at] = Len(s)
  <2>1. \A i \in 1..(Len(s) + 1) : /\ at + i - 1 \in 1..Len(bytes)
                                   /\ bytes[at + i - 1] = EncodeString(s)[i]
    BY <1>1, <1>2 DEF Follows
  <2>2. 1 \in 1..(Len(s) + 1) /\ at + 1 - 1 = at
    BY <1>0, <1>1
  <2>3. EncodeString(s)[1] = Len(s)
    BY <1>1 DEF EncodeString, Strings
  <2> QED
    BY <2>1, <2>2, <2>3
<1>4. Splits(bytes, at, <<Len(s)>>, s \o t)
  <2>1. <<Len(s)>> \in Strings /\ s \o t \in Strings
    BY <1>0, <1>1, JoinedStrings
  <2>2. (<<Len(s)>> \o s) \o t = <<Len(s)>> \o (s \o t)
    BY <1>0, <1>1, <2>1, JoinedStrings, Zenon
  <2> QED
    BY <1>0, <2>1, <2>2 DEF Splits, EncodeString
<1>5. Splits(bytes, at + 1, s, t)
  <2>1. Len(<<Len(s)>>) = 1
    BY <1>1, JoinedStrings
  <2>2. Follows(bytes, at, <<Len(s)>>, s \o t, at + 1)
    BY <1>4, <2>1, FromRest
  <2> QED
    BY <1>0, <1>1, <2>2 DEF Follows, Splits
<1>6. Follows(bytes, at + 1, s, t, at + 1 + Len(s))
  BY <1>5, FromRest
<1>7. /\ at + 1 + Len(s) = at + Len(s) + 1 /\ (at + 1 + Len(s)) - 1 = at + bytes[at]
      /\ at + bytes[at] + 1 = at + Len(s) + 1
      /\ ~(at = 0) /\ ~(at > Len(bytes))
  BY <1>0, <1>1, <1>3
<1>8. /\ SubSeq(bytes, at + 1, at + bytes[at]) = s
      /\ at + Len(s) + 1 \in 1..(Len(bytes) + 1) /\ From(bytes, at + Len(s) + 1) = t
  BY <1>6, <1>7 DEF Follows
<1>9. ~(at + bytes[at] > Len(bytes))
  BY <1>0, <1>3, <1>7, <1>8
<1>10. ReadString(bytes, at) = [value |-> s, next |-> at + Len(s) + 1]
  BY <1>1, <1>7, <1>8, <1>9 DEF ReadString
<1> QED
  BY <1>3, <1>8, <1>10

LEMMA EncodedOptional ==
    ASSUME NEW o, IsOptionalText(o)
    PROVE  EncodeOptional(o) \in Strings
<1>1. CASE o = <<>>
  BY <1>1, JoinedStrings, LengthsAreNumbers DEF EncodeOptional
<1>2. CASE o # <<>>
  <2>1. IsText(o[1]) /\ EncodeOptional(o) = <<1>> \o EncodeString(o[1])
    BY <1>2 DEF IsOptionalText, EncodeOptional
  <2>2. 1 \in Lengths
    BY LengthsAreNumbers, LengthIsBelow DEF HeaderFields
  <2> QED
    BY <2>1, <2>2, JoinedStrings, EncodedString
<1> QED
  BY <1>1, <1>2

LEMMA OptionalRead ==
    ASSUME NEW bytes \in Strings, NEW at \in Nat, NEW r, r = ReadOptional(bytes, at)
    PROVE  /\ r.next \in Nat
           /\ r.next # 0 => /\ at \in 1..Len(bytes)
                            /\ r.next \in 1..(Len(bytes) + 1)
                            /\ IsOptionalText(r.value)
                            /\ From(bytes, at) = EncodeOptional(r.value) \o From(bytes, r.next)
<1>0. Len(bytes) \in Nat /\ \A i \in 1..Len(bytes) : bytes[i] \in Lengths
  BY StringMeans
<1>1. CASE at = 0 \/ at > Len(bytes) \/ bytes[at] \notin {0, 1}
  BY <1>1 DEF ReadOptional, Failed
<1>2. CASE ~(at = 0 \/ at > Len(bytes) \/ bytes[at] \notin {0, 1}) /\ bytes[at] = 0
  <2>1. at \in 1..Len(bytes) /\ r = [value |-> <<>>, next |-> at + 1]
    BY <1>0, <1>2 DEF ReadOptional
  <2>2. From(bytes, at) = <<0>> \o From(bytes, at + 1) /\ at + 1 \in 1..(Len(bytes) + 1)
    BY <1>2, <2>1, FromFirst
  <2>3. r.next = at + 1 /\ r.value = <<>>
    BY <2>1
  <2> QED
    BY <2>1, <2>2, <2>3 DEF IsOptionalText, EncodeOptional
<1>3. CASE ~(at = 0 \/ at > Len(bytes) \/ bytes[at] \notin {0, 1}) /\ bytes[at] # 0
  <2> DEFINE s == ReadString(bytes, at + 1)
  <2>1. at \in 1..Len(bytes) /\ bytes[at] = 1 /\ at + 1 \in Nat
    BY <1>0, <1>3
  <2>2. /\ s \in [value: Strings, next: Nat]
        /\ s.next # 0 => /\ s.next \in 1..(Len(bytes) + 1) /\ IsText(s.value)
                         /\ From(bytes, at + 1) = EncodeString(s.value) \o From(bytes, s.next)
    BY <2>1, StringRead
  <2>3. r = IF s.next = 0 THEN Failed ELSE [value |-> <<s.value>>, next |-> s.next]
    BY <1>3 DEF ReadOptional
  <2> HIDE DEF s
  <2>4. CASE s.next = 0
    BY <2>3, <2>4 DEF Failed
  <2>5. CASE s.next # 0
    <3>1. r.value = <<s.value>> /\ r.next = s.next /\ r.next \in Nat
      BY <2>2, <2>3, <2>5
    <3>2. IsOptionalText(<<s.value>>) /\ EncodeOptional(<<s.value>>) = <<1>> \o EncodeString(s.value)
      BY <2>2, <2>5 DEF IsOptionalText, EncodeOptional
    <3>3. From(bytes, at) = <<1>> \o From(bytes, at + 1) /\ <<1>> \in Strings
      BY <2>1, FromFirst
    <3>4. EncodeString(s.value) \in Strings /\ From(bytes, s.next) \in Strings
      BY <2>2, <2>5, EncodedString, FromMeans
    <3>5. From(bytes, at) = (<<1>> \o EncodeString(s.value)) \o From(bytes, s.next)
      <4>1. (<<1>> \o EncodeString(s.value)) \o From(bytes, s.next)
            = <<1>> \o (EncodeString(s.value) \o From(bytes, s.next))
        BY <3>3, <3>4, JoinedStrings, Zenon
      <4> QED
        BY <2>2, <2>5, <3>3, <4>1, Zenon
    <3> QED
      BY <2>1, <2>2, <2>5, <3>1, <3>2, <3>5
  <2> QED
    BY <2>4, <2>5
<1> QED
  BY <1>1, <1>2, <1>3

-----------------------------------------------------------------------------
(* Lists of items.  enc[e] is the encoding of item e, and item[p] reads    *)
(* what begins at position p.                                              *)

Places(bytes) == 1..(Len(bytes) + 1)

Encoded(enc, es) == FlattenSeq([k \in DOMAIN es |-> enc[es[k]]])

ReadsOnly(bytes, item, E, enc) ==
    \A p \in Places(bytes) :
       item[p].next # 0 => /\ item[p].value \in E /\ item[p].next \in Places(bytes)
                           /\ From(bytes, p) = enc[item[p].value] \o From(bytes, item[p].next)

ReadsAll(bytes, item, E, enc) ==
    \A p \in Places(bytes), e \in E, t \in Strings :
       Splits(bytes, p, enc[e], t) => item[p] = [value |-> e, next |-> p + Len(enc[e])]

LEMMA EncodedCons ==
    ASSUME NEW E, NEW enc \in [E -> Strings], NEW e \in E, NEW es \in Seq(E)
    PROVE  /\ Encoded(enc, es) \in Strings
           /\ Encoded(enc, <<e>> \o es) = enc[e] \o Encoded(enc, es)
           /\ Encoded(enc, <<>>) = <<>>
<1> DEFINE all == <<e>> \o es
           ss == [k \in DOMAIN es |-> enc[es[k]]]
           tt == [k \in DOMAIN all |-> enc[all[k]]]
           n == Len(es)
<1>1. n \in Nat /\ DOMAIN es = 1..n /\ \A i \in 1..n : es[i] \in E
  BY LenProperties, ElementOfSeq
<1>2. <<e>> \in Seq(E) /\ Len(<<e>>) = 1 /\ <<e>>[1] = e
  OBVIOUS
<1>3. /\ all \in Seq(E) /\ Len(all) = 1 + n
      /\ \A i \in 1..(1 + n) : all[i] = IF i <= 1 THEN <<e>>[i] ELSE es[i - 1]
  BY <1>1, <1>2, ConcatProperties
<1>4. DOMAIN all = 1..(n + 1)
  BY <1>1, <1>3, LenProperties
<1>5. ss \in Seq(Strings) /\ Len(ss) = n
  BY <1>1
<1>6. enc[e] \in Strings
  OBVIOUS
<1>60. <<enc[e]>> \in Seq(Strings) /\ Len(<<enc[e]>>) = 1 /\ <<enc[e]>>[1] = enc[e]
  BY <1>6
<1> DEFINE uu == <<enc[e]>> \o ss
<1> HIDE DEF ss
<1>7. /\ uu \in Seq(Strings) /\ Len(uu) = 1 + n
      /\ \A i \in 1..(1 + n) : uu[i] = IF i <= 1 THEN <<enc[e]>>[i] ELSE ss[i - 1]
  BY <1>1, <1>5, <1>60, ConcatProperties
<1> HIDE DEF uu
<1>8. all[1] = e /\ uu[1] = enc[e] /\ \A i \in 2..(n + 1) : all[i] = es[i - 1] /\ uu[i] = ss[i - 1]
  <2>1. 1 \in 1..(1 + n) /\ \A i \in 2..(n + 1) : i \in 1..(1 + n) /\ ~(i <= 1)
    BY <1>1
  <2> QED
    BY <1>2, <1>3, <1>60, <1>7, <2>1
<1> HIDE DEF all, n
<1>9. tt \in Seq(Strings) /\ Len(tt) = n + 1
  <2>1. \A k \in 1..(n + 1) : all[k] \in E
    BY <1>1, <1>3, <1>4, ElementOfSeq
  <2>2. n + 1 \in Nat /\ \A k \in 1..(n + 1) : enc[all[k]] \in Strings
    BY <1>1, <2>1
  <2> QED
    BY <1>4, <2>2
<1>10. \A i \in 1..(n + 1) : tt[i] = uu[i]
  <2> TAKE i \in 1..(n + 1)
  <2>1. tt[i] = enc[all[i]]
    BY <1>4
  <2>2. CASE i = 1
    BY <1>8, <2>1, <2>2
  <2>3. CASE i # 1
    <3>1. i \in 2..(n + 1) /\ i - 1 \in 1..n
      BY <1>1, <2>3
    <3>2. ss[i - 1] = enc[es[i - 1]]
      BY <1>1, <3>1 DEF ss
    <3> QED
      BY <1>8, <2>1, <3>1, <3>2
  <2> QED
    BY <2>2, <2>3
<1> HIDE DEF tt
<1>11. tt = uu
  <2>1. Len(tt) = Len(uu) /\ \A i \in 1..Len(tt) : tt[i] = uu[i]
    BY <1>1, <1>7, <1>9, <1>10
  <2> QED
    BY <1>7, <1>9, <2>1, SeqEqual
<1>12. FlattenSeq(ss) \in Strings /\ FlattenSeq(uu) = enc[e] \o FlattenSeq(ss)
  <2>1. ASSUME NEW x \in Seq(Lengths), NEW xs \in Seq(Seq(Lengths))
        PROVE  FlattenSeq(xs) \in Seq(Lengths) /\ FlattenSeq(<<x>> \o xs) = x \o FlattenSeq(xs)
    BY FlattenCons
  <2>2. enc[e] \in Seq(Lengths) /\ ss \in Seq(Seq(Lengths))
    BY <1>5, <1>6 DEF Strings
  <2>3. FlattenSeq(ss) \in Seq(Lengths) /\ FlattenSeq(<<enc[e]>> \o ss) = enc[e] \o FlattenSeq(ss)
    BY <2>1, <2>2, Zenon
  <2> QED
    BY <2>3 DEF uu, Strings
<1>13. Encoded(enc, <<>>) = <<>>
  <2>1. [k \in DOMAIN <<>> |-> enc[<<>>[k]]] = <<>>
    OBVIOUS
  <2> QED
    BY <2>1, FlattenNone DEF Encoded
<1>14. Encoded(enc, es) = FlattenSeq(ss) /\ Encoded(enc, all) = FlattenSeq(tt)
  BY DEF Encoded, ss, tt
<1> QED
  BY <1>11, <1>12, <1>13, <1>14 DEF all

(* The table that ReadList fills: what can be read at p if n items follow. *)
IsTable(bytes, item, E, read) ==
    /\ read \in [Nat -> [Places(bytes) -> Seq(E) \cup {Invalid}]]
    /\ \A p \in Places(bytes) : read[0][p] = IF p = Len(bytes) + 1 THEN <<>> ELSE Invalid
    /\ \A n \in Nat, p \in Places(bytes) :
          read[n + 1][p] = IF item[p].next = 0 THEN Invalid
                           ELSE IF read[n][item[p].next] = Invalid THEN Invalid
                           ELSE <<item[p].value>> \o read[n][item[p].next]

ItemsOf(bytes, item, E) ==
    \A p \in Places(bytes) : item[p].next # 0 => item[p].value \in E /\ item[p].next \in Places(bytes)

GivesLists(bytes, item, read) ==
    \A at \in Places(bytes), k \in Nat : ReadList(bytes, item, at, k) = read[k][at]

LEMMA ReadTable ==
    ASSUME NEW bytes \in Strings, NEW item, NEW E, ItemsOf(bytes, item, E)
    PROVE  \E read : IsTable(bytes, item, E, read) /\ GivesLists(bytes, item, read)
<1> DEFINE P == 1..(Len(bytes) + 1)
           V == [P -> Seq(E) \cup {Invalid}]
           base == [p \in P |-> IF p = Len(bytes) + 1 THEN <<>> ELSE Invalid]
           step == [q \in Nat \X V |->
                      [p \in P |-> IF item[p].next = 0 THEN Invalid
                                   ELSE IF q[2][item[p].next] = Invalid THEN Invalid
                                   ELSE <<item[p].value>> \o q[2][item[p].next]]]
           Is(f) == f = [n \in Nat |-> [p \in P |->
                      IF n = 0 THEN IF p = Len(bytes) + 1 THEN <<>> ELSE Invalid
                      ELSE IF item[p].next = 0 THEN Invalid
                      ELSE IF f[n - 1][item[p].next] = Invalid THEN Invalid
                      ELSE <<item[p].value>> \o f[n - 1][item[p].next]]]
<1>0. /\ \A p \in P : item[p].next # 0 => item[p].value \in E /\ item[p].next \in P
      /\ P = Places(bytes)
  BY DEF Places, ItemsOf
<1>1. base \in V
  <2>1. <<>> \in Seq(E)
    OBVIOUS
  <2> HIDE DEF P
  <2> QED
    BY <2>1
<1>2. ASSUME NEW g \in V, NEW p \in P, item[p].next # 0, g[item[p].next] # Invalid
      PROVE  <<item[p].value>> \o g[item[p].next] \in Seq(E)
  <2>1. item[p].value \in E /\ g[item[p].next] \in Seq(E)
    <3> HIDE DEF P
    <3> QED
      BY <1>0, <1>2
  <2>2. <<item[p].value>> \in Seq(E)
    BY <2>1
  <2> QED
    BY <2>1, <2>2, ConcatProperties
<1>3. step \in [Nat \X V -> V]
  <2>1. ASSUME NEW q \in Nat \X V
        PROVE  [p \in P |-> IF item[p].next = 0 THEN Invalid
                            ELSE IF q[2][item[p].next] = Invalid THEN Invalid
                            ELSE <<item[p].value>> \o q[2][item[p].next]] \in V
    <3>0. q[2] \in V
      <4> HIDE DEF V
      <4> QED
        OBVIOUS
    <3> DEFINE g == q[2]
    <3>1. g \in V
      BY <3>0
    <3> HIDE DEF g, P
    <3>2. [p \in P |-> IF item[p].next = 0 THEN Invalid
                       ELSE IF g[item[p].next] = Invalid THEN Invalid
                       ELSE <<item[p].value>> \o g[item[p].next]] \in V
      BY <1>2, <3>1
    <3> QED
      BY <3>2 DEF g
  <2> HIDE DEF V, P
  <2> QED
    BY <2>1
<1>4. \A n \in Nat, g \in V : step[<<n, g>>] =
         [p \in P |-> IF item[p].next = 0 THEN Invalid
                      ELSE IF g[item[p].next] = Invalid THEN Invalid
                      ELSE <<item[p].value>> \o g[item[p].next]]
  <2> HIDE DEF V, P
  <2> QED
    OBVIOUS
<1> HIDE DEF step
<1>5. PICK f : Recursive(f, V, base, step)
  <2> HIDE DEF V, base
  <2> QED
    BY <1>1, <1>3, Recursion, Zenon
<1>6. /\ f \in [Nat -> V] /\ f[0] = base
      /\ \A n \in Nat : f[n + 1] = step[<<n, f[n]>>]
  <2> HIDE DEF V, base
  <2> QED
    BY <1>5 DEF Recursive
<1>7. \A n \in Nat : f[n + 1] = [p \in P |-> IF item[p].next = 0 THEN Invalid
                                              ELSE IF f[n][item[p].next] = Invalid THEN Invalid
                                              ELSE <<item[p].value>> \o f[n][item[p].next]]
  <2> TAKE n \in Nat
  <2>1. f[n] \in V /\ f[n + 1] = step[<<n, f[n]>>]
    <3> HIDE DEF V, base
    <3> QED
      BY <1>6
  <2> HIDE DEF V, P, base
  <2> QED
    BY <1>4, <2>1
<1>8. Is(f)
  <2>1. ASSUME NEW n \in Nat
        PROVE  f[n] = [p \in P |->
                      IF n = 0 THEN IF p = Len(bytes) + 1 THEN <<>> ELSE Invalid
                      ELSE IF item[p].next = 0 THEN Invalid
                      ELSE IF f[n - 1][item[p].next] = Invalid THEN Invalid
                      ELSE <<item[p].value>> \o f[n - 1][item[p].next]]
    <3>1. CASE n = 0
      BY <1>6, <3>1
    <3>2. CASE n # 0
      <4>1. n - 1 \in Nat /\ (n - 1) + 1 = n
        BY <3>2
      <4> HIDE DEF P
      <4> QED
        BY <1>7, <3>2, <4>1
    <3> QED
      BY <3>1, <3>2
  <2>2. f = [n \in Nat |-> f[n]]
    <3> HIDE DEF V, base
    <3> QED
      BY <1>6
  <2> HIDE DEF P
  <2> QED
    BY <2>1, <2>2
<1> DEFINE read == CHOOSE x : Is(x)
<1>9. Is(read)
  <2> HIDE DEF Is
  <2> QED
    BY <1>8
<1>10. ASSUME NEW at \in P, NEW k \in Nat PROVE ReadList(bytes, item, at, k) = read[k][at]
  BY DEF ReadList
<1> HIDE DEF read
<1>11. \A p \in P : read[0][p] = IF p = Len(bytes) + 1 THEN <<>> ELSE Invalid
  <2> HIDE DEF P
  <2> QED
    BY <1>9
<1>12. \A n \in Nat, p \in P :
          read[n + 1][p] = IF item[p].next = 0 THEN Invalid
                           ELSE IF read[n][item[p].next] = Invalid THEN Invalid
                           ELSE <<item[p].value>> \o read[n][item[p].next]
  <2> TAKE n \in Nat, p \in P
  <2>1. n + 1 \in Nat /\ n + 1 # 0 /\ (n + 1) - 1 = n
    OBVIOUS
  <2> HIDE DEF P
  <2> DEFINE row(m) == [x \in P |->
                          IF m = 0 THEN IF x = Len(bytes) + 1 THEN <<>> ELSE Invalid
                          ELSE IF item[x].next = 0 THEN Invalid
                          ELSE IF read[m - 1][item[x].next] = Invalid THEN Invalid
                          ELSE <<item[x].value>> \o read[m - 1][item[x].next]]
  <2>2. read = [m \in Nat |-> row(m)]
    BY <1>9
  <2> HIDE DEF row, Is
  <2>3. read[n + 1] = row(n + 1)
    BY <2>1, <2>2
  <2>4. row(n + 1)[p] = IF item[p].next = 0 THEN Invalid
                        ELSE IF read[n][item[p].next] = Invalid THEN Invalid
                        ELSE <<item[p].value>> \o read[n][item[p].next]
    BY <2>1 DEF row
  <2> QED
    BY <2>3, <2>4
<1>13. \A n \in Nat : read[n] \in V
  <2> DEFINE T == {n \in Nat : read[n] \in V}
  <2>0. \A n \in Nat : read[n] = [p \in P |-> read[n][p]]
    <3> HIDE DEF P
    <3> QED
      BY <1>9
  <2>1. 0 \in T
    <3>1. \A p \in P : read[0][p] \in Seq(E) \cup {Invalid}
      <4>1. <<>> \in Seq(E)
        OBVIOUS
      <4> HIDE DEF P
      <4> QED
        BY <1>11, <4>1
    <3> HIDE DEF P
    <3> QED
      BY <2>0, <3>1
  <2>2. ASSUME NEW n \in Nat, n \in T PROVE n + 1 \in T
    <3>1. read[n] \in V
      BY <2>2
    <3>2. \A p \in P : read[n + 1][p] \in Seq(E) \cup {Invalid}
      <4> HIDE DEF P, V
      <4> QED
        BY <1>2, <1>12, <3>1
    <3>3. n + 1 \in Nat
      OBVIOUS
    <3> HIDE DEF P
    <3> QED
      BY <2>0, <3>2, <3>3
  <2>3. \A n \in Nat : n \in T
    <3> HIDE DEF T
    <3> QED
      BY <2>1, <2>2, Induction
  <2> HIDE DEF V
  <2> QED
    BY <2>3
<1>14. read \in [Nat -> V]
  <2>1. read = [n \in Nat |-> read[n]]
    <3> HIDE DEF P
    <3> QED
      BY <1>9
  <2> HIDE DEF V
  <2> QED
    BY <1>13, <2>1
<1>15. IsTable(bytes, item, E, read)
  BY <1>11, <1>12, <1>14 DEF IsTable, Places
<1>16. GivesLists(bytes, item, read)
  BY <1>10 DEF Places, GivesLists
<1> QED
  BY <1>15, <1>16

LEMMA HeadAndTail ==
    ASSUME NEW E, NEW x \in Seq(E), NEW n \in Nat, Len(x) = n + 1
    PROVE  /\ x[1] \in E /\ Tail(x) \in Seq(E) /\ Len(Tail(x)) = n
           /\ x = <<x[1]>> \o Tail(x)
<1>1. x # <<>>
  BY EmptySeq
<1>2. Head(x) = x[1] /\ Tail(x) \in Seq(E) /\ Len(Tail(x)) = n /\ x[1] \in E
  BY <1>1, HeadTailProperties, ElementOfSeq
<1>3. x = <<Head(x)>> \o Tail(x)
  BY <1>1, ConcatProperties, HeadTailProperties
<1> QED
  BY <1>2, <1>3

LEMMA EncodedIsString ==
    ASSUME NEW E, NEW enc \in [E -> Strings], NEW x \in Seq(E)
    PROVE  Encoded(enc, x) \in Strings
<1>1. DOMAIN x = 1..Len(x) /\ Len(x) \in Nat /\ \A i \in 1..Len(x) : x[i] \in E
  BY LenProperties, ElementOfSeq
<1>2. CASE Len(x) = 0
  <2>1. x = <<>> /\ Encoded(enc, <<>>) = <<>>
    BY <1>2, EmptySeq, FlattenNone DEF Encoded
  <2> QED
    BY <2>1, JoinedStrings
<1>3. CASE Len(x) # 0
  <2>1. x[1] \in E
    BY <1>1, <1>3
  <2> QED
    BY <2>1, EncodedCons
<1> QED
  BY <1>2, <1>3

(* What is read is well formed and encodes as what was read.               *)
LEMMA ListRead ==
    ASSUME NEW bytes \in Strings, NEW item, NEW E, NEW enc \in [E -> Strings],
           ReadsOnly(bytes, item, E, enc), NEW at \in Places(bytes), NEW k \in Nat,
           NEW r, r = ReadList(bytes, item, at, k), r # Invalid
    PROVE  r \in Seq(E) /\ Len(r) = k /\ From(bytes, at) = Encoded(enc, r)
<1>1. \A p \in Places(bytes) :
         item[p].next # 0 => /\ item[p].value \in E /\ item[p].next \in Places(bytes)
                             /\ From(bytes, p) = enc[item[p].value] \o From(bytes, item[p].next)
  BY DEF ReadsOnly
<1>10. ItemsOf(bytes, item, E)
  BY <1>1 DEF ItemsOf
<1>2. PICK read : IsTable(bytes, item, E, read) /\ GivesLists(bytes, item, read)
  BY <1>10, ReadTable, Zenon
<1>3. /\ \A p \in Places(bytes) : read[0][p] = IF p = Len(bytes) + 1 THEN <<>> ELSE Invalid
      /\ \A n \in Nat, p \in Places(bytes) :
            read[n + 1][p] = IF item[p].next = 0 THEN Invalid
                             ELSE IF read[n][item[p].next] = Invalid THEN Invalid
                             ELSE <<item[p].value>> \o read[n][item[p].next]
  BY <1>2 DEF IsTable
<1> DEFINE Good(n, p) == /\ read[n][p] \in Seq(E) /\ Len(read[n][p]) = n
                         /\ From(bytes, p) = Encoded(enc, read[n][p])
           T == {n \in Nat : \A p \in Places(bytes) : read[n][p] # Invalid => Good(n, p)}
<1>4. 0 \in T
  <2> SUFFICES ASSUME NEW p \in Places(bytes), read[0][p] # Invalid PROVE Good(0, p)
    OBVIOUS
  <2>1. p = Len(bytes) + 1 /\ read[0][p] = <<>>
    BY <1>3
  <2>2. <<>> \in Seq(E) /\ Len(<<>>) = 0 /\ Encoded(enc, <<>>) = <<>>
    BY FlattenNone DEF Encoded
  <2>3. Len(bytes) + 1 \in Places(bytes)
    BY StringMeans DEF Places
  <2>4. From(bytes, p) = <<>>
    BY <2>1, <2>3, FromMeans DEF Places
  <2> QED
    BY <2>1, <2>2, <2>4
<1>5. ASSUME NEW n \in Nat, n \in T PROVE n + 1 \in T
  <2> SUFFICES ASSUME NEW p \in Places(bytes), read[n + 1][p] # Invalid PROVE Good(n + 1, p)
    OBVIOUS
  <2> DEFINE e == item[p].value
             q == item[p].next
             x == read[n][q]
  <2>1. q # 0 /\ x # Invalid /\ read[n + 1][p] = <<e>> \o x
    BY <1>3
  <2>2. e \in E /\ q \in Places(bytes) /\ From(bytes, p) = enc[e] \o From(bytes, q)
    BY <1>1, <2>1
  <2>3. x \in Seq(E) /\ Len(x) = n /\ From(bytes, q) = Encoded(enc, x)
    BY <1>5, <2>1, <2>2
  <2> HIDE DEF e, q, x
  <2>4. Encoded(enc, <<e>> \o x) = enc[e] \o Encoded(enc, x)
    BY <2>2, <2>3, EncodedCons
  <2>5. <<e>> \in Seq(E) /\ Len(<<e>>) = 1
    BY <2>2
  <2>6. <<e>> \o x \in Seq(E) /\ Len(<<e>> \o x) = n + 1
    BY <2>3, <2>5, ConcatProperties
  <2> QED
    BY <2>1, <2>2, <2>3, <2>4, <2>6
<1>6. \A n \in Nat : n \in T
  <2> HIDE DEF T
  <2> QED
    BY <1>4, <1>5, Induction
<1> QED
  BY <1>2, <1>6 DEF GivesLists

(* What was written is read.                                               *)
LEMMA ListReadsBack ==
    ASSUME NEW bytes \in Strings, NEW item, NEW E, NEW enc \in [E -> Strings],
           ReadsOnly(bytes, item, E, enc), ReadsAll(bytes, item, E, enc), Invalid \notin Seq(E),
           NEW at \in Places(bytes), NEW es \in Seq(E), From(bytes, at) = Encoded(enc, es)
    PROVE  ReadList(bytes, item, at, Len(es)) = es
<1>1. \A p \in Places(bytes) :
         item[p].next # 0 => /\ item[p].value \in E /\ item[p].next \in Places(bytes)
                             /\ From(bytes, p) = enc[item[p].value] \o From(bytes, item[p].next)
  BY DEF ReadsOnly
<1>10. ItemsOf(bytes, item, E)
  BY <1>1 DEF ItemsOf
<1>2. PICK read : IsTable(bytes, item, E, read) /\ GivesLists(bytes, item, read)
  BY <1>10, ReadTable, Zenon
<1>3. /\ \A p \in Places(bytes) : read[0][p] = IF p = Len(bytes) + 1 THEN <<>> ELSE Invalid
      /\ \A n \in Nat, p \in Places(bytes) :
            read[n + 1][p] = IF item[p].next = 0 THEN Invalid
                             ELSE IF read[n][item[p].next] = Invalid THEN Invalid
                             ELSE <<item[p].value>> \o read[n][item[p].next]
  BY <1>2 DEF IsTable
<1>4. \A x \in Seq(E) : Encoded(enc, x) \in Strings
  BY EncodedIsString
<1> DEFINE T == {n \in Nat : \A p \in Places(bytes), x \in Seq(E) :
                    Len(x) = n /\ From(bytes, p) = Encoded(enc, x) => read[n][p] = x}
<1>5. 0 \in T
  <2> SUFFICES ASSUME NEW p \in Places(bytes), NEW x \in Seq(E), Len(x) = 0,
                      From(bytes, p) = Encoded(enc, x)
               PROVE  read[0][p] = x
    OBVIOUS
  <2>1. x = <<>> /\ From(bytes, p) = <<>>
    BY EmptySeq, FlattenNone DEF Encoded
  <2>2. Len(From(bytes, p)) = Len(bytes) - p + 1
    BY FromMeans DEF Places
  <2>3. p = Len(bytes) + 1
    BY <2>1, <2>2, StringMeans DEF Places
  <2> QED
    BY <1>3, <2>1, <2>3
<1>6. ASSUME NEW n \in Nat, n \in T PROVE n + 1 \in T
  <2> SUFFICES ASSUME NEW p \in Places(bytes), NEW x \in Seq(E), Len(x) = n + 1,
                      From(bytes, p) = Encoded(enc, x)
               PROVE  read[n + 1][p] = x
    OBVIOUS
  <2> DEFINE e == x[1]
             y == Tail(x)
             q == p + Len(enc[e])
  <2>1. e \in E /\ y \in Seq(E) /\ Len(y) = n /\ x = <<e>> \o y
    BY HeadAndTail
  <2> HIDE DEF e, y
  <2>2. enc[e] \in Strings /\ Encoded(enc, y) \in Strings
    BY <1>4, <2>1
  <2>3. Encoded(enc, x) = enc[e] \o Encoded(enc, y)
    BY <2>1, EncodedCons
  <2>4. Splits(bytes, p, enc[e], Encoded(enc, y))
    BY <2>2, <2>3 DEF Splits, Places
  <2>5. q \in Places(bytes) /\ From(bytes, q) = Encoded(enc, y)
    <3>1. Follows(bytes, p, enc[e], Encoded(enc, y), q)
      BY <2>4, FromRest
    <3> QED
      BY <3>1 DEF Follows, Places
  <2>6. item[p] = [value |-> e, next |-> q]
    BY <2>1, <2>2, <2>4 DEF ReadsAll
  <2> HIDE DEF q
  <2>7. read[n][q] = y /\ y # Invalid
    BY <1>6, <2>1, <2>5
  <2>8. q # 0 /\ item[p].next = q /\ item[p].value = e
    BY <2>5, <2>6, StringMeans DEF Places
  <2> QED
    BY <1>3, <2>1, <2>7, <2>8
<1>7. \A n \in Nat : n \in T
  <2> HIDE DEF T
  <2> QED
    BY <1>5, <1>6, Induction
<1>8. Len(es) \in Nat /\ Len(es) \in T
  BY <1>7, LenProperties
<1> QED
  BY <1>2, <1>8 DEF GivesLists

-----------------------------------------------------------------------------
(* Trees.                                                                  *)

LEMMA FieldReadsBack ==
    ASSUME NEW bytes, NEW p, NEW n \in Lengths, NEW t, Splits(bytes, p, <<n>>, t)
    PROVE  /\ p \in 1..Len(bytes) /\ bytes[p] = n
           /\ p + 1 \in 1..(Len(bytes) + 1) /\ From(bytes, p + 1) = t
<1> DEFINE s == <<n>>
<1>1. Len(s) = 1 /\ s[1] = n
  OBVIOUS
<1> HIDE DEF s
<1>2. Follows(bytes, p, s, t, p + 1)
  <2>1. Follows(bytes, p, s, t, p + Len(s))
    BY FromRest DEF s
  <2> QED
    BY <1>1, <2>1
<1>3. 1 \in 1..Len(s) /\ p \in Nat
  BY <1>1, StringMeans DEF Splits
<1> QED
  BY <1>1, <1>2, <1>3 DEF Follows

Entries == {e \in [kind: KindTags, name: Strings, id: Lengths] : IsEntry(e)}
EntryCode == [e \in Entries |-> EncodeEntry(e)]
EntryReader(bytes) == [p \in 1..(Len(bytes) + 1) |-> ReadEntry(bytes, p)]

LEMMA TagsAreLengths == KindTags \subseteq Lengths /\ {0, 1} \subseteq Lengths
  BY LengthsAreNumbers, LengthIsBelow DEF HeaderFields, KindTags

LEMMA EntryMeans ==
    ASSUME NEW e, IsEntry(e)
    PROVE  /\ e \in Entries /\ IsText(e.name) /\ ValidName(e.name)
           /\ e.kind \in KindTags /\ e.kind \in Lengths /\ e.id \in Lengths
           /\ <<e.kind>> \in Strings /\ <<e.id>> \in Strings /\ EncodeString(e.name) \in Strings
           /\ EncodeEntry(e) \in Strings
           /\ Len(EncodeEntry(e)) = Len(e.name) + 3
           /\ \A t \in Strings : EncodeEntry(e) \o t = <<e.kind>> \o (EncodeString(e.name) \o (<<e.id>> \o t))
<1>1. /\ e = [kind |-> e.kind, name |-> e.name, id |-> e.id]
      /\ e.kind \in KindTags /\ e.id \in Lengths /\ IsText(e.name) /\ ValidName(e.name)
  BY DEF IsEntry
<1>2. e.name \in Strings /\ Len(e.name) \in Nat
      /\ EncodeString(e.name) \in Strings /\ Len(EncodeString(e.name)) = Len(e.name) + 1
  BY <1>1, EncodedString
<1>3. e \in Entries
  BY <1>1, <1>2 DEF Entries
<1>4. e.kind \in Lengths
  BY <1>1, TagsAreLengths
<1>5. /\ <<e.kind>> \in Strings /\ Len(<<e.kind>>) = 1
      /\ <<e.id>> \in Strings /\ Len(<<e.id>>) = 1
  BY <1>1, <1>4, JoinedStrings
<1> DEFINE a == <<e.kind>>
           b == EncodeString(e.name)
           c == <<e.id>>
<1>6. EncodeEntry(e) = (a \o b) \o c
  BY DEF EncodeEntry
<1>7. a \in Strings /\ b \in Strings /\ c \in Strings
  BY <1>2, <1>5
<1>70. Len(a) = 1 /\ Len(b) = Len(e.name) + 1 /\ Len(c) = 1
  BY <1>2, <1>5
<1> HIDE DEF a, b, c
<1>8. a \o b \in Strings /\ Len(a \o b) = Len(a) + Len(b)
  BY <1>7, JoinedStrings
<1>9. (a \o b) \o c \in Strings /\ Len((a \o b) \o c) = Len(a \o b) + Len(c)
  BY <1>7, <1>8, JoinedStrings
<1>10. ASSUME NEW t \in Strings PROVE ((a \o b) \o c) \o t = a \o (b \o (c \o t))
  <2>1. c \o t \in Strings
    BY <1>7, JoinedStrings
  <2>2. ((a \o b) \o c) \o t = (a \o b) \o (c \o t)
    BY <1>7, <1>8, JoinedStrings, Zenon
  <2>3. (a \o b) \o (c \o t) = a \o (b \o (c \o t))
    BY <1>7, <2>1, JoinedStrings, Zenon
  <2> QED
    BY <2>2, <2>3, Zenon
<1>11. Len(EncodeEntry(e)) = Len(e.name) + 3
  BY <1>2, <1>6, <1>70, <1>8, <1>9
<1> QED
  BY <1>1, <1>2, <1>3, <1>4, <1>5, <1>6, <1>9, <1>10, <1>11 DEF a, b, c

LEMMA EntriesRead ==
    ASSUME NEW bytes \in Strings
    PROVE  ReadsOnly(bytes, EntryReader(bytes), Entries, EntryCode)
<1> DEFINE item == EntryReader(bytes)
<1> SUFFICES ASSUME NEW p \in Places(bytes), item[p].next # 0
             PROVE  /\ item[p].value \in Entries /\ item[p].next \in Places(bytes)
                    /\ From(bytes, p) = EntryCode[item[p].value] \o From(bytes, item[p].next)
  BY DEF ReadsOnly
<1> DEFINE r == ReadString(bytes, p + 1)
           name == r.value
           q == r.next
           e == [kind |-> bytes[p], name |-> name, id |-> bytes[q]]
<1>0. Len(bytes) \in Nat /\ p \in Nat /\ p >= 1 /\ p + 1 \in Nat
  BY StringMeans DEF Places
<1>1. item[p] = ReadEntry(bytes, p)
  BY DEF EntryReader, Places
<1>2. /\ p <= Len(bytes) /\ q # 0 /\ q <= Len(bytes) /\ bytes[p] \in KindTags /\ ValidName(name)
      /\ item[p] = [value |-> e, next |-> q + 1]
  <2>1. ~(\/ p > Len(bytes) \/ q = 0 \/ q > Len(bytes) \/ bytes[p] \notin KindTags \/ ~ValidName(name))
    <3>1. Failed.next = 0
      BY DEF Failed
    <3> HIDE DEF r
    <3> QED
      BY <1>1, <3>1 DEF ReadEntry, r
  <2>2. item[p] = [value |-> e, next |-> q + 1]
    BY <1>1, <2>1 DEF ReadEntry
  <2>3. q \in Nat
    BY <1>0, StringRead
  <2> HIDE DEF r
  <2> QED
    BY <1>0, <2>1, <2>2, <2>3
<1>3. /\ IsText(name) /\ q \in 1..(Len(bytes) + 1)
      /\ From(bytes, p + 1) = EncodeString(name) \o From(bytes, q)
  BY <1>0, <1>2, StringRead
<1> HIDE DEF r
<1>4. /\ p \in 1..Len(bytes) /\ q \in 1..Len(bytes)
      /\ bytes[p] \in Lengths /\ bytes[q] \in Lengths
  BY <1>0, <1>2, <1>3, StringMeans
<1>5. /\ From(bytes, p) = <<bytes[p]>> \o From(bytes, p + 1)
      /\ From(bytes, q) = <<bytes[q]>> \o From(bytes, q + 1)
      /\ q + 1 \in 1..(Len(bytes) + 1)
  BY <1>4, FromFirst
<1>6. From(bytes, q + 1) \in Strings
  BY <1>5, FromMeans
<1>7. IsEntry(e)
  BY <1>2, <1>3, <1>4 DEF IsEntry
<1>8. e.kind = bytes[p] /\ e.name = name /\ e.id = bytes[q]
  OBVIOUS
<1> HIDE DEF e
<1>9. /\ e \in Entries
      /\ EncodeEntry(e) \o From(bytes, q + 1)
           = <<bytes[p]>> \o (EncodeString(name) \o (<<bytes[q]>> \o From(bytes, q + 1)))
  BY <1>6, <1>7, <1>8, EntryMeans
<1>10. From(bytes, p) = EncodeEntry(e) \o From(bytes, q + 1)
  BY <1>3, <1>5, <1>9, Zenon
<1>11. EntryCode[e] = EncodeEntry(e)
  BY <1>9 DEF EntryCode
<1>12. item[p].value = e /\ item[p].next = q + 1
  BY <1>2
<1>13. q + 1 \in Places(bytes)
  BY <1>5 DEF Places
<1> HIDE DEF item
<1> QED
  BY <1>9, <1>10, <1>11, <1>12, <1>13, Zenon

LEMMA EntriesReadBack ==
    ASSUME NEW bytes \in Strings
    PROVE  ReadsAll(bytes, EntryReader(bytes), Entries, EntryCode)
<1> DEFINE item == EntryReader(bytes)
<1> SUFFICES ASSUME NEW p \in Places(bytes), NEW e \in Entries, NEW t \in Strings,
                    Splits(bytes, p, EntryCode[e], t)
             PROVE  item[p] = [value |-> e, next |-> p + Len(EntryCode[e])]
  BY DEF ReadsAll
<1> DEFINE s == EncodeString(e.name)
<1>0. Len(bytes) \in Nat /\ p \in Nat /\ p >= 1 /\ IsEntry(e)
  BY StringMeans DEF Places, Entries
<1>1. /\ IsText(e.name) /\ ValidName(e.name) /\ e.kind \in KindTags
      /\ e.kind \in Lengths /\ e.id \in Lengths
      /\ <<e.kind>> \in Strings /\ <<e.id>> \in Strings /\ s \in Strings
      /\ Len(EncodeEntry(e)) = Len(e.name) + 3
      /\ EncodeEntry(e) \o t = <<e.kind>> \o (s \o (<<e.id>> \o t))
  BY <1>0, EntryMeans
<1>2. EntryCode[e] = EncodeEntry(e)
  BY DEF EntryCode
<1>3. Len(e.name) \in Nat
  BY <1>1, EncodedString
<1>4. <<e.id>> \o t \in Strings
  BY <1>1, JoinedStrings
<1>5. s \o (<<e.id>> \o t) \in Strings
  BY <1>1, <1>4, JoinedStrings
<1> HIDE DEF s
<1>6. Splits(bytes, p, <<e.kind>>, s \o (<<e.id>> \o t))
  BY <1>1, <1>2, <1>5 DEF Splits
<1>7. /\ p \in 1..Len(bytes) /\ bytes[p] = e.kind
      /\ p + 1 \in 1..(Len(bytes) + 1) /\ From(bytes, p + 1) = s \o (<<e.id>> \o t)
  BY <1>1, <1>6, FieldReadsBack
<1>8. Splits(bytes, p + 1, s, <<e.id>> \o t)
  BY <1>1, <1>4, <1>7 DEF Splits
<1> DEFINE q == (p + 1) + Len(e.name) + 1
<1>9. /\ ReadString(bytes, p + 1) = [value |-> e.name, next |-> q]
      /\ q \in 1..(Len(bytes) + 1) /\ From(bytes, q) = <<e.id>> \o t
  BY <1>1, <1>8, StringReadsBack DEF s
<1>10. q + 1 = p + (Len(e.name) + 3)
  <2>1. \A a, b \in Nat : ((a + 1) + b + 1) + 1 = a + (b + 3)
    OBVIOUS
  <2> QED
    BY <1>0, <1>3, <2>1
<1> HIDE DEF q
<1>11. Splits(bytes, q, <<e.id>>, t)
  BY <1>1, <1>9 DEF Splits
<1>12. q \in 1..Len(bytes) /\ bytes[q] = e.id
  BY <1>1, <1>11, FieldReadsBack
<1>13. e = [kind |-> bytes[p], name |-> e.name, id |-> bytes[q]]
  BY <1>0, <1>7, <1>12 DEF IsEntry
<1>14. ReadEntry(bytes, p) = [value |-> e, next |-> q + 1]
  <2> DEFINE r == ReadString(bytes, p + 1)
  <2>1. r.value = e.name /\ r.next = q
    BY <1>9
  <2> HIDE DEF r
  <2>2. ~(p > Len(bytes)) /\ r.next # 0 /\ ~(r.next > Len(bytes)) /\ bytes[p] \in KindTags
        /\ ValidName(r.value)
    BY <1>0, <1>1, <1>7, <1>12, <2>1
  <2>3. ReadEntry(bytes, p)
          = [value |-> [kind |-> bytes[p], name |-> r.value, id |-> bytes[r.next]], next |-> r.next + 1]
    BY <2>2 DEF ReadEntry, r
  <2> QED
    BY <1>13, <2>1, <2>3
<1>15. item[p] = ReadEntry(bytes, p)
  BY DEF EntryReader, Places
<1> QED
  BY <1>1, <1>2, <1>10, <1>14, <1>15

(* Entries in order.                                                       *)
EntryNames(x) == {e.name : e \in ToSet(x)}

LEMMA ListingMeans ==
    ASSUME NEW x \in Seq(Entries)
    PROVE  /\ Len(x) \in Nat /\ DOMAIN x = 1..Len(x)
           /\ \A i \in 1..Len(x) : x[i] \in Entries /\ x[i] \in ToSet(x)
           /\ \A e \in ToSet(x) : e \in Entries /\ \E i \in 1..Len(x) : x[i] = e
           /\ Names(x) \in Seq(Strings) /\ Len(Names(x)) = Len(x)
           /\ \A i \in 1..Len(x) : Names(x)[i] = x[i].name
           /\ ToSet(Names(x)) = EntryNames(x)
<1>1. /\ Len(x) \in Nat /\ DOMAIN x = 1..Len(x)
      /\ \A i \in 1..Len(x) : x[i] \in Entries
  BY LenProperties, ElementOfSeq
<1>2. \A e \in Entries : e.name \in Strings
  BY DEF Entries
<1>3. Names(x) = [k \in 1..Len(x) |-> x[k].name]
  BY <1>1 DEF Names
<1>4. \A k \in 1..Len(x) : x[k].name \in Strings
  BY <1>1, <1>2
<1>5. Names(x) \in Seq(Strings) /\ Len(Names(x)) = Len(x) /\ DOMAIN Names(x) = 1..Len(x)
  BY <1>1, <1>3, <1>4
<1>6. ToSet(Names(x)) = EntryNames(x)
  BY <1>1, <1>3, <1>5 DEF EntryNames, ToSet
<1> QED
  BY <1>1, <1>3, <1>5, <1>6 DEF ToSet

(* A list whose names differ.                                              *)
Distinct(x) == \A i, j \in 1..Len(x) : x[i].name = x[j].name => i = j

LEMMA DistinctMeans ==
    ASSUME NEW x \in Seq(Entries)
    PROVE  /\ Cardinality(EntryNames(x)) = Len(x) <=> Distinct(x)
           /\ Distinct(x) => /\ \A e, f \in ToSet(x) : e.name = f.name => e = f
                             /\ IsFiniteSet(ToSet(x)) /\ Cardinality(ToSet(x)) = Len(x)
           /\ EntryNames(x) \in SUBSET Strings /\ IsFiniteSet(EntryNames(x))
<1> DEFINE n == Len(x)
           S == EntryNames(x)
           f == [i \in 1..n |-> x[i].name]
<1>1. /\ n \in Nat /\ \A i \in 1..n : x[i] \in Entries /\ x[i] \in ToSet(x)
      /\ \A e \in ToSet(x) : e \in Entries /\ \E i \in 1..n : x[i] = e
  BY ListingMeans
<1>2. f \in [1..n -> S] /\ \A e \in S : \E i \in 1..n : f[i] = e
  BY <1>1 DEF EntryNames
<1> HIDE DEF n, S
<1>3. f \in Surjection(1..n, S)
  BY <1>2 DEF Surjection
<1>4. IsFiniteSet(1..n) /\ Cardinality(1..n) = n
  <2>1. IsFiniteSet(1..n) /\ Cardinality(1..n) = IF 1 > n THEN 0 ELSE n - 1 + 1
    BY <1>1, FS_Interval
  <2> QED
    BY <1>1, <2>1
<1>5. IsFiniteSet(S) /\ (Cardinality(S) = n <=> f \in Injection(1..n, S))
  BY <1>3, <1>4, FS_Surjection
<1>6. f \in Injection(1..n, S) <=> \A i, j \in 1..n : x[i].name = x[j].name => i = j
  BY <1>2 DEF Injection, IsInjective
<1>7. S \in SUBSET Strings
  BY <1>1 DEF S, EntryNames, Entries
<1>8. ASSUME Distinct(x), NEW e \in ToSet(x), NEW g \in ToSet(x), e.name = g.name PROVE e = g
  <2>1. PICK i \in 1..n : x[i] = e
    BY <1>1
  <2>2. PICK j \in 1..n : x[j] = g
    BY <1>1
  <2> QED
    BY <1>8, <2>1, <2>2 DEF Distinct, n
<1>9. ASSUME Distinct(x) PROVE IsFiniteSet(ToSet(x)) /\ Cardinality(ToSet(x)) = n
  <2>1. \A i, j \in 1..n : x[i] = x[j] => i = j
    BY <1>9 DEF Distinct, n
  <2>2. ToSet(x) = {x[i] : i \in 1..n}
    BY <1>1
  <2> QED
    BY <1>1, <2>1, <2>2, Counted
<1> QED
  BY <1>5, <1>6, <1>7, <1>8, <1>9 DEF n, S, Distinct

(* Tree::new: whatever the order of the listing, the k-th entry is the one *)
(* with the k-th name.                                                     *)
LEMMA NewTreeMeans ==
    ASSUME NEW x \in Seq(Entries), NEW d, d = NewTree(x)
    PROVE  /\ ~Distinct(x) => d = Invalid
           /\ Distinct(x) =>
                /\ d \in Seq(Entries) /\ Len(d) = Len(x)
                /\ \A k \in 1..Len(x) : /\ d[k] \in ToSet(x)
                                        /\ d[k].name = SortedStrings(EntryNames(x))[k]
                /\ ToSet(d) = ToSet(x)
                /\ Increasing(Names(d))
<1> DEFINE n == Len(x)
           S == EntryNames(x)
           sorted == SortedStrings(S)
           named(m) == x[CHOOSE k \in DOMAIN x : x[k].name = m]
<1>1. /\ n \in Nat /\ DOMAIN x = 1..n
      /\ \A i \in 1..n : x[i] \in Entries /\ x[i] \in ToSet(x)
      /\ \A e \in ToSet(x) : e \in Entries /\ \E i \in 1..n : x[i] = e
      /\ ToSet(Names(x)) = S
  BY ListingMeans
<1>2. /\ Cardinality(S) = n <=> Distinct(x)
      /\ Distinct(x) => \A e, f \in ToSet(x) : e.name = f.name => e = f
      /\ S \in SUBSET Strings /\ IsFiniteSet(S)
  BY DistinctMeans
<1> HIDE DEF S
<1>3. d = IF Cardinality(S) # n THEN Invalid ELSE [k \in DOMAIN sorted |-> named(sorted[k])]
  BY <1>1 DEF NewTree
<1>4. /\ sorted \in [1..Cardinality(S) -> S]
      /\ \A e \in S : \E k \in 1..Cardinality(S) : sorted[k] = e
      /\ \A i, j \in 1..Cardinality(S) : i < j => BytesLess(sorted[i], sorted[j])
  BY <1>2, SortedMeans
<1> HIDE DEF sorted
<1>5. ASSUME Distinct(x)
      PROVE  /\ d \in Seq(Entries) /\ Len(d) = n
             /\ \A k \in 1..n : d[k] \in ToSet(x) /\ d[k].name = sorted[k]
             /\ ToSet(d) = ToSet(x)
             /\ Increasing(Names(d))
  <2>1. d = [k \in 1..n |-> named(sorted[k])] /\ sorted \in [1..n -> S]
    BY <1>2, <1>3, <1>4, <1>5
  <2>2. \A m \in S : named(m) \in ToSet(x) /\ named(m).name = m
    <3> TAKE m \in S
    <3>1. \E k \in 1..n : x[k].name = m
      BY <1>1 DEF S, EntryNames
    <3> QED
      BY <1>1, <3>1
  <2> HIDE DEF named
  <2>3. \A k \in 1..n : d[k] \in ToSet(x) /\ d[k].name = sorted[k] /\ d[k] \in Entries
    BY <1>1, <2>1, <2>2
  <2>4. d \in Seq(Entries) /\ Len(d) = n /\ DOMAIN d = 1..n
    BY <1>1, <2>1, <2>3
  <2>5. ToSet(d) = ToSet(x)
    <3>1. ASSUME NEW e \in ToSet(x) PROVE e \in ToSet(d)
      <4>1. e.name \in S
        BY DEF S, EntryNames
      <4>2. PICK k \in 1..n : sorted[k] = e.name
        BY <1>2, <1>4, <1>5, <4>1
      <4>3. d[k] = e
        BY <1>2, <1>5, <2>3, <4>2
      <4> QED
        BY <2>4, <4>3 DEF ToSet
    <3>2. ASSUME NEW e \in ToSet(d) PROVE e \in ToSet(x)
      BY <2>3, <2>4 DEF ToSet
    <3> QED
      BY <3>1, <3>2
  <2>6. Increasing(Names(d))
    <3>1. Len(Names(d)) = n /\ \A k \in 1..n : Names(d)[k] = sorted[k]
      BY <2>3, <2>4, ListingMeans
    <3>2. ASSUME NEW k \in 1..(n - 1) PROVE BytesLess(sorted[k], sorted[k + 1])
      <4>1. k \in 1..n /\ k + 1 \in 1..n /\ k < k + 1
        BY <1>1
      <4> QED
        BY <1>2, <1>4, <1>5, <4>1
    <3>3. \A k \in 1..(n - 1) : k \in 1..n /\ k + 1 \in 1..n
      BY <1>1
    <3> QED
      BY <3>1, <3>2, <3>3 DEF Increasing
  <2> QED
    BY <2>3, <2>4, <2>5, <2>6
<1> QED
  BY <1>2, <1>3, <1>5 DEF n, S, sorted

(* Two lists of the same entries give the same tree.                       *)
LEMMA NewTreeSame ==
    ASSUME NEW x \in Seq(Entries), NEW y \in Seq(Entries), Distinct(x), Distinct(y),
           ToSet(x) = ToSet(y)
    PROVE  NewTree(x) = NewTree(y)
<1> DEFINE d == NewTree(x)
           e == NewTree(y)
<1>1. Len(x) \in Nat /\ Len(x) = Len(y)
  BY DistinctMeans, ListingMeans
<1>2. EntryNames(x) = EntryNames(y)
  BY DEF EntryNames
<1>3. /\ d \in Seq(Entries) /\ Len(d) = Len(x)
      /\ \A k \in 1..Len(x) : /\ d[k] \in ToSet(x)
                              /\ d[k].name = SortedStrings(EntryNames(x))[k]
  BY NewTreeMeans
<1>4. /\ e \in Seq(Entries) /\ Len(e) = Len(y)
      /\ \A k \in 1..Len(y) : /\ e[k] \in ToSet(y)
                              /\ e[k].name = SortedStrings(EntryNames(y))[k]
  BY NewTreeMeans
<1> HIDE DEF d, e
<1>5. \A k \in 1..Len(x) : d[k] = e[k]
  <2>1. \A f, g \in ToSet(x) : f.name = g.name => f = g
    BY DistinctMeans
  <2> QED
    BY <1>1, <1>2, <1>3, <1>4, <2>1
<1>6. d = e
  BY <1>1, <1>3, <1>4, <1>5, SeqEqual
<1> QED
  BY <1>6 DEF d, e

(* A list in order is its own tree.                                        *)
LEMMA OrderedTree ==
    ASSUME NEW d \in Seq(Entries), Increasing(Names(d))
    PROVE  NewTree(d) = d /\ Distinct(d)
<1> DEFINE names == Names(d)
           t == NewTree(d)
<1>1. /\ Len(d) \in Nat /\ names \in Seq(Strings) /\ Len(names) = Len(d)
      /\ \A i \in 1..Len(d) : names[i] = d[i].name /\ d[i] \in ToSet(d)
      /\ ToSet(names) = EntryNames(d)
  BY ListingMeans
<1>2. /\ SortedStrings(ToSet(names)) = names
      /\ \A i, j \in 1..Len(names) : names[i] = names[j] => i = j
  BY <1>1, IncreasingIsSorted
<1>3. Distinct(d)
  BY <1>1, <1>2 DEF Distinct
<1> HIDE DEF names
<1>4. /\ t \in Seq(Entries) /\ Len(t) = Len(d)
      /\ \A k \in 1..Len(d) : t[k] \in ToSet(d) /\ t[k].name = names[k]
  <2>1. SortedStrings(EntryNames(d)) = names
    BY <1>1, <1>2
  <2> QED
    BY <1>3, <2>1, NewTreeMeans
<1> HIDE DEF t
<1>5. \A k \in 1..Len(d) : t[k] = d[k]
  <2>1. \A f, g \in ToSet(d) : f.name = g.name => f = g
    BY <1>3, DistinctMeans
  <2> QED
    BY <1>1, <1>4, <2>1
<1>6. t = d
  BY <1>4, <1>5, SeqEqual
<1> QED
  BY <1>3, <1>6 DEF t

(* The file of a tree.                                                     *)
LEMMA TreeFile ==
    ASSUME NEW d \in Seq(Entries)
    PROVE  /\ Encoded(EntryCode, d) \in Strings
           /\ EncodeTree(d) = <<TreeMagic>> \o (<<Len(d)>> \o Encoded(EntryCode, d))
           /\ EntryCode \in [Entries -> Strings]
<1>1. EntryCode \in [Entries -> Strings]
  <2>1. \A e \in Entries : EncodeEntry(e) \in Strings
    BY EntryMeans DEF Entries
  <2> QED
    BY <2>1 DEF EntryCode
<1>2. DOMAIN d = 1..Len(d) /\ Len(d) \in Nat /\ \A i \in 1..Len(d) : d[i] \in Entries
  BY ListingMeans
<1>3. Encoded(EntryCode, d) \in Strings
  BY <1>1, EncodedIsString
<1>4. FlattenSeq([k \in DOMAIN d |-> EncodeEntry(d[k])]) = Encoded(EntryCode, d)
  <2>1. \A k \in DOMAIN d : EntryCode[d[k]] = EncodeEntry(d[k])
    BY <1>2 DEF EntryCode
  <2>2. [k \in DOMAIN d |-> EncodeEntry(d[k])] = [k \in DOMAIN d |-> EntryCode[d[k]]]
    BY <2>1
  <2> QED
    BY <2>2 DEF Encoded
<1> DEFINE z == Encoded(EntryCode, d)
<1> HIDE DEF z
<1>5. EncodeTree(d) = <<TreeMagic, Len(d)>> \o z
  BY <1>4 DEF EncodeTree, z
<1>6. <<TreeMagic, Len(d)>> = <<TreeMagic>> \o <<Len(d)>>
  BY <1>2 DEF TreeMagic
<1>7. (<<TreeMagic>> \o <<Len(d)>>) \o z = <<TreeMagic>> \o (<<Len(d)>> \o z)
  <2>1. ASSUME NEW a \in Seq(Nat), NEW b \in Seq(Nat), NEW c \in Seq(Nat)
        PROVE  (a \o b) \o c = a \o (b \o c)
    BY ConcatAssociative, SMTT(60)
  <2>2. <<TreeMagic>> \in Seq(Nat) /\ <<Len(d)>> \in Seq(Nat)
    BY <1>2 DEF TreeMagic
  <2>3. z \in Seq(Nat)
    <3>1. z \in Seq(Lengths) /\ Lengths \subseteq Nat
      BY <1>3, LengthsAreNumbers DEF z, Strings
    <3>2. Len(z) \in Nat /\ z = [i \in 1..Len(z) |-> z[i]] /\ \A i \in 1..Len(z) : z[i] \in Nat
      BY <3>1, LenProperties, ElementOfSeq
    <3> QED
      BY <3>2
  <2> QED
    BY <2>1, <2>2, <2>3, Zenon
<1> QED
  BY <1>1, <1>3, <1>5, <1>6, <1>7 DEF z

(* Lists of entries and of attributes are not what cannot be decoded.      *)
LEMMA InvalidIsNoList == Invalid \notin Seq(Entries)
<1> DEFINE R == [kind: KindTags, name: Seq(Lengths), id: Lengths]
           v == Invalid
<1> SUFFICES ASSUME Invalid \in Seq(Entries) PROVE Invalid \in Seq(R)
  BY InvalidAssumption
<1>1. /\ Len(v) \in Nat /\ v = [i \in 1..Len(v) |-> v[i]]
      /\ \A i \in 1..Len(v) : v[i] \in Entries
  BY LenProperties, ElementOfSeq
<1>2. \A e \in Entries : e \in R
  BY DEF Entries, Strings
<1> HIDE DEF R, v
<1>3. v \in Seq(R)
  BY <1>1, <1>2
<1> QED
  BY <1>3 DEF v

LEMMA TreeMagicIsLength == TreeMagic \in Lengths /\ SnapshotMagic \in Lengths
  BY LengthsAreNumbers, LengthIsBelow DEF DeltaMagic, TreeMagic, SnapshotMagic

(* A file that can be decoded is the encoding of what it decodes to.       *)
LEMMA TreeDecoded ==
    ASSUME NEW bytes \in Strings, NEW d, d = DecodeTree(bytes), d # Invalid
    PROVE  /\ d \in Seq(Entries) /\ Increasing(Names(d))
           /\ bytes = EncodeTree(d)
<1>0. Len(bytes) \in Nat /\ \A i \in 1..Len(bytes) : bytes[i] \in Lengths /\ bytes[i] \in Nat
  BY StringMeans
<1> DEFINE n == bytes[2]
           r == ReadEntries(bytes, 3, n)
<1>1. ~(Len(bytes) < 2) /\ bytes[1] = TreeMagic /\ r # Invalid /\ Increasing(Names(r)) /\ d = r
  BY DEF DecodeTree
<1>2. 1 \in 1..Len(bytes) /\ 2 \in 1..Len(bytes) /\ 3 \in Places(bytes) /\ n \in Nat
  BY <1>0, <1>1 DEF Places
<1>3. r = ReadList(bytes, EntryReader(bytes), 3, n)
  BY DEF ReadEntries, EntryReader
<1> HIDE DEF r
<1>4. /\ r \in Seq(Entries) /\ Len(r) = n /\ From(bytes, 3) = Encoded(EntryCode, r)
  <2>1. EntryCode \in [Entries -> Strings]
    BY TreeFile, EmptySeq
  <2>2. ReadsOnly(bytes, EntryReader(bytes), Entries, EntryCode)
    BY EntriesRead
  <2> HIDE DEF n
  <2> QED
    BY <1>1, <1>2, <1>3, <2>1, <2>2, ListRead
<1>5. From(bytes, 1) = <<bytes[1]>> \o From(bytes, 2) /\ From(bytes, 2) = <<n>> \o From(bytes, 3)
  <2>1. From(bytes, 1) = <<bytes[1]>> \o From(bytes, 1 + 1)
    BY <1>2, FromFirst
  <2>2. From(bytes, 2) = <<bytes[2]>> \o From(bytes, 2 + 1)
    BY <1>2, FromFirst
  <2>3. 1 + 1 = 2 /\ 2 + 1 = 3
    OBVIOUS
  <2> QED
    BY <2>1, <2>2, <2>3
<1>6. From(bytes, 1) = bytes
  <2>1. 1 \in 1..(Len(bytes) + 1)
    BY <1>0
  <2> QED
    BY <2>1, FromMeans
<1>7. EncodeTree(r) = <<TreeMagic>> \o (<<Len(r)>> \o Encoded(EntryCode, r))
  BY <1>4, TreeFile
<1>8. bytes = EncodeTree(r)
  BY <1>1, <1>4, <1>5, <1>6, <1>7, Zenon
<1> QED
  BY <1>1, <1>4, <1>8

(* The encoding of a tree is decoded.                                      *)
LEMMA TreeReadsBack ==
    ASSUME NEW d \in Seq(Entries), Increasing(Names(d)), Len(d) \in Lengths
    PROVE  EncodeTree(d) \in Strings /\ EncodeTree(d) # <<>> /\ DecodeTree(EncodeTree(d)) = d
<1> DEFINE z == Encoded(EntryCode, d)
           bytes == EncodeTree(d)
<1>1. z \in Strings /\ bytes = <<TreeMagic>> \o (<<Len(d)>> \o z)
  BY TreeFile
<1>2. <<TreeMagic>> \in Strings /\ <<Len(d)>> \in Strings
  BY TreeMagicIsLength, JoinedStrings
<1> HIDE DEF z, bytes
<1>3. <<Len(d)>> \o z \in Strings
  BY <1>1, <1>2, JoinedStrings
<1>4. bytes \in Strings
  BY <1>1, <1>2, <1>3, JoinedStrings
<1>5. Len(bytes) \in Nat /\ 1 \in 1..(Len(bytes) + 1) /\ From(bytes, 1) = bytes
  <2>1. Len(bytes) \in Nat /\ 1 \in 1..(Len(bytes) + 1)
    BY <1>4, StringMeans
  <2> QED
    BY <1>4, <2>1, FromMeans
<1>6. Splits(bytes, 1, <<TreeMagic>>, <<Len(d)>> \o z)
  BY <1>1, <1>2, <1>3, <1>4, <1>5 DEF Splits
<1>7. 1 \in 1..Len(bytes) /\ bytes[1] = TreeMagic
      /\ 1 + 1 \in 1..(Len(bytes) + 1) /\ From(bytes, 1 + 1) = <<Len(d)>> \o z
  BY <1>6, FieldReadsBack, TreeMagicIsLength
<1>8. Splits(bytes, 2, <<Len(d)>>, z)
  <2>1. 1 + 1 = 2
    OBVIOUS
  <2> QED
    BY <1>1, <1>2, <1>4, <1>7, <2>1 DEF Splits
<1>9. 2 \in 1..Len(bytes) /\ bytes[2] = Len(d)
      /\ 2 + 1 \in 1..(Len(bytes) + 1) /\ From(bytes, 2 + 1) = z
  BY <1>8, FieldReadsBack
<1>10. 3 \in Places(bytes) /\ From(bytes, 3) = Encoded(EntryCode, d)
  <2>1. 2 + 1 = 3
    OBVIOUS
  <2> QED
    BY <1>9, <2>1 DEF Places, z
<1>11. ReadEntries(bytes, 3, Len(d)) = d
  <2>1. EntryCode \in [Entries -> Strings]
    BY TreeFile
  <2>2. ReadsOnly(bytes, EntryReader(bytes), Entries, EntryCode)
    BY <1>4, EntriesRead
  <2>3. ReadsAll(bytes, EntryReader(bytes), Entries, EntryCode)
    BY <1>4, EntriesReadBack
  <2>4. ReadList(bytes, EntryReader(bytes), 3, Len(d)) = d
    BY <1>4, <1>10, <2>1, <2>2, <2>3, InvalidIsNoList, ListReadsBack
  <2> QED
    BY <2>4 DEF ReadEntries, EntryReader
<1>12. d # Invalid
  BY InvalidIsNoList
<1>13. ~(Len(bytes) < 2)
  BY <1>5, <1>9
<1>14. DecodeTree(bytes) = d
  BY <1>7, <1>9, <1>11, <1>12, <1>13 DEF DecodeTree
<1>15. bytes # <<>>
  BY <1>5, <1>7, EmptySeq
<1> QED
  BY <1>4, <1>14, <1>15 DEF bytes

-----------------------------------------------------------------------------
(* Snapshots.                                                              *)

Attributes == {a \in [name: Strings, value: Strings] : IsText(a.name) /\ IsText(a.value)}
AttributeCode == [a \in Attributes |-> EncodeAttribute(a)]
AttributeReader(bytes) == [p \in 1..(Len(bytes) + 1) |-> ReadAttribute(bytes, p)]

LEMMA AttributeMeans ==
    ASSUME NEW a \in Attributes
    PROVE  /\ a = [name |-> a.name, value |-> a.value] /\ IsText(a.name) /\ IsText(a.value)
           /\ EncodeString(a.name) \in Strings /\ EncodeString(a.value) \in Strings
           /\ EncodeAttribute(a) \in Strings
           /\ Len(EncodeAttribute(a)) = Len(a.name) + 1 + (Len(a.value) + 1)
           /\ \A t \in Strings : EncodeAttribute(a) \o t = EncodeString(a.name) \o (EncodeString(a.value) \o t)
<1> DEFINE b == EncodeString(a.name)
           c == EncodeString(a.value)
<1>1. a = [name |-> a.name, value |-> a.value] /\ IsText(a.name) /\ IsText(a.value)
  BY DEF Attributes
<1>2. /\ b \in Strings /\ Len(b) = Len(a.name) + 1
      /\ c \in Strings /\ Len(c) = Len(a.value) + 1
  BY <1>1, EncodedString
<1>3. EncodeAttribute(a) = b \o c
  BY DEF EncodeAttribute
<1> HIDE DEF b, c
<1>4. b \o c \in Strings /\ Len(b \o c) = Len(b) + Len(c)
  BY <1>2, JoinedStrings
<1>5. \A t \in Strings : (b \o c) \o t = b \o (c \o t)
  BY <1>2, JoinedStrings, Zenon
<1>6. Len(EncodeAttribute(a)) = Len(a.name) + 1 + (Len(a.value) + 1)
  BY <1>2, <1>3, <1>4
<1>7. \A t \in Strings : EncodeAttribute(a) \o t = b \o (c \o t)
  BY <1>3, <1>5, Zenon
<1> QED
  BY <1>1, <1>2, <1>3, <1>4, <1>6, <1>7 DEF b, c

LEMMA AttributeCoded == AttributeCode \in [Attributes -> Strings]
<1>1. \A a \in Attributes : EncodeAttribute(a) \in Strings
  BY AttributeMeans
<1> QED
  BY <1>1 DEF AttributeCode

LEMMA AttributesRead ==
    ASSUME NEW bytes \in Strings
    PROVE  ReadsOnly(bytes, AttributeReader(bytes), Attributes, AttributeCode)
<1> DEFINE item == AttributeReader(bytes)
<1> SUFFICES ASSUME NEW p \in Places(bytes), item[p].next # 0
             PROVE  /\ item[p].value \in Attributes /\ item[p].next \in Places(bytes)
                    /\ From(bytes, p) = AttributeCode[item[p].value] \o From(bytes, item[p].next)
  BY DEF ReadsOnly
<1> DEFINE key == ReadString(bytes, p)
           val == ReadString(bytes, key.next)
           a == [name |-> key.value, value |-> val.value]
<1>0. Len(bytes) \in Nat /\ p \in Nat
  BY StringMeans DEF Places
<1>1. item[p] = ReadAttribute(bytes, p)
  BY DEF AttributeReader, Places
<1>2. val.next # 0 /\ item[p] = [value |-> a, next |-> val.next]
  <2>1. Failed.next = 0
    BY DEF Failed
  <2>2. ReadAttribute(bytes, p) = IF val.next = 0 THEN Failed ELSE [value |-> a, next |-> val.next]
    BY DEF ReadAttribute
  <2> HIDE DEF key, val
  <2> QED
    BY <1>1, <2>1, <2>2
<1>3. /\ key \in [value: Strings, next: Nat]
      /\ key.next # 0 => /\ IsText(key.value)
                         /\ From(bytes, p) = EncodeString(key.value) \o From(bytes, key.next)
  BY <1>0, StringRead
<1> HIDE DEF key
<1>4. key.next \in Nat
  BY <1>3
<1>5. /\ val \in [value: Strings, next: Nat]
      /\ val.next # 0 => /\ key.next \in 1..Len(bytes)
                         /\ val.next \in 1..(Len(bytes) + 1)
                         /\ IsText(val.value)
                         /\ From(bytes, key.next) = EncodeString(val.value) \o From(bytes, val.next)
  BY <1>4, StringRead
<1> HIDE DEF val
<1>6. key.next # 0
  BY <1>2, <1>5
<1>7. a \in Attributes /\ a.name = key.value /\ a.value = val.value
  BY <1>2, <1>3, <1>5, <1>6 DEF Attributes
<1>8. val.next \in Places(bytes) /\ From(bytes, val.next) \in Strings
  BY <1>2, <1>5, FromMeans DEF Places
<1> HIDE DEF a
<1>9. EncodeAttribute(a) \o From(bytes, val.next)
        = EncodeString(key.value) \o (EncodeString(val.value) \o From(bytes, val.next))
  BY <1>7, <1>8, AttributeMeans
<1>10. From(bytes, p) = EncodeAttribute(a) \o From(bytes, val.next)
  BY <1>2, <1>3, <1>5, <1>6, <1>9, Zenon
<1>11. AttributeCode[a] = EncodeAttribute(a)
  BY <1>7 DEF AttributeCode
<1>12. item[p].value = a /\ item[p].next = val.next
  BY <1>2
<1> HIDE DEF item
<1> QED
  BY <1>7, <1>8, <1>10, <1>11, <1>12, Zenon

LEMMA AttributesReadBack ==
    ASSUME NEW bytes \in Strings
    PROVE  ReadsAll(bytes, AttributeReader(bytes), Attributes, AttributeCode)
<1> DEFINE item == AttributeReader(bytes)
<1> SUFFICES ASSUME NEW p \in Places(bytes), NEW a \in Attributes, NEW t \in Strings,
                    Splits(bytes, p, AttributeCode[a], t)
             PROVE  item[p] = [value |-> a, next |-> p + Len(AttributeCode[a])]
  BY DEF ReadsAll
<1> DEFINE b == EncodeString(a.name)
           c == EncodeString(a.value)
           q == p + Len(a.name) + 1
           z == q + Len(a.value) + 1
<1>0. Len(bytes) \in Nat /\ p \in Nat /\ p >= 1
  BY StringMeans DEF Places
<1>1. /\ a = [name |-> a.name, value |-> a.value] /\ IsText(a.name) /\ IsText(a.value)
      /\ b \in Strings /\ c \in Strings
      /\ Len(EncodeAttribute(a)) = Len(a.name) + 1 + (Len(a.value) + 1)
      /\ EncodeAttribute(a) \o t = b \o (c \o t)
  BY AttributeMeans
<1>2. AttributeCode[a] = EncodeAttribute(a)
  BY DEF AttributeCode
<1>3. c \o t \in Strings
  BY <1>1, JoinedStrings
<1> HIDE DEF b, c
<1>4. Splits(bytes, p, b, c \o t)
  BY <1>1, <1>2, <1>3 DEF Splits
<1>5. /\ ReadString(bytes, p) = [value |-> a.name, next |-> q]
      /\ q \in 1..(Len(bytes) + 1) /\ From(bytes, q) = c \o t
  BY <1>1, <1>4, StringReadsBack DEF b
<1> HIDE DEF q
<1>6. Splits(bytes, q, c, t)
  BY <1>1, <1>5 DEF Splits
<1>7. /\ ReadString(bytes, q) = [value |-> a.value, next |-> z] /\ z \in 1..(Len(bytes) + 1)
  BY <1>1, <1>6, StringReadsBack DEF c
<1>8. z = p + (Len(a.name) + 1 + (Len(a.value) + 1))
  <2>1. \A i, j, k \in Nat : (i + j + 1) + k + 1 = i + (j + 1 + (k + 1))
    OBVIOUS
  <2>2. Len(a.name) \in Nat /\ Len(a.value) \in Nat
    BY <1>1, EncodedString
  <2> QED
    BY <1>0, <2>1, <2>2 DEF q
<1> HIDE DEF z
<1>9. ReadAttribute(bytes, p) = [value |-> a, next |-> z]
  <2> DEFINE r == ReadString(bytes, p)
             u == ReadString(bytes, q)
  <2>1. r.value = a.name /\ r.next = q /\ u.value = a.value /\ u.next = z /\ z # 0
    BY <1>5, <1>7
  <2>2. ReadAttribute(bytes, p)
          = IF u.next = 0 THEN Failed
            ELSE [value |-> [name |-> r.value, value |-> u.value], next |-> u.next]
    BY <2>1 DEF ReadAttribute
  <2> HIDE DEF r, u
  <2> QED
    BY <1>1, <2>1, <2>2
<1>10. item[p] = ReadAttribute(bytes, p)
  BY DEF AttributeReader, Places
<1> QED
  BY <1>1, <1>2, <1>8, <1>9, <1>10

(* The attributes of a snapshot as a list of pairs.                        *)
PairsOf(s) ==
    LET keys == SortedStrings(DOMAIN s.attributes)
    IN [k \in DOMAIN keys |-> [name |-> keys[k], value |-> s.attributes[keys[k]]]]

Gathered(pairs) ==
    [k \in ToSet(Names(pairs)) |-> pairs[CHOOSE i \in DOMAIN pairs : pairs[i].name = k].value]

LEMMA PairsMean ==
    ASSUME NEW pairs \in Seq(Attributes)
    PROVE  /\ Len(pairs) \in Nat /\ DOMAIN pairs = 1..Len(pairs)
           /\ \A i \in 1..Len(pairs) : pairs[i] \in Attributes /\ Names(pairs)[i] = pairs[i].name
           /\ Names(pairs) \in Seq(Strings) /\ Len(Names(pairs)) = Len(pairs)
           /\ DOMAIN Names(pairs) = 1..Len(pairs)
<1>1. /\ Len(pairs) \in Nat /\ DOMAIN pairs = 1..Len(pairs)
      /\ \A i \in 1..Len(pairs) : pairs[i] \in Attributes
  BY LenProperties, ElementOfSeq
<1>2. \A a \in Attributes : a.name \in Strings
  BY DEF Attributes
<1>3. Names(pairs) = [k \in 1..Len(pairs) |-> pairs[k].name]
  BY <1>1 DEF Names
<1>4. \A k \in 1..Len(pairs) : pairs[k].name \in Strings
  BY <1>1, <1>2
<1>5. Names(pairs) \in Seq(Strings) /\ Len(Names(pairs)) = Len(pairs) /\ DOMAIN Names(pairs) = 1..Len(pairs)
  BY <1>1, <1>3, <1>4
<1> QED
  BY <1>1, <1>3, <1>5

(* Pairs in the order of their keys are the attributes they give.          *)
LEMMA PairsGathered ==
    ASSUME NEW pairs \in Seq(Attributes), Increasing(Names(pairs)), NEW f, f = Gathered(pairs)
    PROVE  /\ f = [k \in DOMAIN f |-> f[k]]
           /\ DOMAIN f = ToSet(Names(pairs))
           /\ IsFiniteSet(DOMAIN f) /\ Cardinality(DOMAIN f) = Len(pairs)
           /\ SortedStrings(DOMAIN f) = Names(pairs)
           /\ \A i \in 1..Len(pairs) : f[pairs[i].name] = pairs[i].value
           /\ \A k \in DOMAIN f : \E i \in 1..Len(pairs) : k = pairs[i].name
<1> DEFINE names == Names(pairs)
           n == Len(pairs)
<1>1. /\ n \in Nat /\ DOMAIN pairs = 1..n /\ \A i \in 1..n : names[i] = pairs[i].name
      /\ names \in Seq(Strings) /\ Len(names) = n /\ DOMAIN names = 1..n
  BY PairsMean
<1>2. /\ IsFiniteSet(ToSet(names)) /\ Cardinality(ToSet(names)) = n
      /\ SortedStrings(ToSet(names)) = names
      /\ \A i, j \in 1..n : names[i] = names[j] => i = j
  BY <1>1, IncreasingIsSorted
<1>3. f = [k \in ToSet(names) |-> pairs[CHOOSE i \in DOMAIN pairs : pairs[i].name = k].value]
  BY DEF Gathered
<1> HIDE DEF names, n
<1>4. DOMAIN f = ToSet(names) /\ f = [k \in DOMAIN f |-> f[k]]
  BY <1>3
<1>5. ASSUME NEW i \in 1..n PROVE f[pairs[i].name] = pairs[i].value
  <2>1. names[i] \in ToSet(names) /\ names[i] = pairs[i].name
    BY <1>1 DEF ToSet
  <2>2. (CHOOSE j \in DOMAIN pairs : pairs[j].name = pairs[i].name) = i
    <3>1. \A j \in DOMAIN pairs : pairs[j].name = pairs[i].name => j = i
      BY <1>1, <1>2
    <3>2. i \in DOMAIN pairs
      BY <1>1
    <3> QED
      BY <3>1, <3>2
  <2> QED
    BY <1>3, <2>1, <2>2
<1>6. ASSUME NEW k \in DOMAIN f PROVE \E i \in 1..n : k = pairs[i].name
  BY <1>1, <1>4 DEF ToSet
<1> QED
  BY <1>2, <1>4, <1>5, <1>6 DEF names, n

LEMMA PairsOfSnapshot ==
    ASSUME NEW s, IsSnapshot(s)
    PROVE  /\ PairsOf(s) \in Seq(Attributes) /\ Increasing(Names(PairsOf(s)))
           /\ Len(PairsOf(s)) \in Lengths
           /\ Len(SortedStrings(DOMAIN s.attributes)) = Len(PairsOf(s))
           /\ Gathered(PairsOf(s)) = s.attributes
<1> DEFINE S == DOMAIN s.attributes
           f == s.attributes
           n == Cardinality(S)
           keys == SortedStrings(S)
           pairs == PairsOf(s)
<1>1. /\ f = [k \in S |-> f[k]] /\ IsFiniteSet(S) /\ n \in Lengths
      /\ \A k \in S : IsText(k) /\ IsText(f[k])
  BY DEF IsSnapshot
<1>2. /\ S \in SUBSET Strings /\ \A k \in S : f[k] \in Strings
  BY <1>1, EncodedString
<1>3. pairs = [k \in DOMAIN keys |-> [name |-> keys[k], value |-> f[keys[k]]]]
  BY DEF PairsOf
<1>4. /\ n \in Nat /\ keys \in [1..n -> S]
      /\ \A e \in S : \E k \in 1..n : keys[k] = e
      /\ \A i, j \in 1..n : i < j => BytesLess(keys[i], keys[j])
  BY <1>1, <1>2, SortedMeans
<1> HIDE DEF keys, pairs, f, n, S
<1>5. keys \in Seq(S) /\ Len(keys) = n /\ DOMAIN keys = 1..n
  BY <1>4
<1>6. \A k \in 1..n : /\ pairs[k] = [name |-> keys[k], value |-> f[keys[k]]]
                      /\ pairs[k] \in Attributes
                      /\ pairs[k].name = keys[k] /\ pairs[k].value = f[keys[k]]
  <2> TAKE k \in 1..n
  <2>1. keys[k] \in S
    BY <1>4
  <2>2. pairs[k] = [name |-> keys[k], value |-> f[keys[k]]]
    BY <1>3, <1>5
  <2> QED
    BY <1>1, <1>2, <2>1, <2>2 DEF Attributes
<1>7. pairs \in Seq(Attributes) /\ Len(pairs) = n
  BY <1>3, <1>4, <1>5, <1>6
<1>8. Len(Names(pairs)) = n /\ \A i \in 1..n : Names(pairs)[i] = keys[i]
      /\ DOMAIN Names(pairs) = 1..n
  BY <1>6, <1>7, PairsMean
<1>9. Increasing(Names(pairs))
  <2>1. ASSUME NEW k \in 1..(n - 1) PROVE BytesLess(Names(pairs)[k], Names(pairs)[k + 1])
    <3>1. k \in 1..n /\ k + 1 \in 1..n /\ k < k + 1
      BY <1>4
    <3> QED
      BY <1>4, <1>8, <3>1
  <2> QED
    BY <1>8, <2>1 DEF Increasing
<1>10. Gathered(pairs) = f
  <2> DEFINE g == Gathered(pairs)
  <2>1. /\ g = [k \in DOMAIN g |-> g[k]] /\ DOMAIN g = ToSet(Names(pairs))
        /\ \A i \in 1..n : g[pairs[i].name] = pairs[i].value
    BY <1>7, <1>9, PairsGathered
  <2> HIDE DEF g
  <2>2. ToSet(Names(pairs)) = S
    <3>1. ToSet(Names(pairs)) \subseteq S
      BY <1>4, <1>8 DEF ToSet
    <3>2. S \subseteq ToSet(Names(pairs))
      BY <1>4, <1>8 DEF ToSet
    <3> QED
      BY <3>1, <3>2
  <2>3. ASSUME NEW k \in S PROVE g[k] = f[k]
    <3>1. PICK i \in 1..n : keys[i] = k
      BY <1>4
    <3>2. pairs[i].name = k /\ pairs[i].value = f[k]
      BY <1>6, <3>1
    <3> QED
      BY <2>1, <3>2
  <2> QED
    BY <1>1, <2>1, <2>2, <2>3 DEF g
<1> QED
  BY <1>1, <1>5, <1>7, <1>9, <1>10 DEF keys, pairs, f, n, S

(* The file of a snapshot, field by field.                                 *)
SnapshotFields(s, z) ==
    <<SnapshotMagic>> \o (<<s.root>> \o (<<Len(s.parents)>> \o (s.parents \o (<<s.time>>
    \o (EncodeOptional(s.author) \o (EncodeOptional(s.message) \o (EncodeString(s.source)
    \o (<<Len(PairsOf(s))>> \o z))))))))

(* The fields may be joined in any grouping.                               *)
Joins(x, y, z) == (x \o y) \o z = x \o (y \o z)

LEMMA StringsJoin ==
    ASSUME NEW x \in Strings, NEW y \in Strings, NEW z \in Strings
    PROVE  Joins(x, y, z) /\ x \o y \in Strings
<1>1. (x \o y) \o z = x \o (y \o z)
  <2>1. x \in Seq(Lengths) /\ y \in Seq(Lengths) /\ z \in Seq(Lengths)
    BY DEF Strings
  <2> QED
    BY <2>1, ConcatAssociative
<1>2. x \o y \in Strings
  BY JoinedStrings
<1> QED
  BY <1>1, <1>2 DEF Joins

Regroups(a, b, c, d, e, f, g, h) ==
    ((((((a \o b) \o c) \o d) \o e) \o f) \o g) \o h
      = a \o (b \o (c \o (d \o (e \o (f \o (g \o h))))))

LEMMA Regroup ==
    ASSUME NEW a \in Strings, NEW b \in Strings, NEW c \in Strings, NEW d \in Strings,
           NEW e \in Strings, NEW f \in Strings, NEW g \in Strings, NEW h \in Strings
    PROVE  Regroups(a, b, c, d, e, f, g, h)
<1>0. \A x, y \in Strings : x \o y \in Strings
  BY JoinedStrings
<1> DEFINE p2 == a \o b
           p3 == p2 \o c
           p4 == p3 \o d
           p5 == p4 \o e
           p6 == p5 \o f
           r7 == g \o h
           r6 == f \o r7
           r5 == e \o r6
           r4 == d \o r5
           r3 == c \o r4
<1> HIDE DEF p2, p3, p4, p5, p6, r7, r6, r5, r4, r3
<1>2. p2 \in Strings
  BY <1>0 DEF p2
<1>3. p3 \in Strings
  BY <1>0, <1>2 DEF p3
<1>4. p4 \in Strings
  BY <1>0, <1>3 DEF p4
<1>5. p5 \in Strings
  BY <1>0, <1>4 DEF p5
<1>6. p6 \in Strings
  BY <1>0, <1>5 DEF p6
<1>7. r7 \in Strings
  BY <1>0 DEF r7
<1>8. r6 \in Strings
  BY <1>0, <1>7 DEF r6
<1>9. r5 \in Strings
  BY <1>0, <1>8 DEF r5
<1>10. r4 \in Strings
  BY <1>0, <1>9 DEF r4
<1>11. r3 \in Strings
  BY <1>0, <1>10 DEF r3
<1>12. Joins(p6, g, h)
  BY <1>6, StringsJoin
<1>13. Joins(p5, f, r7)
  BY <1>5, <1>7, StringsJoin
<1>14. Joins(p4, e, r6)
  BY <1>4, <1>8, StringsJoin
<1>15. Joins(p3, d, r5)
  BY <1>3, <1>9, StringsJoin
<1>16. Joins(p2, c, r4)
  BY <1>10, <1>2, StringsJoin
<1>17. Joins(a, b, r3)
  BY <1>11, StringsJoin
<1> QED
  BY <1>12, <1>13, <1>14, <1>15, <1>16, <1>17, Zenon DEF Joins, Regroups, p2, p3, p4, p5, p6, r7, r6, r5, r4, r3

LEMMA SnapshotParts ==
    ASSUME NEW s, IsSnapshot(s)
    PROVE  /\ s.root \in Lengths /\ Len(s.parents) \in Lengths /\ s.time \in Lengths
           /\ Len(PairsOf(s)) \in Lengths
           /\ <<SnapshotMagic>> \in Strings /\ <<s.root>> \in Strings
           /\ <<Len(s.parents)>> \in Strings /\ <<s.time>> \in Strings
           /\ <<Len(PairsOf(s))>> \in Strings /\ s.parents \in Strings
           /\ IsOptionalText(s.author) /\ IsOptionalText(s.message) /\ IsText(s.source)
           /\ EncodeOptional(s.author) \in Strings /\ EncodeOptional(s.message) \in Strings
           /\ EncodeString(s.source) \in Strings
           /\ Encoded(AttributeCode, PairsOf(s)) \in Strings
<1>1. /\ s.root \in Lengths /\ Len(s.parents) \in Lengths /\ s.time \in Lengths
      /\ s.parents \in Strings
      /\ IsOptionalText(s.author) /\ IsOptionalText(s.message) /\ IsText(s.source)
  BY DEF IsSnapshot, Strings
<1>2. Len(PairsOf(s)) \in Lengths /\ PairsOf(s) \in Seq(Attributes)
  BY PairsOfSnapshot
<1>3. /\ EncodeOptional(s.author) \in Strings /\ EncodeOptional(s.message) \in Strings
      /\ EncodeString(s.source) \in Strings
  BY <1>1, EncodedOptional, EncodedString
<1>4. \A n \in Lengths : <<n>> \in Strings
  BY JoinedStrings
<1>5. Encoded(AttributeCode, PairsOf(s)) \in Strings
  BY <1>2, AttributeCoded, EncodedIsString
<1> QED
  BY <1>1, <1>2, <1>3, <1>4, <1>5, TreeMagicIsLength

LEMMA SnapshotFile ==
    ASSUME NEW s, IsSnapshot(s)
    PROVE  EncodeSnapshot(s) = SnapshotFields(s, Encoded(AttributeCode, PairsOf(s)))
<1> DEFINE z == Encoded(AttributeCode, PairsOf(s))
           keys == SortedStrings(DOMAIN s.attributes)
           head == <<SnapshotMagic, s.root, Len(s.parents)>>
           a == <<SnapshotMagic>>
           b == <<s.root>>
           c == <<Len(s.parents)>>
           d == s.parents
           e == <<s.time>>
           f == EncodeOptional(s.author)
           g == EncodeOptional(s.message)
           h == EncodeString(s.source)
           i == <<Len(PairsOf(s))>>
<1>1. /\ PairsOf(s) \in Seq(Attributes) /\ Len(keys) = Len(PairsOf(s))
  BY PairsOfSnapshot
<1>2. FlattenSeq([k \in DOMAIN keys |-> EncodeAttribute([name |-> keys[k], value |-> s.attributes[keys[k]]])]) = z
  <2> DEFINE pairs == PairsOf(s)
  <2>1. pairs = [k \in DOMAIN keys |-> [name |-> keys[k], value |-> s.attributes[keys[k]]]]
    BY DEF PairsOf
  <2>2. DOMAIN pairs = DOMAIN keys /\ DOMAIN pairs = 1..Len(pairs) /\ \A k \in 1..Len(pairs) : pairs[k] \in Attributes
    BY <1>1, <2>1, PairsMean
  <2> HIDE DEF pairs, keys
  <2>3. \A k \in DOMAIN keys : AttributeCode[pairs[k]] = EncodeAttribute([name |-> keys[k], value |-> s.attributes[keys[k]]])
    BY <2>1, <2>2 DEF AttributeCode
  <2>4. [k \in DOMAIN keys |-> EncodeAttribute([name |-> keys[k], value |-> s.attributes[keys[k]]])]
          = [k \in DOMAIN pairs |-> AttributeCode[pairs[k]]]
    BY <2>2, <2>3
  <2>5. z = FlattenSeq([k \in DOMAIN pairs |-> AttributeCode[pairs[k]]])
    BY DEF Encoded, pairs
  <2> HIDE DEF z
  <2> QED
    BY <2>4, <2>5
<1>3. EncodeSnapshot(s) = ((((((head \o d) \o e) \o f) \o g) \o h) \o i) \o z
  <2> DEFINE y == FlattenSeq([k \in DOMAIN keys |-> EncodeAttribute([name |-> keys[k], value |-> s.attributes[keys[k]]])])
  <2>1. EncodeSnapshot(s) = ((((((head \o d) \o e) \o f) \o g) \o h) \o <<Len(keys)>>) \o y
    BY DEF EncodeSnapshot
  <2>2. y = z
    BY <1>2
  <2>3. <<Len(keys)>> = i
    BY <1>1
  <2> HIDE DEF head, d, e, f, g, h, i, y, z, keys
  <2> QED
    BY <2>1, <2>2, <2>3, Zenon
<1>4. /\ a \in Strings /\ b \in Strings /\ c \in Strings /\ d \in Strings /\ e \in Strings
      /\ f \in Strings /\ g \in Strings /\ h \in Strings /\ i \in Strings /\ z \in Strings
  BY SnapshotParts
<1>5. head = (a \o b) \o c
  BY SnapshotParts, TreeMagicIsLength
<1>6. SnapshotFields(s, z) = a \o (b \o (c \o (d \o (e \o (f \o (g \o (h \o (i \o z))))))))
  BY DEF SnapshotFields
<1> HIDE DEF a, b, c, d, e, f, g, h, i, z, head
<1>7. head \in Strings
  <2>1. \A x, y \in Strings : x \o y \in Strings
    BY JoinedStrings
  <2>2. a \o b \in Strings
    BY <1>4, <2>1
  <2> QED
    BY <1>4, <1>5, <2>1, <2>2
<1>8. ((((((head \o d) \o e) \o f) \o g) \o h) \o i) \o z = head \o (d \o (e \o (f \o (g \o (h \o (i \o z))))))
  <2>1. Regroups(head, d, e, f, g, h, i, z)
    BY <1>4, <1>7, Regroup
  <2> QED
    BY <2>1 DEF Regroups
<1> DEFINE r == d \o (e \o (f \o (g \o (h \o (i \o z)))))
<1>9. r \in Strings
  <2>0. \A x, y \in Strings : x \o y \in Strings
    BY JoinedStrings
  <2> QED
    BY <1>4, <2>0, Zenon
<1> HIDE DEF r
<1>10. ((a \o b) \o c) \o r = a \o (b \o (c \o r))
  <2> DEFINE p == a \o b
             q == c \o r
  <2>1. p \in Strings /\ q \in Strings
    BY <1>4, <1>9, JoinedStrings
  <2> HIDE DEF p, q
  <2>2. Joins(p, c, r) /\ Joins(a, b, q)
    BY <1>4, <1>9, <2>1, StringsJoin
  <2> QED
    BY <2>2, Zenon DEF p, q, Joins
<1>11. EncodeSnapshot(s) = SnapshotFields(s, z)
  BY <1>3, <1>5, <1>6, <1>8, <1>10, Zenon DEF r
<1> QED
  BY <1>11 DEF z

(* An optional field that was written is read.                            *)
LEMMA OptionalReadsBack ==
    ASSUME NEW bytes, NEW at, NEW o, NEW t, IsOptionalText(o), Splits(bytes, at, EncodeOptional(o), t)
    PROVE  \E q \in 1..(Len(bytes) + 1) :
              ReadOptional(bytes, at) = [value |-> o, next |-> q] /\ From(bytes, q) = t
<1>0. /\ bytes \in Strings /\ at \in 1..(Len(bytes) + 1) /\ t \in Strings
      /\ From(bytes, at) = EncodeOptional(o) \o t
      /\ Len(bytes) \in Nat
  BY StringMeans DEF Splits
<1>1. /\ 0 \in Lengths /\ 1 \in Lengths
      /\ <<0>> \in Strings /\ <<1>> \in Strings
  BY TagsAreLengths, JoinedStrings
<1>2. CASE o = <<>>
  <2>1. EncodeOptional(o) = <<0>>
    BY <1>2 DEF EncodeOptional
  <2>2. Splits(bytes, at, <<0>>, t)
    BY <2>1
  <2>3. at \in 1..Len(bytes) /\ bytes[at] = 0 /\ at + 1 \in 1..(Len(bytes) + 1) /\ From(bytes, at + 1) = t
    BY <1>1, <2>2, FieldReadsBack
  <2>4. ~(at = 0 \/ at > Len(bytes) \/ bytes[at] \notin {0, 1})
    BY <1>0, <2>3
  <2>5. ReadOptional(bytes, at) = [value |-> <<>>, next |-> at + 1]
    BY <2>3, <2>4 DEF ReadOptional
  <2> QED
    BY <1>2, <2>3, <2>5
<1>3. CASE o # <<>>
  <2> DEFINE x == o[1]
             s == EncodeString(x)
  <2>0. o = <<x>> /\ IsText(x)
    BY <1>3 DEF IsOptionalText
  <2>1. EncodeOptional(o) = <<1>> \o s
    BY <1>3 DEF EncodeOptional
  <2>2. s \in Strings
    BY <2>0, EncodedString
  <2> HIDE DEF x, s
  <2>3. Splits(bytes, at, <<1>>, s \o t)
    <3>1. Joins(<<1>>, s, t) /\ s \o t \in Strings
      BY <1>0, <1>1, <2>2, StringsJoin
    <3>2. (<<1>> \o s) \o t = <<1>> \o (s \o t)
      BY <3>1 DEF Joins
    <3>3. From(bytes, at) = <<1>> \o (s \o t)
      BY <1>0, <2>1, <3>2
    <3> QED
      BY <1>0, <1>1, <3>1, <3>3 DEF Splits
  <2>4. at \in 1..Len(bytes) /\ bytes[at] = 1 /\ at + 1 \in 1..(Len(bytes) + 1) /\ From(bytes, at + 1) = s \o t
    BY <1>1, <2>3, FieldReadsBack
  <2>5. Splits(bytes, at + 1, s, t)
    BY <1>0, <2>2, <2>4 DEF Splits
  <2> DEFINE q == (at + 1) + Len(x) + 1
  <2>6. /\ ReadString(bytes, at + 1) = [value |-> x, next |-> q]
        /\ q \in 1..(Len(bytes) + 1) /\ From(bytes, q) = t
    BY <2>0, <2>5, StringReadsBack DEF s
  <2> HIDE DEF q
  <2>7. ~(at = 0 \/ at > Len(bytes) \/ bytes[at] \notin {0, 1}) /\ bytes[at] # 0 /\ q # 0
    BY <1>0, <2>4, <2>6
  <2>8. ReadOptional(bytes, at) = [value |-> <<x>>, next |-> q]
    <3> DEFINE r == ReadString(bytes, at + 1)
    <3>1. r.value = x /\ r.next = q
      BY <2>6
    <3>2. ReadOptional(bytes, at) = IF r.next = 0 THEN Failed ELSE [value |-> <<r.value>>, next |-> r.next]
      BY <2>7 DEF ReadOptional
    <3> HIDE DEF r
    <3> QED
      BY <2>7, <3>1, <3>2
  <2> QED
    BY <2>0, <2>6, <2>8
<1> QED
  BY <1>2, <1>3

(* A file that can be decoded is the encoding of what it decodes to: field *)
(* after field, the rest of the file is the field and the rest after it.   *)
LEMMA SnapshotDecoded ==
    ASSUME NEW bytes \in Strings, NEW d, d = DecodeSnapshot(bytes), d # Invalid
    PROVE  IsSnapshot(d) /\ bytes = EncodeSnapshot(d)
<1> DEFINE n == bytes[3]
           time == 4 + n
           author == ReadOptional(bytes, time + 1)
           message == ReadOptional(bytes, author.next)
           source == ReadString(bytes, message.next)
           count == bytes[source.next]
           pairs == IF source.next = 0 \/ source.next > Len(bytes) THEN Invalid
                    ELSE ReadAttributes(bytes, source.next + 1, count)
<1>0. Len(bytes) \in Nat /\ \A i \in 1..Len(bytes) : bytes[i] \in Lengths /\ bytes[i] \in Nat
  BY StringMeans
<1>1. /\ ~(Len(bytes) < 3) /\ bytes[1] = SnapshotMagic /\ ~(time > Len(bytes))
      /\ pairs # Invalid /\ Increasing(Names(pairs))
      /\ d = [root |-> bytes[2], parents |-> SubSeq(bytes, 4, time - 1),
              time |-> bytes[time], author |-> author.value,
              message |-> message.value, source |-> source.value,
              attributes |-> Gathered(pairs)]
  BY DEF DecodeSnapshot, Gathered
<1>2. ~(source.next = 0 \/ source.next > Len(bytes)) /\ pairs = ReadAttributes(bytes, source.next + 1, count)
  <2> HIDE DEF source
  <2> QED
    BY <1>1
<1> HIDE DEF pairs, source, message, author, time
<1>a. ~(Len(bytes) < 3) /\ ~(time > Len(bytes)) /\ time = 4 + n
  BY <1>1 DEF time
<1>b. 1 \in 1..Len(bytes) /\ 2 \in 1..Len(bytes) /\ 3 \in 1..Len(bytes)
  BY <1>0, <1>a
<1>c. n \in Lengths /\ n \in Nat
  BY <1>0, <1>b
<1> HIDE DEF n
<1>3. /\ 1 \in 1..Len(bytes) /\ 2 \in 1..Len(bytes) /\ 3 \in 1..Len(bytes)
      /\ n \in Lengths /\ n \in Nat /\ time \in 1..Len(bytes) /\ time + 1 \in Nat
      /\ bytes[2] \in Lengths /\ bytes[time] \in Lengths
  <2>1. time \in 1..Len(bytes) /\ time + 1 \in Nat
    BY <1>0, <1>a, <1>c
  <2> QED
    BY <1>0, <1>b, <1>c, <2>1
<1>4. /\ author.next \in Nat
      /\ author.next # 0 => /\ IsOptionalText(author.value)
                            /\ From(bytes, time + 1) = EncodeOptional(author.value) \o From(bytes, author.next)
  <2>1. author = ReadOptional(bytes, time + 1)
    BY DEF author
  <2> QED
    BY <1>3, <2>1, OptionalRead
<1>5. /\ message.next \in Nat
      /\ message.next # 0 => /\ author.next \in 1..Len(bytes) /\ IsOptionalText(message.value)
                             /\ From(bytes, author.next) = EncodeOptional(message.value) \o From(bytes, message.next)
  <2>1. message = ReadOptional(bytes, author.next)
    BY DEF message
  <2> QED
    BY <1>4, <2>1, OptionalRead
<1>6. /\ source.next \in Nat
      /\ source.next # 0 => /\ message.next \in 1..Len(bytes)
                            /\ source.next \in 1..(Len(bytes) + 1) /\ IsText(source.value)
                            /\ From(bytes, message.next) = EncodeString(source.value) \o From(bytes, source.next)
  <2>1. source = ReadString(bytes, message.next)
    BY DEF source
  <2>2. /\ source \in [value: Strings, next: Nat]
        /\ source.next # 0 => /\ message.next \in 1..Len(bytes)
                              /\ source.next \in 1..(Len(bytes) + 1) /\ IsText(source.value)
                              /\ From(bytes, message.next) = EncodeString(source.value) \o From(bytes, source.next)
    BY <1>5, <2>1, StringRead
  <2>3. source.next \in Nat
    BY <2>2
  <2> QED
    BY <2>2, <2>3, Zenon
<1>7. /\ source.next \in 1..Len(bytes) /\ message.next # 0 /\ author.next # 0
      /\ source.next + 1 \in Places(bytes) /\ count \in Lengths /\ count \in Nat
      /\ message.next \in 1..Len(bytes) /\ author.next \in 1..Len(bytes)
  BY <1>0, <1>2, <1>5, <1>6 DEF Places
<1> HIDE DEF count
<1>8. /\ pairs \in Seq(Attributes) /\ Len(pairs) = count
      /\ From(bytes, source.next + 1) = Encoded(AttributeCode, pairs)
  <2>1. pairs = ReadList(bytes, AttributeReader(bytes), source.next + 1, count)
    BY <1>2 DEF ReadAttributes, AttributeReader
  <2> QED
    BY <1>1, <1>7, <2>1, AttributeCoded, AttributesRead, ListRead
<1>9. /\ d.root = bytes[2] /\ d.parents = SubSeq(bytes, 4, time - 1) /\ d.time = bytes[time]
      /\ d.author = author.value /\ d.message = message.value /\ d.source = source.value
      /\ d.attributes = Gathered(pairs)
      /\ d = [root |-> d.root, parents |-> d.parents, time |-> d.time, author |-> d.author,
              message |-> d.message, source |-> d.source, attributes |-> d.attributes]
  <2> DEFINE vroot == bytes[2]
             vparents == SubSeq(bytes, 4, time - 1)
             vtime == bytes[time]
             vauthor == author.value
             vmessage == message.value
             vsource == source.value
             vattributes == Gathered(pairs)
  <2>1. d = [root |-> vroot, parents |-> vparents, time |-> vtime, author |-> vauthor,
             message |-> vmessage, source |-> vsource, attributes |-> vattributes]
    BY <1>1
  <2> HIDE DEF vroot, vparents, vtime, vauthor, vmessage, vsource, vattributes
  <2>2. /\ d.root = vroot /\ d.parents = vparents /\ d.time = vtime
        /\ d.author = vauthor /\ d.message = vmessage /\ d.source = vsource
        /\ d.attributes = vattributes
    BY <2>1
  <2> QED
    BY <2>1, <2>2 DEF vroot, vparents, vtime, vauthor, vmessage, vsource, vattributes
<1>10. /\ d.parents \in Strings /\ Len(d.parents) = n
       /\ From(bytes, 4) = d.parents \o From(bytes, time)
  <2>1. 4 \in 1..(Len(bytes) + 1) /\ 4 + n <= Len(bytes) + 1 /\ 4 + n - 1 = time - 1
    BY <1>0, <1>1, <1>3 DEF time
  <2>2. /\ SubSeq(bytes, 4, 4 + n - 1) \in Strings /\ Len(SubSeq(bytes, 4, 4 + n - 1)) = n
        /\ From(bytes, 4) = SubSeq(bytes, 4, 4 + n - 1) \o From(bytes, 4 + n)
    BY <1>3, <2>1, FromSplit
  <2> QED
    BY <1>9, <2>1, <2>2 DEF time
<1>11. /\ DOMAIN d.attributes = ToSet(Names(pairs)) /\ IsFiniteSet(DOMAIN d.attributes)
       /\ Cardinality(DOMAIN d.attributes) = Len(pairs)
       /\ d.attributes = [k \in DOMAIN d.attributes |-> d.attributes[k]]
       /\ SortedStrings(DOMAIN d.attributes) = Names(pairs)
       /\ \A i \in 1..Len(pairs) : d.attributes[pairs[i].name] = pairs[i].value
       /\ \A k \in DOMAIN d.attributes : \E i \in 1..Len(pairs) : k = pairs[i].name
  BY <1>1, <1>8, <1>9, PairsGathered
<1>12. \A k \in DOMAIN d.attributes : IsText(k) /\ IsText(d.attributes[k])
  <2> TAKE k \in DOMAIN d.attributes
  <2>1. PICK i \in 1..Len(pairs) : k = pairs[i].name
    BY <1>11
  <2>2. pairs[i] \in Attributes
    BY <1>8, PairsMean
  <2> QED
    BY <1>11, <2>1, <2>2 DEF Attributes
<1>13. IsSnapshot(d)
  <2>1. d.root \in Lengths /\ d.time \in Lengths /\ d.parents \in Seq(Lengths) /\ Len(d.parents) \in Lengths
    BY <1>3, <1>9, <1>10 DEF Strings
  <2>2. IsOptionalText(d.author) /\ IsOptionalText(d.message) /\ IsText(d.source)
    BY <1>4, <1>5, <1>6, <1>7, <1>9
  <2>3. Cardinality(DOMAIN d.attributes) \in Lengths
    BY <1>7, <1>8, <1>11
  <2> QED
    BY <1>9, <1>11, <1>12, <2>1, <2>2, <2>3 DEF IsSnapshot
<1>14. PairsOf(d) = pairs
  <2>1. PairsOf(d) = [k \in DOMAIN Names(pairs) |-> [name |-> Names(pairs)[k], value |-> d.attributes[Names(pairs)[k]]]]
    BY <1>11 DEF PairsOf
  <2>2. /\ Len(pairs) \in Nat /\ DOMAIN Names(pairs) = 1..Len(pairs) /\ DOMAIN pairs = 1..Len(pairs)
        /\ \A i \in 1..Len(pairs) : pairs[i] \in Attributes /\ Names(pairs)[i] = pairs[i].name
    BY <1>8, PairsMean
  <2>3. \A i \in 1..Len(pairs) : pairs[i] = [name |-> Names(pairs)[i], value |-> d.attributes[Names(pairs)[i]]]
    <3> TAKE i \in 1..Len(pairs)
    <3>1. pairs[i] \in Attributes /\ Names(pairs)[i] = pairs[i].name /\ d.attributes[pairs[i].name] = pairs[i].value
      BY <1>11, <2>2
    <3>2. pairs[i] = [name |-> pairs[i].name, value |-> pairs[i].value]
      BY <3>1, AttributeMeans
    <3> QED
      BY <3>1, <3>2
  <2>4. pairs = [i \in 1..Len(pairs) |-> pairs[i]]
    BY <1>8, LenProperties
  <2> QED
    BY <2>1, <2>2, <2>3, <2>4
<1>15. EncodeSnapshot(d) = SnapshotFields(d, Encoded(AttributeCode, pairs))
  BY <1>13, <1>14, SnapshotFile
<1>16. /\ From(bytes, 1) = <<SnapshotMagic>> \o From(bytes, 2)
       /\ From(bytes, 2) = <<d.root>> \o From(bytes, 3)
       /\ From(bytes, 3) = <<Len(d.parents)>> \o From(bytes, 4)
       /\ From(bytes, time) = <<d.time>> \o From(bytes, time + 1)
       /\ From(bytes, source.next) = <<Len(PairsOf(d))>> \o From(bytes, source.next + 1)
  <2>1. \A p \in 1..Len(bytes) : From(bytes, p) = <<bytes[p]>> \o From(bytes, p + 1)
    BY FromFirst
  <2>2. 1 + 1 = 2 /\ 2 + 1 = 3 /\ 3 + 1 = 4
    OBVIOUS
  <2>3. From(bytes, 1) = <<bytes[1]>> \o From(bytes, 2)
    BY <1>3, <2>1, <2>2
  <2>4. From(bytes, 2) = <<bytes[2]>> \o From(bytes, 3)
    BY <1>3, <2>1, <2>2
  <2>5. From(bytes, 3) = <<n>> \o From(bytes, 4)
    BY <1>3, <2>1, <2>2 DEF n
  <2>6. From(bytes, time) = <<bytes[time]>> \o From(bytes, time + 1)
    BY <1>3, <2>1
  <2>7. From(bytes, source.next) = <<count>> \o From(bytes, source.next + 1)
    BY <1>7, <2>1 DEF count
  <2> QED
    BY <1>1, <1>8, <1>9, <1>10, <1>14, <2>3, <2>4, <2>5, <2>6, <2>7
<1>17. From(bytes, 1) = bytes
  BY <1>3, FromMeans
<1>18. /\ From(bytes, time + 1) = EncodeOptional(d.author) \o From(bytes, author.next)
       /\ From(bytes, author.next) = EncodeOptional(d.message) \o From(bytes, message.next)
       /\ From(bytes, message.next) = EncodeString(d.source) \o From(bytes, source.next)
  <2>1. source.next # 0
    BY <1>7
  <2>2. From(bytes, time + 1) = EncodeOptional(author.value) \o From(bytes, author.next)
    BY <1>4, <1>7, Zenon
  <2>3. From(bytes, author.next) = EncodeOptional(message.value) \o From(bytes, message.next)
    BY <1>5, <1>7, Zenon
  <2>4. From(bytes, message.next) = EncodeString(source.value) \o From(bytes, source.next)
    BY <1>6, <2>1, Zenon
  <2> QED
    BY <1>9, <2>2, <2>3, <2>4, Zenon
<1>19. bytes = SnapshotFields(d, Encoded(AttributeCode, pairs))
  BY <1>8, <1>10, <1>16, <1>17, <1>18, Zenon DEF SnapshotFields
<1> QED
  BY <1>13, <1>15, <1>19

LEMMA InvalidIsNoPairs == Invalid \notin Seq(Attributes)
<1> DEFINE R == [name: Seq(Lengths), value: Seq(Lengths)]
           v == Invalid
<1> SUFFICES ASSUME Invalid \in Seq(Attributes) PROVE Invalid \in Seq(R)
  BY InvalidAssumption
<1>1. /\ Len(v) \in Nat /\ v = [i \in 1..Len(v) |-> v[i]]
      /\ \A i \in 1..Len(v) : v[i] \in Attributes
  BY LenProperties, ElementOfSeq
<1>2. \A a \in Attributes : a \in R
  BY DEF Attributes, Strings
<1> HIDE DEF R, v
<1>3. v \in Seq(R)
  BY <1>1, <1>2
<1> QED
  BY <1>3 DEF v

(* The encoding of a snapshot is decoded.                                  *)
LEMMA SnapshotReadsBack ==
    ASSUME NEW s, IsSnapshot(s), s # Invalid
    PROVE  /\ EncodeSnapshot(s) \in Strings /\ EncodeSnapshot(s) # <<>>
           /\ DecodeSnapshot(EncodeSnapshot(s)) = s
<1> DEFINE bytes == EncodeSnapshot(s)
           pairs == PairsOf(s)
           root == s.root
           n == Len(s.parents)
           parents == s.parents
           created == s.time
           a == EncodeOptional(s.author)
           m == EncodeOptional(s.message)
           w == EncodeString(s.source)
           count == Len(pairs)
           z == Encoded(AttributeCode, pairs)
           r9 == <<count>> \o z
           r8 == w \o r9
           r7 == m \o r8
           r6 == a \o r7
           r5 == <<created>> \o r6
           r4 == parents \o r5
           r3 == <<n>> \o r4
           r2 == <<root>> \o r3
<1>1. bytes = <<SnapshotMagic>> \o r2
  BY SnapshotFile DEF SnapshotFields
<1>2. /\ root \in Lengths /\ n \in Lengths /\ created \in Lengths /\ count \in Lengths
      /\ SnapshotMagic \in Lengths
      /\ parents \in Strings /\ a \in Strings /\ m \in Strings /\ w \in Strings /\ z \in Strings
      /\ IsOptionalText(s.author) /\ IsOptionalText(s.message) /\ IsText(s.source)
      /\ n = Len(parents)
  BY SnapshotParts, TreeMagicIsLength
<1>3. pairs \in Seq(Attributes) /\ Increasing(Names(pairs)) /\ Gathered(pairs) = s.attributes
  BY PairsOfSnapshot
<1>4. s = [root |-> root, parents |-> parents, time |-> created, author |-> s.author,
           message |-> s.message, source |-> s.source, attributes |-> s.attributes]
  BY DEF IsSnapshot
<1> HIDE DEF bytes, pairs, root, n, parents, created, a, m, w, count, z, r9, r8, r7, r6, r5, r4, r3, r2
<1>5. /\ \A x \in Lengths : <<x>> \in Strings
      /\ \A x, t \in Strings : x \o t \in Strings
  BY JoinedStrings
<1>r9. r9 \in Strings
  BY <1>2, <1>5 DEF r9
<1>r8. r8 \in Strings
  BY <1>2, <1>5, <1>r9 DEF r8
<1>r7. r7 \in Strings
  BY <1>2, <1>5, <1>r8 DEF r7
<1>r6. r6 \in Strings
  BY <1>2, <1>5, <1>r7 DEF r6
<1>r5. r5 \in Strings
  BY <1>2, <1>5, <1>r6 DEF r5
<1>r4. r4 \in Strings
  BY <1>2, <1>5, <1>r5 DEF r4
<1>r3. r3 \in Strings
  BY <1>2, <1>5, <1>r4 DEF r3
<1>r2. r2 \in Strings
  BY <1>2, <1>5, <1>r3 DEF r2
<1>6. bytes \in Strings
  BY <1>1, <1>2, <1>5, <1>r2
<1>7. Len(bytes) \in Nat /\ 1 \in 1..(Len(bytes) + 1) /\ From(bytes, 1) = bytes
  <2>1. Len(bytes) \in Nat /\ 1 \in 1..(Len(bytes) + 1)
    BY <1>6, StringMeans
  <2> QED
    BY <1>6, <2>1, FromMeans
<1>8. 1 \in 1..Len(bytes) /\ bytes[1] = SnapshotMagic /\ 2 \in 1..(Len(bytes) + 1) /\ From(bytes, 2) = r2
  <2>1. Splits(bytes, 1, <<SnapshotMagic>>, r2)
    BY <1>2, <1>5, <1>6, <1>1, <1>7, <1>r2 DEF Splits
  <2>2. /\ 1 \in 1..Len(bytes) /\ bytes[1] = SnapshotMagic
        /\ 1 + 1 \in 1..(Len(bytes) + 1) /\ From(bytes, 1 + 1) = r2
    BY <1>2, <2>1, FieldReadsBack
  <2>3. 1 + 1 = 2
    OBVIOUS
  <2> QED
    BY <2>2, <2>3
<1>9. bytes[2] = root /\ 3 \in 1..(Len(bytes) + 1) /\ From(bytes, 3) = r3
  <2>1. Splits(bytes, 2, <<root>>, r3)
    BY <1>2, <1>5, <1>6, <1>8, <1>r3 DEF Splits, r2
  <2>2. /\ 2 \in 1..Len(bytes) /\ bytes[2] = root
        /\ 2 + 1 \in 1..(Len(bytes) + 1) /\ From(bytes, 2 + 1) = r3
    BY <1>2, <2>1, FieldReadsBack
  <2>3. 2 + 1 = 3
    OBVIOUS
  <2> QED
    BY <2>2, <2>3
<1>10. bytes[3] = n /\ 3 \in 1..Len(bytes) /\ 4 \in 1..(Len(bytes) + 1) /\ From(bytes, 4) = r4
  <2>1. Splits(bytes, 3, <<n>>, r4)
    BY <1>2, <1>5, <1>6, <1>9, <1>r4 DEF Splits, r3
  <2>2. /\ 3 \in 1..Len(bytes) /\ bytes[3] = n
        /\ 3 + 1 \in 1..(Len(bytes) + 1) /\ From(bytes, 3 + 1) = r4
    BY <1>2, <2>1, FieldReadsBack
  <2>3. 3 + 1 = 4
    OBVIOUS
  <2> QED
    BY <2>2, <2>3
<1> DEFINE at == 4 + n
<1>11. SubSeq(bytes, 4, at - 1) = parents /\ at \in 1..(Len(bytes) + 1) /\ From(bytes, at) = r5
  <2>1. Splits(bytes, 4, parents, r5)
    BY <1>2, <1>6, <1>10, <1>r5 DEF Splits, r4
  <2>2. Follows(bytes, 4, parents, r5, 4 + n)
    BY <1>2, <2>1, FromRest
  <2> QED
    BY <2>2 DEF Follows
<1> HIDE DEF at
<1>12. at \in 1..Len(bytes) /\ bytes[at] = created /\ at + 1 \in 1..(Len(bytes) + 1) /\ From(bytes, at + 1) = r6
  <2>1. Splits(bytes, at, <<created>>, r6)
    BY <1>2, <1>5, <1>6, <1>11, <1>r6 DEF Splits, r5
  <2>2. /\ at \in 1..Len(bytes) /\ bytes[at] = created
        /\ at + 1 \in 1..(Len(bytes) + 1) /\ From(bytes, at + 1) = r6
    BY <1>2, <2>1, FieldReadsBack
  <2> QED
    BY <2>2
<1>13. PICK p7 \in 1..(Len(bytes) + 1) :
          ReadOptional(bytes, at + 1) = [value |-> s.author, next |-> p7] /\ From(bytes, p7) = r7
  <2>1. Splits(bytes, at + 1, EncodeOptional(s.author), r7)
    BY <1>2, <1>6, <1>12, <1>r7 DEF Splits, r6, a
  <2> QED
    BY <1>2, <2>1, OptionalReadsBack
<1>14. PICK p8 \in 1..(Len(bytes) + 1) :
          ReadOptional(bytes, p7) = [value |-> s.message, next |-> p8] /\ From(bytes, p8) = r8
  <2>1. Splits(bytes, p7, EncodeOptional(s.message), r8)
    BY <1>2, <1>6, <1>13, <1>r8 DEF Splits, r7, m
  <2> QED
    BY <1>2, <2>1, OptionalReadsBack
<1> DEFINE p9 == p8 + Len(s.source) + 1
<1>15. /\ ReadString(bytes, p8) = [value |-> s.source, next |-> p9]
       /\ p9 \in 1..(Len(bytes) + 1) /\ From(bytes, p9) = r9
  <2>1. Splits(bytes, p8, EncodeString(s.source), r9)
    BY <1>2, <1>6, <1>14, <1>r9 DEF Splits, r8, w
  <2> QED
    BY <1>2, <2>1, StringReadsBack
<1> HIDE DEF p9
<1>16. /\ p9 \in 1..Len(bytes) /\ bytes[p9] = count /\ p9 + 1 \in 1..(Len(bytes) + 1)
       /\ From(bytes, p9 + 1) = z
  <2>1. Splits(bytes, p9, <<count>>, z)
    BY <1>2, <1>5, <1>6, <1>15 DEF Splits, r9
  <2>2. /\ p9 \in 1..Len(bytes) /\ bytes[p9] = count
        /\ p9 + 1 \in 1..(Len(bytes) + 1) /\ From(bytes, p9 + 1) = z
    BY <1>2, <2>1, FieldReadsBack
  <2> QED
    BY <2>2
<1>17. ReadAttributes(bytes, p9 + 1, count) = pairs
  <2>1. p9 + 1 \in Places(bytes) /\ From(bytes, p9 + 1) = Encoded(AttributeCode, pairs)
    BY <1>16 DEF Places, z
  <2>2. /\ ReadsOnly(bytes, AttributeReader(bytes), Attributes, AttributeCode)
        /\ ReadsAll(bytes, AttributeReader(bytes), Attributes, AttributeCode)
    BY <1>6, AttributesRead, AttributesReadBack
  <2>3. ReadList(bytes, AttributeReader(bytes), p9 + 1, Len(pairs)) = pairs
    BY <1>3, <1>6, <2>1, <2>2, AttributeCoded, InvalidIsNoPairs, ListReadsBack
  <2> QED
    BY <2>3 DEF ReadAttributes, AttributeReader, count
<1>18. pairs # Invalid
  BY <1>3, InvalidIsNoPairs
<1>19. DecodeSnapshot(bytes) = s
  <2> DEFINE time == 4 + bytes[3]
             author == ReadOptional(bytes, time + 1)
             message == ReadOptional(bytes, author.next)
             source == ReadString(bytes, message.next)
             list == IF source.next = 0 \/ source.next > Len(bytes) THEN Invalid
                     ELSE ReadAttributes(bytes, source.next + 1, bytes[source.next])
  <2>1. DecodeSnapshot(bytes) =
          IF Len(bytes) < 3 \/ bytes[1] # SnapshotMagic \/ time > Len(bytes) THEN Invalid
          ELSE IF list = Invalid \/ ~Increasing(Names(list)) THEN Invalid
          ELSE [root |-> bytes[2], parents |-> SubSeq(bytes, 4, time - 1),
                time |-> bytes[time], author |-> author.value,
                message |-> message.value, source |-> source.value,
                attributes |-> Gathered(list)]
    BY DEF DecodeSnapshot, Gathered
  <2> HIDE DEF list, source, message, author, time
  <2>2. time = at
    BY <1>10 DEF time, at
  <2>3. author.value = s.author /\ author.next = p7
    BY <1>13, <2>2 DEF author
  <2>4. message.value = s.message /\ message.next = p8
    BY <1>14, <2>3 DEF message
  <2>5. source.value = s.source /\ source.next = p9
    BY <1>15, <2>4 DEF source
  <2>6. list = pairs
    <3>1. ~(p9 = 0 \/ p9 > Len(bytes))
      BY <1>7, <1>16
    <3>2. list = ReadAttributes(bytes, p9 + 1, bytes[p9])
      BY <2>5, <3>1 DEF list
    <3> QED
      BY <1>16, <1>17, <3>2
  <2>7. ~(Len(bytes) < 3 \/ bytes[1] # SnapshotMagic \/ time > Len(bytes))
    <3>1. ~(Len(bytes) < 3) /\ ~(at > Len(bytes))
      BY <1>7, <1>10, <1>12
    <3> QED
      BY <1>8, <2>2, <3>1
  <2>8. DecodeSnapshot(bytes) =
          [root |-> bytes[2], parents |-> SubSeq(bytes, 4, time - 1),
           time |-> bytes[time], author |-> author.value,
           message |-> message.value, source |-> source.value,
           attributes |-> Gathered(list)]
    BY <1>3, <1>18, <2>1, <2>6, <2>7, Zenon
  <2>9. DecodeSnapshot(bytes) =
          [root |-> root, parents |-> parents, time |-> created, author |-> s.author,
           message |-> s.message, source |-> s.source, attributes |-> s.attributes]
    BY <1>3, <1>9, <1>11, <1>12, <2>2, <2>3, <2>4, <2>5, <2>6, <2>8, Zenon
  <2> QED
    BY <1>4, <2>9, Zenon
<1>20. bytes # <<>>
  BY <1>7, <1>8, EmptySeq
<1> QED
  BY <1>6, <1>19, <1>20 DEF bytes

-----------------------------------------------------------------------------
(* The files of all objects.                                               *)

(* The entries in another order are the same tree.                         *)
LEMMA ListedAgain ==
    ASSUME NEW x \in Seq(Entries), Distinct(x), NEW y \in SetToSeqs(ToSet(x))
    PROVE  NewTree(y) = NewTree(x)
<1> DEFINE S == ToSet(x)
           n == Len(x)
<1>1. /\ n \in Nat /\ IsFiniteSet(S) /\ Cardinality(S) = n
      /\ \A e, f \in S : e.name = f.name => e = f
      /\ \A e \in S : e \in Entries
  BY DistinctMeans, ListingMeans
<1> HIDE DEF S, n
<1>2. y \in [1..n -> S] /\ \A i, j \in 1..n : i # j => y[i] # y[j]
  BY <1>1 DEF SetToSeqs, S
<1>3. y \in Seq(Entries) /\ Len(y) = n
  BY <1>1, <1>2
<1>4. Distinct(y)
  BY <1>1, <1>2, <1>3 DEF Distinct
<1>5. \A e \in S : \E i \in 1..n : y[i] = e
  <2>1. IsFiniteSet(1..n) /\ Cardinality(1..n) = n
    BY <1>1, FS_Interval
  <2>2. y \in Injection(1..n, S)
    BY <1>2 DEF Injection, IsInjective
  <2>3. y \in Surjection(1..n, S)
    BY <1>1, <2>1, <2>2, FS_Injection
  <2> QED
    BY <2>3 DEF Surjection
<1>6. ToSet(y) = S
  <2>1. \A e \in ToSet(y) : \E i \in 1..n : y[i] = e
    BY <1>3, ListingMeans
  <2>2. \A i \in 1..n : y[i] \in ToSet(y)
    BY <1>3, ListingMeans
  <2>3. ASSUME NEW e \in ToSet(y) PROVE e \in S
    BY <1>2, <2>1
  <2>4. ASSUME NEW e \in S PROVE e \in ToSet(y)
    BY <1>5, <2>2
  <2> QED
    BY <2>3, <2>4
<1> QED
  BY <1>3, <1>4, <1>6, NewTreeSame DEF S

LEMMA ListingIsEntries ==
    ASSUME NEW v \in Listings
    PROVE  v \in Seq(Entries) /\ Len(v) \in Lengths
<1>1. /\ v \in Seq(ToSet(v)) /\ Len(v) \in Lengths
      /\ \A k \in DOMAIN v : IsEntry(v[k])
  BY CodecAssumption DEF CodecAssumption
<1>2. Len(v) \in Nat /\ DOMAIN v = 1..Len(v) /\ v = [k \in 1..Len(v) |-> v[k]]
  BY <1>1, LenProperties
<1>3. \A k \in 1..Len(v) : v[k] \in Entries
  <2> TAKE k \in 1..Len(v)
  <2>1. IsEntry(v[k])
    BY <1>1, <1>2
  <2> DEFINE e == v[k]
  <2> HIDE DEF e
  <2>2. /\ e = [kind |-> e.kind, name |-> e.name, id |-> e.id]
        /\ e.kind \in KindTags /\ e.name \in Strings /\ e.id \in Lengths /\ IsEntry(e)
    BY <2>1 DEF IsEntry, IsText, Strings, e
  <2>3. e \in Entries
    BY <2>2 DEF Entries
  <2> QED
    BY <2>3 DEF e
<1> QED
  BY <1>1, <1>2, <1>3

LEMMA ListingReadsBack ==
    ASSUME NEW v \in Listings, NewTree(v) # Invalid, NEW d, d = NewTree(v)
    PROVE  /\ EncodeTree(d) \in Strings /\ EncodeTree(d) # <<>>
           /\ DecodeTree(EncodeTree(d)) = d
           /\ ToSet(d) = ToSet(v)
           /\ \A other \in SetToSeqs(ToSet(v)) : NewTree(other) = d
<1>1. v \in Seq(Entries) /\ Len(v) \in Lengths
  BY ListingIsEntries
<1>2. Distinct(v)
  BY <1>1, NewTreeMeans
<1>3. d \in Seq(Entries) /\ Len(d) = Len(v) /\ ToSet(d) = ToSet(v) /\ Increasing(Names(d))
  BY <1>1, <1>2, NewTreeMeans
<1>4. /\ EncodeTree(d) \in Strings /\ EncodeTree(d) # <<>> /\ DecodeTree(EncodeTree(d)) = d
  BY <1>1, <1>3, TreeReadsBack
<1>5. \A other \in SetToSeqs(ToSet(v)) : NewTree(other) = d
  BY <1>1, <1>2, ListedAgain
<1> QED
  BY <1>3, <1>4, <1>5

(* A file holds fields, and the object's encoding as long as nothing       *)
(* damages it.                                                             *)
FileInv ==
    /\ damages \in Nat
    /\ file \in Strings
    /\ object.type = "tree" => object.value \in Listings
    /\ object.type = "snapshot" => object.value \in Snapshots
    /\ object.type = "delta" => object.value \in Deltas
    /\ object.type \in {"tree", "snapshot", "delta"}
    /\ Written /\ damages = 0 =>
         /\ object.type = "tree" => /\ NewTree(object.value) # Invalid
                                    /\ file = EncodeTree(NewTree(object.value))
         /\ object.type = "snapshot" => file = EncodeSnapshot(object.value)
         /\ object.type = "delta" => /\ DeltaOf(object.value) # Invalid
                                     /\ file = EncodeDelta(DeltaOf(object.value))

LEMMA FileInit == CodecInit => FileInv
<1> SUFFICES ASSUME CodecInit PROVE FileInv
  OBVIOUS
<1>1. damages \in Nat /\ file = <<>> /\ file \in Strings
  BY EmptySeq DEF CodecInit, Strings
<1>2. \/ object.type = "tree" /\ object.value \in Listings
      \/ object.type = "snapshot" /\ object.value \in Snapshots
      \/ object.type = "delta" /\ object.value \in Deltas
  BY DEF CodecInit
<1> QED
  BY <1>1, <1>2 DEF FileInv, Written

LEMMA FileStep == FileInv /\ [CodecNext]_codec => FileInv'
<1> SUFFICES ASSUME FileInv, [CodecNext]_codec PROVE FileInv'
  OBVIOUS
<1>1. CASE WriteTree
  <2>1. object.value \in Listings /\ NewTree(object.value) # Invalid
    BY <1>1 DEF WriteTree, FileInv
  <2>2. EncodeTree(NewTree(object.value)) \in Strings
    BY <2>1, ListingReadsBack
  <2> QED
    BY <1>1, <2>1, <2>2 DEF WriteTree, FileInv
<1>2. CASE WriteSnapshot
  <2>1. IsSnapshot(object.value) /\ object.value # Invalid
    BY <1>2, CodecAssumption, InvalidAssumption DEF WriteSnapshot, FileInv, CodecAssumption, InvalidAssumption
  <2>2. EncodeSnapshot(object.value) \in Strings
    BY <2>1, SnapshotReadsBack
  <2> QED
    BY <1>2, <2>2 DEF WriteSnapshot, FileInv
<1>3. CASE WriteDelta
  <2>1. object.value \in Deltas /\ DeltaOf(object.value) # Invalid
    BY <1>3 DEF WriteDelta, FileInv
  <2>2. EncodeDelta(DeltaOf(object.value)) \in Strings
    BY <2>1, DeltaOfFits, EncodedDelta DEF Strings
  <2> QED
    BY <1>3, <2>1, <2>2 DEF WriteDelta, FileInv, DeltaOf
<1>4. CASE DamageFile
  <2>1. damages' \in Nat /\ damages' # 0 /\ object' = object
    BY <1>4 DEF DamageFile, FileInv
  <2>2. file' \in Strings
    <3>1. file \in Seq(Lengths) /\ Len(file) \in Nat /\ DOMAIN file = 1..Len(file)
      BY LenProperties DEF FileInv, Strings
    <3>2. ASSUME NEW k \in DOMAIN file, NEW g \in Garbage, file' = [file EXCEPT ![k] = g]
          PROVE  file' \in Seq(Lengths)
      <4>1. g \in Lengths
        BY CodecAssumption DEF CodecAssumption
      <4> QED
        BY <3>1, <3>2, <4>1, ExceptSeq
    <3>3. CASE file' = Front(file)
      <4>1. \A i \in 1..(Len(file) - 1) : file[i] \in Lengths
        BY <3>1, ElementOfSeq
      <4>2. SubSeq(file, 1, Len(file) - 1) \in Seq(Lengths)
        BY <3>1, <4>1, SubSeqProperties
      <4> QED
        BY <3>3, <4>2 DEF Front, Strings
    <3>4. ASSUME NEW g \in Garbage, file' = Append(file, g) PROVE file' \in Seq(Lengths)
      <4>1. g \in Lengths
        BY CodecAssumption DEF CodecAssumption
      <4> QED
        BY <3>1, <3>4, <4>1, AppendProperties
    <3> QED
      BY <1>4, <3>2, <3>3, <3>4 DEF DamageFile, Strings
  <2> QED
    BY <2>1, <2>2 DEF FileInv
<1>5. CASE UNCHANGED codec
  BY <1>5 DEF codec, FileInv, Written, DeltaOf
<1> QED
  BY <1>1, <1>2, <1>3, <1>4, <1>5 DEF CodecNext

LEMMA Files == CodecSpec => []FileInv
  BY FileInit, FileStep, PTL DEF CodecSpec

(* Whatever bytes a damaged delta file holds, if they are accepted the     *)
(* header gives the length of what is inserted, and rebuilding takes no    *)
(* byte twice or from outside the base: for blobs and damage of any size.  *)
THEOREM CodecRangesSound == CodecSpec => []DeltaRangesSound
<1>1. FileInv => DeltaRangesSound
  <2> SUFFICES ASSUME FileInv, object.type = "delta", Decoded # Invalid
               PROVE  /\ file[HeaderFields] = Len(Decoded.insert)
                      /\ RangesFit(Decoded, object.value.base) =>
                            /\ Decoded.prefix + Decoded.suffix <= Len(object.value.base)
                            /\ Len(Reconstruct(Decoded, object.value.base)) = Decoded.targetLen
    BY DEF DeltaRangesSound
  <2>1. Decoded = DecodeDelta(file)
    BY DEF Decoded
  <2>2. file \in Seq(Lengths) /\ object.value.base \in Seq(Lengths)
    BY CodecAssumption DEF FileInv, CodecAssumption, Strings
  <2>3. Decoded \in DeltaRecords /\ file[HeaderFields] = Len(Decoded.insert)
    BY <2>1, <2>2, DecodedDelta
  <2> QED
    BY <2>2, <2>3, RangesAreSound
<1> QED
  BY <1>1, Files, PTL

(* Whatever bytes a damaged tree or snapshot file holds, if they are       *)
(* accepted they are the encoding of what was read, so that two files      *)
(* never hold the same object.                                             *)
THEOREM CodecOneEncoding == CodecSpec => []OneEncoding
<1>1. FileInv => OneEncoding
  <2> SUFFICES ASSUME FileInv, object.type # "delta", Decoded # Invalid
               PROVE  file = IF object.type = "tree"
                              THEN EncodeTree(NewTree(Decoded)) ELSE EncodeSnapshot(Decoded)
    BY DEF OneEncoding
  <2>0. file \in Strings /\ object.type \in {"tree", "snapshot"}
    BY DEF FileInv
  <2>1. CASE object.type = "tree"
    <3>1. Decoded = DecodeTree(file)
      BY <2>1 DEF Decoded
    <3>2. /\ Decoded \in Seq(Entries) /\ Increasing(Names(Decoded))
          /\ file = EncodeTree(Decoded)
      BY <2>0, <3>1, TreeDecoded
    <3>3. NewTree(Decoded) = Decoded
      BY <3>2, OrderedTree
    <3> QED
      BY <2>1, <3>2, <3>3
  <2>2. CASE object.type = "snapshot"
    <3>1. Decoded = DecodeSnapshot(file)
      BY <2>2 DEF Decoded
    <3>2. file = EncodeSnapshot(Decoded)
      BY <2>0, <3>1, SnapshotDecoded
    <3> QED
      BY <2>2, <3>2
  <2> QED
    BY <2>0, <2>1, <2>2
<1> QED
  BY <1>1, Files, PTL

(* What is written is read back: any tree however its entries were found,  *)
(* any snapshot, and the delta of any two blobs.                           *)
THEOREM CodecReadsBack == CodecSpec => []FileReadsBack
<1>1. FileInv => FileReadsBack
  <2> SUFFICES ASSUME FileInv, Written, damages = 0
               PROVE  /\ Decoded # Invalid
                      /\ object.type = "tree" =>
                           /\ ToSet(Decoded) = ToSet(object.value)
                           /\ \A other \in SetToSeqs(ToSet(object.value)) : NewTree(other) = Decoded
                      /\ object.type = "snapshot" => Decoded = object.value
                      /\ object.type = "delta" =>
                           /\ Reconstruct(Decoded, object.value.base) = object.value.target
                           /\ Decoded.depth <= MaxDeltaDepth
    BY DEF FileReadsBack
  <2>1. CASE object.type = "tree"
    <3> DEFINE v == object.value
               d == NewTree(v)
    <3>1. v \in Listings /\ d # Invalid /\ file = EncodeTree(d) /\ Decoded = DecodeTree(file)
      BY <2>1 DEF FileInv, Decoded
    <3>2. /\ DecodeTree(EncodeTree(d)) = d /\ ToSet(d) = ToSet(v)
          /\ \A other \in SetToSeqs(ToSet(v)) : NewTree(other) = d
      BY <3>1, ListingReadsBack
    <3> HIDE DEF d
    <3>3. Decoded = d
      BY <3>1, <3>2
    <3> QED
      BY <2>1, <3>1, <3>2, <3>3
  <2>2. CASE object.type = "snapshot"
    <3>1. /\ object.value \in Snapshots /\ file = EncodeSnapshot(object.value)
          /\ Decoded = DecodeSnapshot(file)
      BY <2>2 DEF FileInv, Decoded
    <3>2. IsSnapshot(object.value) /\ object.value # Invalid
      BY <3>1, CodecAssumption, InvalidAssumption DEF CodecAssumption, InvalidAssumption
    <3>3. Decoded = object.value
      BY <3>1, <3>2, SnapshotReadsBack
    <3> QED
      BY <2>2, <3>2, <3>3
  <2>3. CASE object.type = "delta"
    <3> DEFINE d == DeltaOf(object.value)
    <3>1. object.value \in Deltas /\ d # Invalid /\ Decoded = DecodeDelta(EncodeDelta(d))
      BY <2>3 DEF FileInv, Decoded
    <3>2. /\ d \in DeltaRecords /\ HeaderFields + Len(d.insert) \in Lengths
          /\ d.depth <= MaxDeltaDepth
          /\ Reconstruct(d, object.value.base) = object.value.target
      BY <3>1, DeltaOfFits
    <3> HIDE DEF d
    <3>3. Decoded = d
      BY <3>1, <3>2, EncodedDelta
    <3> QED
      BY <2>3, <3>1, <3>2, <3>3
  <2> QED
    BY <2>1, <2>2, <2>3 DEF FileInv
<1> QED
  BY <1>1, Files, PTL

=============================================================================
