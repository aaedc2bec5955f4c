------------------------------ MODULE DataLemmas ------------------------------
(***************************************************************************)
(* Facts about naturals and sequences that the proofs about data rest on.   *)
(* A set of naturals has a least element: that is the induction used here,  *)
(* with the set of counterexamples in the place of a predicate.             *)
(***************************************************************************)
EXTENDS SequencesExt, FiniteSetTheorems, SequenceTheorems, TLAPS

LEMMA LeastNatural ==
  ASSUME NEW S \in SUBSET Nat, S # {}
  PROVE  \E n \in S : \A m \in S : n <= m
<1> DEFINE Upto == {0 .. n : n \in S}
<1>1. IsWellFoundedOn(StrictSubsetOrdering(Nat), FiniteSubsetsOf(Nat))
  BY FS_StrictSubsetOrderingWellFounded
<1>2. Upto \subseteq FiniteSubsetsOf(Nat)
  <2>1. \A n \in S : IsFiniteSet(0 .. n) /\ (0 .. n) \in SUBSET Nat
    BY FS_Interval
  <2> QED
    BY <2>1 DEF FiniteSubsetsOf
<1>3. PICK x \in Upto : \A y \in Upto : ~(<<y, x>> \in StrictSubsetOrdering(Nat))
  <2>1. Upto # {}
    OBVIOUS
  <2> HIDE DEF Upto
  <2> QED
    BY <1>1, <1>2, <2>1, WFMin
<1>4. PICK n \in S : x = 0 .. n
  BY <1>3
<1>5. ASSUME NEW m \in S PROVE ~(m < n)
  <2> SUFFICES ASSUME m < n PROVE FALSE
    OBVIOUS
  <2>1. (0 .. m) \subseteq (0 .. n) /\ n \in 0 .. n /\ n \notin 0 .. m
    OBVIOUS
  <2>2. 0 .. m \in Upto
    OBVIOUS
  <2>3. <<0 .. m, 0 .. n>> \in StrictSubsetOrdering(Nat)
    <3>1. (0 .. m) \in SUBSET Nat /\ (0 .. n) \in SUBSET Nat /\ (0 .. m) # (0 .. n)
      BY <2>1
    <3> QED
      BY <2>1, <3>1 DEF StrictSubsetOrdering
  <2> QED
    BY <1>3, <1>4, <2>2, <2>3
<1> QED
  BY <1>5

LEMMA FunctionIsSeq ==
  ASSUME NEW S, NEW n \in Nat, NEW s \in [1 .. n -> S]
  PROVE  s \in Seq(S) /\ Len(s) = n
  OBVIOUS

LEMMA PairIsConcat ==
  ASSUME NEW S, NEW x \in S, NEW y \in S
  PROVE  <<x>> \o <<y>> = <<x, y>>
<1> DEFINE s == <<x>>
           t == <<y>>
           p == <<x, y>>
<1>1. s \in Seq(S) /\ t \in Seq(S) /\ p \in Seq(S)
  OBVIOUS
<1>2. Len(s) = 1 /\ Len(t) = 1 /\ Len(p) = 2
  OBVIOUS
<1>3. s[1] = x /\ t[1] = y /\ p[1] = x /\ p[2] = y
  OBVIOUS
<1> HIDE DEF s, t, p
<1>8. /\ s \o t \in Seq(S) /\ Len(s \o t) = Len(s) + Len(t)
      /\ \A i \in 1 .. Len(s) + Len(t) :
           (s \o t)[i] = IF i <= Len(s) THEN s[i] ELSE t[i - Len(s)]
  BY <1>1, ConcatProperties
<1>9. 1 \in 1 .. Len(s) + Len(t) /\ 2 \in 1 .. Len(s) + Len(t)
  BY <1>2
<1>4. s \o t \in Seq(S) /\ Len(s \o t) = 2
  BY <1>2, <1>8
<1>5. (s \o t)[1] = x /\ (s \o t)[2] = y
  BY <1>2, <1>3, <1>8, <1>9
<1> DEFINE c == s \o t
<1>6. \A i \in 1 .. Len(c) : c[i] = p[i]
  BY <1>3, <1>4, <1>5
<1> HIDE DEF c
<1>7. c = p
  BY <1>1, <1>2, <1>4, <1>6, SeqEqual DEF c
<1> QED
  BY <1>7 DEF c, s, t, p

-----------------------------------------------------------------------------
(* FlattenSeq.                                                              *)

\* What FlattenSeq computes for the first n of the sequences.
IsFlatten(g, seqs, n) ==
  g = [i \in 1 .. n |-> IF i = 1 THEN seqs[i] ELSE g[i - 1] \o seqs[i]]

LEMMA FlattenAt ==
  ASSUME NEW seqs, NEW n \in Nat, NEW g, IsFlatten(g, seqs, n), NEW i \in 1 .. n
  PROVE  g[i] = IF i = 1 THEN seqs[i] ELSE g[i - 1] \o seqs[i]
<1> DEFINE f == [j \in 1 .. n |-> IF j = 1 THEN seqs[j] ELSE g[j - 1] \o seqs[j]]
<1>1. g = f
  BY DEF IsFlatten
<1>2. f[i] = IF i = 1 THEN seqs[i] ELSE g[i - 1] \o seqs[i]
  OBVIOUS
<1> QED
  BY <1>1, <1>2

LEMMA FlattenExists ==
  ASSUME NEW seqs
  PROVE  \A n \in Nat : \E g : IsFlatten(g, seqs, n)
<1> DEFINE Bad == {n \in Nat : ~\E g : IsFlatten(g, seqs, n)}
<1> SUFFICES ASSUME Bad # {} PROVE FALSE
  OBVIOUS
<1>1. PICK n \in Bad : \A m \in Bad : n <= m
  <2> HIDE DEF Bad
  <2>1. Bad \in SUBSET Nat
    BY DEF Bad
  <2> QED
    BY <2>1, LeastNatural
<1>2. CASE n = 0
  <2>1. IsFlatten(<< >>, seqs, 0)
    BY DEF IsFlatten
  <2> QED
    BY <1>2, <2>1
<1>3. CASE n # 0
  <2>1. n \in Nat /\ n - 1 \in Nat
    BY <1>3
  <2>2. PICK g : IsFlatten(g, seqs, n - 1)
    BY <1>1, <2>1
  <2> DEFINE h == [i \in 1 .. n |->
                     IF i < n THEN g[i]
                     ELSE IF n = 1 THEN seqs[1] ELSE g[n - 1] \o seqs[n]]
  <2>3. ASSUME NEW i \in 1 .. n
        PROVE  h[i] = IF i = 1 THEN seqs[i] ELSE h[i - 1] \o seqs[i]
    <3>1. CASE i < n
      <4>1. i \in 1 .. n - 1 /\ (i # 1 => i - 1 \in 1 .. n - 1)
        BY <2>1, <3>1
      <4>2. g[i] = IF i = 1 THEN seqs[i] ELSE g[i - 1] \o seqs[i]
        BY <2>1, <2>2, <4>1, FlattenAt
      <4> QED
        BY <3>1, <4>1, <4>2, <2>1
    <3>2. CASE i = n
      BY <3>2, <2>1
    <3> QED
      BY <3>1, <3>2, <2>1
  <2>4. IsFlatten(h, seqs, n)
    BY <2>3 DEF IsFlatten
  <2> QED
    BY <2>4
<1> QED
  BY <1>2, <1>3

AgreeUpto(k, f, g) == \A i \in 1 .. k : f[i] = g[i]

\* It depends on nothing but the sequences so far.
LEMMA FlattenAgrees ==
  ASSUME NEW s, NEW t, NEW k \in Nat, NEW m \in Nat, k <= m,
         AgreeUpto(k, s, t),
         NEW g, NEW h, IsFlatten(g, s, k), IsFlatten(h, t, m)
  PROVE  AgreeUpto(k, g, h)
<1> DEFINE Bad == {i \in 1 .. k : g[i] # h[i]}
<1> SUFFICES ASSUME Bad # {} PROVE FALSE
  BY DEF AgreeUpto
<1>1. PICK i \in Bad : \A j \in Bad : i <= j
  <2>1. Bad \in SUBSET Nat
    OBVIOUS
  <2> HIDE DEF Bad
  <2> QED
    BY <2>1, LeastNatural
<1>2. i \in 1 .. m /\ i \in 1 .. k /\ g[i] # h[i]
  OBVIOUS
<1>3. i # 1 => g[i - 1] = h[i - 1]
  <2>1. i # 1 => i - 1 \in 1 .. k /\ ~(i <= i - 1)
    BY <1>2
  <2> QED
    BY <1>1, <2>1
<1>4. g[i] = IF i = 1 THEN s[i] ELSE g[i - 1] \o s[i]
  BY <1>2, FlattenAt
<1>5. h[i] = IF i = 1 THEN t[i] ELSE h[i - 1] \o t[i]
  BY <1>2, FlattenAt
<1> QED
  BY <1>2, <1>3, <1>4, <1>5 DEF AgreeUpto

LEMMA FlattenIs ==
  ASSUME NEW seqs, Len(seqs) \in Nat, Len(seqs) # 0
  PROVE  \E g : IsFlatten(g, seqs, Len(seqs)) /\ FlattenSeq(seqs) = g[Len(seqs)]
<1>1. \E g : IsFlatten(g, seqs, Len(seqs))
  BY FlattenExists
<1> DEFINE f == CHOOSE g : IsFlatten(g, seqs, Len(seqs))
<1>2. IsFlatten(f, seqs, Len(seqs))
  BY <1>1
<1>3. FlattenSeq(seqs) = f[Len(seqs)]
  BY DEF FlattenSeq, IsFlatten
<1> QED
  BY <1>2, <1>3

LEMMA FlattenEmpty == FlattenSeq(<< >>) = << >>
  BY DEF FlattenSeq

LEMMA FlattenAppend ==
  ASSUME NEW S, NEW s \in Seq(Seq(S)), NEW x \in Seq(S)
  PROVE  FlattenSeq(Append(s, x)) = FlattenSeq(s) \o x
<1> DEFINE t == Append(s, x)
           n == Len(s)
<1>1. /\ n \in Nat /\ t \in Seq(Seq(S)) /\ Len(t) = n + 1
      /\ t[n + 1] = x
  OBVIOUS
<1>7. AgreeUpto(n, s, t)
  BY DEF AgreeUpto
<1> HIDE DEF t, n
<1> DEFINE m == n + 1
<1>0. m \in Nat /\ m \in 1 .. m /\ m - 1 = n /\ n <= m /\ (m = 1 <=> n = 0)
  BY <1>1
<1>6. t[m] = x /\ Len(t) = m
  BY <1>1
<1> HIDE DEF m
<1>2. PICK h : IsFlatten(h, t, m) /\ FlattenSeq(t) = h[m]
  <2>1. Len(t) \in Nat /\ Len(t) # 0
    BY <1>1
  <2> QED
    BY <1>6, <2>1, FlattenIs
<1>3. h[m] = IF n = 0 THEN x ELSE h[n] \o x
  <2>1. h[m] = IF m = 1 THEN t[m] ELSE h[m - 1] \o t[m]
    BY <1>0, <1>2, FlattenAt
  <2> QED
    BY <1>0, <1>6, <2>1
<1>4. CASE n = 0
  <2>1. s = << >>
    BY <1>4 DEF n
  <2>2. FlattenSeq(s) \o x = x
    BY <2>1, FlattenEmpty
  <2> QED
    BY <1>2, <1>3, <1>4, <2>2 DEF t
<1>5. CASE n # 0
  <2>1. PICK g : IsFlatten(g, s, n) /\ FlattenSeq(s) = g[n]
    BY <1>1, <1>5, FlattenIs DEF n
  <2>2. AgreeUpto(n, g, h)
    BY <1>0, <1>1, <1>2, <1>7, <2>1, FlattenAgrees
  <2>3. n \in 1 .. n
    BY <1>1, <1>5
  <2>4. h[n] = FlattenSeq(s)
    BY <2>1, <2>2, <2>3 DEF AgreeUpto
  <2> QED
    BY <1>2, <1>3, <1>5, <2>4 DEF t
<1> QED
  BY <1>4, <1>5

\* A sequence that is not empty is one with something appended.
LEMMA FrontAndLast ==
  ASSUME NEW S, NEW s \in Seq(S), s # << >>
  PROVE  /\ Front(s) \in Seq(S) /\ Last(s) \in S
         /\ s = Append(Front(s), Last(s))
         /\ Len(Front(s)) = Len(s) - 1 /\ Len(s) \in Nat \ {0}
<1>1. Len(s) \in Nat \ {0}
  OBVIOUS
<1>2. /\ Front(s) \in Seq(S) /\ Len(Front(s)) = Len(s) - 1 /\ Last(s) \in S
      /\ \A i \in 1 .. Len(s) - 1 : Front(s)[i] = s[i]
  <2>1. Last(s) \in S
    BY <1>1 DEF Last
  <2>2. \A i \in 1 .. Len(s) - 1 : s[i] \in S
    BY <1>1
  <2>3. Front(s) = SubSeq(s, 1, Len(s) - 1) /\ Len(s) - 1 \in Int /\ 1 \in Int
    BY <1>1 DEF Front
  <2>4. /\ SubSeq(s, 1, Len(s) - 1) \in Seq(S)
        /\ Len(SubSeq(s, 1, Len(s) - 1)) = Len(s) - 1
        /\ \A i \in 1 .. Len(s) - 1 : SubSeq(s, 1, Len(s) - 1)[i] = s[i]
    <3> DEFINE n == Len(s) - 1
    <3>4. n \in Nat
      BY <1>1
    <3>5. \A i \in 1 .. n : s[i] \in S
      BY <2>2
    <3>1. n \in Nat /\ 1 \in Int /\ (\A i \in 1 .. n : 1 + i - 1 = i /\ s[i] \in S)
          /\ n - 1 + 1 = n /\ (IF 1 <= n THEN n - 1 + 1 ELSE 0) = n
      <4> HIDE DEF n
      <4> QED
        BY <3>4, <3>5
    <3> HIDE DEF n
    <3>2. /\ SubSeq(s, 1, n) \in Seq(S) 
          /\ Len(SubSeq(s, 1, n)) = IF 1 <= n THEN n - 1 + 1 ELSE 0
          /\ \A i \in 1 .. n - 1 + 1 : SubSeq(s, 1, n)[i] = s[1 + i - 1]
      BY <3>1, SubSeqProperties
    <3>3. \A i \in 1 .. n : SubSeq(s, 1, n)[i] = s[i]
      BY <3>1, <3>2
    <3> QED
      BY <3>1, <3>2, <3>3 DEF n
  <2> QED
    BY <2>1, <2>3, <2>4
<1> DEFINE a == Append(Front(s), Last(s))
<1>3. a \in Seq(S) /\ Len(a) = Len(s)
  BY <1>1, <1>2, AppendProperties
<1>4. ASSUME NEW i \in 1 .. Len(s) PROVE a[i] = s[i]
  <2>1. CASE i = Len(s)
    BY <1>1, <1>2, <2>1, AppendProperties DEF Last
  <2>2. CASE i # Len(s)
    BY <1>1, <1>2, <2>2, AppendProperties
  <2> QED
    BY <2>1, <2>2
<1>5. a = s
  <2> HIDE DEF a
  <2> QED
    BY <1>3, <1>4, SeqEqual
<1> QED
  BY <1>1, <1>2, <1>5

LEMMA FlattenType ==
  ASSUME NEW S, NEW s \in Seq(Seq(S))
  PROVE  FlattenSeq(s) \in Seq(S)
<1> DEFINE Bad == {n \in Nat : \E r \in Seq(Seq(S)) : Len(r) = n /\ FlattenSeq(r) \notin Seq(S)}
<1> SUFFICES ASSUME Bad # {} PROVE FALSE
  OBVIOUS
<1>1. PICK n \in Bad : \A m \in Bad : n <= m
  <2>1. Bad \in SUBSET Nat
    OBVIOUS
  <2> HIDE DEF Bad
  <2> QED
    BY <2>1, LeastNatural
<1>2. PICK r \in Seq(Seq(S)) : Len(r) = n /\ FlattenSeq(r) \notin Seq(S)
  OBVIOUS
<1>3. r # << >>
  BY <1>2, FlattenEmpty
<1>4. /\ Front(r) \in Seq(Seq(S)) /\ Last(r) \in Seq(S)
      /\ r = Append(Front(r), Last(r)) /\ Len(Front(r)) = n - 1 /\ n \in Nat \ {0}
  BY <1>2, <1>3, FrontAndLast
<1>5. FlattenSeq(Front(r)) \in Seq(S)
  <2>1. n - 1 \in Nat /\ ~(n <= n - 1)
    BY <1>4
  <2> QED
    BY <1>1, <1>4, <2>1
<1>6. FlattenSeq(r) = FlattenSeq(Front(r)) \o Last(r)
  <2>1. FlattenSeq(Append(Front(r), Last(r))) = FlattenSeq(Front(r)) \o Last(r)
    BY <1>4, FlattenAppend
  <2> QED
    BY <1>4, <2>1
<1> QED
  BY <1>2, <1>4, <1>5, <1>6, ConcatProperties

LEMMA FlattenConcat ==
  ASSUME NEW S, NEW s, NEW t, s \in Seq(Seq(S)), t \in Seq(Seq(S))
  PROVE  FlattenSeq(s \o t) = FlattenSeq(s) \o FlattenSeq(t)
<1> DEFINE Fails(r) == FlattenSeq(s \o r) # FlattenSeq(s) \o FlattenSeq(r)
           Bad == {n \in Nat : \E r \in Seq(Seq(S)) : Len(r) = n /\ Fails(r)}
<1> SUFFICES ASSUME Bad # {} PROVE FALSE
  <2>1. Len(t) \in Nat
    OBVIOUS
  <2>2. Fails(t) => Len(t) \in Bad
    <3> HIDE DEF Fails
    <3> QED
      BY <2>1
  <2> QED
    BY <2>2
<1>1. PICK n \in Bad : \A m \in Bad : n <= m
  <2>1. Bad \in SUBSET Nat
    OBVIOUS
  <2> HIDE DEF Bad
  <2> QED
    BY <2>1, LeastNatural
<1>2. PICK r : r \in Seq(Seq(S)) /\ Len(r) = n /\ Fails(r)
  OBVIOUS
<1>3. r # << >>
  <2>1. s \o << >> = s /\ FlattenSeq(s) \o << >> = FlattenSeq(s)
    BY FlattenType, ConcatEmptySeq
  <2> QED
    BY <1>2, <2>1, FlattenEmpty
<1> DEFINE f == Front(r)
           x == Last(r)
<1>4. /\ f \in Seq(Seq(S)) /\ x \in Seq(S)
      /\ r = Append(f, x) /\ Len(f) = n - 1 /\ n \in Nat \ {0}
  BY <1>2, <1>3, FrontAndLast
<1>5. ~Fails(f)
  <2>1. n - 1 \in Nat /\ ~(n <= n - 1)
    BY <1>4
  <2> HIDE DEF Fails
  <2> QED
    BY <1>1, <1>4, <2>1
<1> HIDE DEF f, x, Fails, Bad
<1>6. FlattenSeq(r) = FlattenSeq(f) \o x
  BY <1>4, FlattenAppend
<1>7. s \o r = Append(s \o f, x)
  <2> DEFINE T == Seq(S)
  <2>1. s \in Seq(T) /\ f \in Seq(T) /\ x \in T
    BY <1>4
  <2> HIDE DEF T, Fails, Bad
  <2>2. s \o Append(f, x) = Append(s \o f, x)
    BY ONLY <2>1
  <2> QED
    BY <1>4, <2>2
<1>8. FlattenSeq(s \o r) = FlattenSeq(s \o f) \o x
  BY <1>4, <1>7, FlattenAppend, ConcatProperties
<1>9. (FlattenSeq(s) \o FlattenSeq(f)) \o x = FlattenSeq(s) \o (FlattenSeq(f) \o x)
  <2> DEFINE a == FlattenSeq(s)
             b == FlattenSeq(f)
  <2>1. a \in Seq(S) /\ b \in Seq(S) /\ x \in Seq(S)
    BY <1>4, FlattenType
  <2> HIDE DEF a, b, Fails, Bad
  <2>2. (a \o b) \o x = a \o (b \o x)
    BY ONLY <2>1
  <2> QED
    BY <2>2 DEF a, b
<1> QED
  BY <1>2, <1>5, <1>6, <1>8, <1>9 DEF Fails

-----------------------------------------------------------------------------
(* Reverse.                                                                 *)

LEMMA ReverseProperties ==
  ASSUME NEW S, NEW s \in Seq(S)
  PROVE  /\ Reverse(s) \in Seq(S) /\ Len(Reverse(s)) = Len(s)
         /\ \A i \in 1 .. Len(s) : Reverse(s)[i] = s[Len(s) - i + 1]
  BY DEF Reverse

LEMMA ReverseReverse ==
  ASSUME NEW S, NEW s \in Seq(S)
  PROVE  Reverse(Reverse(s)) = s
<1> DEFINE r == Reverse(s)
           q == Reverse(r)
           n == Len(s)
<1>1. r \in Seq(S) /\ Len(r) = n /\ (\A i \in 1 .. n : r[i] = s[n - i + 1]) /\ n \in Nat
  BY ReverseProperties
<1> HIDE DEF r, n
<1>2. q \in Seq(S) /\ Len(q) = n /\ \A i \in 1 .. n : q[i] = r[n - i + 1]
  BY <1>1, ReverseProperties
<1> HIDE DEF q
<1>3. ASSUME NEW i \in 1 .. n PROVE q[i] = s[i]
  <2>1. n - i + 1 \in 1 .. n /\ n - (n - i + 1) + 1 = i
    BY <1>1
  <2>2. q[i] = r[n - i + 1] /\ r[n - i + 1] = s[n - (n - i + 1) + 1]
    BY <1>1, <1>2, <2>1
  <2> QED
    BY <2>1, <2>2
<1>4. q = s
  BY <1>2, <1>3, SeqEqual DEF n
<1> QED
  BY <1>4 DEF q, r

LEMMA ReverseConcat ==
  ASSUME NEW S, NEW s \in Seq(S), NEW t \in Seq(S)
  PROVE  Reverse(s \o t) = Reverse(t) \o Reverse(s)
<1> DEFINE m == Len(s)
           n == Len(t)
           a == Reverse(s \o t)
           b == Reverse(t) \o Reverse(s)
<1>1. m \in Nat /\ n \in Nat
  OBVIOUS
<1>2. /\ a \in Seq(S) /\ Len(a) = m + n
      /\ \A i \in 1 .. m + n : a[i] = (s \o t)[m + n - i + 1]
  <2> DEFINE r == s \o t
  <2>1. r \in Seq(S) /\ Len(r) = m + n
    OBVIOUS
  <2> HIDE DEF r
  <2>2. /\ Reverse(r) \in Seq(S) /\ Len(Reverse(r)) = Len(r)
        /\ \A i \in 1 .. Len(r) : Reverse(r)[i] = r[Len(r) - i + 1]
    BY <2>1, ReverseProperties
  <2>3. a = Reverse(r)
    BY DEF r
  <2> HIDE DEF a, m, n
  <2>4. \A i \in 1 .. m + n : a[i] = r[m + n - i + 1]
    <3> DEFINE k == m + n
    <3>1. Len(r) = k
      BY <2>1
    <3> HIDE DEF k
    <3>2. \A i \in 1 .. k : a[i] = r[k - i + 1]
      BY <2>2, <2>3, <3>1
    <3> QED
      BY ONLY <1>1, <3>2 DEF k
  <2> QED
    BY <2>1, <2>2, <2>3, <2>4 DEF r
<1>3. /\ b \in Seq(S) /\ Len(b) = m + n
      /\ \A i \in 1 .. m + n :
           b[i] = IF i <= n THEN Reverse(t)[i] ELSE Reverse(s)[i - n]
  <2> DEFINE rt == Reverse(t)
             rs == Reverse(s)
  <2>1. rt \in Seq(S) /\ rs \in Seq(S) /\ Len(rt) = n /\ Len(rs) = m
    BY ReverseProperties
  <2> HIDE DEF rt, rs, m, n
  <2>2. /\ rt \o rs \in Seq(S) /\ Len(rt \o rs) = n + m
        /\ \A i \in 1 .. n + m : (rt \o rs)[i] = IF i <= n THEN rt[i] ELSE rs[i - n]
    BY <1>1, <2>1, ConcatProperties
  <2>3. n + m = m + n
    BY <1>1
  <2> QED
    BY <2>2, <2>3 DEF rt, rs
<1>4. ASSUME NEW i \in 1 .. m + n PROVE a[i] = b[i]
  <2>1. a[i] = IF m + n - i + 1 <= m THEN s[m + n - i + 1] ELSE t[n - i + 1]
    BY <1>1, <1>2
  <2>2. i <= n => Reverse(t)[i] = t[n - i + 1]
    BY <1>1, ReverseProperties
  <2>3. i > n => Reverse(s)[i - n] = s[m - (i - n) + 1]
    BY <1>1, ReverseProperties
  <2>4. i > n => m - (i - n) + 1 = m + n - i + 1
    BY <1>1
  <2>5. (m + n - i + 1 <= m) <=> i > n
    BY <1>1
  <2> HIDE DEF a, b, m, n
  <2> QED
    BY <1>1, <1>3, <2>1, <2>2, <2>3, <2>4, <2>5
<1> HIDE DEF a, b
<1>5. a = b
  BY <1>2, <1>3, <1>4, SeqEqual
<1> QED
  BY <1>5 DEF a, b

LEMMA RangeReverse ==
  ASSUME NEW S, NEW s \in Seq(S)
  PROVE  Range(Reverse(s)) = Range(s)
<1>1. /\ DOMAIN Reverse(s) = 1 .. Len(s) /\ DOMAIN s = 1 .. Len(s) /\ Len(s) \in Nat
      /\ \A i \in 1 .. Len(s) : Reverse(s)[i] = s[Len(s) - i + 1]
  BY DEF Reverse
<1>2. \A i \in 1 .. Len(s) : /\ Len(s) - i + 1 \in 1 .. Len(s)
                             /\ Len(s) - (Len(s) - i + 1) + 1 = i
  BY <1>1
<1>3. \A i \in 1 .. Len(s) : s[i] = Reverse(s)[Len(s) - i + 1]
  BY <1>1, <1>2
<1> QED
  BY <1>1, <1>2, <1>3 DEF Range
LEMMA RangeFlatten ==
  ASSUME NEW S, NEW s \in Seq(Seq(S))
  PROVE  Range(FlattenSeq(s)) = UNION {Range(s[i]) : i \in DOMAIN s}
<1> DEFINE Of(r) == UNION {Range(r[i]) : i \in DOMAIN r}
           Fails(r) == Range(FlattenSeq(r)) # Of(r)
           Bad == {n \in Nat : \E r \in Seq(Seq(S)) : Len(r) = n /\ Fails(r)}
<1> SUFFICES ASSUME Bad # {} PROVE FALSE
  <2> HIDE DEF Fails
  <2>1. Fails(s) => Len(s) \in Bad
    OBVIOUS
  <2> QED
    BY <2>1 DEF Fails
<1>1. PICK n \in Bad : \A m \in Bad : n <= m
  <2>1. Bad \in SUBSET Nat
    OBVIOUS
  <2> HIDE DEF Bad
  <2> QED
    BY <2>1, LeastNatural
<1>2. PICK r \in Seq(Seq(S)) : Len(r) = n /\ Fails(r)
  OBVIOUS
<1>3. r # << >>
  <2>1. Range(<< >>) = {} /\ Of(<< >>) = {}
    BY DEF Range
  <2> QED
    BY <1>2, <2>1, FlattenEmpty
<1> DEFINE f == Front(r)
           x == Last(r)
<1>4. /\ f \in Seq(Seq(S)) /\ x \in Seq(S)
      /\ r = Append(f, x) /\ Len(f) = n - 1 /\ n \in Nat \ {0}
  BY <1>2, <1>3, FrontAndLast
<1>5. ~Fails(f)
  <2>1. n - 1 \in Nat /\ ~(n <= n - 1)
    BY <1>4
  <2> HIDE DEF Fails
  <2> QED
    BY <1>1, <1>4, <2>1
<1> HIDE DEF f, x, Fails, Bad
<1>6. FlattenSeq(r) = FlattenSeq(f) \o x
  BY <1>4, FlattenAppend
<1>7. Range(FlattenSeq(r)) = Range(FlattenSeq(f)) \cup Range(x)
  <2> DEFINE g == FlattenSeq(f)
  <2>1. g \in Seq(S)
    BY <1>4, FlattenType
  <2> HIDE DEF g
  <2>2. Range(g \o x) = Range(g) \cup Range(x)
    BY <1>4, <2>1, RangeConcatenation
  <2> QED
    BY <1>6, <2>2 DEF g
<1>8. Of(r) = Of(f) \cup Range(x)
  <2>1. /\ DOMAIN r = DOMAIN f \cup {n} /\ n \notin DOMAIN f /\ r[n] = x
        /\ \A i \in DOMAIN f : r[i] = f[i]
    BY <1>4
  <2> QED
    BY ONLY <2>1
<1> QED
  BY <1>2, <1>5, <1>7, <1>8 DEF Fails

-----------------------------------------------------------------------------
(* Induction along a rank.                                                  *)

\* What holds at every argument of lower rank holds at this one.
Inductive(X, rank, T) ==
  \A x \in X : (\A y \in X : rank[y] < rank[x] => y \in T) => x \in T

LEMMA RankInduction ==
  ASSUME NEW X, NEW rank, rank \in [X -> Nat], NEW T, Inductive(X, rank, T)
  PROVE  X \subseteq T
<1> DEFINE Bad == {n \in Nat : \E x \in X : rank[x] = n /\ x \notin T}
<1> SUFFICES ASSUME Bad # {} PROVE FALSE
  OBVIOUS
<1>1. PICK n \in Bad : \A m \in Bad : n <= m
  <2>1. Bad \in SUBSET Nat
    OBVIOUS
  <2> HIDE DEF Bad
  <2> QED
    BY <2>1, LeastNatural
<1>2. PICK x \in X : rank[x] = n /\ x \notin T
  OBVIOUS
<1>3. ASSUME NEW y \in X, rank[y] < rank[x] PROVE y \in T
  <2>1. rank[y] \in Nat /\ n \in Nat /\ ~(n <= rank[y])
    BY <1>2, <1>3
  <2> QED
    BY <1>1, <2>1
<1> QED
  BY <1>2, <1>3 DEF Inductive

-----------------------------------------------------------------------------
(* Induction over the naturals up to one, and over sequences.               *)

LEMMA UptoInduction ==
  ASSUME NEW m \in Nat, NEW T, 0 \in T,
         \A n \in 1 .. m : n - 1 \in T => n \in T
  PROVE  0 .. m \subseteq T
<1> DEFINE Bad == {n \in 0 .. m : n \notin T}
<1> SUFFICES ASSUME Bad # {} PROVE FALSE
  OBVIOUS
<1>1. PICK n \in Bad : \A k \in Bad : n <= k
  <2>1. Bad \in SUBSET Nat
    OBVIOUS
  <2> HIDE DEF Bad
  <2> QED
    BY <2>1, LeastNatural
<1>2. n \in 1 .. m /\ n - 1 \in 0 .. m /\ ~(n <= n - 1) /\ n \notin T
  OBVIOUS
<1>3. n - 1 \in T
  BY <1>1, <1>2
<1> QED
  BY <1>2, <1>3

LEMMA SeqInduction ==
  ASSUME NEW S, NEW T, << >> \in T,
         \A s \in Seq(S) : \A x \in S : s \in T => Append(s, x) \in T
  PROVE  Seq(S) \subseteq T
<1> DEFINE L == {n \in Nat : \A s \in Seq(S) : Len(s) = n => s \in T}
<1>1. ASSUME NEW s \in Seq(S) PROVE s \in T
  <2> DEFINE m == Len(s)
  <2>1. m \in Nat
    OBVIOUS
  <2>2. 0 \in L
    OBVIOUS
  <2>3. ASSUME NEW n \in 1 .. m, n - 1 \in L PROVE n \in L
    <3> SUFFICES ASSUME NEW r \in Seq(S), Len(r) = n PROVE r \in T
      OBVIOUS
    <3>1. r # << >>
      OBVIOUS
    <3>2. /\ Front(r) \in Seq(S) /\ Last(r) \in S
          /\ r = Append(Front(r), Last(r)) /\ Len(Front(r)) = n - 1
      BY <3>1, FrontAndLast
    <3>3. Front(r) \in T
      BY <2>3, <3>2
    <3> QED
      BY <3>2, <3>3
  <2> HIDE DEF L, m
  <2>4. 0 .. m \subseteq L
    BY <2>1, <2>2, <2>3, UptoInduction
  <2>5. m \in L
    BY <2>1, <2>4
  <2> QED
    BY <2>5 DEF L, m
<1> QED
  BY <1>1

-----------------------------------------------------------------------------
(* A function, item by item.                                                *)

Mapped(f, s) == [i \in DOMAIN s |-> f[s[i]]]

\* f maps S into U: a name, for the provers to find S and U by.
Maps(f, S, U) == f \in [S -> U]

LEMMA MappedProperties ==
  ASSUME NEW S, NEW U, NEW f, Maps(f, S, U), NEW s \in Seq(S)
  PROVE  /\ Mapped(f, s) \in Seq(U) /\ Len(Mapped(f, s)) = Len(s)
         /\ \A i \in 1 .. Len(s) : Mapped(f, s)[i] = f[s[i]]
<1> DEFINE n == Len(s)
<1>1. n \in Nat /\ DOMAIN s = 1 .. n /\ \A i \in 1 .. n : s[i] \in S
  OBVIOUS
<1> HIDE DEF n
<1>2. Mapped(f, s) \in [1 .. n -> U] /\ \A i \in 1 .. n : Mapped(f, s)[i] = f[s[i]]
  BY <1>1 DEF Mapped, Maps
<1>3. Mapped(f, s) \in Seq(U) /\ Len(Mapped(f, s)) = n
  BY <1>1, <1>2, FunctionIsSeq
<1> QED
  BY <1>2, <1>3 DEF n

LEMMA MappedEmpty == \A f : Mapped(f, << >>) = << >>
  BY DEF Mapped

LEMMA MappedConcat ==
  ASSUME NEW S, NEW U, NEW f, Maps(f, S, U), NEW s \in Seq(S), NEW t \in Seq(S)
  PROVE  Mapped(f, s \o t) = Mapped(f, s) \o Mapped(f, t)
<1> DEFINE c == s \o t
           a == Mapped(f, s)
           b == Mapped(f, t)
           d == Mapped(f, c)
           e == a \o b
           m == Len(s)
           n == Len(t)
<1>1. c \in Seq(S) /\ Len(c) = m + n /\ m \in Nat /\ n \in Nat
  BY ConcatProperties
<1>2. \A i \in 1 .. m + n : c[i] = IF i <= m THEN s[i] ELSE t[i - m]
  BY ConcatProperties
<1> HIDE DEF c
<1> HIDE DEF a, b, d, e, m, n
<1>3. a \in Seq(U) /\ Len(a) = m /\ \A i \in 1 .. m : a[i] = f[s[i]]
  BY MappedProperties DEF a, m
<1>4. b \in Seq(U) /\ Len(b) = n /\ \A i \in 1 .. n : b[i] = f[t[i]]
  BY MappedProperties DEF b, n
<1>5. d \in Seq(U) /\ Len(d) = Len(c) /\ \A i \in 1 .. Len(c) : d[i] = f[c[i]]
  BY <1>1, MappedProperties DEF d
<1>6. /\ e \in Seq(U) /\ Len(e) = Len(a) + Len(b)
      /\ \A i \in 1 .. Len(a) + Len(b) : e[i] = IF i <= Len(a) THEN a[i] ELSE b[i - Len(a)]
  BY <1>3, <1>4, ConcatProperties DEF e
<1>7. ASSUME NEW i \in 1 .. m + n PROVE d[i] = e[i]
  <2> HIDE DEF e
  <2>0. e[i] = IF i <= m THEN a[i] ELSE b[i - m]
    BY <1>3, <1>4, <1>6
  <2>1. d[i] = f[c[i]]
    BY <1>1, <1>5
  <2>2. CASE i <= m
    <3>1. i \in 1 .. m
      BY <1>1, <2>2
    <3> QED
      BY <1>2, <1>3, <2>0, <2>1, <2>2, <3>1
  <2>3. CASE ~(i <= m)
    <3>1. i - m \in 1 .. n
      BY <1>1, <2>3
    <3>2. c[i] = t[i - m] /\ e[i] = b[i - m]
      BY <1>2, <2>0, <2>3
    <3> QED
      BY <1>4, <2>1, <3>1, <3>2
  <2> QED
    BY <2>2, <2>3
<1> HIDE DEF e
<1>8. d = e
  BY <1>1, <1>3, <1>4, <1>5, <1>6, <1>7, SeqEqual
<1> QED
  BY <1>8 DEF a, b, c, d, e

LEMMA MappedAppend ==
  ASSUME NEW S, NEW U, NEW f, Maps(f, S, U), NEW s \in Seq(S), NEW x \in S
  PROVE  Mapped(f, Append(s, x)) = Append(Mapped(f, s), f[x])
<1> DEFINE t == <<x>>
           y == f[x]
<1>1. t \in Seq(S) /\ Append(s, x) = s \o t /\ y \in U
  BY DEF Maps
<1>2. Mapped(f, t) = <<y>>
  BY DEF Mapped
<1>3. Mapped(f, s) \in Seq(U)
  BY MappedProperties
<1> HIDE DEF t, y
<1>4. Mapped(f, s) \o <<y>> = Append(Mapped(f, s), y)
  BY <1>1, <1>3
<1>5. Mapped(f, s \o t) = Mapped(f, s) \o Mapped(f, t)
  BY <1>1, MappedConcat
<1>6. Mapped(f, Append(s, x)) = Append(Mapped(f, s), y)
  BY <1>1, <1>2, <1>4, <1>5
<1> QED
  BY <1>6 DEF y

\* What comes of some items of a sequence of items comes of the sequence.
LEMMA Composed ==
  ASSUME NEW K, NEW T, NEW U, NEW A, Maps(A, K, Seq(T)), NEW E, Maps(E, T, Seq(U)),
         NEW D, Maps(D, K, Seq(U)), \A k \in K : FlattenSeq(Mapped(E, A[k])) = D[k],
         NEW s \in Seq(K)
  PROVE  FlattenSeq(Mapped(E, FlattenSeq(Mapped(A, s)))) = FlattenSeq(Mapped(D, s))
<1> DEFINE P(r) == FlattenSeq(Mapped(E, FlattenSeq(Mapped(A, r)))) = FlattenSeq(Mapped(D, r))
           Q == {r \in Seq(K) : P(r)}
<1>1. P(<< >>)
  BY MappedEmpty, FlattenEmpty
<1>2. ASSUME NEW r \in Seq(K), NEW x \in K, P(r) PROVE P(Append(r, x))
  <2> DEFINE a == Mapped(A, r)
             b == A[x]
             fa == FlattenSeq(a)
  <2>1. a \in Seq(Seq(T)) /\ b \in Seq(T)
    BY MappedProperties DEF Maps
  <2>2. Mapped(A, Append(r, x)) = Append(a, b)
    BY MappedAppend
  <2> HIDE DEF a, b
  <2>3. FlattenSeq(Mapped(A, Append(r, x))) = fa \o b /\ fa \in Seq(T)
    BY <2>1, <2>2, FlattenAppend, FlattenType
  <2> HIDE DEF fa
  <2>4. Mapped(E, fa \o b) = Mapped(E, fa) \o Mapped(E, b)
    BY <2>1, <2>3, MappedConcat
  <2>5. Mapped(E, fa) \in Seq(Seq(U)) /\ Mapped(E, b) \in Seq(Seq(U))
    BY <2>1, <2>3, MappedProperties
  <2>6. FlattenSeq(Mapped(E, fa \o b)) = FlattenSeq(Mapped(E, fa)) \o FlattenSeq(Mapped(E, b))
    BY <2>4, <2>5, FlattenConcat
  <2>7. FlattenSeq(Mapped(E, b)) = D[x]
    BY DEF b
  <2>8. FlattenSeq(Mapped(D, Append(r, x))) = FlattenSeq(Mapped(D, r)) \o D[x]
    <3>1. Mapped(D, r) \in Seq(Seq(U)) /\ D[x] \in Seq(U)
      BY MappedProperties DEF Maps
    <3>2. Mapped(D, Append(r, x)) = Append(Mapped(D, r), D[x])
      BY MappedAppend
    <3> QED
      BY <3>1, <3>2, FlattenAppend
  <2>9. FlattenSeq(Mapped(E, fa)) = FlattenSeq(Mapped(D, r))
    BY <1>2 DEF fa, a
  <2> QED
    BY <2>3, <2>6, <2>7, <2>8, <2>9
<1> HIDE DEF P
<1>3. << >> \in Q /\ \A r \in Seq(K) : \A x \in K : r \in Q => Append(r, x) \in Q
  <2>1. \A r \in Seq(K) : \A x \in K : Append(r, x) \in Seq(K)
    OBVIOUS
  <2> QED
    BY <1>1, <1>2, <2>1
<1> HIDE DEF Q
<1>4. Seq(K) \subseteq Q
  BY <1>3, SeqInduction
<1>5. P(s)
  BY <1>4 DEF Q
<1> QED
  BY <1>5 DEF P

\* Item by item related by R.
Aligned(s, t, R) == Len(s) = Len(t) /\ \A i \in 1 .. Len(s) : <<s[i], t[i]>> \in R

LEMMA AlignedConcat ==
  ASSUME NEW T, NEW U, NEW R, NEW a \in Seq(T), NEW b \in Seq(U), Aligned(a, b, R),
         NEW c \in Seq(T), NEW d \in Seq(U), Aligned(c, d, R)
  PROVE  Aligned(a \o c, b \o d, R)
<1> DEFINE x == a \o c
           y == b \o d
<1>1. /\ Len(x) = Len(a) + Len(c) /\ Len(y) = Len(a) + Len(c)
      /\ Len(a) \in Nat /\ Len(c) \in Nat
  BY ConcatProperties DEF Aligned
<1>2. \A i \in 1 .. Len(a) + Len(c) : x[i] = IF i <= Len(a) THEN a[i] ELSE c[i - Len(a)]
  BY ConcatProperties
<1>3. \A i \in 1 .. Len(a) + Len(c) : y[i] = IF i <= Len(a) THEN b[i] ELSE d[i - Len(a)]
  BY ConcatProperties DEF Aligned
<1> HIDE DEF x, y
<1>4. ASSUME NEW i \in 1 .. Len(x) PROVE <<x[i], y[i]>> \in R
  <2>1. CASE i <= Len(a)
    <3>1. i \in 1 .. Len(a) /\ x[i] = a[i] /\ y[i] = b[i]
      BY <1>1, <1>2, <1>3, <2>1
    <3> QED
      BY <3>1 DEF Aligned
  <2>2. CASE ~(i <= Len(a))
    <3>1. i - Len(a) \in 1 .. Len(c) /\ x[i] = c[i - Len(a)] /\ y[i] = d[i - Len(a)]
      BY <1>1, <1>2, <1>3, <2>2
    <3> QED
      BY <3>1 DEF Aligned
  <2> QED
    BY <2>1, <2>2
<1>5. Aligned(x, y, R)
  BY <1>1, <1>4 DEF Aligned
<1> QED
  BY <1>5 DEF x, y

LEMMA FlattenAligned ==
  ASSUME NEW K, NEW T, NEW U, NEW R, NEW A, Maps(A, K, Seq(T)), NEW B, Maps(B, K, Seq(U)),
         \A k \in K : Aligned(A[k], B[k], R),
         NEW s \in Seq(K)
  PROVE  Aligned(FlattenSeq(Mapped(A, s)), FlattenSeq(Mapped(B, s)), R)
<1> DEFINE P(r) == Aligned(FlattenSeq(Mapped(A, r)), FlattenSeq(Mapped(B, r)), R)
           Q == {r \in Seq(K) : P(r)}
<1>1. P(<< >>)
  BY MappedEmpty, FlattenEmpty DEF Aligned
<1>2. ASSUME NEW r \in Seq(K), NEW x \in K, P(r) PROVE P(Append(r, x))
  <2>1. Mapped(A, r) \in Seq(Seq(T)) /\ A[x] \in Seq(T)
    BY MappedProperties DEF Maps
  <2>2. Mapped(B, r) \in Seq(Seq(U)) /\ B[x] \in Seq(U)
    BY MappedProperties DEF Maps
  <2>3. Mapped(A, Append(r, x)) = Append(Mapped(A, r), A[x])
    BY MappedAppend
  <2>4. Mapped(B, Append(r, x)) = Append(Mapped(B, r), B[x])
    BY MappedAppend
  <2>5. FlattenSeq(Mapped(A, Append(r, x))) = FlattenSeq(Mapped(A, r)) \o A[x]
    BY <2>1, <2>3, FlattenAppend
  <2>6. FlattenSeq(Mapped(B, Append(r, x))) = FlattenSeq(Mapped(B, r)) \o B[x]
    BY <2>2, <2>4, FlattenAppend
  <2>7. FlattenSeq(Mapped(A, r)) \in Seq(T) /\ FlattenSeq(Mapped(B, r)) \in Seq(U)
    BY <2>1, <2>2, FlattenType
  <2>8. Aligned(FlattenSeq(Mapped(A, r)) \o A[x], FlattenSeq(Mapped(B, r)) \o B[x], R)
    BY <1>2, <2>1, <2>2, <2>7, AlignedConcat
  <2> QED
    BY <2>5, <2>6, <2>8
<1> HIDE DEF P
<1>3. << >> \in Q /\ \A r \in Seq(K) : \A x \in K : r \in Q => Append(r, x) \in Q
  <2>1. \A r \in Seq(K) : \A x \in K : Append(r, x) \in Seq(K)
    OBVIOUS
  <2> QED
    BY <1>1, <1>2, <2>1
<1> HIDE DEF Q
<1>4. Seq(K) \subseteq Q
  BY <1>3, SeqInduction
<1>5. P(s)
  BY <1>4 DEF Q
<1> QED
  BY <1>5 DEF P

\* The sequences s stand, in order, at the places pos of d, and d is empty elsewhere.
Spread(s, d, pos) ==
  /\ pos \in [1 .. Len(s) -> 1 .. Len(d)]
  /\ \A i, j \in 1 .. Len(s) : i < j => pos[i] < pos[j]
  /\ \A i \in 1 .. Len(s) : d[pos[i]] = s[i]
  /\ \A n \in 1 .. Len(d) : (\A i \in 1 .. Len(s) : pos[i] # n) => d[n] = << >>

LEMMA SpreadFront ==
  ASSUME NEW S, NEW e \in Seq(Seq(S)), NEW x \in Seq(S), NEW s \in Seq(Seq(S)), NEW pos,
         Spread(s, Append(e, x), pos)
  PROVE  \/ x = << >> /\ Spread(s, e, pos)
         \/ /\ s # << >> /\ Last(s) = x
            /\ \E q : Spread(Front(s), e, q)
<1> DEFINE d == Append(e, x)
           m == Len(e) + 1
           k == Len(s)
<1>1. /\ Len(d) = m /\ m - 1 = Len(e) /\ d[m] = x /\ m \in Nat /\ m \in 1 .. m /\ k \in Nat
      /\ \A i \in 1 .. m - 1 : d[i] = e[i]
  OBVIOUS
<1>2. /\ pos \in [1 .. k -> 1 .. m]
      /\ \A i, j \in 1 .. k : i < j => pos[i] < pos[j]
      /\ \A i \in 1 .. k : d[pos[i]] = s[i]
      /\ \A n \in 1 .. m : (\A i \in 1 .. k : pos[i] # n) => d[n] = << >>
  BY <1>1 DEF Spread
<1> HIDE DEF d, m
<1>3. CASE \A i \in 1 .. k : pos[i] # m
  <2>1. x = << >>
    BY <1>1, <1>2, <1>3
  <2>2. \A i \in 1 .. k : pos[i] \in 1 .. m - 1
    <3>1. \A i \in 1 .. k : pos[i] \in 1 .. m /\ pos[i] # m
      BY <1>2, <1>3
    <3> QED
      BY <1>1, <3>1
  <2>3. \A i \in 1 .. k : e[pos[i]] = s[i]
    BY <1>1, <1>2, <2>2
  <2>4. \A n \in 1 .. m - 1 : n \in 1 .. m /\ d[n] = e[n]
    BY <1>1
  <2>5. pos \in [1 .. k -> 1 .. m - 1]
    BY <1>2, <2>2
  <2>6. Spread(s, e, pos)
    BY <1>1, <1>2, <2>3, <2>4, <2>5 DEF Spread
  <2> QED
    BY <2>1, <2>6
<1>4. CASE \E i \in 1 .. k : pos[i] = m
  <2>1. PICK i \in 1 .. k : pos[i] = m
    BY <1>4
  <2>2. k \in 1 .. k
    BY <1>1, <2>1
  <2>3. i = k
    <3> SUFFICES ASSUME i # k PROVE FALSE
      OBVIOUS
    <3>1. i < k
      BY <1>1, <2>1
    <3>2. m < pos[k] /\ pos[k] \in 1 .. m
      BY <1>2, <2>1, <2>2, <3>1
    <3> QED
      BY <1>1, <3>2
  <2>4. pos[k] = m /\ s[k] = x
    BY <1>1, <1>2, <2>1, <2>3
  <2>5. s # << >> /\ Last(s) = x
    BY <2>2, <2>4 DEF Last
  <2> DEFINE f == Front(s)
             q == [j \in 1 .. k - 1 |-> pos[j]]
  <2>6. /\ f \in Seq(Seq(S)) /\ Len(f) = k - 1
        /\ \A j \in 1 .. k - 1 : f[j] = s[j]
    <3>1. f \in Seq(Seq(S)) /\ Len(f) = k - 1 /\ s = Append(f, Last(s)) /\ Last(s) \in Seq(S)
      BY <2>5, FrontAndLast
    <3> DEFINE l == Last(s)
               Q == Seq(S)
    <3> HIDE DEF f, l, Q
    <3>2. \A j \in 1 .. Len(f) : Append(f, l)[j] = f[j]
      BY <3>1, AppendProperties DEF l, Q
    <3> QED
      BY <3>1, <3>2 DEF l
  <2> HIDE DEF f
  <2>7. ASSUME NEW j \in 1 .. k - 1
        PROVE  j \in 1 .. k /\ q[j] = pos[j] /\ q[j] \in 1 .. m - 1
    <3>1. j \in 1 .. k /\ j < k
      BY <1>1
    <3>2. pos[j] < m /\ pos[j] \in 1 .. m
      BY <1>2, <2>2, <2>4, <3>1
    <3> QED
      BY <1>1, <3>1, <3>2
  <2>8. q \in [1 .. k - 1 -> 1 .. m - 1]
    BY <2>7
  <2>9. ASSUME NEW n \in 1 .. m - 1, \A j \in 1 .. k - 1 : q[j] # n
        PROVE  e[n] = << >>
    <3>1. n \in 1 .. m /\ n # m /\ d[n] = e[n]
      BY <1>1
    <3>2. ASSUME NEW j \in 1 .. k PROVE pos[j] # n
      <4>1. CASE j = k
        BY <2>4, <3>1, <4>1
      <4>2. CASE j # k
        <5>1. j \in 1 .. k - 1
          BY <1>1, <4>2
        <5> QED
          BY <2>7, <2>9, <5>1
      <4> QED
        BY <4>1, <4>2
    <3> QED
      BY <1>2, <3>1, <3>2
  <2>10. \A j \in 1 .. k - 1 : e[q[j]] = f[j]
    BY <1>1, <1>2, <2>6, <2>7
  <2>11. \A a, b \in 1 .. k - 1 : a < b => q[a] < q[b]
    BY <1>2, <2>7
  <2> HIDE DEF q
  <2>12. Spread(f, e, q)
    BY <1>1, <2>6, <2>8, <2>9, <2>10, <2>11 DEF Spread
  <2> QED
    BY <2>5, <2>12 DEF f
<1> QED
  BY <1>3, <1>4

LEMMA FlattenSpread ==
  ASSUME NEW S, NEW s \in Seq(Seq(S)), NEW d \in Seq(Seq(S)), NEW pos, Spread(s, d, pos)
  PROVE  FlattenSeq(s) = FlattenSeq(d)
<1> DEFINE P(r) == \A t \in Seq(Seq(S)) : \A q : Spread(t, r, q) => FlattenSeq(t) = FlattenSeq(r)
           Q == {r \in Seq(Seq(S)) : P(r)}
<1>1. P(<< >>)
  <2> SUFFICES ASSUME NEW t \in Seq(Seq(S)), NEW q, Spread(t, << >>, q)
               PROVE  t = << >>
    OBVIOUS
  <2>1. q \in [1 .. Len(t) -> {}] /\ Len(t) \in Nat
    BY DEF Spread
  <2>2. Len(t) = 0
    <3> SUFFICES ASSUME Len(t) # 0 PROVE FALSE
      OBVIOUS
    <3>1. 1 \in 1 .. Len(t)
      BY <2>1
    <3> QED
      BY <2>1, <3>1
  <2> QED
    BY <2>2
<1>2. ASSUME NEW e \in Seq(Seq(S)), NEW x \in Seq(S), P(e) PROVE P(Append(e, x))
  <2> SUFFICES ASSUME NEW t \in Seq(Seq(S)), NEW q, Spread(t, Append(e, x), q)
               PROVE  FlattenSeq(t) = FlattenSeq(e) \o x
    BY FlattenAppend
  <2>1. CASE x = << >> /\ Spread(t, e, q)
    <3>1. FlattenSeq(e) \in Seq(S)
      BY FlattenType
    <3>2. FlattenSeq(e) \o << >> = FlattenSeq(e)
      BY <3>1, ConcatEmptySeq
    <3> QED
      BY <1>2, <2>1, <3>2
  <2>2. CASE t # << >> /\ Last(t) = x /\ \E r : Spread(Front(t), e, r)
    <3>1. Front(t) \in Seq(Seq(S)) /\ t = Append(Front(t), Last(t))
      BY <2>2, FrontAndLast
    <3>2. FlattenSeq(Front(t)) = FlattenSeq(e)
      BY <1>2, <2>2, <3>1
    <3>3. FlattenSeq(Append(Front(t), x)) = FlattenSeq(Front(t)) \o x
      BY <3>1, FlattenAppend
    <3> QED
      BY <2>2, <3>1, <3>2, <3>3
  <2> QED
    BY <2>1, <2>2, SpreadFront
<1> HIDE DEF P
<1>3. << >> \in Q /\ \A r \in Seq(Seq(S)) : \A x \in Seq(S) : r \in Q => Append(r, x) \in Q
  <2>1. \A r \in Seq(Seq(S)) : \A x \in Seq(S) : Append(r, x) \in Seq(Seq(S))
    OBVIOUS
  <2> QED
    BY <1>1, <1>2, <2>1
<1> HIDE DEF Q
<1>4. Seq(Seq(S)) \subseteq Q
  BY <1>3, SeqInduction
<1>5. P(d)
  BY <1>4 DEF Q
<1> QED
  BY <1>5 DEF P

LEMMA MaxIs ==
  ASSUME NEW n \in Nat, NEW S \in SUBSET (1 .. n), S # {}
  PROVE  Max(S) \in S /\ \A i \in S : i <= Max(S)
<1> DEFINE U == {n - i : i \in S}
<1>1. U \in SUBSET Nat /\ U # {}
  <2>1. \A i \in S : i \in 1 .. n
    OBVIOUS
  <2>2. \A i \in S : n - i \in Nat
    BY <2>1
  <2> QED
    BY <2>2
<1>2. PICK u \in U : \A v \in U : u <= v
  BY <1>1, LeastNatural
<1>3. PICK m \in S : u = n - m
  BY <1>2
<1>4. ASSUME NEW i \in S PROVE m >= i
  <2>1. n - i \in U
    OBVIOUS
  <2>2. u <= n - i
    BY <1>2, <2>1
  <2>3. m \in Int /\ i \in Int
    BY <1>3
  <2> QED
    BY <1>3, <2>2, <2>3
<1>5. \E x \in S : \A y \in S : x >= y
  BY <1>4
<1>6. Max(S) \in S /\ \A y \in S : Max(S) >= y
  BY <1>5 DEF Max
<1> QED
  BY <1>6

LEMMA FlattenOne ==
  ASSUME NEW S, NEW x \in Seq(S)
  PROVE  FlattenSeq(<<x>>) = x
<1> DEFINE T == Seq(S)
<1>1. << >> \in Seq(T) /\ x \in T
  OBVIOUS
<1>2. <<x>> = Append(<< >>, x)
  OBVIOUS
<1>3. FlattenSeq(Append(<< >>, x)) = FlattenSeq(<< >>) \o x
  BY <1>1, FlattenAppend DEF T
<1>4. << >> \o x = x
  BY <1>1, ConcatEmptySeq DEF T
<1> QED
  BY <1>2, <1>3, <1>4, FlattenEmpty

LEMMA SeqOfMore ==
  ASSUME NEW S, NEW T, S \subseteq T, NEW s \in Seq(S)
  PROVE  s \in Seq(T)
<1>1. Len(s) \in Nat /\ s \in [1 .. Len(s) -> S]
  OBVIOUS
<1>2. s \in [1 .. Len(s) -> T]
  BY <1>1
<1> QED
  BY <1>1, <1>2, FunctionIsSeq
=============================================================================
